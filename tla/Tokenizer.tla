------------------------------ MODULE Tokenizer ------------------------------
(***************************************************************************)
(* The tokenizer of src/src/tokenizer.c: SentencePiece merges by the scores *)
(* of the vocabulary, or byte-pair merges by rank (the embeddinggemma2      *)
(* profile).  A text is a sequence of bytes.  The hash tables (vocabulary,  *)
(* merges, reverse map) are functions; the heap of candidate pairs, whose   *)
(* outdated entries stay until they are popped, is kept as it is.           *)
(***************************************************************************)
EXTENDS Integers, Sequences, SequencesExt, FiniteSets, FiniteSetsExt, TLC

\* What the model file says:
\*   tokens: their texts, scores and types, by id; the first id is 1
\*   bos, eos, pad, unk: ids; add_bos, add_eos, add_space_prefix: BOOLEAN
\*   bpe: BOOLEAN; merges: pairs of texts, the best first (bpe only)
\*   limit: the context of the profile
CONSTANT Model

None == 0

Ids == DOMAIN Model.tokens

Newline == 10
Space == 32
EscapedSpace == <<226, 150, 129>>

\* The text of the fallback token of byte b, "<0xXX>", as one symbol no text has.
ByteName(b) == <<256 + b>>

-----------------------------------------------------------------------------
(* ei_tokenizer_init *)

\* Of several tokens with the same text the last one stays in the table.
VocabLookup(text) ==
    LET ids == {id \in Ids : Model.tokens[id].text = text} IN IF ids = {} THEN None ELSE Max(ids)

ByteId(b) == IF VocabLookup(ByteName(b)) # None THEN VocabLookup(ByteName(b)) ELSE VocabLookup(<<b>>)

TokenAttr(id) ==
    {Model.tokens[id].type}
    \cup (IF id \in {Model.bos, Model.eos, Model.pad} THEN {"control"} ELSE {})
    \cup (IF id = Model.unk THEN {"unknown"} ELSE {})

\* The longest first, then by id.
Specials ==
    SetToSortSeq({id \in Ids : TokenAttr(id) \cap {"control", "user", "unknown"} # {}
                               /\ Model.tokens[id].text # <<>>},
        LAMBDA a, b : LET la == Len(Model.tokens[a].text)
                          lb == Len(Model.tokens[b].text)
                      IN  la > lb \/ (la = lb /\ a < b))

\* The scores of joining two adjacent texts: none, or one.
MergeScores(left, right) ==
    IF Model.bpe
    THEN LET ranks == {r \in DOMAIN Model.merges : Model.merges[r] = <<left, right>>}
         IN  IF Newline \in ToSet(left \o right) \/ ranks = {} THEN {} ELSE {-Min(ranks)}
    ELSE LET id == VocabLookup(left \o right)
         IN  IF id = None THEN {} ELSE {Model.tokens[id].score}

-----------------------------------------------------------------------------
(* The heap: the best score first, the leftmost of equals *)

BigramBetter(a, b) == a.score > b.score \/ (a.score = b.score /\ a.left < b.left)

Swapped(heap, i, j) == [heap EXCEPT ![i] = heap[j], ![j] = heap[i]]

Steps(n) == [k \in 1 .. n |-> k]

\* The last entry goes up while it is better than its parent.
SiftUp(heap) ==
    LET step(h, k) ==
            IF h.at > 1 /\ BigramBetter(h.heap[h.at], h.heap[h.at \div 2])
            THEN [heap |-> Swapped(h.heap, h.at, h.at \div 2), at |-> h.at \div 2]
            ELSE h
    IN  FoldLeft(step, [heap |-> heap, at |-> Len(heap)], Steps(Len(heap))).heap

HeapPush(heap, b) == SiftUp(Append(heap, b))

\* The root goes down while a child is better.
SiftDown(heap) ==
    LET better(c, d, entries) ==
            IF d \in DOMAIN entries /\ BigramBetter(entries[d], entries[c]) THEN d ELSE c
        step(h, k) ==
            LET best == better(better(h.at, 2 * h.at, h.heap), 2 * h.at + 1, h.heap)
            IN  [heap |-> Swapped(h.heap, h.at, best), at |-> best]
    IN  FoldLeft(step, [heap |-> heap, at |-> 1], Steps(Len(heap))).heap

\* The heap without its root.
HeapPop(heap) ==
    LET n == Len(heap) - 1
    IN  IF n = 0 THEN <<>> ELSE SiftDown(<<heap[n + 1]>> \o SubSeq(heap, 2, n))

-----------------------------------------------------------------------------
(* A session: the symbols of a text, linked; the heap; the pair that made a   *)
(* text.  Symbols count from 1, None ends the list.                           *)

Utf8Len(lead) ==
    CASE lead \in 192 .. 223 -> 2
      [] lead \in 224 .. 239 -> 3
      [] lead \in 240 .. 247 -> 4
      [] OTHER -> 1

\* The characters of a text, as where they are and their lengths.
Characters(text) ==
    LET n(at) == Min({Utf8Len(text[at]), Len(text) - at + 1})
        from[at \in 1 .. Len(text) + 1] ==
            IF at > Len(text) THEN <<>> ELSE <<[at |-> at, n |-> n(at)]>> \o from[at + n(at)]
    IN  from[1]

TextOf(s, i) == SubSeq(s.text, s.symbols[i].at, s.symbols[i].at + s.symbols[i].n - 1)

TryAddBigram(s, left, right) ==
    IF left = None \/ right = None THEN s
    ELSE LET joined == TextOf(s, left) \o TextOf(s, right)
         IN  FoldSet(LAMBDA score, t :
                 [t EXCEPT
                     !.heap = HeapPush(t.heap, [left |-> left, right |-> right, score |-> score, size |-> Len(joined)]),
                     !.rev = (joined :> <<left, right>>) @@ @],
                 s, MergeScores(TextOf(s, left), TextOf(s, right)))

Session(text) ==
    LET cuts == Characters(text)
        n == Len(cuts)
        symbols == [i \in 1 .. n |->
            [prev |-> i - 1, next |-> IF i = n THEN None ELSE i + 1, at |-> cuts[i].at, n |-> cuts[i].n]]
    IN  FoldLeft(LAMBDA s, i : TryAddBigram(s, i, i + 1),
                 [text |-> text, symbols |-> symbols, heap |-> <<>>, rev |-> << >>],
                 Steps(n - 1))

\* Mutant: a pair counts although one of its symbols has grown since.
GoneOnly(s, b) == s.symbols[b.left].n = 0 \/ s.symbols[b.right].n = 0

Outdated(s, b) ==
    \/ s.symbols[b.left].n = 0 \/ s.symbols[b.right].n = 0
    \/ s.symbols[b.left].n + s.symbols[b.right].n # b.size

\* b's right symbol becomes part of its left one.
Merged(s, b) ==
    LET right == s.symbols[b.right]
        relinked == [i \in DOMAIN s.symbols |->
            CASE i = b.left -> [s.symbols[i] EXCEPT !.n = @ + right.n, !.next = right.next]
              [] i = b.right -> [right EXCEPT !.n = 0]
              [] i = right.next -> [s.symbols[i] EXCEPT !.prev = b.left]
              [] OTHER -> s.symbols[i]]
        t == TryAddBigram([s EXCEPT !.symbols = relinked], relinked[b.left].prev, b.left)
    IN  TryAddBigram(t, b.left, relinked[b.left].next)

\* The best candidate is taken or dropped until there is none: n - 1 at first,
\* and at most two for each of n - 1 merges.
MergeAll(s) ==
    LET step(t, k) ==
            IF t.heap = <<>> THEN t
            ELSE LET popped == [t EXCEPT !.heap = HeapPop(t.heap)]
                 IN  IF Outdated(t, t.heap[1]) THEN popped ELSE Merged(popped, t.heap[1])
    IN  FoldLeft(step, s, Steps(3 * Len(s.symbols)))

BytesOf(text) == [i \in DOMAIN text |-> ByteId(text[i])]

\* The tokens of every symbol.
Resegment(s) ==
    LET ids[i \in DOMAIN s.symbols] ==
            LET text == TextOf(s, i)
                id == VocabLookup(text)
            IN  IF text = <<>> THEN <<>>
                ELSE IF id # None THEN <<id>>
                ELSE IF text \in DOMAIN s.rev /\ i \notin ToSet(s.rev[text])
                THEN ids[s.rev[text][1]] \o ids[s.rev[text][2]]
                ELSE BytesOf(text)
    IN  ids

SpmTokenizeEscaped(text) ==
    LET s == MergeAll(Session(text))
        ids == Resegment(s)
        chain[i \in {None} \cup DOMAIN s.symbols] ==
            IF i = None THEN <<>> ELSE ids[i] \o chain[s.symbols[i].next]
    IN  IF text = <<>> THEN <<>> ELSE chain[1]

-----------------------------------------------------------------------------
(* ei_tokenize_spm *)

\* The first occurrence of needle at or after start.
FindBytes(text, needle, start) ==
    LET at == {i \in start .. Len(text) - Len(needle) + 1 : SubSeq(text, i, i + Len(needle) - 1) = needle}
    IN  IF at = {} THEN None ELSE Min(at)

Token(id) == [token |-> id, text |-> <<>>]
Fragment(text) == [token |-> None, text |-> text]

\* A text, cut at the occurrences of special id.
CutAt(id, text) ==
    LET piece == Model.tokens[id].text
        from[pos \in 1 .. Len(text) + 1] ==
            LET match == FindBytes(text, piece, pos)
            IN  IF pos > Len(text) THEN <<>>
                ELSE IF match = None THEN <<Fragment(SubSeq(text, pos, Len(text)))>>
                ELSE (IF match > pos THEN <<Fragment(SubSeq(text, pos, match - 1))>> ELSE <<>>)
                     \o <<Token(id)>> \o from[match + Len(piece)]
    IN  from[1]

Matched(id, parse_special) == parse_special \/ TokenAttr(id) \cap {"control", "unknown"} = {}

PartitionSpecial(text, parse_special) ==
    FoldLeft(LAMBDA frags, id :
                 IF ~Matched(id, parse_special) THEN frags
                 ELSE FlattenSeq([i \in DOMAIN frags |->
                          IF frags[i].token # None THEN <<frags[i]>> ELSE CutAt(id, frags[i].text)]),
             IF text = <<>> THEN <<>> ELSE <<Fragment(text)>>,
             Specials)

EscapeWhitespace(text, prefix_space) ==
    (IF prefix_space THEN EscapedSpace ELSE <<>>)
    \o FlattenSeq([i \in DOMAIN text |-> IF text[i] = Space THEN EscapedSpace ELSE <<text[i]>>])

\* A run of newlines may be a token; so are the runs of other bytes tokenized.
TokenizeRuns(text) ==
    LET end(start) == Min({i \in start .. Len(text) : (text[i] = Newline) # (text[start] = Newline)}
                          \cup {Len(text) + 1})
        from[start \in 1 .. Len(text) + 1] ==
            LET run == SubSeq(text, start, end(start) - 1)
                id == IF text[start] = Newline THEN VocabLookup(run) ELSE None
            IN  IF start > Len(text) THEN <<>>
                ELSE (IF id # None THEN <<id>> ELSE SpmTokenizeEscaped(run)) \o from[end(start)]
    IN  from[1]

TokenizeFragment(text, prefix_space) ==
    LET escaped == EscapeWhitespace(text, prefix_space)
    IN  IF Model.bpe THEN TokenizeRuns(escaped) ELSE SpmTokenizeEscaped(escaped)

\* The tokens of a text.  A fragment at the start or after a special gets a space.
TokenizeSpm(text, add_special, parse_special) ==
    LET frags == PartitionSpecial(text, parse_special)
        previousSpecial(i) == i = 1 \/ frags[i - 1].token # None
        ids(i) == IF frags[i].token # None THEN <<frags[i].token>>
                  ELSE TokenizeFragment(frags[i].text, Model.add_space_prefix /\ previousSpecial(i))
    IN  (IF add_special /\ Model.add_bos THEN <<Model.bos>> ELSE <<>>)
        \o FlattenSeq([i \in DOMAIN frags |-> ids(i)])
        \o (IF add_special /\ Model.add_eos THEN <<Model.eos>> ELSE <<>>)

\* truncate_tokens of the service: the leading tokens, and the final EOS.
TruncateTokens(ids) ==
    IF Len(ids) <= Model.limit THEN ids
    ELSE LET kept == SubSeq(ids, 1, Model.limit)
         IN  IF Model.add_eos /\ Last(ids) = Model.eos THEN [kept EXCEPT ![Model.limit] = Model.eos] ELSE kept

=============================================================================
