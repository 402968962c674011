-------------------------- MODULE TokenizerReference --------------------------
(***************************************************************************)
(* What tokenization promises, without symbols, heap or fragments: a text   *)
(* is cut at its special tokens, the longest first and then the leftmost;   *)
(* what is between them starts as characters, of which the best adjacent    *)
(* pair, the leftmost of equals, becomes one piece for as long as there is  *)
(* one; a piece is its token, or the tokens of its bytes.                   *)
(***************************************************************************)
EXTENDS Tokenizer

JoinBest(pieces) ==
    LET scores(i) == MergeScores(pieces[i], pieces[i + 1])
        pairs == {i \in 1 .. Len(pieces) - 1 : scores(i) # {}}
        best == Min({i \in pairs : \A j \in pairs : Max(scores(j)) <= Max(scores(i))})
    IN  IF pairs = {} THEN pieces
        ELSE SubSeq(pieces, 1, best - 1) \o <<pieces[best] \o pieces[best + 1]>>
             \o SubSeq(pieces, best + 2, Len(pieces))

PieceIds(text) == IF VocabLookup(text) # None THEN <<VocabLookup(text)>> ELSE BytesOf(text)

Joined(text) ==
    LET cuts == Characters(text)
        characters == [i \in DOMAIN cuts |-> SubSeq(text, cuts[i].at, cuts[i].at + cuts[i].n - 1)]
        pieces == FoldLeft(LAMBDA joined, k : JoinBest(joined), characters, Steps(Len(cuts)))
    IN  FlattenSeq([i \in DOMAIN pieces |-> PieceIds(pieces[i])])

\* The maximal runs of newlines and of other bytes.
Runs(text) ==
    LET starts == {i \in DOMAIN text : i = 1 \/ (text[i] = Newline) # (text[i - 1] = Newline)}
        stop(i) == Min({j \in starts : j > i} \cup {Len(text) + 1}) - 1
        order == SetToSortSeq(starts, <)
    IN  [r \in DOMAIN order |-> SubSeq(text, order[r], stop(order[r]))]

Plain(text) ==
    LET escaped == EscapeWhitespace(text, Model.add_space_prefix)
        parts == Runs(escaped)
        whole(run) == Head(run) = Newline /\ VocabLookup(run) # None
    IN  IF ~Model.bpe THEN Joined(escaped)
        ELSE FlattenSeq([i \in DOMAIN parts |->
                 IF whole(parts[i]) THEN <<VocabLookup(parts[i])>> ELSE Joined(parts[i])])

\* User-defined tokens, the only ones a caller's text may hold.
Occurs(id, text) ==
    /\ Model.tokens[id].type = "user" /\ id \notin {Model.bos, Model.eos, Model.pad, Model.unk}
    /\ \E i \in DOMAIN text : IsPrefix(Model.tokens[id].text, SubSeq(text, i, Len(text)))

Cut(text) ==
    LET part(p) == SubSeq(text, p[1], p[2] - 1)
        length(id) == Len(Model.tokens[id].text)
        cut[p \in (1 .. Len(text) + 1) \X (1 .. Len(text) + 1)] ==
            LET inside == {id \in Ids : Occurs(id, part(p))}
                id == Min({j \in inside : \A k \in inside : length(k) <= length(j)})
                at == Min({i \in p[1] .. p[2] - 1 : IsPrefix(Model.tokens[id].text, SubSeq(text, i, p[2] - 1))})
            IN  IF part(p) = <<>> THEN <<>>
                ELSE IF inside = {} THEN Plain(part(p))
                ELSE cut[<<p[1], at>>] \o <<id>> \o cut[<<at + length(id), p[2]>>]
    IN  cut[<<1, Len(text) + 1>>]

\* The tokens a caller of the service gets, no more than the model takes.
Reference(text) ==
    LET ids == (IF Model.add_bos THEN <<Model.bos>> ELSE <<>>) \o Cut(text)
        room == Model.limit - (IF Model.add_eos THEN 1 ELSE 0)
    IN  SubSeq(ids, 1, Min({Len(ids), room})) \o (IF Model.add_eos THEN <<Model.eos>> ELSE <<>>)

=============================================================================
