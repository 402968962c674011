---------------------------- MODULE MCTokenizerPool ----------------------------
(*****************************************************************************)
(* Two callers and two tokenizer threads, with a SentencePiece model or a    *)
(* byte-pair model.  The first sends every short text alone, or two texts;   *)
(* the other keeps the tokenizer threads busy.                               *)
(*****************************************************************************)
EXTENDS TokenizerPool, FiniteSets, FiniteSetsExt, TLC

CONSTANTS First     \* the client that sends every text

Token(text, score, type) == [text |-> text, score |-> score, type |-> type]

\* "a" is 97, "b" 98, "<" 60, ">" 62; the last is a two-byte character.
Bytes == <<10, 60, 62, 97, 98, 129, 150, 169, 195, 226>>
Fallback == [i \in DOMAIN Bytes |-> Token(<<256 + Bytes[i]>>, 0, "byte")]
Mark == <<226, 150, 129>>

\* Scores with ties, a character and a duplicate, and special tokens that start alike;
\* padding and the unknown token are of another type in the file.
SpmModel == [
    bpe |-> FALSE, merges |-> <<>>, bos |-> 1, eos |-> 2, pad |-> 6, unk |-> 7, limit |-> 6,
    add_bos |-> TRUE, add_eos |-> TRUE, add_space_prefix |-> TRUE,
    tokens |-> <<
        Token(<<1>>, 0, "control"), Token(<<2>>, 0, "control"),
        Token(<<60, 97>>, 0, "user"), Token(<<60, 97, 98>>, 0, "user"), Token(<<60, 98, 62>>, 0, "control"),
        Token(<<60, 97, 97>>, 0, "user"), Token(<<60, 98>>, 0, "user"),
        Token(<<97>>, -9, "normal"), Token(<<98>>, -9, "normal"), Token(Mark, -9, "normal"),
        Token(<<97, 97>>, -1, "normal"), Token(<<97, 97>>, -3, "normal"),
        Token(<<97, 98>>, -2, "normal"), Token(<<98, 97>>, -2, "normal"),
        Token(<<97, 98, 97>>, -1, "normal"), Token(<<98, 97, 98>>, -4, "normal"),
        Token(<<97, 98, 97, 98>>, -5, "normal"),
        Token(Mark \o <<97>>, -2, "normal"), Token(Mark \o <<97, 98>>, -3, "normal"),
        Token(<<195, 169, 97>>, -1, "normal")>> \o Fallback]

\* Merges whose results are tokens, and runs of newlines; padding and the unknown token
\* have the numbers model.c gives them when the file names none.
BpeModel == [
    bpe |-> TRUE, bos |-> 1, eos |-> 1, pad |-> 1, unk |-> 4, limit |-> 3,
    add_bos |-> FALSE, add_eos |-> FALSE, add_space_prefix |-> FALSE,
    merges |-> << <<(<<97>>), (<<98>>)>>, <<(<<97, 98>>), (<<97>>)>>, <<(<<97>>), (<<97>>)>>,
                  <<(<<98>>), (<<97, 97>>)>>, <<Mark, (<<98>>)>>, <<(<<97>>), (<<98>>)>> >>,
    tokens |-> <<
        Token(<<1>>, 0, "control"), Token(<<60, 10>>, 0, "user"),
        Token(<<97>>, 0, "normal"), Token(<<98>>, 0, "normal"), Token(Mark, 0, "normal"),
        Token(<<97, 98>>, 0, "normal"), Token(<<97, 98, 97>>, 0, "normal"), Token(<<97, 97>>, 0, "normal"),
        Token(<<98, 97, 97>>, 0, "normal"), Token(Mark \o <<98>>, 0, "normal"),
        Token(<<10>>, 0, "normal"), Token(<<10, 10>>, 0, "normal")>> \o Fallback]

SpmTokenizer == INSTANCE TokenizerReference WITH Model <- SpmModel
BpeTokenizer == INSTANCE TokenizerReference WITH Model <- BpeModel

Strings(bytes, n) == UNION {[1 .. k -> bytes] : k \in n}

Texts ==
    Strings({97, 98}, 0 .. 4) \cup Strings({32, 60, 97}, {2})
    \cup {<<98, 97, 98, 97, 97>>, <<97, 98, 97, 98, 97>>, <<97, 98, 98, 97, 97>>}
    \cup {<<60, 97, 98>>, <<97, 60, 97, 98, 98, 97>>, <<60, 97, 60, 97, 97>>, <<60, 98, 62, 97>>}
    \cup {<<10, 10>>, <<10, 10, 10>>, <<97, 10, 98>>, <<60, 10, 10>>}
    \cup {<<195, 169, 97>>, <<195>>, <<195, 97, 98>>, <<97, 169>>, <<195, 169>>}

Singles == {<<t>> : t \in Texts}
MCBatches(c) ==
    IF c = First THEN Singles \cup {<< <<97, 98>>, <<>> >>} ELSE {<< <<32, 97>>, <<98>>, <<60, 97>> >>}

MCModels == {"spm", "bpe"}

\* Op of every text, value by value: TLC computes such a table once.
Table(Op(_)) == FoldSet(LAMBDA t, f : f @@ (t :> Op(t)), << >>, Texts)

Tokens ==
    ("spm" :> Table(LAMBDA t : SpmTokenizer!TokenizeSpm(t, TRUE, FALSE))) @@
    ("bpe" :> Table(LAMBDA t : BpeTokenizer!TokenizeSpm(t, TRUE, FALSE)))

MCSpm(m, text) == Tokens[m][text]
MCKept(m, ids) == IF m = "spm" THEN SpmTokenizer!TruncateTokens(ids) ELSE BpeTokenizer!TruncateTokens(ids)

Expected ==
    ("spm" :> Table(SpmTokenizer!Reference)) @@ ("bpe" :> Table(BpeTokenizer!Reference))

\* A call goes on with the tokens of its own texts, in their order, and those
\* are the tokens the reference gives: merging by a heap of candidates that may
\* be outdated is the same as joining the best pair, again and again.
TokensMatch ==
    \A c \in Clients : pc[c] \in {"submit", "failed"} =>
        tokens[c] = [i \in DOMAIN texts[c] |-> Expected[model][texts[c][i]]]

=============================================================================
