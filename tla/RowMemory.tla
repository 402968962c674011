------------------------------ MODULE RowMemory ------------------------------
(***************************************************************************)
(* What a forward pass works on: the tokens of a call, buffers of rows, and *)
(* the launches that read and write them.                                   *)
(*                                                                         *)
(* A row holds one quantity of one token of one call, or Garbage: the        *)
(* numbers are abstracted to what they were computed from, so a kernel that *)
(* reads the wrong buffer, layer, row, position or key leaves Garbage.      *)
(***************************************************************************)
EXTENDS Integers, Sequences, FiniteSets

CONSTANTS
    LayerCount,     \* EI_N_LAYER
    SwaPeriod,      \* every SwaPeriod-th layer attends to the whole sequence
    Garbage

ASSUME LayersAreCounted == LayerCount \in Nat \ {0}

\* What a forward pass makes of a token, in a model of either kind.
QuantityNames ==
    {"x", "attn_in", "qkv_raw", "q_raw", "k_raw", "v_raw", "q", "k", "v", "ctx", "attn_proj", "mid",
     "ffn_in", "up_gate", "up", "gate", "act", "down", "ffn_out", "gate_in", "gated", "projected",
     "ple_raw", "ple", "normed", "out", "embedding"}

\* No token and no quantity of one is garbage.
ASSUME GarbageIsApart ==
    LET tokens == [call : Nat, seq : Nat, pos : Nat, len : Nat]
    IN  Garbage \notin tokens /\ Garbage \notin [q : QuantityNames, l : Nat, t : tokens]

Layers == 1 .. LayerCount

IsSwa(l) == (l - 1) % SwaPeriod < SwaPeriod - 1

\* Token p of the n tokens of sequence s, in the given call.
Token(call, s, p, n) == [call |-> call, seq |-> s, pos |-> p, len |-> n]

Quantity(q, l, t) == [q |-> q, l |-> l, t |-> t]

-----------------------------------------------------------------------------
(* Calls: the lengths of their packed sequences. *)

\* What a call must answer: the embeddings of its sequences.
Embedding(call, s, n) == Quantity("embedding", LayerCount + 1, Token(call, s, 0, n))
Reference(call, lens) == [s \in 1 .. Len(lens) |-> Embedding(call, s - 1, lens[s])]

Offsets(lens) ==
    LET offset[s \in 0 .. Len(lens)] == IF s = 0 THEN 0 ELSE offset[s - 1] + lens[s]
    IN  offset
Total(lens) == Offsets(lens)[Len(lens)]

\* The sequence of a row, its position there, and the token it holds.
SequenceOf(lens, r) == CHOOSE s \in 0 .. Len(lens) - 1 : Offsets(lens)[s] <= r /\ r < Offsets(lens)[s + 1]
PositionOf(lens, r) == r - Offsets(lens)[SequenceOf(lens, r)]
TokenOf(call, lens, r) ==
    Token(call, SequenceOf(lens, r), PositionOf(lens, r), lens[SequenceOf(lens, r) + 1])

-----------------------------------------------------------------------------
(* Buffers and kernels.  A memory maps every buffer to its rows 0, 1, ...    *)

At(mem, buffer, r) == IF r \in DOMAIN mem[buffer] THEN mem[buffer][r] ELSE Garbage

\* Some values in place of the old ones.
Overlaid(values, old) ==
    [x \in DOMAIN values \cup DOMAIN old |-> IF x \in DOMAIN values THEN values[x] ELSE old[x]]

\* A write behind the end of a buffer shows as a longer buffer.
Write(mem, buffer, values) == [mem EXCEPT ![buffer] = Overlaid(values, @)]

Fresh(rows) == [r \in 0 .. rows - 1 |-> Garbage]

\* The launches: a kernel, the layer whose weights it uses, its buffers, the rows
\* it computes, and whether it computes every column of a row.
Map(f, l, from, to, rows) ==
    [op |-> "map", f |-> f, l |-> l, from |-> from, to |-> to, rows |-> rows, whole |-> TRUE]
MapIf(whole, f, l, from, to, rows) == [Map(f, l, from, to, rows) EXCEPT !.whole = whole]
Convert(from, to, rows) == Map("convert", 0, <<from>>, to, rows)
EmbedFrom(from, rows) == [op |-> "embed", from |-> from, rows |-> rows]
Embed(rows) == EmbedFrom("ids", rows)
RotateAt(positions, f, l, from, to, swaTable, rows) ==
    [op |-> "rotate", f |-> f, l |-> l, from |-> from, to |-> to, swa |-> swaTable, rows |-> rows,
     positions |-> positions]
Rotate(f, l, from, to, swaTable, rows) == RotateAt("positions", f, l, from, to, swaTable, rows)
Attend(l, kind, q, k, v, to, arg) ==
    [op |-> "attend", l |-> l, kind |-> kind, q |-> q, k |-> k, v |-> v, to |-> to, arg |-> arg]
PoolOf(from, to, sequences) == [op |-> "pool", from |-> from, to |-> to, rows |-> sequences]
Pool(sequences) == PoolOf("x", "result", sequences)
MeanPoolOf(from, spans, first) == [op |-> "mean", from |-> from, spans |-> spans, first |-> first]
MeanPool(spans, first) == MeanPoolOf("x", spans, first)

=============================================================================
