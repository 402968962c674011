----------------------------- MODULE Gemma2Proofs -----------------------------
(***************************************************************************)
(* The forward pass of EmbeddingGemma 2, on the CPU and on CUDA: a part of *)
(* a call whose tokens are in its inputs leaves the embeddings of its own  *)
(* sequences, and the parts of a call are all of it.                       *)
(*                                                                         *)
(* The rows a call has packed are followed through the launches, one       *)
(* quantity of one layer at a time.  Nothing is assumed of what a buffer   *)
(* held before it was written, so no row of an earlier call is used.       *)
(***************************************************************************)
EXTENDS Gemma2Engine, ListProofs

-----------------------------------------------------------------------------
(* Rows: where the sequences of a call begin, and which token a row holds *)

\* The offsets of a call are the running totals of its lengths.
LEMMA OffsetsAreTotals ==
    ASSUME NEW ls \in Seq(Nat)
    PROVE  Totals(ls, Offsets(ls))
<1>1. \E f : Totals(ls, f)
  BY TotalsExist
<1>2. Offsets(ls) = CHOOSE f : Totals(ls, f)
  BY DEF Offsets, Totals
<1> QED
  BY <1>1, <1>2

\* The sequence that a row belongs to.
LEMMA SequenceOfRow ==
    ASSUME NEW ls \in Seq(Nat), NEW s \in 0 .. Len(ls) - 1,
           NEW r \in Offsets(ls)[s] .. Offsets(ls)[s + 1] - 1
    PROVE  SequenceOf(ls, r) = s /\ PositionOf(ls, r) = r - Offsets(ls)[s]
<1> DEFINE off == Offsets(ls)
           In(t) == t \in 0 .. Len(ls) - 1 /\ off[t] <= r /\ r < off[t + 1]
<1>1. Totals(ls, off)
  BY OffsetsAreTotals
<1>2. off[s] \in Nat /\ off[s + 1] \in Nat
  <2>1. s \in 0 .. Len(ls) /\ s + 1 \in 0 .. Len(ls)
    OBVIOUS
  <2> HIDE DEF off
  <2> QED
    BY <1>1, <2>1, TotalsRise
<1>3. r \in Int /\ In(s)
  BY <1>2
<1>4. PICK x : x = CHOOSE t \in 0 .. Len(ls) - 1 : off[t] <= r /\ r < off[t + 1]
  OBVIOUS
<1>5. SequenceOf(ls, r) = x
  BY <1>4 DEF SequenceOf
<1>6. In(x)
  BY <1>3, <1>4
<1> HIDE DEF off
<1>7. x = s
  BY <1>1, <1>3, <1>6, PartUnique
<1> QED
  BY <1>5, <1>7 DEF PositionOf, off

\* The sequences of a stretch of a call begin where they do in the call, less what
\* comes before.
LEMMA OffsetsOfStretch ==
    ASSUME NEW ls \in Seq(Nat), NEW a \in 0 .. Len(ls), NEW b \in 0 .. Len(ls) - a
    PROVE  LET part == SubSeq(ls, a + 1, a + b)
           IN  /\ part \in Seq(Nat) /\ Len(part) = b
               /\ \A s \in 1 .. b : part[s] = ls[a + s]
               /\ Offsets(part) = [s \in 0 .. b |-> Offsets(ls)[a + s] - Offsets(ls)[a]]
<1> DEFINE part == SubSeq(ls, a + 1, a + b)
           off == Offsets(ls)
           less == [s \in 0 .. b |-> off[a + s] - off[a]]
<1>1. Totals(ls, off)
  BY OffsetsAreTotals
<1> HIDE DEF off
<1>2. /\ part \in Seq(Nat) /\ Len(part) = b
      /\ \A s \in 1 .. b : part[s] = ls[a + s]
      /\ Totals(part, less)
  BY <1>1, TotalsOfStretch
<1> HIDE DEF part, less
<1>3. Offsets(part) = less
  BY <1>2, OffsetsAreTotals, TotalsUnique
<1> QED
  BY <1>2, <1>3 DEF part, less, off

Tokens == [call : Nat, seq : Nat, pos : Nat, len : Nat]

\* T holds the rows of packed sequences: those of a call from its sequence `first' on.
Packs(T, call, first, ls) ==
    /\ call \in Nat /\ first \in Nat /\ ls \in Seq(Nat)
    /\ DOMAIN T = 0 .. Total(ls) - 1
    /\ \A s \in 0 .. Len(ls) - 1 : \A r \in Offsets(ls)[s] .. Offsets(ls)[s + 1] - 1 :
           T[r] = Token(call, first + s, r - Offsets(ls)[s], ls[s + 1])

\* Every row belongs to a sequence.
LEMMA RowsArePacked ==
    ASSUME NEW T, NEW call, NEW first, NEW ls, Packs(T, call, first, ls), NEW r \in DOMAIN T
    PROVE  /\ T[r] \in Tokens
           /\ \E s \in 0 .. Len(ls) - 1 :
                  /\ r \in Offsets(ls)[s] .. Offsets(ls)[s + 1] - 1
                  /\ T[r] = Token(call, first + s, r - Offsets(ls)[s], ls[s + 1])
<1> DEFINE off == Offsets(ls)
<1>1. /\ call \in Nat /\ first \in Nat /\ ls \in Seq(Nat) /\ r \in 0 .. off[Len(ls)] - 1
      /\ \A s \in 0 .. Len(ls) - 1 : \A i \in off[s] .. off[s + 1] - 1 :
             T[i] = Token(call, first + s, i - off[s], ls[s + 1])
  BY DEF Packs, Total
<1>2. Totals(ls, off)
  BY <1>1, OffsetsAreTotals
<1> HIDE DEF off
<1>3. PICK s \in 0 .. Len(ls) - 1 : off[s] <= r /\ r < off[s + 1]
  BY <1>1, <1>2, PartFound
<1>4. s \in 0 .. Len(ls) /\ s + 1 \in 0 .. Len(ls) /\ s + 1 \in 1 .. Len(ls)
  BY <1>1
<1>5. off[s] \in Nat /\ off[s + 1] \in Nat /\ ls[s + 1] \in Nat
  BY <1>1, <1>2, <1>4, TotalsRise
<1>6. r \in off[s] .. off[s + 1] - 1
  BY <1>1, <1>3, <1>5
<1>7. T[r] = Token(call, first + s, r - off[s], ls[s + 1])
  BY <1>1, <1>6
<1>8. T[r] \in Tokens
  <2>1. first + s \in Nat /\ r - off[s] \in Nat
    BY <1>1, <1>3, <1>5
  <2> QED
    BY <1>1, <1>5, <1>7, <2>1 DEF Tokens, Token
<1> QED
  BY <1>6, <1>7, <1>8 DEF off

\* The rows of the sequences a + 1 to a + b of a call.
LEMMA CallIsPacked ==
    ASSUME NEW call \in Nat, NEW ls \in Seq(Nat), NEW a \in 0 .. Len(ls), NEW b \in 0 .. Len(ls) - a,
           NEW T, T = [r \in 0 .. Offsets(ls)[a + b] - Offsets(ls)[a] - 1 |-> TokenOf(call, ls, Offsets(ls)[a] + r)]
    PROVE  Packs(T, call, a, SubSeq(ls, a + 1, a + b))
<1> DEFINE part == SubSeq(ls, a + 1, a + b)
           off == Offsets(ls)
<1>1. /\ part \in Seq(Nat) /\ Len(part) = b
      /\ \A s \in 1 .. b : part[s] = ls[a + s]
      /\ Offsets(part) = [s \in 0 .. b |-> off[a + s] - off[a]]
  BY OffsetsOfStretch
<1>2. Totals(ls, off)
  BY OffsetsAreTotals
<1>3. /\ Len(ls) \in Nat /\ a \in Nat /\ b \in Nat /\ b \in 0 .. b
      /\ \A s \in 0 .. b : a + s \in 0 .. Len(ls)
  OBVIOUS
<1> HIDE DEF part
<1>4. Total(part) = off[a + b] - off[a]
  BY <1>1, <1>3 DEF Total
<1>5. ASSUME NEW s \in 0 .. b - 1, NEW r \in Offsets(part)[s] .. Offsets(part)[s + 1] - 1
      PROVE  T[r] = Token(call, a + s, r - Offsets(part)[s], part[s + 1])
  <2>1. /\ s \in 0 .. b /\ s + 1 \in 0 .. b /\ a + s \in 0 .. Len(ls) - 1 /\ s + 1 \in 1 .. b
        /\ a + (s + 1) = a + s + 1
    BY <1>3
  <2>2. Offsets(part)[s] = off[a + s] - off[a] /\ Offsets(part)[s + 1] = off[a + s + 1] - off[a]
    BY <1>1, <2>1
  <2> HIDE DEF off
  <2>3. /\ off[a] \in Nat /\ off[a + s] \in Nat /\ off[a + s + 1] \in Nat /\ off[a + b] \in Nat
        /\ off[a] <= off[a + s] /\ off[a + s + 1] <= off[a + b]
    <3>1. /\ a \in 0 .. Len(ls) /\ a + s \in 0 .. Len(ls) /\ a + s + 1 \in 0 .. Len(ls) /\ a + b \in 0 .. Len(ls)
          /\ a \in 0 .. a + s /\ a + s + 1 \in 0 .. a + b
      BY <1>3, <2>1
    <3> QED
      BY <1>2, <3>1, TotalsRise
  <2>4. PICK x, y, z, w : x = off[a] /\ y = off[a + s] /\ z = off[a + s + 1] /\ w = off[a + b]
    OBVIOUS
  <2>5. /\ off[a] + r \in off[a + s] .. off[a + s + 1] - 1
        /\ r \in 0 .. off[a + b] - off[a] - 1
    <3>1. /\ x \in Nat /\ y \in Nat /\ z \in Nat /\ w \in Nat /\ x <= y /\ z <= w
          /\ r \in y - x .. z - x - 1
      BY <2>2, <2>3, <2>4
    <3>2. x + r \in y .. z - 1 /\ r \in 0 .. w - x - 1
      BY <3>1
    <3> QED
      BY <2>4, <3>2
  <2>6. PICK t, i : t = a + s /\ i = off[a] + r
    OBVIOUS
  <2>7. T[r] = TokenOf(call, ls, i)
    BY <2>5, <2>6 DEF off
  <2>8. t \in 0 .. Len(ls) - 1 /\ i \in Offsets(ls)[t] .. Offsets(ls)[t + 1] - 1
    BY <2>1, <2>5, <2>6 DEF off
  <2>9. SequenceOf(ls, i) = t /\ PositionOf(ls, i) = i - off[t]
    BY <2>8, SequenceOfRow DEF off
  <2>10. i - off[t] = r - Offsets(part)[s]
    <3>1. i = x + r /\ off[t] = y /\ Offsets(part)[s] = y - x
      BY <2>2, <2>4, <2>6
    <3>2. x \in Nat /\ y \in Nat /\ r \in Int
      BY <2>3, <2>4, <2>5
    <3> QED
      BY <3>1, <3>2
  <2>11. ls[t + 1] = part[s + 1]
    <3>1. t + 1 = a + (s + 1)
      BY <1>3, <2>1, <2>6
    <3> QED
      BY <1>1, <2>1, <3>1
  <2> QED
    BY <2>6, <2>7, <2>9, <2>10, <2>11 DEF TokenOf
<1>6. DOMAIN T = 0 .. Total(part) - 1
  BY <1>4 DEF off
<1> QED
  BY <1>1, <1>3, <1>5, <1>6 DEF Packs, part

-----------------------------------------------------------------------------
(* Buffers: what they hold, and what a write leaves *)

\* A quantity of a token is never garbage.
LEMMA QuantitiesAreKnown ==
    ASSUME NEW q \in QuantityNames, NEW l \in Nat, NEW t \in Tokens
    PROVE  /\ Quantity(q, l, t) # Garbage
           /\ Quantity(q, l, t).q = q /\ Quantity(q, l, t).l = l /\ Quantity(q, l, t).t = t
<1>1. Quantity(q, l, t) \in [q : QuantityNames, l : Nat, t : [call : Nat, seq : Nat, pos : Nat, len : Nat]]
  BY DEF Quantity, Tokens
<1> QED
  BY <1>1, GarbageIsApart DEF Quantity

\* Nor is a token.
LEMMA TokensAreKnown ==
    \A t \in Tokens : t # Garbage
BY GarbageIsApart DEF Tokens

\* Buffer b holds the quantity q of layer l for every row of T.
Carries(m, b, q, l, T) == \A r \in DOMAIN T : At(m, b, r) = Quantity(q, l, T[r])

\* What a call copies to the kernels, and no kernel writes.
Inputs == {"ids", "inputs", "lo", "hi", "pos", "positions", "offsets", "tiles", "sequence_ids"}

\* w is m but for what buffer to holds.
Keeps(m, w, to) == DOMAIN w = DOMAIN m /\ \A b \in DOMAIN m : b # to => w[b] = m[b]

\* A write reaches its rows of its buffer, and nothing else.
LEMMA Written ==
    ASSUME NEW m, NEW to, to \in DOMAIN m, NEW F, NEW w, w = Write(m, to, F)
    PROVE  /\ Keeps(m, w, to)
           /\ \A r \in DOMAIN F : At(w, to, r) = F[r]
           /\ \A r : r \notin DOMAIN F => At(w, to, r) = At(m, to, r)
<1>1. Keeps(m, w, to)
  BY DEF Write, Keeps
<1>2. w[to] = Overlaid(F, m[to])
  BY DEF Write
<1>3. w[to] = [r \in DOMAIN F \cup DOMAIN m[to] |-> IF r \in DOMAIN F THEN F[r] ELSE m[to][r]]
  BY <1>2 DEF Overlaid
<1> QED
  BY <1>1, <1>3 DEF At

\* w is m with the quantity in buffer to.
Computes(m, w, to, q, l, T) == Keeps(m, w, to) /\ Carries(w, to, q, l, T)

\* A buffer that is kept holds what it held.
LEMMA Kept ==
    ASSUME NEW m, NEW w, NEW to, Keeps(m, w, to),
           NEW b \in DOMAIN m, b # to, NEW q, NEW l, NEW T, Carries(m, b, q, l, T)
    PROVE  Carries(w, b, q, l, T)
BY DEF Keeps, Carries, At

\* A write of the quantity to every row of T computes it.
LEMMA ComputedBy ==
    ASSUME NEW m, NEW to, to \in DOMAIN m, NEW F, NEW q, NEW l, NEW T,
           \A r \in DOMAIN T : r \in DOMAIN F /\ F[r] = Quantity(q, l, T[r])
    PROVE  Computes(m, Write(m, to, F), to, q, l, T)
<1>1. PICK w : w = Write(m, to, F)
  OBVIOUS
<1>2. Keeps(m, w, to) /\ \A r \in DOMAIN F : At(w, to, r) = F[r]
  BY <1>1, Written
<1> QED
  BY <1>1, <1>2 DEF Computes, Carries

-----------------------------------------------------------------------------
(* EmbeddingGemma 2: kernels *)

Gemma2Fold == INSTANCE ListProofs WITH FoldStep <- Gemma2!Execution!Run

\* Launches run one after the other.
LEMMA Gemma2Folds ==
    ASSUME NEW m, NEW s
    PROVE  FoldLeft(Gemma2!Execution!Run, m, s) = Gemma2Fold!Folded(m, s)
BY DEF Gemma2Fold!Folded, Gemma2Fold!FoldLeft, Gemma2Fold!MapThenFoldSet, Gemma2Fold!Max,
       FoldLeft, MapThenFoldSet, Max

\* The engine and its launches read the same rows.
LEMMA Gemma2Memory ==
    /\ \A m, b, F : Gemma2!Execution!Write(m, b, F) = Write(m, b, F)
    /\ \A m, b, r : Gemma2!Execution!At(m, b, r) = At(m, b, r)
    /\ \A q, l, t : Gemma2!Execution!Quantity(q, l, t) = Quantity(q, l, t)
    /\ \A q, l, t : Gemma2!Quantity(q, l, t) = Quantity(q, l, t)
<1>1. \A m, b, F : Gemma2!Execution!Write(m, b, F) = Write(m, b, F)
  BY DEF Gemma2!Execution!Write, Gemma2!Execution!Overlaid, Write, Overlaid
<1>2. \A m, b, r : Gemma2!Execution!At(m, b, r) = At(m, b, r)
  BY DEF Gemma2!Execution!At, At
<1>3. \A q, l, t : Gemma2!Execution!Quantity(q, l, t) = Quantity(q, l, t)
  BY DEF Gemma2!Execution!Quantity, Quantity
<1>4. \A q, l, t : Gemma2!Quantity(q, l, t) = Quantity(q, l, t)
  BY DEF Gemma2!Quantity, Quantity
<1> QED
  BY <1>1, <1>2, <1>3, <1>4

\* What each launch writes.
LEMMA Gemma2MapRuns ==
    ASSUME NEW m, NEW f, NEW l, NEW from, NEW to, NEW rows
    PROVE  Gemma2!Execution!Run(m, Gemma2!Map(f, l, from, to, rows)) =
               Write(m, to, [r \in rows |-> Gemma2!RowResult(f, l, [i \in DOMAIN from |-> At(m, from[i], r)])])
<1>1. PICK g : g = Gemma2!Map(f, l, from, to, rows)
  OBVIOUS
<1>2. g.op = "map" /\ g.f = f /\ g.l = l /\ g.from = from /\ g.to = to /\ g.rows = rows /\ g.whole = TRUE
  BY <1>1 DEF Gemma2!Map
<1>3. PICK F : F = [r \in g.rows |->
                      IF g.whole
                      THEN Gemma2!RowResult(g.f, g.l,
                               [i \in DOMAIN g.from |-> Gemma2!Execution!At(m, g.from[i], r)])
                      ELSE Garbage]
  OBVIOUS
<1>4. Gemma2!Execution!Run(m, g) = Gemma2!Execution!Write(m, g.to, F)
  BY <1>2, <1>3 DEF Gemma2!Execution!Run
<1>5. F = [r \in rows |-> Gemma2!RowResult(f, l, [i \in DOMAIN from |-> At(m, from[i], r)])]
  BY <1>2, <1>3, Gemma2Memory
<1> QED
  BY <1>1, <1>2, <1>4, <1>5, Gemma2Memory

\* The embedding copies the rows of the tokens, as quantity x.
LEMMA Gemma2EmbedRuns ==
    ASSUME NEW m, NEW from, NEW rows
    PROVE  Gemma2!Execution!Run(m, Gemma2!EmbedFrom(from, rows)) =
               Write(m, "x", [r \in rows |-> IF At(m, from, r) = Garbage THEN Garbage
                                            ELSE Quantity("x", 1, At(m, from, r))])
<1>1. PICK g : g = Gemma2!EmbedFrom(from, rows)
  OBVIOUS
<1>2. g.op = "embed" /\ g.from = from /\ g.rows = rows
  BY <1>1 DEF Gemma2!EmbedFrom
<1> QED
  BY <1>1, <1>2, Gemma2Memory DEF Gemma2!Execution!Run

\* A rotation writes the rotated norm of every row.
LEMMA Gemma2RotateRuns ==
    ASSUME NEW m, NEW positions, NEW f, NEW l, NEW from, NEW to, NEW swa, NEW rows
    PROVE  Gemma2!Execution!Run(m, Gemma2!RotateAt(positions, f, l, from, to, swa, rows)) =
               Write(m, to, [r \in rows |->
                   Gemma2!Rotated(f, l, At(m, from, r),
                                  IF positions = "row" THEN r ELSE At(m, positions, r), swa)])
<1>1. PICK g : g = Gemma2!RotateAt(positions, f, l, from, to, swa, rows)
  OBVIOUS
<1>2. g.op = "rotate" /\ g.f = f /\ g.l = l /\ g.from = from /\ g.to = to /\ g.swa = swa /\ g.rows = rows /\ g.positions = positions
  BY <1>1 DEF Gemma2!RotateAt
<1> QED
  BY <1>1, <1>2, Gemma2Memory DEF Gemma2!Execution!Run

\* Attention writes what the keys of every row make of its query.
LEMMA Gemma2AttendRuns ==
    ASSUME NEW m, NEW l, NEW q, NEW k, NEW v, NEW to, NEW arg, NEW keys,
           keys = Gemma2!KeysOf(m, Gemma2!Attend(l, "block", q, k, v, to, arg))
    PROVE  Gemma2!Execution!Run(m, Gemma2!Attend(l, "block", q, k, v, to, arg)) =
               Write(m, to, [r \in DOMAIN keys |->
                   Gemma2!Attended(l, At(m, q, r), {<<At(m, k, j), At(m, v, j)>> : j \in keys[r]})])
<1>1. PICK g : g = Gemma2!Attend(l, "block", q, k, v, to, arg)
  OBVIOUS
<1>2. g.op = "attend" /\ g.l = l /\ g.q = q /\ g.k = k /\ g.v = v /\ g.to = to /\ g.arg = arg
  BY <1>1 DEF Gemma2!Attend
<1> QED
  BY <1>1, <1>2, Gemma2Memory DEF Gemma2!Execution!Run

\* The means of the spans of rows; of the sequences.
Gemma2MeansOf(m, from, spans, first) ==
    [s \in {first + i : i \in DOMAIN spans} |-> Gemma2!Pooled({At(m, from, r) : r \in spans[s - first]})]

\* The pooling on the CPU writes a mean for every span.
LEMMA Gemma2MeanRuns ==
    ASSUME NEW m, NEW from, NEW spans, NEW first
    PROVE  Gemma2!Execution!Run(m, Gemma2!MeanPoolOf(from, spans, first)) =
               Write(m, "result", Gemma2MeansOf(m, from, spans, first))
<1>1. PICK g : g = Gemma2!MeanPoolOf(from, spans, first)
  OBVIOUS
<1>2. g.op = "mean" /\ g.from = from /\ g.spans = spans /\ g.first = first
  BY <1>1 DEF Gemma2!MeanPoolOf
<1> QED
  BY <1>1, <1>2, Gemma2Memory DEF Gemma2!Execution!Run, Gemma2MeansOf

Gemma2PoolsOf(m, from, sequences) ==
    [s \in sequences |-> Gemma2!Pooled({At(m, from, r) : r \in m.offsets[s] .. m.offsets[s + 1] - 1})]

\* The pooling on CUDA writes a mean for every sequence.
LEMMA Gemma2PoolRuns ==
    ASSUME NEW m, NEW from, NEW to, NEW sequences
    PROVE  Gemma2!Execution!Run(m, Gemma2!PoolOf(from, to, sequences)) =
               Write(m, to, Gemma2PoolsOf(m, from, sequences))
<1>1. PICK g : g = Gemma2!PoolOf(from, to, sequences)
  OBVIOUS
<1>2. g.op = "pool" /\ g.from = from /\ g.to = to /\ g.rows = sequences
  BY <1>1 DEF Gemma2!PoolOf
<1> QED
  BY <1>1, <1>2, Gemma2Memory DEF Gemma2!Execution!Run, Gemma2PoolsOf

-----------------------------------------------------------------------------
(* EmbeddingGemma 2: what a weight makes of the rows it reads *)

\* What each weight reads and makes.
LEMMA Gemma2Weights ==
    /\ Gemma2!RowMaps["attn_norm"] = [from |-> <<{"x"}>>, to |-> "attn_in"]
    /\ Gemma2!RowMaps["qkv"] = [from |-> <<{"attn_in"}>>, to |-> "qkv_raw"]
    /\ Gemma2!RowMaps["attn_q"] = [from |-> <<{"attn_in"}>>, to |-> "q_raw"]
    /\ Gemma2!RowMaps["attn_k"] = [from |-> <<{"attn_in"}>>, to |-> "k_raw"]
    /\ Gemma2!RowMaps["attn_v"] = [from |-> <<{"attn_in"}>>, to |-> "v_raw"]
    /\ Gemma2!RowMaps["v_norm"] = [from |-> <<{"v_raw", "qkv_raw"}>>, to |-> "v"]
    /\ Gemma2!RowMaps["attn_output"] = [from |-> <<{"ctx"}>>, to |-> "attn_proj"]
    /\ Gemma2!RowMaps["post_attention_norm"] = [from |-> <<{"attn_proj"}, {"x"}>>, to |-> "mid"]
    /\ Gemma2!RowMaps["ffn_norm"] = [from |-> <<{"mid"}>>, to |-> "ffn_in"]
    /\ Gemma2!RowMaps["upgate"] = [from |-> <<{"ffn_in"}>>, to |-> "up_gate"]
    /\ Gemma2!RowMaps["ffn_up"] = [from |-> <<{"ffn_in"}>>, to |-> "up"]
    /\ Gemma2!RowMaps["ffn_gate"] = [from |-> <<{"ffn_in"}>>, to |-> "gate"]
    /\ Gemma2!RowMaps["geglu"] = [from |-> <<{"up_gate"}>>, to |-> "act"]
    /\ Gemma2!RowMaps["gelu"] = [from |-> <<{"gate"}, {"up"}>>, to |-> "act"]
    /\ Gemma2!RowMaps["ffn_down"] = [from |-> <<{"act"}>>, to |-> "down"]
    /\ Gemma2!RowMaps["post_ffw_norm"] = [from |-> <<{"down"}, {"mid"}>>, to |-> "ffn_out"]
    /\ Gemma2!RowMaps["inp_gate"] = [from |-> <<{"ffn_out"}>>, to |-> "gate_in"]
    /\ Gemma2!RowMaps["ple_gate"] = [from |-> <<{"gate_in"}, {"ple"}>>, to |-> "gated"]
    /\ Gemma2!RowMaps["proj"] = [from |-> <<{"gated"}>>, to |-> "projected"]
    /\ Gemma2!RowMaps["post_norm"] = [from |-> <<{"projected"}, {"ffn_out"}>>, to |-> "x"]
    /\ Gemma2!RowMaps["per_layer_model_proj"] = [from |-> <<{"x"}>>, to |-> "ple_raw"]
    /\ Gemma2!RowMaps["per_layer_proj_norm"] = [from |-> <<{"ple_raw"}>>, to |-> "ple"]
    /\ Gemma2!RowMaps["output_norm"] = [from |-> <<{"x"}>>, to |-> "normed"]
    /\ Gemma2!RowMaps["output"] = [from |-> <<{"normed"}>>, to |-> "out"]
BY DEF Gemma2!RowMaps

\* A quantity of a token is none of another.
LEMMA Gemma2Known ==
    ASSUME NEW q \in QuantityNames, NEW l \in Nat, NEW t \in Tokens, NEW v, v = Quantity(q, Gemma2!MadeIn(q, l), t)
    PROVE  v # Garbage /\ v.t = t
<1>1. Gemma2!MadeIn(q, l) \in Nat
  BY DEF Gemma2!MadeIn
<1> QED
  BY <1>1, QuantitiesAreKnown

\* A weight that reads one quantity.
LEMMA Gemma2OneInput ==
    ASSUME NEW f, f # "convert", NEW S, NEW made, Gemma2!RowMaps[f] = [from |-> <<S>>, to |-> made],
           NEW q \in QuantityNames, q \in S, NEW l \in Nat, NEW t \in Tokens, NEW v, v = Quantity(q, Gemma2!MadeIn(q, l), t),
           NEW args, args = <<v>>
    PROVE  Gemma2!RowResult(f, l, args) = Quantity(made, IF f = "post_norm" THEN l + 1 ELSE l, t)
<1>1. Gemma2!MadeIn(q, l) \in Nat
  BY DEF Gemma2!MadeIn
<1>2. v # Garbage /\ v.t = t
  BY <1>1, QuantitiesAreKnown
<1>3. DOMAIN args = {1} /\ args[1] = v /\ Garbage \notin {args[i] : i \in DOMAIN args}
  BY <1>2
<1>4. Gemma2!RowMaps[f].from = <<S>> /\ Gemma2!RowMaps[f].to = made
  OBVIOUS
<1>5. \A i \in DOMAIN <<S>> : \E p \in <<S>>[i] : args[i] = Quantity(p, Gemma2!MadeIn(p, l), t)
  BY <1>3
<1>6. Gemma2!RowResult(f, l, args) = Gemma2!Applied(f, l, args)
  BY <1>3 DEF Gemma2!RowResult
<1> QED
  BY <1>2, <1>3, <1>4, <1>5, <1>6 DEF Gemma2!Applied, Gemma2!Quantity, Quantity

\* One that reads two.
LEMMA Gemma2TwoInputs ==
    ASSUME NEW f, f # "convert", NEW a \in QuantityNames, NEW c \in QuantityNames, NEW made,
           Gemma2!RowMaps[f] = [from |-> <<{a}, {c}>>, to |-> made],
           NEW l \in Nat, NEW t \in Tokens, NEW w, w = Quantity(a, Gemma2!MadeIn(a, l), t),
           NEW u, u = Quantity(c, Gemma2!MadeIn(c, l), t),
           NEW args, args = <<w, u>>
    PROVE  Gemma2!RowResult(f, l, args) = Quantity(made, IF f = "post_norm" THEN l + 1 ELSE l, t)
<1>1. Gemma2!MadeIn(a, l) \in Nat /\ Gemma2!MadeIn(c, l) \in Nat
  BY DEF Gemma2!MadeIn
<1>2. w # Garbage /\ w.t = t /\ u # Garbage
  <2>3. \A z : z = Quantity(a, Gemma2!MadeIn(a, l), t) => z # Garbage /\ z.t = t
    BY Gemma2Known
  <2>1. w # Garbage /\ w.t = t
    BY <2>3
  <2>2. u # Garbage
    BY Gemma2Known
  <2> QED
    BY <2>1, <2>2
<1>3. DOMAIN args = {1, 2} /\ args[1] = w /\ args[2] = u /\ Garbage \notin {args[i] : i \in DOMAIN args}
  BY <1>2
<1>4. Gemma2!RowMaps[f].from = <<{a}, {c}>> /\ Gemma2!RowMaps[f].to = made
  OBVIOUS
<1>5. \A i \in DOMAIN <<{a}, {c}>> : \E x \in <<{a}, {c}>>[i] : args[i] = Quantity(x, Gemma2!MadeIn(x, l), t)
  <2>1. DOMAIN <<{a}, {c}>> = {1, 2} /\ <<{a}, {c}>>[1] = {a} /\ <<{a}, {c}>>[2] = {c}
    OBVIOUS
  <2>2. \E x \in {a} : args[1] = Quantity(x, Gemma2!MadeIn(x, l), t)
    BY <1>3
  <2>3. \E x \in {c} : args[2] = Quantity(x, Gemma2!MadeIn(x, l), t)
    BY <1>3
  <2> QED
    BY <2>1, <2>2, <2>3
<1>6. Gemma2!RowResult(f, l, args) = Gemma2!Applied(f, l, args)
  BY <1>3 DEF Gemma2!RowResult
<1> QED
  BY <1>2, <1>3, <1>4, <1>5, <1>6 DEF Gemma2!Applied, Gemma2!Quantity, Quantity

-----------------------------------------------------------------------------
(* EmbeddingGemma 2: the kernels that compute a quantity for every row *)

\* What no kernel but the pooling writes.
Settled == Inputs \cup {"result"}

\* The buffers stay, and the settled ones hold what they held.
Steady(m, w) == DOMAIN w = DOMAIN m /\ \A b \in DOMAIN m \cap Settled : w[b] = m[b]

\* No launch, no change.
LEMMA SteadySame ==
    ASSUME NEW m
    PROVE  Steady(m, m)
BY DEF Steady

\* What two steps leave alone, both leave alone.
LEMMA SteadyBoth ==
    ASSUME NEW m, NEW w, NEW z, Steady(m, w), Steady(w, z)
    PROVE  Steady(m, z)
BY DEF Steady

\* A write to a buffer that is not settled.
LEMMA KeepsSteady ==
    ASSUME NEW m, NEW w, NEW to, to \notin Settled, Keeps(m, w, to)
    PROVE  Steady(m, w)
BY DEF Steady, Keeps

\* The launches p take the buffers m to w.
Gemma2Takes(p, m, w) == Gemma2Fold!Leads(p, m, w) /\ Steady(m, w)

\* Some launches, and then others.
LEMMA Gemma2TakesBoth ==
    ASSUME NEW p, NEW q, NEW m, NEW w, NEW z, Gemma2Takes(p, m, w), Gemma2Takes(q, w, z)
    PROVE  Gemma2Takes(p \o q, m, z)
<1>1. Gemma2Fold!Leads(p \o q, m, z)
  BY Gemma2Fold!LeadsBoth DEF Gemma2Takes
<1> QED
  BY <1>1, SteadyBoth DEF Gemma2Takes

\* No launches.
LEMMA Gemma2TakesNone ==
    ASSUME NEW m
    PROVE  Gemma2Takes(<<>>, m, m)
BY Gemma2Fold!LeadsNone, SteadySame DEF Gemma2Takes

\* One launch.
LEMMA Gemma2TakesOne ==
    ASSUME NEW g, NEW m, NEW w, w = Gemma2!Execution!Run(m, g), NEW to, to \notin Settled,
           NEW q, NEW l, NEW T, Computes(m, w, to, q, l, T)
    PROVE  Gemma2Takes(<<g>>, m, w)
<1>1. Gemma2Fold!Leads(<<g>>, m, w)
  BY Gemma2Fold!LeadsOne
<1>2. Steady(m, w)
  BY KeepsSteady DEF Computes
<1> QED
  BY <1>1, <1>2 DEF Gemma2Takes

\* The tokens of all rows are known.
Held(T) == \A r \in DOMAIN T : T[r] \in Tokens

\* A weight that reads one quantity.
LEMMA Gemma2MapsOne ==
    ASSUME NEW m, NEW from, NEW to \in DOMAIN m, to \notin Settled, NEW rows, NEW T, Held(T), DOMAIN T = rows,
           NEW f, f # "convert", NEW S, NEW made, Gemma2!RowMaps[f] = [from |-> <<S>>, to |-> made],
           NEW q \in QuantityNames, q \in S, NEW l \in Nat, Carries(m, from, q, Gemma2!MadeIn(q, l), T)
    PROVE  \E w : /\ Gemma2Takes(<<Gemma2!Map(f, l, <<from>>, to, rows)>>, m, w)
                  /\ Computes(m, w, to, made, IF f = "post_norm" THEN l + 1 ELSE l, T)
<1> DEFINE k == IF f = "post_norm" THEN l + 1 ELSE l
           F == [r \in rows |-> Gemma2!RowResult(f, l, [i \in DOMAIN <<from>> |-> At(m, <<from>>[i], r)])]
           w == Gemma2!Execution!Run(m, Gemma2!Map(f, l, <<from>>, to, rows))
<1>1. w = Write(m, to, F)
  BY Gemma2MapRuns
<1>2. ASSUME NEW r \in rows
      PROVE  Gemma2!RowResult(f, l, [i \in DOMAIN <<from>> |-> At(m, <<from>>[i], r)]) = Quantity(made, k, T[r])
  <2>1. [i \in DOMAIN <<from>> |-> At(m, <<from>>[i], r)] = <<At(m, from, r)>>
    OBVIOUS
  <2>2. At(m, from, r) = Quantity(q, Gemma2!MadeIn(q, l), T[r]) /\ T[r] \in Tokens
    BY DEF Carries, Held
  <2>3. PICK t, v, args : t \in Tokens /\ t = T[r] /\ v = At(m, from, r) /\ args = <<v>>
    BY <2>2
  <2>4. v = Quantity(q, Gemma2!MadeIn(q, l), t)
    BY <2>2, <2>3
  <2>5. Gemma2!RowResult(f, l, args) = Quantity(made, IF f = "post_norm" THEN l + 1 ELSE l, t)
    BY <2>3, <2>4, Gemma2OneInput
  <2> QED
    BY <2>1, <2>3, <2>5
<1>3. \A r \in DOMAIN T : r \in DOMAIN F /\ F[r] = Quantity(made, k, T[r])
  BY <1>2
<1> HIDE DEF F, w
<1>4. Computes(m, w, to, made, k, T)
  BY <1>1, <1>3, ComputedBy
<1>5. Gemma2Takes(<<Gemma2!Map(f, l, <<from>>, to, rows)>>, m, w)
  BY <1>4, Gemma2TakesOne DEF w
<1> QED
  BY <1>4, <1>5

\* One that reads two.
LEMMA Gemma2MapsTwo ==
    ASSUME NEW m, NEW a, NEW c, NEW to \in DOMAIN m, to \notin Settled, NEW rows, NEW T, Held(T), DOMAIN T = rows,
           NEW f, f # "convert", NEW q \in QuantityNames, NEW p \in QuantityNames, NEW made,
           Gemma2!RowMaps[f] = [from |-> <<{q}, {p}>>, to |-> made], NEW l \in Nat,
           Carries(m, a, q, Gemma2!MadeIn(q, l), T), Carries(m, c, p, Gemma2!MadeIn(p, l), T)
    PROVE  \E w : /\ Gemma2Takes(<<Gemma2!Map(f, l, <<a, c>>, to, rows)>>, m, w)
                  /\ Computes(m, w, to, made, IF f = "post_norm" THEN l + 1 ELSE l, T)
<1> DEFINE k == IF f = "post_norm" THEN l + 1 ELSE l
           F == [r \in rows |-> Gemma2!RowResult(f, l, [i \in DOMAIN <<a, c>> |-> At(m, <<a, c>>[i], r)])]
           w == Gemma2!Execution!Run(m, Gemma2!Map(f, l, <<a, c>>, to, rows))
<1>1. w = Write(m, to, F)
  BY Gemma2MapRuns
<1>2. ASSUME NEW r \in rows
      PROVE  Gemma2!RowResult(f, l, [i \in DOMAIN <<a, c>> |-> At(m, <<a, c>>[i], r)]) = Quantity(made, k, T[r])
  <2>1. [i \in DOMAIN <<a, c>> |-> At(m, <<a, c>>[i], r)] = <<At(m, a, r), At(m, c, r)>>
    OBVIOUS
  <2>2. /\ At(m, a, r) = Quantity(q, Gemma2!MadeIn(q, l), T[r]) /\ T[r] \in Tokens
        /\ At(m, c, r) = Quantity(p, Gemma2!MadeIn(p, l), T[r])
    BY DEF Carries, Held
  <2>3. PICK t, v, u, args : t \in Tokens /\ t = T[r] /\ v = At(m, a, r) /\ u = At(m, c, r) /\ args = <<v, u>>
    BY <2>2
  <2>4. v = Quantity(q, Gemma2!MadeIn(q, l), t) /\ u = Quantity(p, Gemma2!MadeIn(p, l), t)
    BY <2>2, <2>3
  <2>5. Gemma2!RowResult(f, l, args) = Quantity(made, IF f = "post_norm" THEN l + 1 ELSE l, t)
    BY <2>3, <2>4, Gemma2TwoInputs
  <2> QED
    BY <2>1, <2>3, <2>5
<1>3. \A r \in DOMAIN T : r \in DOMAIN F /\ F[r] = Quantity(made, k, T[r])
  BY <1>2
<1> HIDE DEF F, w
<1>4. Computes(m, w, to, made, k, T)
  BY <1>1, <1>3, ComputedBy
<1>5. Gemma2Takes(<<Gemma2!Map(f, l, <<a, c>>, to, rows)>>, m, w)
  BY <1>4, Gemma2TakesOne DEF w
<1> QED
  BY <1>4, <1>5

\* A conversion.
LEMMA Gemma2Converts ==
    ASSUME NEW m, NEW from, NEW to \in DOMAIN m, to \notin Settled, NEW rows, NEW T, Held(T), DOMAIN T = rows,
           NEW q \in QuantityNames, NEW l \in Nat, Carries(m, from, q, l, T)
    PROVE  \E w : Gemma2Takes(<<Gemma2!Convert(from, to, rows)>>, m, w) /\ Computes(m, w, to, q, l, T)
<1> DEFINE F == [r \in rows |-> Gemma2!RowResult("convert", 0, [i \in DOMAIN <<from>> |-> At(m, <<from>>[i], r)])]
           w == Gemma2!Execution!Run(m, Gemma2!Map("convert", 0, <<from>>, to, rows))
<1>1. w = Write(m, to, F)
  BY Gemma2MapRuns
<1>2. ASSUME NEW r \in rows
      PROVE  Gemma2!RowResult("convert", 0, [i \in DOMAIN <<from>> |-> At(m, <<from>>[i], r)]) = Quantity(q, l, T[r])
  <2>1. [i \in DOMAIN <<from>> |-> At(m, <<from>>[i], r)] = <<At(m, from, r)>>
    OBVIOUS
  <2>2. At(m, from, r) = Quantity(q, l, T[r]) /\ T[r] \in Tokens
    BY DEF Carries, Held
  <2>3. At(m, from, r) # Garbage
    <3>1. Quantity(q, l, T[r]) # Garbage
      BY <2>2, QuantitiesAreKnown
    <3> QED
      BY <2>2, <3>1
  <2>4. PICK args : args = <<At(m, from, r)>>
    OBVIOUS
  <2>5. Garbage \notin {args[i] : i \in DOMAIN args} /\ args[1] = At(m, from, r)
    BY <2>3, <2>4
  <2>6. Gemma2!RowResult("convert", 0, args) = args[1]
    BY <2>5 DEF Gemma2!RowResult
  <2> QED
    BY <2>1, <2>2, <2>4, <2>5, <2>6
<1>3. \A r \in DOMAIN T : r \in DOMAIN F /\ F[r] = Quantity(q, l, T[r])
  BY <1>2
<1> HIDE DEF F, w
<1>4. Computes(m, w, to, q, l, T)
  BY <1>1, <1>3, ComputedBy
<1>5. Gemma2Takes(<<Gemma2!Convert(from, to, rows)>>, m, w)
  BY <1>4, Gemma2TakesOne DEF w, Gemma2!Convert
<1> QED
  BY <1>4, <1>5

-----------------------------------------------------------------------------
(* EmbeddingGemma 2: embedding, rotation, attention, means *)

\* Buffer b holds the tokens.
Fed(m, b, T) == \A r \in DOMAIN T : At(m, b, r) = T[r]

\* The positions a kernel rotates by are those of the tokens.
Placed(m, positions, T) ==
    \A r \in DOMAIN T : (IF positions = "row" THEN r ELSE At(m, positions, r)) = T[r].pos

\* A rotation makes q of q_raw, or k of k_raw, if the positions are right.
LEMMA Gemma2Rotates ==
    ASSUME NEW m, NEW from, NEW to \in DOMAIN m, to \notin Settled, NEW rows, NEW T, Held(T), DOMAIN T = rows,
           NEW l \in Nat, NEW f, NEW q \in QuantityNames, NEW made,
           \/ f = "attn_q_norm" /\ q \in {"q_raw", "qkv_raw"} /\ made = "q"
           \/ f = "attn_k_norm" /\ q \in {"k_raw", "qkv_raw"} /\ made = "k",
           Carries(m, from, q, l, T), NEW positions, Placed(m, positions, T)
    PROVE  \E w : /\ Gemma2Takes(<<Gemma2!RotateAt(positions, f, l, from, to, Gemma2!IsSwa(l), rows)>>, m, w)
                  /\ Computes(m, w, to, made, l, T)
<1> DEFINE at(r) == IF positions = "row" THEN r ELSE At(m, positions, r)
           F == [r \in rows |-> Gemma2!Rotated(f, l, At(m, from, r), at(r), Gemma2!IsSwa(l))]
           w == Gemma2!Execution!Run(m, Gemma2!RotateAt(positions, f, l, from, to, Gemma2!IsSwa(l), rows))
<1>1. w = Write(m, to, F)
  BY Gemma2RotateRuns
<1>2. ASSUME NEW r \in rows
      PROVE  Gemma2!Rotated(f, l, At(m, from, r), at(r), Gemma2!IsSwa(l)) = Quantity(made, l, T[r])
  <2>1. At(m, from, r) = Quantity(q, l, T[r]) /\ T[r] \in Tokens /\ at(r) = T[r].pos
    BY DEF Carries, Held, Placed
  <2> HIDE DEF at
  <2>2. PICK t, v, i : t \in Tokens /\ t = T[r] /\ v = At(m, from, r) /\ i = at(r)
    BY <2>1
  <2>3. Quantity(q, l, t) # Garbage /\ Quantity(q, l, t).t = t
    BY <2>2, QuantitiesAreKnown
  <2>4. v = Quantity(q, l, t) /\ v # Garbage /\ v.t = t /\ i = t.pos
    BY <2>1, <2>2, <2>3
  <2>5. \A z \in {"q_raw", "qkv_raw", "k_raw"} : Gemma2!Quantity(z, l, t) = Quantity(z, l, t)
    BY Gemma2Memory
  <2>6. Gemma2!Rotated(f, l, v, i, Gemma2!IsSwa(l)) = Quantity(made, l, t)
    <3>1. \E z \in {"qkv_raw", IF f = "attn_q_norm" THEN "q_raw" ELSE "k_raw"} : v = Quantity(z, l, t)
      BY <2>4
    <3>2. (IF f = "attn_q_norm" THEN "q" ELSE "k") = made
      OBVIOUS
    <3> QED
      BY <2>4, <3>1, <3>2, Gemma2Memory DEF Gemma2!Rotated
  <2> QED
    BY <2>2, <2>6
<1>3. \A r \in DOMAIN T : r \in DOMAIN F /\ F[r] = Quantity(made, l, T[r])
  BY <1>2
<1> HIDE DEF F, w
<1>4. Computes(m, w, to, made, l, T)
  BY <1>1, <1>3, ComputedBy
<1>5. Gemma2Takes(<<Gemma2!RotateAt(positions, f, l, from, to, Gemma2!IsSwa(l), rows)>>, m, w)
  BY <1>4, Gemma2TakesOne DEF w
<1> QED
  BY <1>4, <1>5

\* The first inputs of the layers.
LEMMA Gemma2Embeds ==
    ASSUME NEW m, NEW from, "x" \in DOMAIN m, NEW rows, NEW T, Held(T), DOMAIN T = rows,
           Fed(m, from, T)
    PROVE  \E w : /\ Gemma2Takes(<<Gemma2!EmbedFrom(from, rows)>>, m, w)
                  /\ Computes(m, w, "x", "x", 1, T)
<1> DEFINE F == [r \in rows |-> IF At(m, from, r) = Garbage THEN Garbage ELSE Quantity("x", 1, At(m, from, r))]
           w == Gemma2!Execution!Run(m, Gemma2!EmbedFrom(from, rows))
<1>1. w = Write(m, "x", F)
  BY Gemma2EmbedRuns
<1>2. \A r \in DOMAIN T : r \in DOMAIN F /\ F[r] = Quantity("x", 1, T[r])
  BY TokensAreKnown DEF Fed, Held
<1> HIDE DEF F, w
<1>3. Computes(m, w, "x", "x", 1, T)
  BY <1>1, <1>2, ComputedBy
<1>4. Gemma2Takes(<<Gemma2!EmbedFrom(from, rows)>>, m, w)
  <2>1. "x" \notin Settled
    BY DEF Settled, Inputs
  <2> QED
    BY <1>3, <2>1, Gemma2TakesOne DEF w
<1> QED
  BY <1>3, <1>4

\* The rows K are the tokens that row r attends to.
Gemma2SeenBy(T, r, l, K) ==
    /\ K \subseteq DOMAIN T
    /\ {T[j] : j \in K} = {[T[r] EXCEPT !.pos = p] : p \in Gemma2!InWindow(l, T[r].pos, T[r].len)}

\* The keys of every row are the tokens it attends to.
Gemma2Sees(keys, T, l) == \A r \in DOMAIN T : r \in DOMAIN keys /\ Gemma2SeenBy(T, r, l, keys[r])

\* Attention makes ctx, if every row finds the keys of the tokens it attends to.
LEMMA Gemma2Attends ==
    ASSUME NEW m, NEW q, NEW k, NEW v, NEW to \in DOMAIN m, to \notin Settled, NEW T, Held(T), NEW l \in Nat,
           Carries(m, q, "q", l, T), Carries(m, k, "k", l, T), Carries(m, v, "v", l, T),
           NEW arg, Gemma2Sees(Gemma2!KeysOf(m, Gemma2!Attend(l, "block", q, k, v, to, arg)), T, l)
    PROVE  \E w : /\ Gemma2Takes(<<Gemma2!Attend(l, "block", q, k, v, to, arg)>>, m, w)
                  /\ Computes(m, w, to, "ctx", l, T)
<1> DEFINE keys == Gemma2!KeysOf(m, Gemma2!Attend(l, "block", q, k, v, to, arg))
           F == [r \in DOMAIN keys |->
                   Gemma2!Attended(l, At(m, q, r), {<<At(m, k, j), At(m, v, j)>> : j \in keys[r]})]
           w == Gemma2!Execution!Run(m, Gemma2!Attend(l, "block", q, k, v, to, arg))
<1>1. w = Write(m, to, F)
  BY Gemma2AttendRuns
<1>2. Gemma2Sees(keys, T, l)
  OBVIOUS
<1> HIDE DEF keys
<1>3. ASSUME NEW r \in DOMAIN T
      PROVE  Gemma2!Attended(l, At(m, q, r), {<<At(m, k, j), At(m, v, j)>> : j \in keys[r]}) = Quantity("ctx", l, T[r])
  <2>1. PICK t, x : t \in Tokens /\ t = T[r] /\ x = At(m, q, r) /\ x = Quantity("q", l, t)
    BY DEF Held, Carries
  <2>2. x # Garbage /\ x.t = t
    <3>1. PICK z : z \in QuantityNames /\ z = "q"
      <4>1. "q" \in QuantityNames
        BY DEF QuantityNames
      <4> QED
        BY <4>1
    <3>2. Quantity(z, l, t) # Garbage /\ Quantity(z, l, t).t = t
      BY <2>1, <3>1, QuantitiesAreKnown
    <3> QED
      BY <2>1, <3>1, <3>2
  <2>3. PICK pairs : pairs = {<<At(m, k, j), At(m, v, j)>> : j \in keys[r]}
    OBVIOUS
  <2>4. PICK window : window = {[t EXCEPT !.pos = p] : p \in Gemma2!InWindow(l, t.pos, t.len)}
    OBVIOUS
  <2>5. window = {T[j] : j \in keys[r]} /\ keys[r] \subseteq DOMAIN T
    BY <1>2, <2>1, <2>4 DEF Gemma2Sees, Gemma2SeenBy
  <2>6. \A j \in keys[r] : At(m, k, j) = Quantity("k", l, T[j]) /\ At(m, v, j) = Quantity("v", l, T[j])
    BY <2>5 DEF Carries
  <2>7. pairs = {<<Quantity("k", l, u), Quantity("v", l, u)>> : u \in window}
    BY <2>3, <2>5, <2>6
  <2>8. Gemma2!Attended(l, x, pairs) = Quantity("ctx", l, t)
    <3>1. /\ Gemma2!Quantity("q", l, t) = Quantity("q", l, t)
          /\ Gemma2!Quantity("ctx", l, t) = Quantity("ctx", l, t)
          /\ \A u : Gemma2!Quantity("k", l, u) = Quantity("k", l, u) /\ Gemma2!Quantity("v", l, u) = Quantity("v", l, u)
      BY Gemma2Memory
    <3>2. pairs = {<<Gemma2!Quantity("k", l, u), Gemma2!Quantity("v", l, u)>> : u \in window}
      BY <2>7, <3>1
    <3> QED
      BY <2>1, <2>2, <2>4, <3>1, <3>2 DEF Gemma2!Attended
  <2> QED
    BY <2>1, <2>3, <2>8
<1>4. \A r \in DOMAIN T : r \in DOMAIN F /\ F[r] = Quantity("ctx", l, T[r])
  BY <1>2, <1>3 DEF Gemma2Sees, Gemma2SeenBy
<1> HIDE DEF F, w
<1>5. Computes(m, w, to, "ctx", l, T)
  BY <1>1, <1>4, ComputedBy
<1>6. Gemma2Takes(<<Gemma2!Attend(l, "block", q, k, v, to, arg)>>, m, w)
  BY <1>5, Gemma2TakesOne DEF w
<1> QED
  BY <1>5, <1>6

\* The mean of the rows of a sequence.
LEMMA Gemma2PoolsOne ==
    ASSUME NEW m, NEW from, NEW T, NEW call, NEW first, NEW ls, Packs(T, call, first, ls),
           Carries(m, from, "out", LayerCount + 1, T),
           NEW s \in 0 .. Len(ls) - 1, ls[s + 1] # 0
    PROVE  Gemma2!Pooled({At(m, from, r) : r \in Offsets(ls)[s] .. Offsets(ls)[s + 1] - 1}) =
               Embedding(call, first + s, ls[s + 1])
<1> DEFINE off == Offsets(ls)
           rows == off[s] .. off[s + 1] - 1
           out(p) == Quantity("out", LayerCount + 1, Token(call, first + s, p, ls[s + 1]))
           values == {At(m, from, r) : r \in rows}
<1>1. /\ call \in Nat /\ first \in Nat /\ ls \in Seq(Nat) /\ DOMAIN T = 0 .. off[Len(ls)] - 1
      /\ \A i \in 0 .. Len(ls) - 1 : \A r \in off[i] .. off[i + 1] - 1 :
             T[r] = Token(call, first + i, r - off[i], ls[i + 1])
  BY DEF Packs, Total
<1>2. Totals(ls, off)
  BY <1>1, OffsetsAreTotals
<1> HIDE DEF off
<1>3. PICK a, n, e : a = off[s] /\ n = ls[s + 1] /\ e = off[Len(ls)]
  OBVIOUS
<1>4. /\ a \in Nat /\ n \in Nat \ {0} /\ off[s + 1] = a + n /\ e \in Nat /\ a + n <= e
  <2>1. s \in 0 .. Len(ls) /\ s + 1 \in 0 .. Len(ls) /\ s + 1 \in 1 .. Len(ls) /\ Len(ls) \in 0 .. Len(ls)
        /\ s + 1 \in 0 .. Len(ls)
    BY <1>1
  <2>2. ls[s + 1] \in Nat
    BY <1>1, <2>1
  <2>3. off[s] \in Nat /\ off[Len(ls)] \in Nat /\ off[s + 1] <= off[Len(ls)]
    BY <1>1, <1>2, <2>1, TotalsRise
  <2>4. off[s + 1] = off[s] + ls[s + 1]
    BY <1>1, <1>2, TotalsStep
  <2> QED
    BY <1>3, <2>2, <2>3, <2>4
<1>5. \A r \in rows : At(m, from, r) = out(r - a)
  <2> TAKE r \in rows
  <2>1. r \in DOMAIN T /\ r \in off[s] .. off[s + 1] - 1
    <3>1. r \in off[s] .. off[s + 1] - 1
      OBVIOUS
    <3>2. r \in a .. a + n - 1
      BY <1>3, <1>4, <3>1
    <3>3. r \in 0 .. e - 1
      BY <1>4, <3>2
    <3> QED
      BY <1>1, <1>3, <3>1, <3>3
  <2>2. T[r] = Token(call, first + s, r - a, ls[s + 1])
    BY <1>1, <1>3, <2>1
  <2> QED
    BY <2>1, <2>2 DEF Carries
<1>6. \A p \in 0 .. n - 1 : out(p) # Garbage /\ out(p).t = Token(call, first + s, p, n)
  <2> TAKE p \in 0 .. n - 1
  <2>1. Token(call, first + s, p, n) \in Tokens
    BY <1>1, <1>4 DEF Token, Tokens
  <2>2. PICK l, z, t : /\ l \in Nat /\ z \in QuantityNames /\ t \in Tokens
                       /\ l = LayerCount + 1 /\ z = "out" /\ t = Token(call, first + s, p, n)
    <3>1. "out" \in QuantityNames /\ LayerCount + 1 \in Nat
      BY LayersAreCounted DEF QuantityNames
    <3> QED
      BY <2>1, <3>1
  <2>3. Quantity(z, l, t) # Garbage /\ Quantity(z, l, t).t = t
    BY <2>2, QuantitiesAreKnown
  <2> QED
    BY <1>3, <2>2, <2>3
<1> HIDE DEF out
<1>7. values = {out(p) : p \in 0 .. n - 1}
  <2>1. \A r \in rows : r - a \in 0 .. n - 1
    BY <1>3, <1>4
  <2>2. \A p \in 0 .. n - 1 : a + p \in rows /\ (a + p) - a = p
    BY <1>3, <1>4
  <2>3. \A p \in 0 .. n - 1 : At(m, from, a + p) = out(p)
    BY <1>5, <2>2
  <2> HIDE DEF rows
  <2> QED
    BY <1>5, <2>1, <2>2, <2>3
<1> HIDE DEF rows, values
<1>8. Garbage \notin values /\ values \ {Garbage} = values
  BY <1>6, <1>7
<1>9. values # {}
  <2>1. 0 \in 0 .. n - 1
    BY <1>4
  <2> QED
    BY <1>7, <2>1
<1>10. PICK v : v = (CHOOSE u \in values : TRUE)
  OBVIOUS
<1>11. PICK i \in 0 .. n - 1 : v = out(i)
  BY <1>7, <1>9, <1>10
<1>12. PICK t : t = v.t /\ t = Token(call, first + s, i, n)
  BY <1>6, <1>11
<1>13. \A p : [t EXCEPT !.pos = p] = Token(call, first + s, p, n)
  BY <1>12 DEF Token
<1>14. t.call = call /\ t.seq = first + s /\ t.len = n
  BY <1>12 DEF Token
<1>15. values = {Quantity("out", LayerCount + 1, [t EXCEPT !.pos = p]) : p \in 0 .. t.len - 1}
  <2>1. \A p : out(p) = Quantity("out", LayerCount + 1, [t EXCEPT !.pos = p])
    BY <1>3, <1>13 DEF out
  <2>2. t.len = n
    BY <1>3, <1>14
  <2> QED
    BY <1>7, <2>1, <2>2
<1>16. Gemma2!Pooled(values) = Gemma2!Embedding(call, first + s, n)
  BY <1>8, <1>9, <1>10, <1>12, <1>14, <1>15, Gemma2Memory DEF Gemma2!Pooled
<1>17. Gemma2!Embedding(call, first + s, n) = Embedding(call, first + s, n)
  BY DEF Gemma2!Embedding, Embedding, Gemma2!Quantity, Quantity, Gemma2!Token, Token
<1> QED
  BY <1>3, <1>16, <1>17 DEF values, rows, off

-----------------------------------------------------------------------------
(* EmbeddingGemma 2: the keys of the attention kernels *)

\* The window of a layer.
LEMMA Gemma2WindowIsNat ==
    \A l : Gemma2!WindowOf(l) \in Nat
BY Gemma2Geometry DEF Gemma2!WindowOf

\* The rows of a sequence within the window of one of them.
Gemma2Within(ls, s, r, l) ==
    {k \in Offsets(ls)[s] .. Offsets(ls)[s + 1] - 1 :
        \/ Gemma2!WindowOf(l) = 0
        \/ k >= r - Gemma2!WindowOf(l) /\ k <= r + Gemma2!WindowOf(l)}

\* They are the tokens it attends to.
LEMMA Gemma2WindowSeen ==
    ASSUME NEW T, NEW call, NEW first, NEW ls, Packs(T, call, first, ls), NEW l,
           NEW s \in 0 .. Len(ls) - 1, NEW r \in Offsets(ls)[s] .. Offsets(ls)[s + 1] - 1,
           NEW K, K = Gemma2Within(ls, s, r, l)
    PROVE  Gemma2SeenBy(T, r, l, K)
<1> DEFINE off == Offsets(ls)
<1>1. /\ call \in Nat /\ first \in Nat /\ ls \in Seq(Nat) /\ DOMAIN T = 0 .. off[Len(ls)] - 1
      /\ \A i \in 0 .. Len(ls) - 1 : \A k \in off[i] .. off[i + 1] - 1 :
             T[k] = Token(call, first + i, k - off[i], ls[i + 1])
  BY DEF Packs, Total
<1>2. Totals(ls, off)
  BY <1>1, OffsetsAreTotals
<1> HIDE DEF off
<1>3. PICK a, n, e, w : a = off[s] /\ n = ls[s + 1] /\ e = off[Len(ls)] /\ w = Gemma2!WindowOf(l)
  OBVIOUS
<1>4. /\ a \in Nat /\ n \in Nat /\ off[s + 1] = a + n /\ e \in Nat /\ a + n <= e
  <2>1. s \in 0 .. Len(ls) /\ s + 1 \in 0 .. Len(ls) /\ s + 1 \in 1 .. Len(ls) /\ Len(ls) \in 0 .. Len(ls)
        /\ s + 1 \in 0 .. Len(ls)
    BY <1>1
  <2>2. ls[s + 1] \in Nat
    BY <1>1, <2>1
  <2>3. off[s] \in Nat /\ off[Len(ls)] \in Nat /\ off[s + 1] <= off[Len(ls)]
    BY <1>1, <1>2, <2>1, TotalsRise
  <2>4. off[s + 1] = off[s] + ls[s + 1]
    BY <1>1, <1>2, TotalsStep
  <2> QED
    BY <1>3, <2>2, <2>3, <2>4
<1>5. \A k \in a .. a + n - 1 : k \in DOMAIN T /\ T[k] = Token(call, first + s, k - a, n)
  <2> TAKE k \in a .. a + n - 1
  <2>1. k \in 0 .. e - 1
    BY <1>4
  <2>2. k \in off[s] .. off[s + 1] - 1
    BY <1>3, <1>4
  <2> QED
    BY <1>1, <1>3, <2>1, <2>2
<1>6. r \in a .. a + n - 1 /\ w \in Nat
  BY <1>3, <1>4, Gemma2WindowIsNat DEF off
<1>7. K = {k \in a .. a + n - 1 : w = 0 \/ (k >= r - w /\ k <= r + w)}
  BY <1>3, <1>4 DEF off, Gemma2Within
<1>8. /\ T[r].pos = r - a /\ T[r].len = n
      /\ \A p : [T[r] EXCEPT !.pos = p] = Token(call, first + s, p, n)
  <2>1. PICK t : t = T[r] /\ t = Token(call, first + s, r - a, n)
    BY <1>5, <1>6
  <2>2. t.pos = r - a /\ t.len = n /\ \A p : [t EXCEPT !.pos = p] = Token(call, first + s, p, n)
    BY <2>1 DEF Token
  <2> QED
    BY <2>1, <2>2
<1>9. Gemma2!InWindow(l, r - a, n) = {p \in 0 .. n - 1 : w = 0 \/ (p - (r - a) <= w /\ (r - a) - p <= w)}
  BY <1>3 DEF Gemma2!InWindow
<1>10. PICK I : I = Gemma2!InWindow(l, T[r].pos, T[r].len)
  OBVIOUS
<1>11. I = {p \in 0 .. n - 1 : w = 0 \/ (p - (r - a) <= w /\ (r - a) - p <= w)}
  BY <1>8, <1>9, <1>10
<1>12. \A j \in K : j - a \in I /\ T[j] = Token(call, first + s, j - a, n)
  <2> TAKE j \in K
  <2>1. j \in a .. a + n - 1 /\ (w = 0 \/ (j >= r - w /\ j <= r + w))
    BY <1>7
  <2>2. j - a \in 0 .. n - 1 /\ (w = 0 \/ ((j - a) - (r - a) <= w /\ (r - a) - (j - a) <= w))
    BY <1>4, <1>6, <2>1
  <2> QED
    BY <1>5, <1>11, <2>1, <2>2
<1>13. \A p \in I : a + p \in K /\ T[a + p] = Token(call, first + s, p, n)
  <2> TAKE p \in I
  <2>1. p \in 0 .. n - 1 /\ (w = 0 \/ (p - (r - a) <= w /\ (r - a) - p <= w))
    BY <1>11
  <2>2. /\ a + p \in a .. a + n - 1 /\ a + p - a = p
        /\ w = 0 \/ (a + p >= r - w /\ a + p <= r + w)
    BY <1>4, <1>6, <2>1
  <2>3. PICK k : k = a + p
    OBVIOUS
  <2>4. k \in a .. a + n - 1 /\ k - a = p /\ (w = 0 \/ (k >= r - w /\ k <= r + w))
    BY <1>4, <1>6, <2>1, <2>3
  <2>5. k \in K
    BY <1>7, <2>4
  <2>6. T[k] = Token(call, first + s, p, n)
    BY <1>5, <2>4
  <2> QED
    BY <2>3, <2>5, <2>6
<1>14. K \subseteq DOMAIN T
  BY <1>5, <1>7
<1>15. {T[j] : j \in K} = {Token(call, first + s, p, n) : p \in I}
  BY <1>12, <1>13
<1>16. \A p : [T[r] EXCEPT !.pos = p] = Token(call, first + s, p, n)
  BY <1>8
<1>17. {[T[r] EXCEPT !.pos = p] : p \in I} = {Token(call, first + s, p, n) : p \in I}
  BY <1>16
<1> QED
  BY <1>10, <1>14, <1>15, <1>17 DEF Gemma2SeenBy

\* The arrays that tell a kernel where the sequence of a row begins and ends.
Bounded(m, ls) ==
    \A s \in 0 .. Len(ls) - 1 : \A r \in Offsets(ls)[s] .. Offsets(ls)[s + 1] - 1 :
        m.lo[r] = Offsets(ls)[s] /\ m.hi[r] = Offsets(ls)[s + 1]

\* The sequences of two rows in order.
LEMMA BoundsRise ==
    ASSUME NEW T, NEW call, NEW first, NEW ls, Packs(T, call, first, ls), NEW m, Bounded(m, ls),
           NEW r \in DOMAIN T, NEW z \in DOMAIN T, r <= z
    PROVE  m.lo[r] \in Nat /\ m.hi[r] \in Nat /\ m.lo[z] \in Nat /\ m.hi[z] \in Nat
           /\ m.lo[r] <= m.lo[z] /\ m.hi[r] <= m.hi[z]
<1> DEFINE off == Offsets(ls)
<1>1. ls \in Seq(Nat)
  BY DEF Packs
<1>2. Totals(ls, off)
  BY <1>1, OffsetsAreTotals
<1>3. PICK s \in 0 .. Len(ls) - 1 : r \in off[s] .. off[s + 1] - 1
  BY RowsArePacked
<1>4. PICK t \in 0 .. Len(ls) - 1 : z \in off[t] .. off[t + 1] - 1
  BY RowsArePacked
<1>5. m.lo[r] = off[s] /\ m.hi[r] = off[s + 1] /\ m.lo[z] = off[t] /\ m.hi[z] = off[t + 1]
  BY <1>3, <1>4 DEF Bounded
<1> HIDE DEF off
<1>6. /\ Len(ls) \in Nat /\ s \in 0 .. Len(ls) /\ t \in 0 .. Len(ls)
      /\ s + 1 \in 0 .. Len(ls) /\ t + 1 \in 0 .. Len(ls)
  BY <1>1
<1>7. off[s] \in Nat /\ off[t] \in Nat /\ off[s + 1] \in Nat /\ off[t + 1] \in Nat
  BY <1>1, <1>2, <1>6, TotalsRise
<1>8. t < s => off[t + 1] <= off[s]
  <2>1. t < s => t + 1 \in 0 .. s
    BY <1>6
  <2> QED
    BY <1>1, <1>2, <1>6, <2>1, TotalsRise
<1>9. s <= t
  BY <1>3, <1>4, <1>6, <1>7, <1>8
<1>10. s \in 0 .. t /\ s + 1 \in 0 .. t + 1
  BY <1>6, <1>9
<1>11. off[s] <= off[t] /\ off[s + 1] <= off[t + 1]
  BY <1>1, <1>2, <1>6, <1>10, TotalsRise
<1> QED
  BY <1>5, <1>7, <1>11

\* A block of queries goes through the keys of each of them.
LEMMA Gemma2BlockSees ==
    ASSUME NEW T, NEW call, NEW first, NEW ls, Packs(T, call, first, ls), NEW l,
           NEW m, Bounded(m, ls), NEW arg,
           arg.tokens = Total(ls), arg.window = Gemma2!WindowOf(l), BlockOf[arg.kernel] \in Nat \ {0}
    PROVE  Gemma2Sees(Gemma2!BlockAttention(m, arg), T, l)
<1> DEFINE off == Offsets(ls)
           n == arg.tokens
           size == BlockOf[arg.kernel]
           block(q) == {r \in 0 .. n - 1 : r \div size = q \div size}
           keys == Gemma2!BlockAttention(m, arg)
           w == Gemma2!WindowOf(l)
<1>1. keys = [q \in 0 .. n - 1 |-> Gemma2!BlockKeys(m, arg, block(q)) \cap Gemma2!QueryKeys(m, arg, q)]
  BY DEF Gemma2!BlockAttention
<1>2. DOMAIN T = 0 .. n - 1 /\ ls \in Seq(Nat)
  BY DEF Packs
<1>3. n \in Nat
  <2>1. Totals(ls, Offsets(ls)) /\ Len(ls) \in 0 .. Len(ls)
    BY <1>2, OffsetsAreTotals
  <2> QED
    BY <1>2, <2>1, TotalsRise DEF Total
<1>4. w \in Nat /\ arg.window = w
  BY Gemma2WindowIsNat
<1> SUFFICES ASSUME NEW r \in 0 .. n - 1
             PROVE  r \in DOMAIN keys /\ Gemma2SeenBy(T, r, l, keys[r])
  BY <1>2 DEF Gemma2Sees
<1>5. PICK s \in 0 .. Len(ls) - 1 : r \in off[s] .. off[s + 1] - 1
  BY <1>2, RowsArePacked
<1>6. m.lo[r] = off[s] /\ m.hi[r] = off[s + 1]
  BY <1>5 DEF Bounded
<1> DEFINE K == {k \in off[s] .. off[s + 1] - 1 : w = 0 \/ (k >= r - w /\ k <= r + w)}
<1>7. Gemma2!QueryKeys(m, arg, r) = K
  BY <1>4, <1>6 DEF Gemma2!QueryKeys
<1>8. K \subseteq Gemma2!BlockKeys(m, arg, block(r))
  <2> DEFINE B == block(r)
  <2>1. B \subseteq 0 .. n /\ B \subseteq 0 .. n - 1 /\ r \in B
    BY <1>3
  <2> HIDE DEF B
  <2>2. PICK a, b : a = Min(B) /\ b = Max(B)
    OBVIOUS
  <2>3. a \in B /\ b \in B /\ a <= r /\ r <= b
    BY <1>3, <2>1, <2>2, LeastAndGreatest
  <2>4. a \in 0 .. n - 1 /\ b \in 0 .. n - 1
    BY <2>1, <2>3
  <2>5. /\ m.lo[a] \in Nat /\ m.lo[r] \in Nat /\ m.hi[r] \in Nat /\ m.hi[b] \in Nat
        /\ m.lo[a] <= m.lo[r] /\ m.hi[r] <= m.hi[b]
    BY <1>2, <2>3, <2>4, BoundsRise
  <2>6. Gemma2!Min(B) = a /\ Gemma2!Max(B) = b
    BY <2>2 DEF Gemma2!Min, Gemma2!Max, Min, Max
  <2>7. Gemma2!BlockKeys(m, arg, B) =
            {k \in m.lo[a] .. m.hi[b] - 1 : w = 0 \/ (k >= a - w /\ k <= b + w)}
    BY <1>4, <2>6 DEF Gemma2!BlockKeys
  <2>8. K = {k \in m.lo[r] .. m.hi[r] - 1 : w = 0 \/ (k >= r - w /\ k <= r + w)}
    BY <1>6
  <2> HIDE DEF K, n, w
  <2>9. \A k \in K : k \in m.lo[a] .. m.hi[b] - 1 /\ (w = 0 \/ (k >= a - w /\ k <= b + w))
    <3>1. PICK c, d, e, f : c = m.lo[a] /\ d = m.lo[r] /\ e = m.hi[r] /\ f = m.hi[b]
      OBVIOUS
    <3>2. c \in Nat /\ d \in Nat /\ e \in Nat /\ f \in Nat /\ c <= d /\ e <= f
      BY <2>5, <3>1
    <3> TAKE k \in K
    <3>3. k \in d .. e - 1 /\ (w = 0 \/ (k >= r - w /\ k <= r + w))
      BY <2>8, <3>1
    <3>4. a \in Int /\ b \in Int /\ r \in Int /\ w \in Nat /\ a <= r /\ r <= b
      BY <1>4, <2>3, <2>4
    <3>5. k \in c .. f - 1 /\ (w = 0 \/ (k >= a - w /\ k <= b + w))
      BY <3>2, <3>3, <3>4
    <3> QED
      BY <3>1, <3>5
  <2> QED
    BY <2>7, <2>9 DEF B
<1>9. r \in DOMAIN keys /\ keys[r] = K
  BY <1>1, <1>7, <1>8
<1>10. Gemma2SeenBy(T, r, l, K)
  <2>1. PICK J : J = K
    OBVIOUS
  <2>2. J = Gemma2Within(ls, s, r, l)
    BY <2>1 DEF Gemma2Within
  <2> HIDE DEF K, off, w, keys, block
  <2>3. Gemma2SeenBy(T, r, l, J)
    BY <1>5, <2>2, Gemma2WindowSeen DEF off
  <2> QED
    BY <2>1, <2>3
<1> QED
  BY <1>9, <1>10

\* A kernel for a single sequence needs no arrays.
LEMMA Gemma2SequenceSees ==
    ASSUME NEW T, NEW call, NEW first, NEW ls, Packs(T, call, first, ls), Len(ls) = 1, NEW l,
           NEW arg, arg.tokens = Total(ls), arg.window = Gemma2!WindowOf(l)
    PROVE  Gemma2Sees(Gemma2!SequenceKeys(arg), T, l)
<1> DEFINE off == Offsets(ls)
           keys == Gemma2!SequenceKeys(arg)
<1>1. DOMAIN T = 0 .. arg.tokens - 1 /\ ls \in Seq(Nat)
  BY DEF Packs
<1>2. Totals(ls, off)
  BY <1>1, OffsetsAreTotals
<1>3. PICK n, w : n = arg.tokens /\ w = arg.window
  OBVIOUS
<1>4. n = off[1] /\ off[0] = 0 /\ n \in Nat
  <2>1. 1 \in 0 .. Len(ls) /\ off[0] = 0
    BY <1>2, TotalsStep, <1>1
  <2> QED
    BY <1>1, <1>2, <1>3, <2>1, TotalsRise DEF Total
<1>5. w \in Nat /\ w = Gemma2!WindowOf(l)
  BY <1>3, Gemma2WindowIsNat
<1> SUFFICES ASSUME NEW r \in 0 .. n - 1
             PROVE  r \in DOMAIN keys /\ Gemma2SeenBy(T, r, l, keys[r])
  BY <1>1, <1>3 DEF Gemma2Sees
<1> DEFINE K == {k \in off[0] .. off[1] - 1 : w = 0 \/ (k >= r - w /\ k <= r + w)}
<1>6. r \in DOMAIN keys /\ keys[r] = K
  <2>1. /\ r \in DOMAIN keys
        /\ keys[r] = (IF w # 0 /\ r > w THEN r - w ELSE 0) .. (IF w # 0 /\ r + w + 1 < n THEN r + w + 1 ELSE n) - 1
    BY <1>3 DEF Gemma2!SequenceKeys
  <2> HIDE DEF keys
  <2>2. K = {k \in 0 .. n - 1 : w = 0 \/ (k >= r - w /\ k <= r + w)}
    BY <1>4
  <2> HIDE DEF K
  <2> QED
    BY <1>4, <1>5, <2>1, <2>2
<1>7. 0 \in 0 .. Len(ls) - 1 /\ r \in off[0] .. off[0 + 1] - 1
  BY <1>1, <1>4
<1>8. PICK s : s = 0
  OBVIOUS
<1>9. s \in 0 .. Len(ls) - 1 /\ r \in off[s] .. off[s + 1] - 1
  BY <1>7, <1>8
<1>10. K = {k \in off[s] .. off[s + 1] - 1 : w = 0 \/ (k >= r - w /\ k <= r + w)}
  BY <1>8
<1> HIDE DEF K
<1>11. Gemma2SeenBy(T, r, l, K)
  <2>1. PICK J : J = K
    OBVIOUS
  <2>2. J = Gemma2Within(ls, s, r, l)
    BY <1>5, <1>10, <2>1 DEF Gemma2Within
  <2> HIDE DEF off, keys
  <2>3. Gemma2SeenBy(T, r, l, J)
    BY <1>9, <2>2, Gemma2WindowSeen DEF off
  <2> QED
    BY <2>1, <2>3
<1> QED
  BY <1>6, <1>11

-----------------------------------------------------------------------------
(* EmbeddingGemma 2: the launches by name *)

\* w is m but for what the buffers S hold.
Leaves(m, w, S) == DOMAIN w = DOMAIN m /\ \A b \in DOMAIN m \ S : w[b] = m[b]

\* What two steps change, both change.
LEMMA LeavesBoth ==
    ASSUME NEW m, NEW w, NEW z, NEW R, NEW S, Leaves(m, w, R), Leaves(w, z, S)
    PROVE  Leaves(m, z, R \cup S)
BY DEF Leaves

\* More than what changes.
LEMMA LeavesMore ==
    ASSUME NEW m, NEW w, NEW R, NEW S, Leaves(m, w, R), R \subseteq S
    PROVE  Leaves(m, w, S)
BY DEF Leaves

\* A buffer that is left alone holds the quantity it held.
LEMMA CarriedOn ==
    ASSUME NEW m, NEW w, NEW S, Leaves(m, w, S), NEW b \in DOMAIN m \ S,
           NEW q, NEW l, NEW T, Carries(m, b, q, l, T)
    PROVE  Carries(w, b, q, l, T)
BY DEF Leaves, Carries, At

\* To compute a quantity changes one buffer.
LEMMA ComputesLeaves ==
    ASSUME NEW m, NEW w, NEW to, NEW q, NEW l, NEW T, Computes(m, w, to, q, l, T)
    PROVE  Leaves(m, w, {to}) /\ Carries(w, to, q, l, T)
BY DEF Computes, Keeps, Leaves

\* Weight f makes a quantity of another of the same layer; of two.
Gemma2Makes(f, q, made) ==
    /\ f # "convert" /\ f # "post_norm" /\ q # "ple" /\ q \in QuantityNames
    /\ \E S : Gemma2!RowMaps[f] = [from |-> <<S>>, to |-> made] /\ q \in S
Gemma2MakesOf(f, q, p, made) ==
    /\ f # "convert" /\ q # "ple" /\ q \in QuantityNames /\ p \in QuantityNames
    /\ Gemma2!RowMaps[f] = [from |-> <<{q}, {p}>>, to |-> made]

\* The weights that read one quantity of their layer.
LEMMA Gemma2MakesOne ==
    /\ Gemma2Makes("attn_norm", "x", "attn_in")
    /\ Gemma2Makes("qkv", "attn_in", "qkv_raw")
    /\ Gemma2Makes("attn_q", "attn_in", "q_raw")
    /\ Gemma2Makes("attn_k", "attn_in", "k_raw")
    /\ Gemma2Makes("attn_v", "attn_in", "v_raw")
    /\ Gemma2Makes("v_norm", "v_raw", "v")
    /\ Gemma2Makes("v_norm", "qkv_raw", "v")
    /\ Gemma2Makes("attn_output", "ctx", "attn_proj")
    /\ Gemma2Makes("ffn_norm", "mid", "ffn_in")
    /\ Gemma2Makes("upgate", "ffn_in", "up_gate")
    /\ Gemma2Makes("ffn_up", "ffn_in", "up")
    /\ Gemma2Makes("ffn_gate", "ffn_in", "gate")
    /\ Gemma2Makes("geglu", "up_gate", "act")
    /\ Gemma2Makes("ffn_down", "act", "down")
    /\ Gemma2Makes("inp_gate", "ffn_out", "gate_in")
    /\ Gemma2Makes("proj", "gated", "projected")
    /\ Gemma2Makes("per_layer_model_proj", "x", "ple_raw")
    /\ Gemma2Makes("per_layer_proj_norm", "ple_raw", "ple")
    /\ Gemma2Makes("output_norm", "x", "normed")
    /\ Gemma2Makes("output", "normed", "out")
<1>1. ASSUME NEW f, NEW q, NEW made, NEW S, Gemma2!RowMaps[f] = [from |-> <<S>>, to |-> made],
             q \in S, f # "convert", f # "post_norm", q # "ple", q \in QuantityNames
      PROVE  Gemma2Makes(f, q, made)
  BY <1>1 DEF Gemma2Makes
<1>2. \A q \in {"x", "attn_in", "v_raw", "qkv_raw", "ctx", "mid", "ffn_in", "up_gate", "act", "ffn_out", "gated",
                "ple_raw", "normed"} : q \in QuantityNames /\ q # "ple"
  BY DEF QuantityNames
<1>3. Gemma2Makes("attn_norm", "x", "attn_in")
  BY <1>1, <1>2, Gemma2Weights
<1>4. Gemma2Makes("qkv", "attn_in", "qkv_raw")
  BY <1>1, <1>2, Gemma2Weights
<1>5. Gemma2Makes("attn_q", "attn_in", "q_raw")
  BY <1>1, <1>2, Gemma2Weights
<1>6. Gemma2Makes("attn_k", "attn_in", "k_raw")
  BY <1>1, <1>2, Gemma2Weights
<1>7. Gemma2Makes("attn_v", "attn_in", "v_raw")
  BY <1>1, <1>2, Gemma2Weights
<1>8. Gemma2Makes("v_norm", "v_raw", "v") /\ Gemma2Makes("v_norm", "qkv_raw", "v")
  <2>1. PICK S : S = {"v_raw", "qkv_raw"}
    OBVIOUS
  <2>2. Gemma2!RowMaps["v_norm"] = [from |-> <<S>>, to |-> "v"]
    BY <2>1, Gemma2Weights
  <2>3. \A q \in S : Gemma2Makes("v_norm", q, "v")
    BY <1>1, <1>2, <2>1, <2>2
  <2> QED
    BY <2>1, <2>3
<1>9. Gemma2Makes("attn_output", "ctx", "attn_proj")
  BY <1>1, <1>2, Gemma2Weights
<1>10. Gemma2Makes("ffn_norm", "mid", "ffn_in")
  BY <1>1, <1>2, Gemma2Weights
<1>11. Gemma2Makes("upgate", "ffn_in", "up_gate")
  BY <1>1, <1>2, Gemma2Weights
<1>12. Gemma2Makes("ffn_up", "ffn_in", "up") /\ Gemma2Makes("ffn_gate", "ffn_in", "gate")
  BY <1>1, <1>2, Gemma2Weights
<1>13. Gemma2Makes("geglu", "up_gate", "act")
  BY <1>1, <1>2, Gemma2Weights
<1>14. Gemma2Makes("ffn_down", "act", "down")
  BY <1>1, <1>2, Gemma2Weights
<1>15. Gemma2Makes("inp_gate", "ffn_out", "gate_in")
  BY <1>1, <1>2, Gemma2Weights
<1>16. Gemma2Makes("proj", "gated", "projected")
  BY <1>1, <1>2, Gemma2Weights
<1>17. Gemma2Makes("per_layer_model_proj", "x", "ple_raw")
  BY <1>1, <1>2, Gemma2Weights
<1>18. Gemma2Makes("per_layer_proj_norm", "ple_raw", "ple")
  BY <1>1, <1>2, Gemma2Weights
<1>19. Gemma2Makes("output_norm", "x", "normed")
  BY <1>1, <1>2, Gemma2Weights
<1>20. Gemma2Makes("output", "normed", "out")
  BY <1>1, <1>2, Gemma2Weights
<1> QED
  BY <1>3, <1>4, <1>5, <1>6, <1>7, <1>8, <1>9, <1>10, <1>11, <1>12, <1>13, <1>14, <1>15, <1>16, <1>17, <1>18,
     <1>19, <1>20

\* The weights that read two.
LEMMA Gemma2MakesTwo ==
    /\ Gemma2MakesOf("post_attention_norm", "attn_proj", "x", "mid")
    /\ Gemma2MakesOf("gelu", "gate", "up", "act")
    /\ Gemma2MakesOf("post_ffw_norm", "down", "mid", "ffn_out")
    /\ Gemma2MakesOf("ple_gate", "gate_in", "ple", "gated")
    /\ Gemma2MakesOf("post_norm", "projected", "ffn_out", "x")
BY Gemma2Weights DEF Gemma2MakesOf, QuantityNames

\* A launch that computes one quantity of another.
LEMMA Gemma2Computes ==
    ASSUME NEW m, NEW from, NEW to \in DOMAIN m \ Settled, NEW T, Held(T), NEW rows, rows = DOMAIN T,
           NEW f, NEW q, NEW made, Gemma2Makes(f, q, made), NEW l \in Nat, Carries(m, from, q, l, T)
    PROVE  \E w : /\ Gemma2Takes(<<Gemma2!Map(f, l, <<from>>, to, rows)>>, m, w)
                  /\ Leaves(m, w, {to}) /\ Carries(w, to, made, l, T)
<1>1. PICK S : Gemma2!RowMaps[f] = [from |-> <<S>>, to |-> made] /\ q \in S
  BY DEF Gemma2Makes
<1>2. f # "convert" /\ f # "post_norm" /\ q \in QuantityNames /\ Gemma2!MadeIn(q, l) = l
  BY DEF Gemma2Makes, Gemma2!MadeIn
<1>3. Carries(m, from, q, Gemma2!MadeIn(q, l), T)
  BY <1>2
<1>4. PICK w : /\ Gemma2Takes(<<Gemma2!Map(f, l, <<from>>, to, rows)>>, m, w)
               /\ Computes(m, w, to, made, IF f = "post_norm" THEN l + 1 ELSE l, T)
  BY <1>1, <1>2, <1>3, Gemma2MapsOne
<1>5. Computes(m, w, to, made, l, T)
  BY <1>2, <1>4
<1> QED
  BY <1>4, <1>5, ComputesLeaves

\* Of two others.
LEMMA Gemma2Combines ==
    ASSUME NEW m, NEW a, NEW c, NEW to \in DOMAIN m \ Settled, NEW T, Held(T), NEW rows, rows = DOMAIN T,
           NEW f, NEW q, NEW p, NEW made, Gemma2MakesOf(f, q, p, made), NEW l \in Nat,
           NEW i, i = IF p = "ple" THEN 1 ELSE l, NEW k, k = IF f = "post_norm" THEN l + 1 ELSE l,
           Carries(m, a, q, l, T), Carries(m, c, p, i, T)
    PROVE  \E w : /\ Gemma2Takes(<<Gemma2!Map(f, l, <<a, c>>, to, rows)>>, m, w)
                  /\ Leaves(m, w, {to}) /\ Carries(w, to, made, k, T)
<1>1. /\ f # "convert" /\ q \in QuantityNames /\ p \in QuantityNames
      /\ Gemma2!RowMaps[f] = [from |-> <<{q}, {p}>>, to |-> made]
      /\ Gemma2!MadeIn(q, l) = l /\ Gemma2!MadeIn(p, l) = i
  BY DEF Gemma2MakesOf, Gemma2!MadeIn
<1>2. Carries(m, a, q, Gemma2!MadeIn(q, l), T) /\ Carries(m, c, p, Gemma2!MadeIn(p, l), T)
  BY <1>1
<1>3. PICK w : /\ Gemma2Takes(<<Gemma2!Map(f, l, <<a, c>>, to, rows)>>, m, w)
               /\ Computes(m, w, to, made, IF f = "post_norm" THEN l + 1 ELSE l, T)
  BY <1>1, <1>2, Gemma2MapsTwo
<1>4. Computes(m, w, to, made, k, T)
  BY <1>3
<1> QED
  BY <1>3, <1>4, ComputesLeaves

\* Some launches after others.
LEMMA Gemma2Then ==
    ASSUME NEW p, NEW q, NEW m, NEW w, NEW z, NEW R, NEW S,
           Gemma2Takes(p, m, w), Leaves(m, w, R), Gemma2Takes(q, w, z), Leaves(w, z, S)
    PROVE  Gemma2Takes(p \o q, m, z) /\ Leaves(m, z, R \cup S)
BY Gemma2TakesBoth, LeavesBoth

-----------------------------------------------------------------------------
(* The CPU: products, rotations, attention *)

\* The input of a product.
LEMMA Gemma2Quantizes ==
    ASSUME NEW o, NEW m, "xq" \in DOMAIN m, NEW from, NEW T, Held(T), NEW n, DOMAIN T = 0 .. n - 1,
           NEW q \in QuantityNames, NEW l \in Nat, Carries(m, from, q, l, T)
    PROVE  \E w : /\ Gemma2Takes(IF o.fast THEN <<Gemma2!Convert(from, "xq", 0 .. n - 1)>> ELSE <<>>, m, w)
                  /\ Leaves(m, w, {"xq"}) /\ Carries(w, IF o.fast THEN "xq" ELSE from, q, l, T)
<1>1. CASE o.fast
  <2>1. "xq" \notin Settled
    BY DEF Settled, Inputs
  <2>2. PICK w : Gemma2Takes(<<Gemma2!Convert(from, "xq", 0 .. n - 1)>>, m, w) /\ Computes(m, w, "xq", q, l, T)
    BY <2>1, Gemma2Converts
  <2> QED
    BY <1>1, <2>2, ComputesLeaves
<1>2. CASE ~o.fast
  <2>1. Gemma2Takes(<<>>, m, m) /\ Leaves(m, m, {"xq"})
    BY Gemma2TakesNone DEF Leaves
  <2> QED
    BY <1>2, <2>1
<1> QED
  BY <1>1, <1>2

\* A product with one weight.
LEMMA Gemma2Multiplies ==
    ASSUME NEW o, NEW m, "xq" \in DOMAIN m, NEW from, NEW to \in DOMAIN m \ Settled,
           NEW T, Held(T), NEW n, DOMAIN T = 0 .. n - 1,
           NEW f, NEW q, NEW made, Gemma2Makes(f, q, made), NEW l \in Nat, Carries(m, from, q, l, T)
    PROVE  \E w : /\ Gemma2Takes(Gemma2!Multiply(o, <<f>>, l, from, <<to>>, n), m, w)
                  /\ Leaves(m, w, {"xq", to}) /\ Carries(w, to, made, l, T)
<1> DEFINE head == IF o.fast THEN <<Gemma2!Convert(from, "xq", 0 .. n - 1)>> ELSE <<>>
           input == IF o.fast THEN "xq" ELSE from
           g == Gemma2!Map(f, l, <<input>>, to, 0 .. n - 1)
<1>1. Gemma2!Multiply(o, <<f>>, l, from, <<to>>, n) = head \o <<g>>
  <2>1. [i \in DOMAIN <<f>> |-> Gemma2!Map(<<f>>[i], l, <<input>>, <<to>>[i], 0 .. n - 1)] = <<g>>
    OBVIOUS
  <2> HIDE DEF head
  <2> QED
    BY <2>1 DEF Gemma2!Multiply, head
<1>2. q \in QuantityNames
  BY DEF Gemma2Makes
<1>3. PICK v : Gemma2Takes(head, m, v) /\ Leaves(m, v, {"xq"}) /\ Carries(v, input, q, l, T)
  BY <1>2, Gemma2Quantizes
<1> HIDE DEF head
<1>4. to \in DOMAIN v \ Settled
  BY <1>3 DEF Leaves
<1>5. PICK i : i = input
  OBVIOUS
<1>6. PICK w : Gemma2Takes(<<g>>, v, w) /\ Leaves(v, w, {to}) /\ Carries(w, to, made, l, T)
  <2>1. Carries(v, i, q, l, T)
    BY <1>3, <1>5
  <2> HIDE DEF input
  <2> QED
    BY <1>4, <1>5, <2>1, Gemma2Computes
<1> HIDE DEF g
<1>7. Gemma2Takes(head \o <<g>>, m, w) /\ Leaves(m, w, {"xq"} \cup {to})
  BY <1>3, <1>6, Gemma2Then
<1>8. {"xq"} \cup {to} = {"xq", to}
  OBVIOUS
<1> QED
  BY <1>1, <1>6, <1>7, <1>8

\* Two launches that compute quantities of the same buffer.
LEMMA Gemma2ComputesTwo ==
    ASSUME NEW m, NEW from, NEW s \in DOMAIN m \ Settled, NEW t \in DOMAIN m \ Settled, s # t, from # s,
           NEW T, Held(T), NEW rows, rows = DOMAIN T, from \in DOMAIN m,
           NEW f, NEW g, NEW q, NEW made, NEW done, Gemma2Makes(f, q, made), Gemma2Makes(g, q, done),
           NEW l \in Nat, Carries(m, from, q, l, T)
    PROVE  \E w : /\ Gemma2Takes(<<Gemma2!Map(f, l, <<from>>, s, rows), Gemma2!Map(g, l, <<from>>, t, rows)>>, m, w)
                  /\ Leaves(m, w, {s, t}) /\ Carries(w, s, made, l, T) /\ Carries(w, t, done, l, T)
<1> DEFINE a == Gemma2!Map(f, l, <<from>>, s, rows)
           b == Gemma2!Map(g, l, <<from>>, t, rows)
<1>1. PICK v : Gemma2Takes(<<a>>, m, v) /\ Leaves(m, v, {s}) /\ Carries(v, s, made, l, T)
  BY Gemma2Computes
<1>2. Carries(v, from, q, l, T)
  <2>1. from \in DOMAIN m \ {s}
    OBVIOUS
  <2> QED
    BY <1>1, <2>1, CarriedOn
<1>3. t \in DOMAIN v \ Settled /\ s \in DOMAIN v \ {t}
  BY <1>1 DEF Leaves
<1>4. PICK w : Gemma2Takes(<<b>>, v, w) /\ Leaves(v, w, {t}) /\ Carries(w, t, done, l, T)
  BY <1>2, <1>3, Gemma2Computes
<1>5. Carries(w, s, made, l, T)
  BY <1>1, <1>3, <1>4, CarriedOn
<1> HIDE DEF a, b
<1>6. Gemma2Takes(<<a>> \o <<b>>, m, w) /\ Leaves(m, w, {s} \cup {t})
  BY <1>1, <1>4, Gemma2Then
<1>7. {s} \cup {t} = {s, t} /\ <<a>> \o <<b>> = <<a, b>>
  BY TuplesJoin
<1> QED
  BY <1>4, <1>5, <1>6, <1>7 DEF a, b

\* A product with two weights.
LEMMA Gemma2MultipliesTwo ==
    ASSUME NEW o, NEW m, "xq" \in DOMAIN m, NEW from \in DOMAIN m,
           NEW s \in DOMAIN m \ Settled, NEW t \in DOMAIN m \ Settled, s # t, from # s, s # "xq",
           NEW T, Held(T), NEW n, DOMAIN T = 0 .. n - 1,
           NEW f, NEW g, NEW q, NEW made, NEW done, Gemma2Makes(f, q, made), Gemma2Makes(g, q, done),
           NEW l \in Nat, Carries(m, from, q, l, T)
    PROVE  \E w : /\ Gemma2Takes(Gemma2!Multiply(o, <<f, g>>, l, from, <<s, t>>, n), m, w)
                  /\ Leaves(m, w, {"xq", s, t}) /\ Carries(w, s, made, l, T) /\ Carries(w, t, done, l, T)
<1> DEFINE head == IF o.fast THEN <<Gemma2!Convert(from, "xq", 0 .. n - 1)>> ELSE <<>>
           input == IF o.fast THEN "xq" ELSE from
           both == <<Gemma2!Map(f, l, <<input>>, s, 0 .. n - 1), Gemma2!Map(g, l, <<input>>, t, 0 .. n - 1)>>
<1>1. Gemma2!Multiply(o, <<f, g>>, l, from, <<s, t>>, n) = head \o both
  <2>1. [i \in DOMAIN <<f, g>> |-> Gemma2!Map(<<f, g>>[i], l, <<input>>, <<s, t>>[i], 0 .. n - 1)] = both
    OBVIOUS
  <2> HIDE DEF head, both
  <2> QED
    BY <2>1 DEF Gemma2!Multiply, head
<1>2. q \in QuantityNames
  BY DEF Gemma2Makes
<1>3. PICK v : Gemma2Takes(head, m, v) /\ Leaves(m, v, {"xq"}) /\ Carries(v, input, q, l, T)
  BY <1>2, Gemma2Quantizes
<1> HIDE DEF head
<1>4. s \in DOMAIN v \ Settled /\ t \in DOMAIN v \ Settled
  BY <1>3 DEF Leaves
<1>5. PICK i : i = input /\ i # s /\ i \in DOMAIN v
  BY <1>3 DEF Leaves
<1>6. PICK w : /\ Gemma2Takes(both, v, w) /\ Leaves(v, w, {s, t})
               /\ Carries(w, s, made, l, T) /\ Carries(w, t, done, l, T)
  <2>1. Carries(v, i, q, l, T)
    BY <1>3, <1>5
  <2> HIDE DEF input
  <2> QED
    BY <1>4, <1>5, <2>1, Gemma2ComputesTwo
<1> HIDE DEF both
<1>7. Gemma2Takes(head \o both, m, w) /\ Leaves(m, w, {"xq"} \cup {s, t})
  BY <1>3, <1>6, Gemma2Then
<1>8. {"xq"} \cup {s, t} = {"xq", s, t}
  OBVIOUS
<1> QED
  BY <1>1, <1>6, <1>7, <1>8

\* The product with q, k and v.
LEMMA Gemma2MultipliesQkv ==
    ASSUME NEW o, NEW m, "xq" \in DOMAIN m, "h" \in DOMAIN m, {"q", "k", "v"} \subseteq DOMAIN m,
           NEW T, Held(T), NEW n, DOMAIN T = 0 .. n - 1, NEW l \in Nat, Carries(m, "h", "attn_in", l, T)
    PROVE  \E w : /\ Gemma2Takes(Gemma2!Multiply(o, <<"attn_q", "attn_k", "attn_v">>, l, "h", <<"q", "k", "v">>, n), m, w)
                  /\ Leaves(m, w, {"xq", "q", "k", "v"})
                  /\ Carries(w, "q", "q_raw", l, T) /\ Carries(w, "k", "k_raw", l, T) /\ Carries(w, "v", "v_raw", l, T)
<1> DEFINE head == IF o.fast THEN <<Gemma2!Convert("h", "xq", 0 .. n - 1)>> ELSE <<>>
           input == IF o.fast THEN "xq" ELSE "h"
           a == Gemma2!Map("attn_q", l, <<input>>, "q", 0 .. n - 1)
           b == Gemma2!Map("attn_k", l, <<input>>, "k", 0 .. n - 1)
           c == Gemma2!Map("attn_v", l, <<input>>, "v", 0 .. n - 1)
<1>1. Gemma2!Multiply(o, <<"attn_q", "attn_k", "attn_v">>, l, "h", <<"q", "k", "v">>, n) = head \o <<a, b, c>>
  <2> DEFINE f == <<"attn_q", "attn_k", "attn_v">>
             t == <<"q", "k", "v">>
  <2>1. [i \in DOMAIN f |-> Gemma2!Map(f[i], l, <<input>>, t[i], 0 .. n - 1)] = <<a, b, c>>
    OBVIOUS
  <2> HIDE DEF head, a, b, c
  <2> QED
    BY <2>1 DEF Gemma2!Multiply, head
<1>2. "attn_in" \in QuantityNames
  BY DEF QuantityNames
<1>3. PICK v : Gemma2Takes(head, m, v) /\ Leaves(m, v, {"xq"}) /\ Carries(v, input, "attn_in", l, T)
  BY <1>2, Gemma2Quantizes
<1> HIDE DEF head
<1>4. "q" \notin Settled /\ "k" \notin Settled /\ "v" \notin Settled
  BY DEF Settled, Inputs
<1>5. PICK i : i = input /\ i \notin {"q", "k", "v"} /\ i \in DOMAIN v
  BY <1>3 DEF Leaves
<1>6. "q" \in DOMAIN v \ Settled /\ "k" \in DOMAIN v \ Settled /\ "v" \in DOMAIN v \ Settled /\ Carries(v, i, "attn_in", l, T)
  BY <1>3, <1>4, <1>5 DEF Leaves
<1> HIDE DEF input
<1>7. PICK u : /\ Gemma2Takes(<<a, b>>, v, u) /\ Leaves(v, u, {"q", "k"})
               /\ Carries(u, "q", "q_raw", l, T) /\ Carries(u, "k", "k_raw", l, T)
  BY <1>5, <1>6, Gemma2ComputesTwo, Gemma2MakesOne
<1>8. Carries(u, i, "attn_in", l, T) /\ "v" \in DOMAIN u \ Settled
  <2>1. i \in DOMAIN v \ {"q", "k"}
    BY <1>5
  <2> QED
    BY <1>6, <1>7, <2>1, CarriedOn DEF Leaves
<1>9. PICK w : Gemma2Takes(<<c>>, u, w) /\ Leaves(u, w, {"v"}) /\ Carries(w, "v", "v_raw", l, T)
  BY <1>5, <1>8, Gemma2Computes, Gemma2MakesOne
<1>10. Carries(w, "q", "q_raw", l, T) /\ Carries(w, "k", "k_raw", l, T)
  <2>1. "q" \in DOMAIN u \ {"v"} /\ "k" \in DOMAIN u \ {"v"}
    BY <1>6, <1>7 DEF Leaves
  <2> QED
    BY <1>7, <1>9, <2>1, CarriedOn
<1> HIDE DEF a, b, c
<1>11. Gemma2Takes(<<a, b>> \o <<c>>, v, w) /\ Leaves(v, w, {"q", "k"} \cup {"v"})
  BY <1>7, <1>9, Gemma2Then
<1>12. PICK abc : abc = <<a, b, c>> /\ Gemma2Takes(abc, v, w)
  <2>1. <<a, b, c>> = <<a, b>> \o <<c>>
    BY TuplesJoin
  <2> QED
    BY <1>11, <2>1
<1>13. Gemma2Takes(head \o abc, m, w) /\ Leaves(m, w, {"xq"} \cup ({"q", "k"} \cup {"v"}))
  <2>1. PICK S : S = {"q", "k"} \cup {"v"} /\ Leaves(v, w, S)
    BY <1>11
  <2>2. Gemma2Takes(head \o abc, m, w) /\ Leaves(m, w, {"xq"} \cup S)
    BY <1>3, <1>12, <2>1, Gemma2Then
  <2> QED
    BY <2>1, <2>2
<1>14. {"xq"} \cup ({"q", "k"} \cup {"v"}) = {"xq", "q", "k", "v"}
  OBVIOUS
<1> QED
  BY <1>1, <1>9, <1>10, <1>12, <1>13, <1>14

\* Rotations of q and k, the norm of v.
LEMMA Gemma2QkvPosts ==
    ASSUME NEW o, NEW m, {"q", "k", "v"} \subseteq DOMAIN m,
           NEW T, Held(T), NEW n, DOMAIN T = 0 .. n - 1, NEW l \in Nat,
           Carries(m, "q", "q_raw", l, T), Carries(m, "k", "k_raw", l, T), Carries(m, "v", "v_raw", l, T),
           IF o.fast THEN "pos" \in DOMAIN m /\ Placed(m, "pos", T) ELSE Placed(m, "row", T)
    PROVE  \E w : /\ Gemma2Takes(Gemma2!QkvPost(o, l, n), m, w) /\ Leaves(m, w, {"q", "k", "v"})
                  /\ Carries(w, "q", "q", l, T) /\ Carries(w, "k", "k", l, T) /\ Carries(w, "v", "v", l, T)
<1> DEFINE at == IF o.fast THEN "pos" ELSE "row"
           a == Gemma2!RotateAt(at, "attn_q_norm", l, "q", "q", Gemma2!IsSwa(l), 0 .. n - 1)
           b == Gemma2!RotateAt(at, "attn_k_norm", l, "k", "k", Gemma2!IsSwa(l), 0 .. n - 1)
           c == Gemma2!Map("v_norm", l, <<"v">>, "v", 0 .. n - 1)
<1>1. Gemma2!QkvPost(o, l, n) = <<a, b>> \o <<c>>
  BY DEF Gemma2!QkvPost, Gemma2!Norm
<1>2. "q" \notin Settled /\ "k" \notin Settled /\ "v" \notin Settled
  BY DEF Settled, Inputs
<1>3. \A z \in {"q_raw", "k_raw"} : z \in QuantityNames
  BY DEF QuantityNames
<1>4. PICK i : i = at /\ Placed(m, i, T) /\ i \in {"pos", "row"} /\ (i = "pos" => "pos" \in DOMAIN m)
  OBVIOUS
<1>5. \A w : Leaves(m, w, {"q"}) => Placed(w, i, T)
  <2> TAKE w
  <2> HAVE Leaves(m, w, {"q"})
  <2>1. i = "pos" => "pos" \in DOMAIN m \ {"q"}
    BY <1>4
  <2>2. i = "pos" => w["pos"] = m["pos"]
    BY <2>1 DEF Leaves
  <2> QED
    BY <1>4, <2>2 DEF Placed, At
<1> HIDE DEF at
<1>6. PICK v : Gemma2Takes(<<a>>, m, v) /\ Leaves(m, v, {"q"}) /\ Carries(v, "q", "q", l, T)
  <2>1. PICK v : Gemma2Takes(<<a>>, m, v) /\ Computes(m, v, "q", "q", l, T)
    BY <1>2, <1>3, <1>4, Gemma2Rotates
  <2> QED
    BY <2>1, ComputesLeaves
<1>7. "k" \in DOMAIN v /\ "v" \in DOMAIN v /\ "q" \in DOMAIN v /\ Placed(v, i, T)
  BY <1>5, <1>6 DEF Leaves
<1>8. Carries(v, "k", "k_raw", l, T) /\ Carries(v, "v", "v_raw", l, T)
  <2>1. "k" \in DOMAIN m \ {"q"} /\ "v" \in DOMAIN m \ {"q"}
    OBVIOUS
  <2> QED
    BY <1>6, <2>1, CarriedOn
<1>9. PICK u : Gemma2Takes(<<b>>, v, u) /\ Leaves(v, u, {"k"}) /\ Carries(u, "k", "k", l, T)
  <2>1. PICK u : Gemma2Takes(<<b>>, v, u) /\ Computes(v, u, "k", "k", l, T)
    BY <1>2, <1>3, <1>4, <1>7, <1>8, Gemma2Rotates
  <2> QED
    BY <2>1, ComputesLeaves
<1>10. Carries(u, "q", "q", l, T) /\ Carries(u, "v", "v_raw", l, T) /\ DOMAIN u = DOMAIN v
  <2>1. "q" \in DOMAIN v \ {"k"} /\ "v" \in DOMAIN v \ {"k"}
    BY <1>7
  <2> QED
    BY <1>6, <1>8, <1>9, <2>1, CarriedOn DEF Leaves
<1>11. PICK w : Gemma2Takes(<<c>>, u, w) /\ Leaves(u, w, {"v"}) /\ Carries(w, "v", "v", l, T)
  <2>1. "v" \in DOMAIN u \ Settled
    BY <1>2, <1>7, <1>10
  <2> QED
    BY <1>10, <2>1, Gemma2Computes, Gemma2MakesOne
<1>12. Carries(w, "q", "q", l, T) /\ Carries(w, "k", "k", l, T)
  <2>1. "q" \in DOMAIN u \ {"v"} /\ "k" \in DOMAIN u \ {"v"}
    BY <1>7, <1>10
  <2> QED
    BY <1>9, <1>10, <1>11, <2>1, CarriedOn
<1> HIDE DEF a, b, c
<1>13. Gemma2Takes(<<a>> \o <<b>>, m, u) /\ Leaves(m, u, {"q"} \cup {"k"})
  BY <1>6, <1>9, Gemma2Then
<1>14. Gemma2Takes(<<a, b>>, m, u)
  BY <1>13, TuplesJoin
<1>15. Gemma2Takes(<<a, b>> \o <<c>>, m, w) /\ Leaves(m, w, ({"q"} \cup {"k"}) \cup {"v"})
  BY <1>11, <1>13, <1>14, Gemma2Then
<1>16. ({"q"} \cup {"k"}) \cup {"v"} = {"q", "k", "v"}
  OBVIOUS
<1> QED
  BY <1>1, <1>11, <1>12, <1>15, <1>16

\* Attention, of the rows of T.
LEMMA Gemma2AttendsOver ==
    ASSUME NEW m, NEW q, NEW k, NEW v, NEW to \in DOMAIN m \ Settled,
           NEW T, NEW call, NEW first, NEW ls, Packs(T, call, first, ls), Held(T), NEW n, n = Total(ls), NEW l \in Nat,
           Carries(m, q, "q", l, T), Carries(m, k, "k", l, T), Carries(m, v, "v", l, T),
           NEW kernel,
           \/ kernel = "sequence" /\ Len(ls) = 1
           \/ /\ kernel \in {"attention_kernel", "flash_mma_kernel", "attention_rows", "flash_tasks"}
              /\ Bounded(m, ls)
    PROVE  \E w : /\ Gemma2Takes(Gemma2!AttentionOver(kernel, l, q, k, v, to, n), m, w)
                  /\ Leaves(m, w, {to}) /\ Carries(w, to, "ctx", l, T)
<1>1. PICK arg : arg = [kernel |-> kernel, tokens |-> n, window |-> Gemma2!WindowOf(l)]
  OBVIOUS
<1>2. arg.kernel = kernel /\ arg.tokens = n /\ arg.window = Gemma2!WindowOf(l)
  BY <1>1
<1>3. PICK g : g = Gemma2!Attend(l, "block", q, k, v, to, arg) /\ g.arg = arg
  <2>1. PICK g : g = Gemma2!Attend(l, "block", q, k, v, to, arg)
    OBVIOUS
  <2>2. g.arg = arg
    BY <2>1 DEF Gemma2!Attend
  <2> QED
    BY <2>1, <2>2
<1>4. Gemma2Sees(Gemma2!KeysOf(m, g), T, l)
  <2>1. CASE kernel = "sequence" /\ Len(ls) = 1
    <3>1. Gemma2!KeysOf(m, g) = Gemma2!SequenceKeys(arg)
      BY <1>2, <1>3, <2>1 DEF Gemma2!KeysOf
    <3>2. Gemma2Sees(Gemma2!SequenceKeys(arg), T, l)
      BY <1>2, <2>1, Gemma2SequenceSees
    <3> QED
      BY <3>1, <3>2
  <2>2. CASE /\ kernel \in {"attention_kernel", "flash_mma_kernel", "attention_rows", "flash_tasks"}
             /\ Bounded(m, ls)
    <3>1. Gemma2!KeysOf(m, g) = Gemma2!BlockAttention(m, arg)
      BY <1>2, <1>3, <2>2 DEF Gemma2!KeysOf
    <3>2. BlockOf[arg.kernel] \in Nat \ {0}
      BY <1>2, <2>2, Gemma2Geometry
    <3>3. Gemma2Sees(Gemma2!BlockAttention(m, arg), T, l)
      BY <1>2, <2>2, <3>2, Gemma2BlockSees
    <3> QED
      BY <3>1, <3>3
  <2> QED
    BY <2>1, <2>2
<1>5. PICK w : Gemma2Takes(<<g>>, m, w) /\ Computes(m, w, to, "ctx", l, T)
  BY <1>3, <1>4, Gemma2Attends
<1>6. Gemma2!AttentionOver(kernel, l, q, k, v, to, n) = <<g>>
  BY <1>1, <1>3 DEF Gemma2!AttentionOver
<1> QED
  BY <1>5, <1>6, ComputesLeaves

-----------------------------------------------------------------------------
(* The CPU: a layer *)

\* What the kernels of a part find: the buffers, and where the sequences are.
Gemma2CpuReady(o, m, T, ls) ==
    /\ DOMAIN m = Gemma2Context \cup Gemma2Caller
    /\ IF o.fast THEN "pos" \in DOMAIN m /\ Bounded(m, ls) /\ Placed(m, "pos", T)
       ELSE Len(ls) = 1 /\ Placed(m, "row", T)

\* They leave that alone.
LEMMA CpuReadySteady ==
    ASSUME NEW o, NEW m, NEW w, NEW T, NEW ls, Gemma2CpuReady(o, m, T, ls), Steady(m, w)
    PROVE  Gemma2CpuReady(o, w, T, ls)
<1>1. DOMAIN w = DOMAIN m /\ w.lo = m.lo /\ w.hi = m.hi /\ w.pos = m.pos
  <2>1. {"lo", "hi", "pos"} \subseteq DOMAIN m \cap Settled
    BY DEF Gemma2CpuReady, Gemma2Context, Settled, Inputs
  <2> QED
    BY <2>1 DEF Steady
<1>2. Bounded(m, ls) => Bounded(w, ls)
  BY <1>1 DEF Bounded
<1>3. \A i \in {"pos", "row"} : Placed(m, i, T) => Placed(w, i, T)
  BY <1>1 DEF Placed, At
<1> QED
  BY <1>1, <1>2, <1>3 DEF Gemma2CpuReady

\* A layer on the CPU makes the next x of x, with either graph and any of its kernels.
LEMMA Gemma2CpuLayers ==
    ASSUME NEW o, NEW m, NEW T, NEW call, NEW first, NEW ls, Packs(T, call, first, ls),
           Gemma2CpuReady(o, m, T, ls), NEW n, n = Total(ls), NEW l \in Nat,
           Carries(m, "x", "x", l, T), Carries(m, "ple", "ple", 1, T)
    PROVE  \E w : /\ Gemma2Takes(Gemma2!CpuLayer(o, l, n), m, w)
                  /\ Carries(w, "x", "x", l + 1, T) /\ Carries(w, "ple", "ple", 1, T)
<1> DEFINE D == Gemma2Context \cup Gemma2Caller
           p1 == Gemma2!Norm("attn_norm", l, "x", "h", n)
           p2 == Gemma2!Multiply(o, <<"attn_q", "attn_k", "attn_v">>, l, "h", <<"q", "k", "v">>, n)
           p3 == Gemma2!QkvPost(o, l, n)
           p4 == Gemma2!AttentionOver(Gemma2!CpuKernel(o), l, "q", "k", "v", "a", n)
           p5 == Gemma2!Multiply(o, <<"attn_output">>, l, "a", <<"h">>, n)
           p6 == Gemma2!Residual("post_attention_norm", l, "h", n)
           p7 == Gemma2!Norm("ffn_norm", l, "x", "h", n)
           p8 == Gemma2!Multiply(o, <<"ffn_up", "ffn_gate">>, l, "h", <<"up", "gate">>, n)
           p9 == <<Gemma2!Map("gelu", l, <<"gate", "up">>, "gate", 0 .. n - 1)>>
           p10 == Gemma2!Multiply(o, <<"ffn_down">>, l, "gate", <<"h">>, n)
           p11 == Gemma2!Residual("post_ffw_norm", l, "h", n)
           p12 == Gemma2!Multiply(o, <<"inp_gate">>, l, "x", <<"h">>, n)
           p13 == <<Gemma2!Map("ple_gate", l, <<"h", "ple">>, "h", 0 .. n - 1)>>
           p14 == Gemma2!Multiply(o, <<"proj">>, l, "h", <<"a">>, n)
           p15 == Gemma2!Residual("post_norm", l, "a", n)
<1>0. /\ DOMAIN m = D /\ Gemma2CpuReady(o, m, T, ls)
      /\ Carries(m, "x", "x", l, T)
      /\ Carries(m, "ple", "ple", 1, T)
      /\ Held(T) /\ DOMAIN T = 0 .. n - 1 /\ n = Total(ls) /\ Packs(T, call, first, ls) /\ l \in Nat
  <2>1. Held(T)
    BY RowsArePacked DEF Held
  <2>2. DOMAIN T = 0 .. n - 1
    BY DEF Packs
  <2>3. DOMAIN m = D
    BY DEF Gemma2CpuReady
  <2> HIDE DEF D
  <2> QED
    BY <2>1, <2>2, <2>3
<1>1. /\ "x" \in D \ Settled
      /\ "h" \in D \ Settled
      /\ "q" \in D \ Settled
      /\ "k" \in D \ Settled
      /\ "v" \in D \ Settled
      /\ "a" \in D \ Settled
      /\ "up" \in D \ Settled
      /\ "gate" \in D \ Settled
      /\ "ple" \in D \ Settled
      /\ "xq" \in D \ Settled
  BY DEF D, Gemma2Context, Gemma2Caller, Settled, Inputs
<1> HIDE DEF D
<1>1a. PICK m1 : /\ Gemma2Takes(p1, m, m1) /\ Leaves(m, m1, {"h"})
                 /\ Carries(m1, "h", "attn_in", l, T)
  BY <1>0, <1>1, Gemma2Computes, Gemma2MakesOne DEF Gemma2!Norm, p1
<1> HIDE DEF p1
<1>1b. DOMAIN m1 = D /\ Carries(m1, "x", "x", l, T) /\ Carries(m1, "ple", "ple", 1, T)
  <2>1. "x" \in DOMAIN m \ {"h"} /\ "ple" \in DOMAIN m \ {"h"}
    BY <1>1, <1>0
  <2> QED
    BY <1>0, <1>1a, <2>1, CarriedOn DEF Leaves
<1>1c. Gemma2Takes(p1, m, m1) /\ Gemma2CpuReady(o, m1, T, ls)
  BY <1>0, <1>1a, CpuReadySteady DEF Gemma2Takes
<1>2a. PICK m2 : /\ Gemma2Takes(p2, m1, m2) /\ Leaves(m1, m2, {"xq", "q", "k", "v"})
                 /\ Carries(m2, "q", "q_raw", l, T) /\ Carries(m2, "k", "k_raw", l, T) /\ Carries(m2, "v", "v_raw", l, T)
  BY <1>0, <1>1, <1>1a, <1>1b, Gemma2MultipliesQkv DEF p2
<1> HIDE DEF p2
<1>2b. DOMAIN m2 = D /\ Carries(m2, "x", "x", l, T) /\ Carries(m2, "ple", "ple", 1, T) /\ Carries(m2, "h", "attn_in", l, T)
  <2>1. "x" \in DOMAIN m1 \ {"xq", "q", "k", "v"} /\ "ple" \in DOMAIN m1 \ {"xq", "q", "k", "v"} /\ "h" \in DOMAIN m1 \ {"xq", "q", "k", "v"}
    BY <1>1, <1>1b
  <2> QED
    BY <1>1a, <1>1b, <1>2a, <2>1, CarriedOn DEF Leaves
<1>2c. Gemma2Takes(p1 \o p2, m, m2) /\ Gemma2CpuReady(o, m2, T, ls)
  <2>1. Gemma2Takes(p1 \o p2, m, m2)
    BY <1>1c, <1>2a, Gemma2TakesBoth
  <2> QED
    BY <1>0, <2>1, CpuReadySteady DEF Gemma2Takes
<1>3a. PICK m3 : /\ Gemma2Takes(p3, m2, m3) /\ Leaves(m2, m3, {"q", "k", "v"})
                 /\ Carries(m3, "q", "q", l, T) /\ Carries(m3, "k", "k", l, T) /\ Carries(m3, "v", "v", l, T)
  BY <1>0, <1>1, <1>2a, <1>2b, <1>2c, Gemma2QkvPosts DEF p3, Gemma2CpuReady
<1> HIDE DEF p3
<1>3b. DOMAIN m3 = D /\ Carries(m3, "x", "x", l, T) /\ Carries(m3, "ple", "ple", 1, T) /\ Carries(m3, "h", "attn_in", l, T)
  <2>1. "x" \in DOMAIN m2 \ {"q", "k", "v"} /\ "ple" \in DOMAIN m2 \ {"q", "k", "v"} /\ "h" \in DOMAIN m2 \ {"q", "k", "v"}
    BY <1>1, <1>2b
  <2> QED
    BY <1>2b, <1>3a, <2>1, CarriedOn DEF Leaves
<1>3c. Gemma2Takes(p1 \o p2 \o p3, m, m3) /\ Gemma2CpuReady(o, m3, T, ls)
  <2>1. Gemma2Takes(p1 \o p2 \o p3, m, m3)
    BY <1>2c, <1>3a, Gemma2TakesBoth
  <2> QED
    BY <1>0, <2>1, CpuReadySteady DEF Gemma2Takes
<1>4a. PICK m4 : /\ Gemma2Takes(p4, m3, m4) /\ Leaves(m3, m4, {"a"})
                 /\ Carries(m4, "a", "ctx", l, T)
  BY <1>0, <1>1, <1>3a, <1>3b, <1>3c, Gemma2AttendsOver DEF p4, Gemma2CpuReady, Gemma2!CpuKernel
<1> HIDE DEF p4
<1>4b. DOMAIN m4 = D /\ Carries(m4, "x", "x", l, T) /\ Carries(m4, "ple", "ple", 1, T) /\ Carries(m4, "h", "attn_in", l, T)
  <2>1. "x" \in DOMAIN m3 \ {"a"} /\ "ple" \in DOMAIN m3 \ {"a"} /\ "h" \in DOMAIN m3 \ {"a"}
    BY <1>1, <1>3b
  <2> QED
    BY <1>3b, <1>4a, <2>1, CarriedOn DEF Leaves
<1>4c. Gemma2Takes(p1 \o p2 \o p3 \o p4, m, m4)
  BY <1>3c, <1>4a, Gemma2TakesBoth
<1>5a. PICK m5 : /\ Gemma2Takes(p5, m4, m5) /\ Leaves(m4, m5, {"xq", "h"})
                 /\ Carries(m5, "h", "attn_proj", l, T)
  BY <1>0, <1>1, <1>4a, <1>4b, Gemma2Multiplies, Gemma2MakesOne DEF p5
<1> HIDE DEF p5
<1>5b. DOMAIN m5 = D /\ Carries(m5, "x", "x", l, T) /\ Carries(m5, "ple", "ple", 1, T) /\ Carries(m5, "a", "ctx", l, T)
  <2>1. "x" \in DOMAIN m4 \ {"xq", "h"} /\ "ple" \in DOMAIN m4 \ {"xq", "h"} /\ "a" \in DOMAIN m4 \ {"xq", "h"}
    BY <1>1, <1>4b
  <2> QED
    BY <1>4a, <1>4b, <1>5a, <2>1, CarriedOn DEF Leaves
<1>5c. Gemma2Takes(p1 \o p2 \o p3 \o p4 \o p5, m, m5)
  BY <1>4c, <1>5a, Gemma2TakesBoth
<1>6a. PICK m6 : /\ Gemma2Takes(p6, m5, m6) /\ Leaves(m5, m6, {"x"})
                 /\ Carries(m6, "x", "mid", l, T)
  BY <1>0, <1>1, <1>5a, <1>5b, Gemma2Combines, Gemma2MakesTwo DEF Gemma2!Residual, p6
<1> HIDE DEF p6
<1>6b. DOMAIN m6 = D /\ Carries(m6, "ple", "ple", 1, T) /\ Carries(m6, "a", "ctx", l, T) /\ Carries(m6, "h", "attn_proj", l, T)
  <2>1. "ple" \in DOMAIN m5 \ {"x"} /\ "a" \in DOMAIN m5 \ {"x"} /\ "h" \in DOMAIN m5 \ {"x"}
    BY <1>1, <1>5b
  <2> QED
    BY <1>5a, <1>5b, <1>6a, <2>1, CarriedOn DEF Leaves
<1>6c. Gemma2Takes(p1 \o p2 \o p3 \o p4 \o p5 \o p6, m, m6)
  BY <1>5c, <1>6a, Gemma2TakesBoth
<1>7a. PICK m7 : /\ Gemma2Takes(p7, m6, m7) /\ Leaves(m6, m7, {"h"})
                 /\ Carries(m7, "h", "ffn_in", l, T)
  BY <1>0, <1>1, <1>6a, <1>6b, Gemma2Computes, Gemma2MakesOne DEF Gemma2!Norm, p7
<1> HIDE DEF p7
<1>7b. DOMAIN m7 = D /\ Carries(m7, "ple", "ple", 1, T) /\ Carries(m7, "a", "ctx", l, T) /\ Carries(m7, "x", "mid", l, T)
  <2>1. "ple" \in DOMAIN m6 \ {"h"} /\ "a" \in DOMAIN m6 \ {"h"} /\ "x" \in DOMAIN m6 \ {"h"}
    BY <1>1, <1>6b
  <2> QED
    BY <1>6a, <1>6b, <1>7a, <2>1, CarriedOn DEF Leaves
<1>7c. Gemma2Takes(p1 \o p2 \o p3 \o p4 \o p5 \o p6 \o p7, m, m7)
  BY <1>6c, <1>7a, Gemma2TakesBoth
<1>8a. PICK m8 : /\ Gemma2Takes(p8, m7, m8) /\ Leaves(m7, m8, {"xq", "up", "gate"})
                 /\ Carries(m8, "up", "up", l, T) /\ Carries(m8, "gate", "gate", l, T)
  BY <1>0, <1>1, <1>7a, <1>7b, Gemma2MultipliesTwo, Gemma2MakesOne DEF p8
<1> HIDE DEF p8
<1>8b. DOMAIN m8 = D /\ Carries(m8, "ple", "ple", 1, T) /\ Carries(m8, "a", "ctx", l, T) /\ Carries(m8, "x", "mid", l, T) /\ Carries(m8, "h", "ffn_in", l, T)
  <2>1. "ple" \in DOMAIN m7 \ {"xq", "up", "gate"} /\ "a" \in DOMAIN m7 \ {"xq", "up", "gate"} /\ "x" \in DOMAIN m7 \ {"xq", "up", "gate"} /\ "h" \in DOMAIN m7 \ {"xq", "up", "gate"}
    BY <1>1, <1>7b
  <2> QED
    BY <1>7a, <1>7b, <1>8a, <2>1, CarriedOn DEF Leaves
<1>8c. Gemma2Takes(p1 \o p2 \o p3 \o p4 \o p5 \o p6 \o p7 \o p8, m, m8)
  BY <1>7c, <1>8a, Gemma2TakesBoth
<1>9a. PICK m9 : /\ Gemma2Takes(p9, m8, m9) /\ Leaves(m8, m9, {"gate"})
                 /\ Carries(m9, "gate", "act", l, T)
  BY <1>0, <1>1, <1>8a, <1>8b, Gemma2Combines, Gemma2MakesTwo DEF p9
<1> HIDE DEF p9
<1>9b. DOMAIN m9 = D /\ Carries(m9, "ple", "ple", 1, T) /\ Carries(m9, "a", "ctx", l, T) /\ Carries(m9, "x", "mid", l, T) /\ Carries(m9, "h", "ffn_in", l, T)
  <2>1. "ple" \in DOMAIN m8 \ {"gate"} /\ "a" \in DOMAIN m8 \ {"gate"} /\ "x" \in DOMAIN m8 \ {"gate"} /\ "h" \in DOMAIN m8 \ {"gate"}
    BY <1>1, <1>8b
  <2> QED
    BY <1>8b, <1>9a, <2>1, CarriedOn DEF Leaves
<1>9c. Gemma2Takes(p1 \o p2 \o p3 \o p4 \o p5 \o p6 \o p7 \o p8 \o p9, m, m9)
  BY <1>8c, <1>9a, Gemma2TakesBoth
<1>10a. PICK m10 : /\ Gemma2Takes(p10, m9, m10) /\ Leaves(m9, m10, {"xq", "h"})
                   /\ Carries(m10, "h", "down", l, T)
  BY <1>0, <1>1, <1>9a, <1>9b, Gemma2Multiplies, Gemma2MakesOne DEF p10
<1> HIDE DEF p10
<1>10b. DOMAIN m10 = D /\ Carries(m10, "ple", "ple", 1, T) /\ Carries(m10, "a", "ctx", l, T) /\ Carries(m10, "x", "mid", l, T)
  <2>1. "ple" \in DOMAIN m9 \ {"xq", "h"} /\ "a" \in DOMAIN m9 \ {"xq", "h"} /\ "x" \in DOMAIN m9 \ {"xq", "h"}
    BY <1>1, <1>9b
  <2> QED
    BY <1>10a, <1>9b, <2>1, CarriedOn DEF Leaves
<1>10c. Gemma2Takes(p1 \o p2 \o p3 \o p4 \o p5 \o p6 \o p7 \o p8 \o p9 \o p10, m, m10)
  BY <1>9c, <1>10a, Gemma2TakesBoth
<1>11a. PICK m11 : /\ Gemma2Takes(p11, m10, m11) /\ Leaves(m10, m11, {"x"})
                   /\ Carries(m11, "x", "ffn_out", l, T)
  BY <1>0, <1>1, <1>10a, <1>10b, Gemma2Combines, Gemma2MakesTwo DEF Gemma2!Residual, p11
<1> HIDE DEF p11
<1>11b. DOMAIN m11 = D /\ Carries(m11, "ple", "ple", 1, T) /\ Carries(m11, "a", "ctx", l, T) /\ Carries(m11, "h", "down", l, T)
  <2>1. "ple" \in DOMAIN m10 \ {"x"} /\ "a" \in DOMAIN m10 \ {"x"} /\ "h" \in DOMAIN m10 \ {"x"}
    BY <1>1, <1>10b
  <2> QED
    BY <1>10a, <1>10b, <1>11a, <2>1, CarriedOn DEF Leaves
<1>11c. Gemma2Takes(p1 \o p2 \o p3 \o p4 \o p5 \o p6 \o p7 \o p8 \o p9 \o p10 \o p11, m, m11)
  BY <1>10c, <1>11a, Gemma2TakesBoth
<1>12a. PICK m12 : /\ Gemma2Takes(p12, m11, m12) /\ Leaves(m11, m12, {"xq", "h"})
                   /\ Carries(m12, "h", "gate_in", l, T)
  BY <1>0, <1>1, <1>11a, <1>11b, Gemma2Multiplies, Gemma2MakesOne DEF p12
<1> HIDE DEF p12
<1>12b. DOMAIN m12 = D /\ Carries(m12, "ple", "ple", 1, T) /\ Carries(m12, "a", "ctx", l, T) /\ Carries(m12, "x", "ffn_out", l, T)
  <2>1. "ple" \in DOMAIN m11 \ {"xq", "h"} /\ "a" \in DOMAIN m11 \ {"xq", "h"} /\ "x" \in DOMAIN m11 \ {"xq", "h"}
    BY <1>1, <1>11b
  <2> QED
    BY <1>11a, <1>11b, <1>12a, <2>1, CarriedOn DEF Leaves
<1>12c. Gemma2Takes(p1 \o p2 \o p3 \o p4 \o p5 \o p6 \o p7 \o p8 \o p9 \o p10 \o p11 \o p12, m, m12)
  BY <1>11c, <1>12a, Gemma2TakesBoth
<1>13a. PICK m13 : /\ Gemma2Takes(p13, m12, m13) /\ Leaves(m12, m13, {"h"})
                   /\ Carries(m13, "h", "gated", l, T)
  BY <1>0, <1>1, <1>12a, <1>12b, Gemma2Combines, Gemma2MakesTwo DEF p13
<1> HIDE DEF p13
<1>13b. DOMAIN m13 = D /\ Carries(m13, "ple", "ple", 1, T) /\ Carries(m13, "a", "ctx", l, T) /\ Carries(m13, "x", "ffn_out", l, T)
  <2>1. "ple" \in DOMAIN m12 \ {"h"} /\ "a" \in DOMAIN m12 \ {"h"} /\ "x" \in DOMAIN m12 \ {"h"}
    BY <1>1, <1>12b
  <2> QED
    BY <1>12b, <1>13a, <2>1, CarriedOn DEF Leaves
<1>13c. Gemma2Takes(p1 \o p2 \o p3 \o p4 \o p5 \o p6 \o p7 \o p8 \o p9 \o p10 \o p11 \o p12 \o p13, m, m13)
  BY <1>12c, <1>13a, Gemma2TakesBoth
<1>14a. PICK m14 : /\ Gemma2Takes(p14, m13, m14) /\ Leaves(m13, m14, {"xq", "a"})
                   /\ Carries(m14, "a", "projected", l, T)
  BY <1>0, <1>1, <1>13a, <1>13b, Gemma2Multiplies, Gemma2MakesOne DEF p14
<1> HIDE DEF p14
<1>14b. DOMAIN m14 = D /\ Carries(m14, "ple", "ple", 1, T) /\ Carries(m14, "x", "ffn_out", l, T)
  <2>1. "ple" \in DOMAIN m13 \ {"xq", "a"} /\ "x" \in DOMAIN m13 \ {"xq", "a"}
    BY <1>1, <1>13b
  <2> QED
    BY <1>13b, <1>14a, <2>1, CarriedOn DEF Leaves
<1>14c. Gemma2Takes(p1 \o p2 \o p3 \o p4 \o p5 \o p6 \o p7 \o p8 \o p9 \o p10 \o p11 \o p12 \o p13 \o p14, m, m14)
  BY <1>13c, <1>14a, Gemma2TakesBoth
<1>15a. PICK m15 : /\ Gemma2Takes(p15, m14, m15) /\ Leaves(m14, m15, {"x"})
                   /\ Carries(m15, "x", "x", l + 1, T)
  BY <1>0, <1>1, <1>14a, <1>14b, Gemma2Combines, Gemma2MakesTwo DEF Gemma2!Residual, p15
<1> HIDE DEF p15
<1>15b. DOMAIN m15 = D /\ Carries(m15, "ple", "ple", 1, T)
  <2>1. "ple" \in DOMAIN m14 \ {"x"}
    BY <1>1, <1>14b
  <2> QED
    BY <1>14b, <1>15a, <2>1, CarriedOn DEF Leaves
<1>15c. Gemma2Takes(p1 \o p2 \o p3 \o p4 \o p5 \o p6 \o p7 \o p8 \o p9 \o p10 \o p11 \o p12 \o p13 \o p14 \o p15, m, m15)
  BY <1>14c, <1>15a, Gemma2TakesBoth
<1>2. Gemma2!CpuLayer(o, l, n) = p1 \o p2 \o p3 \o p4 \o p5 \o p6 \o p7 \o p8 \o p9 \o p10 \o p11 \o p12 \o p13 \o p14 \o p15
  BY DEF Gemma2!CpuLayer, p1, p2, p3, p4, p5, p6, p7, p8, p9, p10, p11, p12, p13, p14, p15
<1> QED
  BY <1>2, <1>15a, <1>15b, <1>15c

-----------------------------------------------------------------------------
(* The CPU: the embedding of the tokens, and the answers *)

\* The first launches.
LEMMA Gemma2CpuStarts ==
    ASSUME NEW m, NEW T, NEW from, Held(T), NEW n, DOMAIN T = 0 .. n - 1, Fed(m, from, T),
           "x" \in DOMAIN m, "ple" \in DOMAIN m
    PROVE  \E w : /\ Gemma2Takes(<<Gemma2!EmbedFrom(from, 0 .. n - 1)>>
                                 \o <<Gemma2!Map("per_layer_model_proj", 1, <<"x">>, "ple", 0 .. n - 1)>>
                                 \o Gemma2!Norm("per_layer_proj_norm", 1, "ple", "ple", n), m, w)
                  /\ Carries(w, "x", "x", 1, T) /\ Carries(w, "ple", "ple", 1, T)
<1> DEFINE p == <<Gemma2!EmbedFrom(from, 0 .. n - 1)>>
           q == <<Gemma2!Map("per_layer_model_proj", 1, <<"x">>, "ple", 0 .. n - 1)>>
           r == Gemma2!Norm("per_layer_proj_norm", 1, "ple", "ple", n)
<1>1. "x" \notin Settled /\ "ple" \notin Settled
  BY DEF Settled, Inputs
<1>2. PICK m1 : Gemma2Takes(p, m, m1) /\ Leaves(m, m1, {"x"}) /\ Carries(m1, "x", "x", 1, T)
  BY Gemma2Embeds, ComputesLeaves
<1>3. DOMAIN m1 = DOMAIN m
  BY <1>2 DEF Leaves
<1>4. PICK m2 : Gemma2Takes(q, m1, m2) /\ Leaves(m1, m2, {"ple"}) /\ Carries(m2, "ple", "ple_raw", 1, T)
  BY <1>1, <1>2, <1>3, Gemma2Computes, Gemma2MakesOne
<1>5. Carries(m2, "x", "x", 1, T) /\ DOMAIN m2 = DOMAIN m
  <2>1. "x" \in DOMAIN m1 \ {"ple"}
    BY <1>3
  <2> QED
    BY <1>2, <1>3, <1>4, <2>1, CarriedOn DEF Leaves
<1>6. PICK m3 : Gemma2Takes(r, m2, m3) /\ Leaves(m2, m3, {"ple"}) /\ Carries(m3, "ple", "ple", 1, T)
  BY <1>1, <1>4, <1>5, Gemma2Computes, Gemma2MakesOne DEF Gemma2!Norm
<1>7. Carries(m3, "x", "x", 1, T)
  <2>1. "x" \in DOMAIN m2 \ {"ple"}
    BY <1>5
  <2> QED
    BY <1>5, <1>6, <2>1, CarriedOn
<1> HIDE DEF p, q, r
<1>8. Gemma2Takes(p \o q, m, m2)
  BY <1>2, <1>4, Gemma2TakesBoth
<1>9. Gemma2Takes(p \o q \o r, m, m3)
  BY <1>6, <1>8, Gemma2TakesBoth
<1> QED
  BY <1>6, <1>7, <1>9 DEF p, q, r

\* w is m but for the answers to some sequences of a call, which are right in w.
Answers(m, w, b, call, first, ls) ==
    /\ DOMAIN w = DOMAIN m
    /\ \A s \in 0 .. Len(ls) - 1 : At(w, b, first + s) = Embedding(call, first + s, ls[s + 1])
    /\ \A r : (\A s \in 0 .. Len(ls) - 1 : r # first + s) => At(w, b, r) = At(m, b, r)

\* The means.
LEMMA Gemma2Means ==
    ASSUME NEW m, "result" \in DOMAIN m, NEW from, NEW T, NEW call, NEW first, NEW ls, Packs(T, call, first, ls),
           \A s \in DOMAIN ls : ls[s] # 0, Carries(m, from, "out", LayerCount + 1, T),
           NEW spans, spans = [s \in 0 .. Len(ls) - 1 |-> Offsets(ls)[s] .. Offsets(ls)[s + 1] - 1]
    PROVE  \E w : /\ Gemma2Fold!Leads(<<Gemma2!MeanPoolOf(from, spans, first)>>, m, w)
                  /\ Answers(m, w, "result", call, first, ls)
<1> DEFINE D == {first + i : i \in DOMAIN spans}
           F == Gemma2MeansOf(m, from, spans, first)
           g == Gemma2!MeanPoolOf(from, spans, first)
<1>1. PICK w : w = Gemma2!Execution!Run(m, g)
  OBVIOUS
<1>2. w = Write(m, "result", F)
  BY <1>1, Gemma2MeanRuns
<1> HIDE DEF F
<1>20. DOMAIN F = D /\ \A s \in D : F[s] = Gemma2!Pooled({At(m, from, r) : r \in spans[s - first]})
  BY DEF F, Gemma2MeansOf
<1>3. Gemma2Fold!Leads(<<g>>, m, w)
  BY <1>1, Gemma2Fold!LeadsOne
<1>4. first \in Nat /\ ls \in Seq(Nat) /\ DOMAIN spans = 0 .. Len(ls) - 1
  BY DEF Packs
<1>5. ASSUME NEW s \in 0 .. Len(ls) - 1
      PROVE  first + s \in DOMAIN F /\ F[first + s] = Embedding(call, first + s, ls[s + 1])
  <2>1. first + s \in D /\ first + s - first = s
    BY <1>4
  <2>2. spans[s] = Offsets(ls)[s] .. Offsets(ls)[s + 1] - 1
    OBVIOUS
  <2>3. ls[s + 1] # 0
    <3>1. s + 1 \in DOMAIN ls
      BY <1>4
    <3> QED
      BY <3>1
  <2>4. Gemma2!Pooled({At(m, from, r) : r \in Offsets(ls)[s] .. Offsets(ls)[s + 1] - 1}) =
            Embedding(call, first + s, ls[s + 1])
    BY <2>3, Gemma2PoolsOne
  <2>5. PICK t : t = first + s
    OBVIOUS
  <2> HIDE DEF D
  <2>6. t \in D /\ t - first = s
    <3>1. t \in D
      BY <2>1, <2>5
    <3>2. t - first = s
      BY <1>4, <2>5
    <3> QED
      BY <3>1, <3>2
  <2>7. t \in DOMAIN F /\ F[t] = Gemma2!Pooled({At(m, from, r) : r \in spans[s]})
    BY <1>20, <2>6
  <2> QED
    BY <2>2, <2>4, <2>5, <2>7
<1>6. \A r : (\A s \in 0 .. Len(ls) - 1 : r # first + s) => r \notin DOMAIN F
  BY <1>4, <1>20
<1>7. DOMAIN w = DOMAIN m
  BY <1>2, Written DEF Keeps
<1> HIDE DEF g
<1>8. /\ \A r \in DOMAIN F : At(w, "result", r) = F[r]
      /\ \A r : r \notin DOMAIN F => At(w, "result", r) = At(m, "result", r)
  BY <1>2, Written
<1>9. Answers(m, w, "result", call, first, ls)
  BY <1>5, <1>6, <1>7, <1>8 DEF Answers
<1> QED
  BY <1>3, <1>9 DEF g

\* The last launches.
LEMMA Gemma2CpuEnds ==
    ASSUME NEW o, NEW m, NEW T, NEW call, NEW first, NEW ls, Packs(T, call, first, ls),
           \A s \in DOMAIN ls : ls[s] # 0, DOMAIN m = Gemma2Context \cup Gemma2Caller, NEW n, n = Total(ls),
           Carries(m, "x", "x", LayerCount + 1, T),
           NEW spans, spans = [s \in 0 .. Len(ls) - 1 |-> Offsets(ls)[s] .. Offsets(ls)[s + 1] - 1]
    PROVE  \E w : /\ Gemma2Fold!Leads(Gemma2!CpuOutput(o, n) \o <<Gemma2!MeanPoolOf("a", spans, first)>>, m, w)
                  /\ Answers(m, w, "result", call, first, ls)
<1> DEFINE i == [o EXCEPT !.fast = @ /\ o.output_q8]
           p == Gemma2!Norm("output_norm", LayerCount + 1, "x", "h", n)
           q == Gemma2!Multiply(i, <<"output">>, LayerCount + 1, "h", <<"a">>, n)
           g == <<Gemma2!MeanPoolOf("a", spans, first)>>
<1>1. PICK k \in Nat : k = LayerCount + 1
  BY LayersAreCounted
<1>2. /\ "h" \in DOMAIN m \ Settled /\ "a" \in DOMAIN m \ Settled /\ "xq" \in DOMAIN m /\ "result" \in DOMAIN m
      /\ Held(T) /\ DOMAIN T = 0 .. n - 1
  <2>1. Held(T)
    BY RowsArePacked DEF Held
  <2>2. DOMAIN T = 0 .. n - 1
    BY DEF Packs
  <2>3. "h" \in DOMAIN m \ Settled /\ "a" \in DOMAIN m \ Settled /\ "xq" \in DOMAIN m /\ "result" \in DOMAIN m
    BY DEF Gemma2Context, Gemma2Caller, Settled, Inputs
  <2> QED
    BY <2>1, <2>2, <2>3
<1>3. PICK m1 : Gemma2Takes(p, m, m1) /\ Leaves(m, m1, {"h"}) /\ Carries(m1, "h", "normed", k, T)
  BY <1>1, <1>2, Gemma2Computes, Gemma2MakesOne DEF Gemma2!Norm
<1>4. DOMAIN m1 = DOMAIN m
  BY <1>3 DEF Leaves
<1> HIDE DEF i
<1>5. PICK m2 : Gemma2Takes(q, m1, m2) /\ Leaves(m1, m2, {"xq", "a"}) /\ Carries(m2, "a", "out", k, T)
  BY <1>1, <1>2, <1>3, <1>4, Gemma2Multiplies, Gemma2MakesOne
<1> HIDE DEF p, q
<1>6. Gemma2Takes(p \o q, m, m2)
  BY <1>3, <1>5, Gemma2TakesBoth
<1>7. PICK w : Gemma2Fold!Leads(g, m2, w) /\ Answers(m2, w, "result", call, first, ls)
  <2>1. "result" \in DOMAIN m2
    BY <1>2, <1>4, <1>5 DEF Leaves
  <2> QED
    BY <1>1, <1>5, <2>1, Gemma2Means
<1> HIDE DEF g
<1>8. Gemma2Fold!Leads(p \o q \o g, m, w)
  <2>1. Gemma2Fold!Leads(p \o q, m, m2)
    BY <1>6 DEF Gemma2Takes
  <2> QED
    BY <1>7, <2>1, Gemma2Fold!LeadsBoth
<1>9. Answers(m, w, "result", call, first, ls)
  <2>1. "result" \in DOMAIN m \cap Settled
    BY <1>2 DEF Settled
  <2>2. m2["result"] = m["result"] /\ DOMAIN m2 = DOMAIN m
    BY <1>6, <2>1 DEF Gemma2Takes, Steady
  <2>3. \A r : At(m2, "result", r) = At(m, "result", r)
    BY <2>2 DEF At
  <2> QED
    BY <1>7, <2>2, <2>3 DEF Answers
<1>10. Gemma2!CpuOutput(o, n) \o <<Gemma2!MeanPoolOf("a", spans, first)>> = p \o q \o g
  BY DEF Gemma2!CpuOutput, p, q, g, i
<1> QED
  BY <1>8, <1>9, <1>10

\* The launches of a stage, for the sequences ls of a call from its sequence `first' on.
LEMMA Gemma2CpuStage ==
    ASSUME NEW o, NEW m, NEW T, NEW call, NEW first, NEW ls, Packs(T, call, first, ls),
           \A s \in DOMAIN ls : ls[s] # 0, Gemma2CpuReady(o, m, T, ls),
           NEW b, b.tokens = Total(ls), b.batch = Len(ls), b.offsets = Offsets(ls), b.first = first,
           NEW l \in 0 .. LayerCount + 1, l = 0 => Fed(m, b.from, T),
           l # 0 => Carries(m, "x", "x", l, T), l \in Layers => Carries(m, "ple", "ple", 1, T)
    PROVE  \E w : /\ w = FoldLeft(Gemma2!Execution!Run, m, Gemma2!CpuEmbed(o, b, l))
                  /\ l # LayerCount + 1 =>
                         /\ Steady(m, w)
                         /\ Carries(w, "x", "x", l + 1, T) /\ Carries(w, "ple", "ple", 1, T)
                  /\ l = LayerCount + 1 => Answers(m, w, "result", call, first, ls)
<1>1. PICK n : n = b.tokens /\ n = Total(ls)
  OBVIOUS
<1>2. Held(T) /\ DOMAIN T = 0 .. n - 1
  <2>1. Held(T)
    BY RowsArePacked DEF Held
  <2> QED
    BY <1>1, <2>1 DEF Packs
<1>3. DOMAIN m = Gemma2Context \cup Gemma2Caller /\ "x" \in DOMAIN m /\ "ple" \in DOMAIN m
  BY DEF Gemma2CpuReady, Gemma2Context
<1>4. LayerCount \in Nat /\ Layers = 1 .. LayerCount /\ Gemma2!Layers = 1 .. LayerCount
  BY LayersAreCounted DEF Layers, Gemma2!Layers
<1>5. CASE l = 0
  <2>1. PICK p : p = <<Gemma2!EmbedFrom(b.from, 0 .. n - 1)>>
                     \o <<Gemma2!Map("per_layer_model_proj", 1, <<"x">>, "ple", 0 .. n - 1)>>
                     \o Gemma2!Norm("per_layer_proj_norm", 1, "ple", "ple", n)
    OBVIOUS
  <2>2. PICK w : Gemma2Takes(p, m, w) /\ Carries(w, "x", "x", 1, T) /\ Carries(w, "ple", "ple", 1, T)
    BY <1>2, <1>3, <1>5, <2>1, Gemma2CpuStarts
  <2>3. Gemma2!CpuEmbed(o, b, l) = p
    <3>1. l \notin Gemma2!Layers
      BY <1>4, <1>5
    <3> QED
      BY <1>1, <1>5, <2>1, <3>1 DEF Gemma2!CpuEmbed
  <2>4. w = FoldLeft(Gemma2!Execution!Run, m, p) /\ Steady(m, w)
    BY <2>2, Gemma2Folds DEF Gemma2Takes, Gemma2Fold!Leads
  <2>5. l + 1 = 1 /\ l # LayerCount + 1
    BY <1>4, <1>5
  <2> QED
    BY <2>2, <2>3, <2>4, <2>5
<1>6. CASE l \in Layers
  <2>1. l \in Nat /\ l # 0 /\ l # LayerCount + 1 /\ l \in Gemma2!Layers
    BY <1>4, <1>6
  <2>2. PICK p : p = Gemma2!CpuLayer(o, l, n)
    OBVIOUS
  <2>3. PICK w : Gemma2Takes(p, m, w) /\ Carries(w, "x", "x", l + 1, T) /\ Carries(w, "ple", "ple", 1, T)
    BY <1>1, <1>6, <2>1, <2>2, Gemma2CpuLayers
  <2>4. Gemma2!CpuEmbed(o, b, l) = p
    BY <1>1, <2>1, <2>2 DEF Gemma2!CpuEmbed
  <2>5. w = FoldLeft(Gemma2!Execution!Run, m, p) /\ Steady(m, w)
    BY <2>3, Gemma2Folds DEF Gemma2Takes, Gemma2Fold!Leads
  <2> QED
    BY <2>1, <2>3, <2>4, <2>5
<1>7. CASE l = LayerCount + 1
  <2>1. l # 0 /\ l \notin Gemma2!Layers /\ Carries(m, "x", "x", LayerCount + 1, T)
    BY <1>4, <1>7
  <2>2. PICK spans : /\ spans = [s \in 0 .. Len(ls) - 1 |-> Offsets(ls)[s] .. Offsets(ls)[s + 1] - 1]
                     /\ spans = [s \in 0 .. b.batch - 1 |-> b.offsets[s] .. b.offsets[s + 1] - 1]
    OBVIOUS
  <2>3. PICK p : p = Gemma2!CpuOutput(o, n) \o <<Gemma2!MeanPoolOf("a", spans, first)>>
    OBVIOUS
  <2>4. PICK w : Gemma2Fold!Leads(p, m, w) /\ Answers(m, w, "result", call, first, ls)
    BY <1>1, <1>3, <2>1, <2>2, <2>3, Gemma2CpuEnds
  <2>5. Gemma2!CpuEmbed(o, b, l) = p
    BY <1>1, <2>1, <2>2, <2>3 DEF Gemma2!CpuEmbed
  <2>6. w = FoldLeft(Gemma2!Execution!Run, m, p)
    BY <2>4, Gemma2Folds DEF Gemma2Fold!Leads
  <2> QED
    BY <1>7, <2>4, <2>5, <2>6
<1> QED
  BY <1>4, <1>5, <1>6, <1>7

-----------------------------------------------------------------------------
(* The parts of a call *)

\* What is left of a call when its first sequences are done: parts that follow each other.
Gemma2Left(parts, ls, done, from) ==
    /\ IsList(parts)
    /\ \E at \in [0 .. Len(parts) -> 0 .. Len(ls)] :
           /\ at[0] = done /\ at[Len(parts)] = Len(ls)
           /\ \A i \in 1 .. Len(parts) :
                  /\ at[i - 1] <= at[i]
                  /\ parts[i] = PartOf(SubSeq(ls, at[i - 1] + 1, at[i]), from, at[i - 1])

\* When no part is left, every sequence is done.
LEMMA NoneLeft ==
    ASSUME NEW ls, NEW done, NEW from, Gemma2Left(<<>>, ls, done, from)
    PROVE  done = Len(ls)
BY DEF Gemma2Left

\* The first part that is left takes the next sequences.
LEMMA SomeLeft ==
    ASSUME NEW parts, parts # <<>>, NEW ls \in Seq(Nat), NEW done, NEW from, Gemma2Left(parts, ls, done, from)
    PROVE  \E b \in 0 .. Len(ls) - done :
               /\ done \in 0 .. Len(ls)
               /\ parts[1] = PartOf(SubSeq(ls, done + 1, done + b), from, done)
               /\ Gemma2Left(Tail(parts), ls, done + b, from)
<1>1. PICK at \in [0 .. Len(parts) -> 0 .. Len(ls)] :
           /\ at[0] = done /\ at[Len(parts)] = Len(ls)
           /\ \A i \in 1 .. Len(parts) :
                  /\ at[i - 1] <= at[i]
                  /\ parts[i] = PartOf(SubSeq(ls, at[i - 1] + 1, at[i]), from, at[i - 1])
  BY DEF Gemma2Left
<1>2. PICK G : parts \in Seq(G)
  BY DEF Gemma2Left, IsList
<1>3. PICK n : n = Len(parts) /\ n \in Nat /\ n # 0
  BY <1>2
<1>4. /\ Tail(parts) \in Seq(G) /\ Len(Tail(parts)) = n - 1
      /\ \A i \in 1 .. n - 1 : Tail(parts)[i] = parts[i + 1]
  BY <1>2, <1>3, HeadTailProperties
<1>5. IsList(Tail(parts))
  BY <1>4, SequencesAreLists
<1> DEFINE to == [i \in 0 .. n - 1 |-> at[i + 1]]
           t == Tail(parts)
<1>6. to \in [0 .. n - 1 -> 0 .. Len(ls)]
  <2>1. \A i \in 0 .. n - 1 : i + 1 \in 0 .. n
    BY <1>3
  <2> QED
    BY <1>1, <1>3, <2>1
<1>7. to[0] = at[1] /\ to[n - 1] = Len(ls)
  <2>1. n - 1 \in 0 .. n - 1 /\ 0 \in 0 .. n - 1 /\ n - 1 + 1 = n /\ 0 + 1 = 1
    BY <1>3
  <2> QED
    BY <1>1, <1>3, <2>1
<1>8. ASSUME NEW i \in 1 .. n - 1
      PROVE  to[i - 1] <= to[i] /\ t[i] = PartOf(SubSeq(ls, to[i - 1] + 1, to[i]), from, to[i - 1])
  <2>1. PICK k : k = i + 1 /\ k \in 1 .. n /\ k - 1 = i
    BY <1>3
  <2>2. i - 1 \in 0 .. n - 1 /\ i \in 0 .. n - 1 /\ i - 1 + 1 = i
    BY <1>3
  <2>3. to[i - 1] = at[k - 1] /\ to[i] = at[k]
    BY <2>1, <2>2
  <2> HIDE DEF to
  <2>4. at[k - 1] <= at[k] /\ parts[k] = PartOf(SubSeq(ls, at[k - 1] + 1, at[k]), from, at[k - 1])
    BY <1>1, <1>3, <2>1
  <2>5. t[i] = parts[k]
    BY <1>4, <2>1
  <2> QED
    BY <2>3, <2>4, <2>5
<1> HIDE DEF to
<1>9. Gemma2Left(t, ls, at[1], from)
  BY <1>4, <1>5, <1>6, <1>7, <1>8 DEF Gemma2Left
<1>10. /\ done \in 0 .. Len(ls) /\ at[1] \in 0 .. Len(ls) /\ done <= at[1]
       /\ parts[1] = PartOf(SubSeq(ls, done + 1, at[1]), from, done)
  <2>1. 0 \in 0 .. Len(parts) /\ 1 \in 0 .. Len(parts) /\ 1 \in 1 .. Len(parts) /\ 1 - 1 = 0
    BY <1>3
  <2>2. PICK i : i = 1
    OBVIOUS
  <2>3. at[i - 1] <= at[i] /\ parts[i] = PartOf(SubSeq(ls, at[i - 1] + 1, at[i]), from, at[i - 1])
    BY <1>1, <2>1, <2>2
  <2>4. at[i - 1] = done
    BY <1>1, <2>1, <2>2
  <2> QED
    BY <1>1, <2>1, <2>2, <2>3, <2>4
<1>11. PICK b : b = at[1] - done
  OBVIOUS
<1>12. b \in 0 .. Len(ls) - done /\ done + b = at[1]
  BY <1>10, <1>11
<1> QED
  BY <1>9, <1>10, <1>12

\* A call as a whole.
LEMMA WholeLeft ==
    ASSUME NEW ls \in Seq(Nat), NEW from
    PROVE  Gemma2Left(<<PartOf(ls, from, 0)>>, ls, 0, from)
<1>1. PICK parts : parts = <<PartOf(ls, from, 0)>>
  OBVIOUS
<1>2. IsList(parts) /\ Len(parts) = 1 /\ parts[1] = PartOf(ls, from, 0)
  <2>1. parts \in Seq({PartOf(ls, from, 0)})
    BY <1>1
  <2> QED
    BY <1>1, <2>1, SequencesAreLists
<1>3. Len(ls) \in Nat /\ SubSeq(ls, 1, Len(ls)) = ls
  OBVIOUS
<1>4. PICK at : at = [i \in 0 .. 1 |-> IF i = 0 THEN 0 ELSE Len(ls)]
  OBVIOUS
<1>5. at \in [0 .. 1 -> 0 .. Len(ls)] /\ at[0] = 0 /\ at[1] = Len(ls)
  BY <1>3, <1>4
<1>6. ASSUME NEW i \in 1 .. 1
      PROVE  at[i - 1] <= at[i] /\ parts[i] = PartOf(SubSeq(ls, at[i - 1] + 1, at[i]), from, at[i - 1])
  <2>1. PICK a, e : a = at[i - 1] /\ e = at[i]
    OBVIOUS
  <2>2. i = 1 /\ i - 1 = 0
    OBVIOUS
  <2>3. a = 0 /\ e = Len(ls) /\ a <= e /\ a + 1 = 1
    BY <1>3, <1>5, <2>1, <2>2
  <2>4. SubSeq(ls, a + 1, e) = ls
    BY <1>3, <2>3
  <2> QED
    BY <1>2, <2>1, <2>2, <2>3, <2>4
<1>7. Gemma2Left(parts, ls, 0, from)
  BY <1>2, <1>5, <1>6 DEF Gemma2Left
<1> QED
  BY <1>1, <1>7

\* Its sequences one by one.
LEMMA EachLeft ==
    ASSUME NEW ls \in Seq(Nat), NEW from,
           NEW parts, parts = [s \in DOMAIN ls |-> PartOf(<<ls[s]>>, from, s - 1)]
    PROVE  Gemma2Left(parts, ls, 0, from) /\ \A i \in DOMAIN parts : parts[i].batch = 1
<1>1. PICK n : n = Len(ls) /\ n \in Nat /\ DOMAIN ls = 1 .. n
  OBVIOUS
<1>2. IsList(parts) /\ Len(parts) = n /\ DOMAIN parts = 1 .. n
  <2>1. PICK G : G = {parts[s] : s \in 1 .. n}
    OBVIOUS
  <2>2. parts \in [1 .. n -> G]
    BY <1>1, <2>1
  <2>3. parts \in Seq(G)
    BY <1>1, <2>2, SeqDef
  <2>4. Len(parts) = n /\ DOMAIN parts = 1 .. n
    BY <1>1, <2>2, <2>3
  <2> QED
    BY <2>3, <2>4, SequencesAreLists
<1>3. PICK at : at = [i \in 0 .. n |-> i]
  OBVIOUS
<1>4. at \in [0 .. n -> 0 .. n] /\ at[0] = 0 /\ at[n] = n /\ \A i \in 0 .. n : at[i] = i
  BY <1>1, <1>3
<1>5. ASSUME NEW i \in 1 .. n
      PROVE  at[i - 1] <= at[i] /\ parts[i] = PartOf(SubSeq(ls, at[i - 1] + 1, at[i]), from, at[i - 1])
  <2>1. i - 1 \in 0 .. n /\ i \in 0 .. n /\ i - 1 + 1 = i /\ i - 1 <= i
    BY <1>1
  <2>2. SubSeq(ls, i, i) = <<ls[i]>>
    <3>1. PICK t : t = SubSeq(ls, i, i)
      OBVIOUS
    <3>2. i \in Nat /\ i \in 1 .. Len(ls) /\ ls[i] \in Nat
      BY <1>1
    <3>3. t \in Seq(Nat) /\ Len(t) = 1 /\ t[1] = ls[i]
      <4>1. \A j \in i .. i : ls[j] \in Nat
        BY <3>2
      <4>2. /\ SubSeq(ls, i, i) \in Seq(Nat)
            /\ Len(SubSeq(ls, i, i)) = IF i <= i THEN i - i + 1 ELSE 0
            /\ \A j \in 1 .. i - i + 1 : SubSeq(ls, i, i)[j] = ls[i + j - 1]
        BY <3>2, <4>1, SubSeqProperties
      <4>3. i - i + 1 = 1 /\ i <= i /\ i + 1 - 1 = i /\ 1 \in 1 .. 1
        BY <3>2
      <4> QED
        BY <3>1, <4>2, <4>3
    <3>4. PICK u : u = <<ls[i]>>
      OBVIOUS
    <3>5. u \in Seq(Nat) /\ Len(u) = 1 /\ u[1] = ls[i]
      BY <3>2, <3>4
    <3>6. t = u
      BY <3>3, <3>5, SeqEqual
    <3> QED
      BY <3>1, <3>4, <3>6
  <2>3. parts[i] = PartOf(<<ls[i]>>, from, i - 1)
    BY <1>1
  <2>4. at[i - 1] = i - 1 /\ at[i] = i
    BY <1>4, <2>1
  <2> QED
    BY <2>1, <2>2, <2>3, <2>4
<1>6. Gemma2Left(parts, ls, 0, from)
  BY <1>1, <1>2, <1>4, <1>5 DEF Gemma2Left
<1>7. \A i \in DOMAIN parts : parts[i].batch = 1
  BY <1>1, <1>2 DEF PartOf
<1> QED
  BY <1>6, <1>7

-----------------------------------------------------------------------------
(* EmbeddingGemma 2: a call, and its present part *)

\* The first sequences of a call are answered.
Answered(m, call, ls, done) == \A s \in 0 .. done - 1 : At(m, "result", s) = Embedding(call, s, ls[s + 1])

\* What is left of the call, and what is done.
Gemma2Due(parts, m, done, from) ==
    /\ from \in {"ids", "inputs"}
    /\ Gemma2Left(parts, lens, done, from)
    /\ Answered(m, calls, lens, done)

\* A call that runs.
Gemma2Call ==
    /\ lens \in Seq(Nat) /\ Valid(lens)
    /\ run = [parts |-> run.parts, executable |-> run.executable]
    /\ \E done, from : Gemma2Due(run.parts, mem, done, from)

\* The present part: b sequences from `done' on.
Gemma2PartIs(done, b, from) ==
    /\ PartLens = SubSeq(lens, done + 1, done + b) /\ Len(PartLens) = b
    /\ \A s \in DOMAIN PartLens : PartLens[s] # 0
    /\ \A s \in 0 .. b - 1 : PartLens[s + 1] = lens[done + s + 1]
    /\ run.parts[1] = PartOf(PartLens, from, done)
    /\ Packs(PartTokens, calls, done, PartLens)
    /\ Gemma2Due(run.parts, mem, done, from)
    /\ Gemma2Left(Tail(run.parts), lens, done + b, from)
    /\ done \in Nat /\ b \in Nat

\* The present part of a call, and the tokens in its rows.
LEMMA Gemma2PartKnown ==
    ASSUME Gemma2Call, calls \in Nat, run.parts # <<>>
    PROVE  \E done, b, from : Gemma2PartIs(done, b, from)
<1>1. PICK done, from : Gemma2Due(run.parts, mem, done, from)
  BY DEF Gemma2Call
<1>2. PICK ls : ls = lens /\ ls \in Seq(Nat)
  BY DEF Gemma2Call
<1>3. PICK parts : parts = run.parts /\ parts # <<>>
  OBVIOUS
<1>4. Gemma2Left(parts, ls, done, from)
  BY <1>1, <1>2, <1>3 DEF Gemma2Due
<1>5. PICK b \in 0 .. Len(ls) - done :
           /\ done \in 0 .. Len(ls)
           /\ parts[1] = PartOf(SubSeq(ls, done + 1, done + b), from, done)
           /\ Gemma2Left(Tail(parts), ls, done + b, from)
  BY <1>2, <1>3, <1>4, SomeLeft
<1>6. PICK t : t = SubSeq(ls, done + 1, done + b)
  OBVIOUS
<1>7. /\ t \in Seq(Nat) /\ Len(t) = b
      /\ \A s \in 1 .. b : t[s] = ls[done + s]
      /\ Offsets(t) = [s \in 0 .. b |-> Offsets(ls)[done + s] - Offsets(ls)[done]]
  BY <1>2, <1>5, <1>6, OffsetsOfStretch
<1>8. /\ parts[1].first = done /\ parts[1].batch = b /\ parts[1].tokens = Total(t)
      /\ parts[1] = PartOf(t, from, done)
  BY <1>5, <1>6, <1>7 DEF PartOf
<1>9. PartLens = t
  BY <1>2, <1>3, <1>6, <1>8 DEF PartLens
<1>10. done \in Nat /\ b \in Nat /\ Len(ls) \in Nat
  BY <1>2, <1>5
<1>11. Total(t) = Offsets(ls)[done + b] - Offsets(ls)[done]
  <2>1. b \in 0 .. b
    BY <1>10
  <2> QED
    BY <1>7, <2>1 DEF Total
<1>12. Packs(PartTokens, calls, done, t)
  <2>1. PICK T : T = [r \in 0 .. Offsets(ls)[done + b] - Offsets(ls)[done] - 1 |->
                        TokenOf(calls, ls, Offsets(ls)[done] + r)]
    OBVIOUS
  <2>2. PartTokens = T
    BY <1>2, <1>3, <1>8, <1>11, <2>1 DEF PartTokens, PartRows, FirstRow
  <2>3. Packs(T, calls, done, SubSeq(ls, done + 1, done + b))
    BY <1>2, <1>5, <2>1, CallIsPacked
  <2> QED
    BY <1>6, <2>2, <2>3
<1>13. \A s \in 0 .. b - 1 : t[s + 1] = ls[done + s + 1]
  <2> SUFFICES ASSUME NEW s \in 0 .. b - 1 PROVE t[s + 1] = ls[done + s + 1]
    OBVIOUS
  <2>1. PICK i : i = s + 1 /\ i \in 1 .. b /\ done + i = done + s + 1
    BY <1>10
  <2> QED
    BY <1>7, <2>1
<1>14. \A s \in DOMAIN t : t[s] # 0
  <2>1. \A s \in DOMAIN ls : ls[s] # 0
    BY <1>2 DEF Gemma2Call, Valid
  <2>2. DOMAIN t = 1 .. b /\ DOMAIN ls = 1 .. Len(ls)
    BY <1>2, <1>7
  <2>3. \A s \in 1 .. b : done + s \in 1 .. Len(ls)
    BY <1>5, <1>10
  <2> QED
    BY <1>7, <2>1, <2>2, <2>3
<1> QED
  BY <1>1, <1>2, <1>3, <1>5, <1>6, <1>7, <1>8, <1>9, <1>10, <1>12, <1>13, <1>14 DEF Gemma2PartIs

\* The answers to a part are answers to the call.
LEMMA Gemma2PartAnswered ==
    ASSUME NEW done, NEW b, NEW from, Gemma2PartIs(done, b, from), NEW w,
           Answers(mem, w, "result", calls, done, PartLens)
    PROVE  Gemma2Due(Tail(run.parts), w, done + b, from)
<1>1. PICK call, ls, part, m : call = calls /\ ls = lens /\ part = PartLens /\ m = mem
  OBVIOUS
<1>2. /\ done \in Nat /\ b \in Nat /\ Len(part) = b
      /\ \A s \in 0 .. b - 1 : part[s + 1] = ls[done + s + 1]
      /\ \A s \in 0 .. done - 1 : At(m, "result", s) = Embedding(call, s, ls[s + 1])
      /\ from \in {"ids", "inputs"} /\ Gemma2Left(Tail(run.parts), ls, done + b, from)
  BY <1>1 DEF Gemma2PartIs, Gemma2Due, Answered
<1>3. /\ \A s \in 0 .. b - 1 : At(w, "result", done + s) = Embedding(call, done + s, part[s + 1])
      /\ \A r : (\A s \in 0 .. b - 1 : r # done + s) => At(w, "result", r) = At(m, "result", r)
  BY <1>1, <1>2 DEF Answers
<1>30. PICK e : e = done + b
  OBVIOUS
<1>4. ASSUME NEW s \in 0 .. e - 1
      PROVE  At(w, "result", s) = Embedding(call, s, ls[s + 1])
  <2>1. CASE s \in 0 .. done - 1
    <3>1. \A i \in 0 .. b - 1 : s # done + i
      BY <1>2, <2>1
    <3> QED
      BY <1>2, <1>3, <2>1, <3>1
  <2>2. CASE s \notin 0 .. done - 1
    <3>1. PICK i : i = s - done /\ i \in 0 .. b - 1 /\ done + i = s
      BY <1>2, <1>30, <2>2
    <3>2. part[i + 1] = ls[s + 1]
      BY <1>2, <3>1
    <3> QED
      BY <1>3, <3>1, <3>2
  <2> QED
    BY <2>1, <2>2
<1>5. Answered(w, call, ls, e)
  BY <1>4 DEF Answered
<1> QED
  BY <1>1, <1>2, <1>30, <1>5 DEF Gemma2Due

\* A call starts with nothing done.
LEMMA Gemma2NothingDone ==
    ASSUME NEW m, NEW ls, NEW call
    PROVE  Answered(m, call, ls, 0)
BY DEF Answered

\* A call without parts has its answer.
LEMMA Gemma2AllDone ==
    ASSUME Gemma2Call, run.parts = <<>>
    PROVE  [s \in 1 .. Len(lens) |-> At(mem, "result", s - 1)] = Reference(calls, lens)
<1>1. PICK done, from : Gemma2Due(run.parts, mem, done, from)
  BY DEF Gemma2Call
<1>2. PICK ls, call, m : ls = lens /\ call = calls /\ m = mem /\ ls \in Seq(Nat)
  BY DEF Gemma2Call
<1>3. Gemma2Left(<<>>, ls, done, from) /\ Answered(m, call, ls, done)
  BY <1>1, <1>2 DEF Gemma2Due
<1>4. done = Len(ls) /\ Len(ls) \in Nat
  BY <1>2, <1>3, NoneLeft
<1>5. ASSUME NEW s \in 1 .. Len(ls)
      PROVE  At(m, "result", s - 1) = Embedding(call, s - 1, ls[s])
  <2>1. PICK i : i = s - 1 /\ i \in 0 .. done - 1 /\ i + 1 = s
    BY <1>4
  <2> QED
    BY <1>3, <2>1 DEF Answered
<1>6. [s \in 1 .. Len(ls) |-> At(m, "result", s - 1)] = [s \in 1 .. Len(ls) |-> Embedding(call, s - 1, ls[s])]
  BY <1>5
<1> QED
  BY <1>2, <1>6 DEF Reference

-----------------------------------------------------------------------------
(* EmbeddingGemma 2: what a call copies *)

\* A copy to the device.
CopyStep(m, c) == Write(m, c[1], c[2])

CopyFold == INSTANCE ListProofs WITH FoldStep <- CopyStep

\* Copies are made one after the other.
LEMMA CopiesFold ==
    ASSUME NEW m, NEW s
    PROVE  Copied(m, s) = CopyFold!Folded(m, s)
BY DEF Copied, CopyStep, CopyFold!Folded, CopyFold!FoldLeft, CopyFold!MapThenFoldSet, CopyFold!Max,
       FoldLeft, MapThenFoldSet, Max

\* What a kernel finds in the three arrays of a part.
Gemma2Copies(m, w) ==
    /\ DOMAIN w = DOMAIN m
    /\ \A b \in DOMAIN m : b \notin {"lo", "hi", "pos"} => w[b] = m[b]
    /\ \A r \in PartRows : w.lo[r] = RowStarts[r] /\ w.hi[r] = RowStops[r] /\ At(w, "pos", r) = RowPositions[r]

\* The three arrays are what a call copies into them.
LEMMA CopiesRows ==
    ASSUME NEW m, {"lo", "hi", "pos"} \subseteq DOMAIN m
    PROVE  Gemma2Copies(m, Copied(m, <<<<"lo", RowStarts>>, <<"hi", RowStops>>, <<"pos", RowPositions>>>>))
<1>1. PICK a, b, c : a = <<"lo", RowStarts>> /\ b = <<"hi", RowStops>> /\ c = <<"pos", RowPositions>>
  OBVIOUS
<1>2. PICK m1 : m1 = CopyStep(m, a)
  OBVIOUS
<1>3. PICK m2 : m2 = CopyStep(m1, b)
  OBVIOUS
<1>4. PICK m3 : m3 = CopyStep(m2, c)
  OBVIOUS
<1>5. Copied(m, <<a, b, c>>) = m3
  <2>1. CopyFold!Leads(<<a>>, m, m1) /\ CopyFold!Leads(<<b>>, m1, m2) /\ CopyFold!Leads(<<c>>, m2, m3)
    BY <1>2, <1>3, <1>4, CopyFold!LeadsOne
  <2>2. CopyFold!Leads(<<a>> \o <<b>>, m, m2)
    BY <2>1, CopyFold!LeadsBoth
  <2>3. CopyFold!Leads(<<a, b>>, m, m2)
    BY <2>2, TuplesJoin
  <2>4. CopyFold!Leads(<<a, b>> \o <<c>>, m, m3)
    BY <2>1, <2>3, CopyFold!LeadsBoth
  <2>5. CopyFold!Leads(<<a, b, c>>, m, m3)
    <3>1. <<a, b, c>> = <<a, b>> \o <<c>>
      BY TuplesJoin
    <3> QED
      BY <2>4, <3>1
  <2> QED
    BY <2>5, CopiesFold DEF CopyFold!Leads
<1>6. m1 = Write(m, "lo", RowStarts) /\ m2 = Write(m1, "hi", RowStops) /\ m3 = Write(m2, "pos", RowPositions)
  BY <1>1, <1>2, <1>3, <1>4 DEF CopyStep
<1>7. Keeps(m, m1, "lo") /\ \A r \in DOMAIN RowStarts : At(m1, "lo", r) = RowStarts[r]
  BY <1>6, Written
<1>8. Keeps(m1, m2, "hi") /\ \A r \in DOMAIN RowStops : At(m2, "hi", r) = RowStops[r]
  <2>1. "hi" \in DOMAIN m1
    BY <1>7 DEF Keeps
  <2> QED
    BY <1>6, <2>1, Written
<1>9. Keeps(m2, m3, "pos") /\ \A r \in DOMAIN RowPositions : At(m3, "pos", r) = RowPositions[r]
  <2>1. "pos" \in DOMAIN m2
    BY <1>7, <1>8 DEF Keeps
  <2> QED
    BY <1>6, <2>1, Written
<1>10. DOMAIN RowStarts = PartRows /\ DOMAIN RowStops = PartRows /\ DOMAIN RowPositions = PartRows
  BY DEF RowStarts, RowStops, RowPositions
<1>11. m1["lo"] = Overlaid(RowStarts, m["lo"]) /\ m2["hi"] = Overlaid(RowStops, m1["hi"])
  <2>1. "hi" \in DOMAIN m1
    BY <1>7 DEF Keeps
  <2> QED
    BY <1>6, <2>1 DEF Write
<1>12. /\ \A r \in PartRows : m1["lo"][r] = RowStarts[r]
       /\ \A r \in PartRows : m2["hi"][r] = RowStops[r]
  BY <1>10, <1>11 DEF Overlaid
<1>13. m3["lo"] = m1["lo"] /\ m3["hi"] = m2["hi"]
  BY <1>7, <1>8, <1>9 DEF Keeps
<1>14. Gemma2Copies(m, m3)
  BY <1>7, <1>8, <1>9, <1>10, <1>12, <1>13 DEF Gemma2Copies, Keeps
<1> QED
  BY <1>1, <1>5, <1>14

\* The rows of a sequence are rows of the part.
LEMMA RowsWithin ==
    ASSUME NEW ls \in Seq(Nat), NEW s \in 0 .. Len(ls) - 1, NEW r \in Offsets(ls)[s] .. Offsets(ls)[s + 1] - 1
    PROVE  r \in 0 .. Total(ls) - 1
<1> DEFINE off == Offsets(ls)
<1>1. Totals(ls, off)
  BY OffsetsAreTotals
<1>2. s \in 0 .. Len(ls) /\ s + 1 \in 0 .. Len(ls) /\ Len(ls) \in 0 .. Len(ls) /\ s + 1 \in 0 .. Len(ls)
  OBVIOUS
<1>3. r \in off[s] .. off[s + 1] - 1
  OBVIOUS
<1> HIDE DEF off
<1>4. off[s] \in Nat /\ off[s + 1] \in Nat /\ off[Len(ls)] \in Nat /\ off[s + 1] <= off[Len(ls)]
  BY <1>1, <1>2, TotalsRise
<1>5. r \in 0 .. off[Len(ls)] - 1
  BY <1>3, <1>4
<1> QED
  BY <1>5 DEF Total, off

\* They tell it where the sequences of the part are, and the positions of its tokens.
LEMMA CopiesPlaced ==
    ASSUME NEW m, NEW w, Gemma2Copies(m, w), NEW done, NEW b, NEW from, Gemma2PartIs(done, b, from)
    PROVE  Bounded(w, PartLens) /\ Placed(w, "pos", PartTokens)
<1>1. PICK ls, T : ls = PartLens /\ T = PartTokens
  OBVIOUS
<1>2. Packs(T, calls, done, ls)
  BY <1>1 DEF Gemma2PartIs
<1>3. ls \in Seq(Nat) /\ DOMAIN T = 0 .. Total(ls) - 1
  BY <1>2 DEF Packs
<1>4. DOMAIN T = PartRows
  BY <1>1 DEF PartTokens
<1>5. ASSUME NEW s \in 0 .. Len(ls) - 1, NEW r \in Offsets(ls)[s] .. Offsets(ls)[s + 1] - 1, r \in DOMAIN T
      PROVE  /\ w.lo[r] = Offsets(ls)[s] /\ w.hi[r] = Offsets(ls)[s + 1]
             /\ At(w, "pos", r) = r - Offsets(ls)[s]
  <2>1. SequenceOf(ls, r) = s /\ PositionOf(ls, r) = r - Offsets(ls)[s]
    BY <1>3, SequenceOfRow
  <2>2. RowStarts[r] = Offsets(ls)[s] /\ RowStops[r] = Offsets(ls)[s + 1] /\ RowPositions[r] = r - Offsets(ls)[s]
    BY <1>1, <1>4, <1>5, <2>1 DEF RowStarts, RowStops, RowPositions
  <2> QED
    BY <1>4, <1>5, <2>2 DEF Gemma2Copies
<1>6. Bounded(w, ls)
  <2> SUFFICES ASSUME NEW s \in 0 .. Len(ls) - 1, NEW r \in Offsets(ls)[s] .. Offsets(ls)[s + 1] - 1
               PROVE  w.lo[r] = Offsets(ls)[s] /\ w.hi[r] = Offsets(ls)[s + 1]
    BY DEF Bounded
  <2>1. r \in DOMAIN T
    BY <1>3, RowsWithin
  <2> QED
    BY <1>5, <2>1
<1>7. Placed(w, "pos", T)
  <2> SUFFICES ASSUME NEW r \in DOMAIN T PROVE At(w, "pos", r) = T[r].pos
    BY DEF Placed
  <2>1. PICK s \in 0 .. Len(ls) - 1 :
            /\ r \in Offsets(ls)[s] .. Offsets(ls)[s + 1] - 1
            /\ T[r] = Token(calls, done + s, r - Offsets(ls)[s], ls[s + 1])
    BY <1>2, RowsArePacked
  <2>2. T[r].pos = r - Offsets(ls)[s]
    BY <2>1 DEF Token
  <2> QED
    BY <1>5, <2>1, <2>2
<1> QED
  BY <1>1, <1>6, <1>7

\* The rows of a single sequence are its positions.
LEMMA RowsPlaced ==
    ASSUME NEW m, NEW T, NEW call, NEW first, NEW ls, Packs(T, call, first, ls), Len(ls) = 1
    PROVE  Placed(m, "row", T)
<1> SUFFICES ASSUME NEW r \in DOMAIN T PROVE r = T[r].pos
  BY DEF Placed
<1>1. PICK s \in 0 .. Len(ls) - 1 :
          /\ r \in Offsets(ls)[s] .. Offsets(ls)[s + 1] - 1
          /\ T[r] = Token(call, first + s, r - Offsets(ls)[s], ls[s + 1])
  BY RowsArePacked
<1>2. s = 0 /\ ls \in Seq(Nat)
  BY DEF Packs
<1>3. Offsets(ls)[0] = 0
  BY <1>2, OffsetsAreTotals, TotalsStep
<1>4. r \in Nat
  BY DEF Packs
<1> QED
  BY <1>1, <1>2, <1>3, <1>4 DEF Token

-----------------------------------------------------------------------------
(* EmbeddingGemma 2 on CUDA: the launches *)

\* A sum, and the input of the next product.
LEMMA Gemma2PostsNext ==
    ASSUME NEW m, NEW from, "x" \in DOMAIN m, "h16" \in DOMAIN m,
           NEW T, Held(T), NEW n, DOMAIN T = 0 .. n - 1, NEW l \in Nat,
           NEW f, NEW q, NEW p, p # "ple", NEW made, Gemma2MakesOf(f, q, p, made),
           NEW k \in Nat, k = IF f = "post_norm" THEN l + 1 ELSE l,
           NEW next, NEW done, Gemma2Makes(next, made, done),
           Carries(m, from, q, l, T), Carries(m, "x", p, l, T)
    PROVE  \E w : /\ Gemma2Takes(Gemma2!PostAddNext(f, l, from, next, k, n), m, w) /\ Leaves(m, w, {"x", "h16"})
                  /\ Carries(w, "x", made, k, T) /\ Carries(w, "h16", done, k, T)
<1> DEFINE a == Gemma2!PostAdd(f, l, from, n)
           b == Gemma2!Norm(next, k, "x", "h16", n)
<1>1. "x" \notin Settled /\ "h16" \notin Settled
  BY DEF Settled, Inputs
<1>2. PICK v : Gemma2Takes(a, m, v) /\ Leaves(m, v, {"x"}) /\ Carries(v, "x", made, k, T)
  <2>1. PICK i : i = IF p = "ple" THEN 1 ELSE l
    OBVIOUS
  <2>2. Carries(m, "x", p, i, T)
    BY <2>1
  <2> QED
    BY <1>1, <2>1, <2>2, Gemma2Combines DEF Gemma2!PostAdd, Gemma2!Residual
<1>3. "x" \in DOMAIN v /\ "h16" \in DOMAIN v
  BY <1>2 DEF Leaves
<1>4. PICK w : Gemma2Takes(b, v, w) /\ Leaves(v, w, {"h16"}) /\ Carries(w, "h16", done, k, T)
  BY <1>1, <1>2, <1>3, Gemma2Computes DEF Gemma2!Norm
<1>5. Carries(w, "x", made, k, T)
  <2>1. "x" \in DOMAIN v \ {"h16"}
    BY <1>3
  <2> QED
    BY <1>2, <1>4, <2>1, CarriedOn
<1> HIDE DEF a, b
<1>6. Gemma2Takes(a \o b, m, w) /\ Leaves(m, w, {"x"} \cup {"h16"})
  BY <1>2, <1>4, Gemma2Then
<1>7. {"x"} \cup {"h16"} = {"x", "h16"} /\ Gemma2!PostAddNext(f, l, from, next, k, n) = a \o b
  BY DEF Gemma2!PostAddNext, a, b
<1> QED
  BY <1>4, <1>5, <1>6, <1>7

\* A sum, and its half-precision copy.
LEMMA Gemma2PostsRaw ==
    ASSUME NEW m, NEW from, "x" \in DOMAIN m, "x16" \in DOMAIN m,
           NEW T, Held(T), NEW n, DOMAIN T = 0 .. n - 1, NEW l \in Nat,
           NEW f, f # "post_norm", NEW q, NEW p, p # "ple", NEW made, made \in QuantityNames, Gemma2MakesOf(f, q, p, made),
           Carries(m, from, q, l, T), Carries(m, "x", p, l, T)
    PROVE  \E w : /\ Gemma2Takes(Gemma2!PostAddRaw(f, l, from, n), m, w) /\ Leaves(m, w, {"x", "x16"})
                  /\ Carries(w, "x", made, l, T) /\ Carries(w, "x16", made, l, T)
<1> DEFINE a == Gemma2!PostAdd(f, l, from, n)
           b == <<Gemma2!Convert("x", "x16", 0 .. n - 1)>>
<1>1. "x" \notin Settled /\ "x16" \notin Settled
  BY DEF Settled, Inputs
<1>2. PICK v : Gemma2Takes(a, m, v) /\ Leaves(m, v, {"x"}) /\ Carries(v, "x", made, l, T)
  <2>1. PICK i, k : i = (IF p = "ple" THEN 1 ELSE l) /\ k = IF f = "post_norm" THEN l + 1 ELSE l
    OBVIOUS
  <2>2. Carries(m, "x", p, i, T) /\ k = l
    BY <2>1
  <2> QED
    BY <1>1, <2>1, <2>2, Gemma2Combines DEF Gemma2!PostAdd, Gemma2!Residual
<1>3. "x" \in DOMAIN v /\ "x16" \in DOMAIN v
  BY <1>2 DEF Leaves
<1>4. PICK w : Gemma2Takes(b, v, w) /\ Leaves(v, w, {"x16"}) /\ Carries(w, "x16", made, l, T)
  <2>1. PICK w : Gemma2Takes(b, v, w) /\ Computes(v, w, "x16", made, l, T)
    BY <1>1, <1>2, <1>3, Gemma2Converts
  <2> QED
    BY <2>1, ComputesLeaves
<1>5. Carries(w, "x", made, l, T)
  <2>1. "x" \in DOMAIN v \ {"x16"}
    BY <1>3
  <2> QED
    BY <1>2, <1>4, <2>1, CarriedOn
<1> HIDE DEF a, b
<1>6. Gemma2Takes(a \o b, m, w) /\ Leaves(m, w, {"x"} \cup {"x16"})
  BY <1>2, <1>4, Gemma2Then
<1>7. {"x"} \cup {"x16"} = {"x", "x16"} /\ Gemma2!PostAddRaw(f, l, from, n) = a \o b
  BY DEF Gemma2!PostAddRaw, a, b
<1> QED
  BY <1>4, <1>5, <1>6, <1>7

\* Rotations and norm of the parts of one product.
LEMMA Gemma2CudaQkvPosts ==
    ASSUME NEW m, {"wide", "q16", "k16", "v16", "pos"} \subseteq DOMAIN m,
           NEW T, Held(T), NEW n, DOMAIN T = 0 .. n - 1, NEW l \in Nat,
           Carries(m, "wide", "qkv_raw", l, T), Placed(m, "pos", T)
    PROVE  \E w : /\ Gemma2Takes(Gemma2!CudaQkvPost(l, n), m, w) /\ Leaves(m, w, {"q16", "k16", "v16"})
                  /\ Carries(w, "q16", "q", l, T) /\ Carries(w, "k16", "k", l, T) /\ Carries(w, "v16", "v", l, T)
<1> DEFINE a == Gemma2!RotateAt("pos", "attn_q_norm", l, "wide", "q16", Gemma2!IsSwa(l), 0 .. n - 1)
           b == Gemma2!RotateAt("pos", "attn_k_norm", l, "wide", "k16", Gemma2!IsSwa(l), 0 .. n - 1)
           c == Gemma2!Map("v_norm", l, <<"wide">>, "v16", 0 .. n - 1)
<1>1. Gemma2!CudaQkvPost(l, n) = <<a, b>> \o <<c>>
  BY DEF Gemma2!CudaQkvPost, Gemma2!Norm
<1>2. "q16" \notin Settled /\ "k16" \notin Settled /\ "v16" \notin Settled
  BY DEF Settled, Inputs
<1>3. "qkv_raw" \in QuantityNames
  BY DEF QuantityNames
<1>4. PICK v : Gemma2Takes(<<a>>, m, v) /\ Leaves(m, v, {"q16"}) /\ Carries(v, "q16", "q", l, T)
  <2>1. PICK v : Gemma2Takes(<<a>>, m, v) /\ Computes(m, v, "q16", "q", l, T)
    BY <1>2, <1>3, Gemma2Rotates
  <2> QED
    BY <2>1, ComputesLeaves
<1>5. /\ {"wide", "q16", "k16", "v16", "pos"} \subseteq DOMAIN v
      /\ Carries(v, "wide", "qkv_raw", l, T) /\ Placed(v, "pos", T)
  <2>1. "wide" \in DOMAIN m \ {"q16"} /\ "pos" \in DOMAIN m \ {"q16"} /\ DOMAIN v = DOMAIN m
    BY <1>4 DEF Leaves
  <2>2. v["pos"] = m["pos"]
    BY <1>4, <2>1 DEF Leaves
  <2>3. Placed(v, "pos", T)
    BY <2>2 DEF Placed, At
  <2> QED
    BY <1>4, <2>1, <2>3, CarriedOn
<1>6. PICK u : Gemma2Takes(<<b>>, v, u) /\ Leaves(v, u, {"k16"}) /\ Carries(u, "k16", "k", l, T)
  <2>1. PICK u : Gemma2Takes(<<b>>, v, u) /\ Computes(v, u, "k16", "k", l, T)
    BY <1>2, <1>3, <1>5, Gemma2Rotates
  <2> QED
    BY <2>1, ComputesLeaves
<1>7. Carries(u, "q16", "q", l, T) /\ Carries(u, "wide", "qkv_raw", l, T) /\ DOMAIN u = DOMAIN v
  <2>1. "q16" \in DOMAIN v \ {"k16"} /\ "wide" \in DOMAIN v \ {"k16"}
    BY <1>5
  <2> QED
    BY <1>4, <1>5, <1>6, <2>1, CarriedOn DEF Leaves
<1>8. PICK w : Gemma2Takes(<<c>>, u, w) /\ Leaves(u, w, {"v16"}) /\ Carries(w, "v16", "v", l, T)
  <2>1. "v16" \in DOMAIN u \ Settled
    BY <1>2, <1>5, <1>7
  <2> QED
    BY <1>7, <2>1, Gemma2Computes, Gemma2MakesOne
<1>9. Carries(w, "q16", "q", l, T) /\ Carries(w, "k16", "k", l, T)
  <2>1. "q16" \in DOMAIN u \ {"v16"} /\ "k16" \in DOMAIN u \ {"v16"}
    BY <1>5, <1>7
  <2> QED
    BY <1>6, <1>7, <1>8, <2>1, CarriedOn
<1> HIDE DEF a, b, c
<1>10. Gemma2Takes(<<a>> \o <<b>>, m, u) /\ Leaves(m, u, {"q16"} \cup {"k16"})
  BY <1>4, <1>6, Gemma2Then
<1>11. Gemma2Takes(<<a, b>>, m, u)
  BY <1>10, TuplesJoin
<1>12. Gemma2Takes(<<a, b>> \o <<c>>, m, w) /\ Leaves(m, w, ({"q16"} \cup {"k16"}) \cup {"v16"})
  BY <1>8, <1>10, <1>11, Gemma2Then
<1>13. ({"q16"} \cup {"k16"}) \cup {"v16"} = {"q16", "k16", "v16"}
  OBVIOUS
<1> QED
  BY <1>1, <1>8, <1>9, <1>12, <1>13

\* What the kernels of a part find in the workspace.
Gemma2CudaNames == Gemma2TokenBuffers \cup {"offsets", "pooled", "result"}

Gemma2CudaReady(m, T, ls) ==
    /\ DOMAIN m = Gemma2CudaNames
    /\ Bounded(m, ls) /\ Placed(m, "pos", T)
    /\ \A s \in 0 .. Len(ls) : m.offsets[s] = Offsets(ls)[s]

\* They leave that alone.
LEMMA CudaReadySteady ==
    ASSUME NEW m, NEW w, NEW T, NEW ls, Gemma2CudaReady(m, T, ls), Steady(m, w)
    PROVE  Gemma2CudaReady(w, T, ls)
<1>1. DOMAIN w = DOMAIN m /\ w.lo = m.lo /\ w.hi = m.hi /\ w.pos = m.pos /\ w.offsets = m.offsets
  <2>1. {"lo", "hi", "pos", "offsets"} \subseteq DOMAIN m \cap Settled
    BY DEF Gemma2CudaReady, Gemma2CudaNames, Gemma2TokenBuffers, Gemma2Upload, Settled, Inputs
  <2> QED
    BY <2>1 DEF Steady
<1>2. Bounded(w, ls)
  BY <1>1 DEF Bounded, Gemma2CudaReady
<1>3. Placed(w, "pos", T)
  BY <1>1 DEF Placed, At, Gemma2CudaReady
<1> QED
  BY <1>1, <1>2, <1>3 DEF Gemma2CudaReady

-----------------------------------------------------------------------------
(* EmbeddingGemma 2 on CUDA: a layer *)

\* A layer on CUDA makes the next x of x, and the input of what follows it.
LEMMA Gemma2CudaLayers ==
    ASSUME NEW o, NEW m, NEW T, NEW call, NEW first, NEW ls, Packs(T, call, first, ls),
           Gemma2CudaReady(m, T, ls), NEW n, n = Total(ls), NEW l \in Nat,
           Carries(m, "x", "x", l, T), Carries(m, "h16", "attn_in", l, T), Carries(m, "ple", "ple", 1, T),
           NEW next, next = IF l < LayerCount THEN "attn_norm" ELSE "output_norm",
           NEW made, Gemma2Makes(next, "x", made)
    PROVE  \E w : /\ Gemma2Takes(Gemma2!CudaLayer(o, l, n), m, w)
                  /\ Carries(w, "x", "x", l + 1, T) /\ Carries(w, "h16", made, l + 1, T)
                  /\ Carries(w, "ple", "ple", 1, T)
<1> DEFINE D == Gemma2CudaNames
           kernel == IF o.mma THEN "flash_mma_kernel" ELSE "attention_kernel"
           p1 == Gemma2!Gemm("qkv", l, "h16", "wide", n)
           p2 == Gemma2!CudaQkvPost(l, n)
           p3 == Gemma2!AttentionOver(kernel, l, "q16", "k16", "v16", "a16", n)
           p4 == Gemma2!Gemm("attn_output", l, "a16", "proj", n)
           p5 == Gemma2!PostAddNext("post_attention_norm", l, "proj", "ffn_norm", l, n)
           p6 == Gemma2!Gemm("upgate", l, "h16", "wide", n)
           p7 == Gemma2!Gemm("geglu", l, "wide", "g16", n)
           p8 == Gemma2!Gemm("ffn_down", l, "g16", "proj", n)
           p9 == Gemma2!PostAddRaw("post_ffw_norm", l, "proj", n)
           p10 == Gemma2!Gemm("inp_gate", l, "x16", "proj", n)
           p11 == <<Gemma2!Map("ple_gate", l, <<"proj", "ple">>, "h16", 0 .. n - 1)>>
           p12 == Gemma2!Gemm("proj", l, "h16", "wide", n)
           p13 == Gemma2!PostAddNext("post_norm", l, "wide", next, l + 1, n)
<1>0. /\ DOMAIN m = D /\ Gemma2CudaReady(m, T, ls)
      /\ Carries(m, "x", "x", l, T)
      /\ Carries(m, "h16", "attn_in", l, T)
      /\ Carries(m, "ple", "ple", 1, T)
      /\ Held(T) /\ DOMAIN T = 0 .. n - 1 /\ n = Total(ls) /\ Packs(T, call, first, ls) /\ l \in Nat
  <2>1. Held(T)
    BY RowsArePacked DEF Held
  <2>2. DOMAIN T = 0 .. n - 1
    BY DEF Packs
  <2>3. DOMAIN m = D
    BY DEF Gemma2CudaReady
  <2> HIDE DEF D
  <2> QED
    BY <2>1, <2>2, <2>3
<1>1. /\ "x" \in D \ Settled
      /\ "h16" \in D \ Settled
      /\ "wide" \in D \ Settled
      /\ "q16" \in D \ Settled
      /\ "k16" \in D \ Settled
      /\ "v16" \in D \ Settled
      /\ "a16" \in D \ Settled
      /\ "proj" \in D \ Settled
      /\ "g16" \in D \ Settled
      /\ "x16" \in D \ Settled
      /\ "ple" \in D \ Settled
      /\ "pos" \in D
  BY DEF D, Gemma2CudaNames, Gemma2TokenBuffers, Gemma2Upload, Settled, Inputs
<1> HIDE DEF D
<1>1a. PICK m1 : /\ Gemma2Takes(p1, m, m1) /\ Leaves(m, m1, {"wide"})
                 /\ Carries(m1, "wide", "qkv_raw", l, T)
  BY <1>0, <1>1, Gemma2Computes, Gemma2MakesOne DEF Gemma2!Gemm, p1
<1> HIDE DEF p1
<1>1b. DOMAIN m1 = D /\ Carries(m1, "x", "x", l, T) /\ Carries(m1, "h16", "attn_in", l, T) /\ Carries(m1, "ple", "ple", 1, T)
  <2>1. "x" \in DOMAIN m \ {"wide"} /\ "h16" \in DOMAIN m \ {"wide"} /\ "ple" \in DOMAIN m \ {"wide"}
    BY <1>1, <1>0
  <2> QED
    BY <1>0, <1>1a, <2>1, CarriedOn DEF Leaves
<1>1c. Gemma2Takes(p1, m, m1) /\ Gemma2CudaReady(m1, T, ls)
  BY <1>0, <1>1a, CudaReadySteady DEF Gemma2Takes
<1>2a. PICK m2 : /\ Gemma2Takes(p2, m1, m2) /\ Leaves(m1, m2, {"q16", "k16", "v16"})
                 /\ Carries(m2, "q16", "q", l, T) /\ Carries(m2, "k16", "k", l, T) /\ Carries(m2, "v16", "v", l, T)
  BY <1>0, <1>1, <1>1a, <1>1b, <1>1c, Gemma2CudaQkvPosts DEF p2, Gemma2CudaReady
<1> HIDE DEF p2
<1>2b. DOMAIN m2 = D /\ Carries(m2, "x", "x", l, T) /\ Carries(m2, "h16", "attn_in", l, T) /\ Carries(m2, "ple", "ple", 1, T) /\ Carries(m2, "wide", "qkv_raw", l, T)
  <2>1. "x" \in DOMAIN m1 \ {"q16", "k16", "v16"} /\ "h16" \in DOMAIN m1 \ {"q16", "k16", "v16"} /\ "ple" \in DOMAIN m1 \ {"q16", "k16", "v16"} /\ "wide" \in DOMAIN m1 \ {"q16", "k16", "v16"}
    BY <1>1, <1>1b
  <2> QED
    BY <1>1a, <1>1b, <1>2a, <2>1, CarriedOn DEF Leaves
<1>2c. Gemma2Takes(p1 \o p2, m, m2) /\ Gemma2CudaReady(m2, T, ls)
  <2>1. Gemma2Takes(p1 \o p2, m, m2)
    BY <1>1c, <1>2a, Gemma2TakesBoth
  <2> QED
    BY <1>0, <2>1, CudaReadySteady DEF Gemma2Takes
<1>3a. PICK m3 : /\ Gemma2Takes(p3, m2, m3) /\ Leaves(m2, m3, {"a16"})
                 /\ Carries(m3, "a16", "ctx", l, T)
  BY <1>0, <1>1, <1>2a, <1>2b, <1>2c, Gemma2AttendsOver DEF p3, Gemma2CudaReady
<1> HIDE DEF p3
<1>3b. DOMAIN m3 = D /\ Carries(m3, "x", "x", l, T) /\ Carries(m3, "h16", "attn_in", l, T) /\ Carries(m3, "ple", "ple", 1, T) /\ Carries(m3, "wide", "qkv_raw", l, T)
  <2>1. "x" \in DOMAIN m2 \ {"a16"} /\ "h16" \in DOMAIN m2 \ {"a16"} /\ "ple" \in DOMAIN m2 \ {"a16"} /\ "wide" \in DOMAIN m2 \ {"a16"}
    BY <1>1, <1>2b
  <2> QED
    BY <1>2b, <1>3a, <2>1, CarriedOn DEF Leaves
<1>3c. Gemma2Takes(p1 \o p2 \o p3, m, m3)
  BY <1>2c, <1>3a, Gemma2TakesBoth
<1>4a. PICK m4 : /\ Gemma2Takes(p4, m3, m4) /\ Leaves(m3, m4, {"proj"})
                 /\ Carries(m4, "proj", "attn_proj", l, T)
  BY <1>0, <1>1, <1>3a, <1>3b, Gemma2Computes, Gemma2MakesOne DEF Gemma2!Gemm, p4
<1> HIDE DEF p4
<1>4b. DOMAIN m4 = D /\ Carries(m4, "x", "x", l, T) /\ Carries(m4, "h16", "attn_in", l, T) /\ Carries(m4, "ple", "ple", 1, T) /\ Carries(m4, "wide", "qkv_raw", l, T)
  <2>1. "x" \in DOMAIN m3 \ {"proj"} /\ "h16" \in DOMAIN m3 \ {"proj"} /\ "ple" \in DOMAIN m3 \ {"proj"} /\ "wide" \in DOMAIN m3 \ {"proj"}
    BY <1>1, <1>3b
  <2> QED
    BY <1>3b, <1>4a, <2>1, CarriedOn DEF Leaves
<1>4c. Gemma2Takes(p1 \o p2 \o p3 \o p4, m, m4)
  BY <1>3c, <1>4a, Gemma2TakesBoth
<1>5a. PICK m5 : /\ Gemma2Takes(p5, m4, m5) /\ Leaves(m4, m5, {"x", "h16"})
                 /\ Carries(m5, "x", "mid", l, T) /\ Carries(m5, "h16", "ffn_in", l, T)
  BY <1>0, <1>1, <1>4a, <1>4b, Gemma2PostsNext, Gemma2MakesOne, Gemma2MakesTwo DEF p5
<1> HIDE DEF p5
<1>5b. DOMAIN m5 = D /\ Carries(m5, "ple", "ple", 1, T) /\ Carries(m5, "wide", "qkv_raw", l, T) /\ Carries(m5, "proj", "attn_proj", l, T)
  <2>1. "ple" \in DOMAIN m4 \ {"x", "h16"} /\ "wide" \in DOMAIN m4 \ {"x", "h16"} /\ "proj" \in DOMAIN m4 \ {"x", "h16"}
    BY <1>1, <1>4b
  <2> QED
    BY <1>4a, <1>4b, <1>5a, <2>1, CarriedOn DEF Leaves
<1>5c. Gemma2Takes(p1 \o p2 \o p3 \o p4 \o p5, m, m5)
  BY <1>4c, <1>5a, Gemma2TakesBoth
<1>6a. PICK m6 : /\ Gemma2Takes(p6, m5, m6) /\ Leaves(m5, m6, {"wide"})
                 /\ Carries(m6, "wide", "up_gate", l, T)
  BY <1>0, <1>1, <1>5a, <1>5b, Gemma2Computes, Gemma2MakesOne DEF Gemma2!Gemm, p6
<1> HIDE DEF p6
<1>6b. DOMAIN m6 = D /\ Carries(m6, "ple", "ple", 1, T) /\ Carries(m6, "proj", "attn_proj", l, T) /\ Carries(m6, "x", "mid", l, T) /\ Carries(m6, "h16", "ffn_in", l, T)
  <2>1. "ple" \in DOMAIN m5 \ {"wide"} /\ "proj" \in DOMAIN m5 \ {"wide"} /\ "x" \in DOMAIN m5 \ {"wide"} /\ "h16" \in DOMAIN m5 \ {"wide"}
    BY <1>1, <1>5b
  <2> QED
    BY <1>5a, <1>5b, <1>6a, <2>1, CarriedOn DEF Leaves
<1>6c. Gemma2Takes(p1 \o p2 \o p3 \o p4 \o p5 \o p6, m, m6)
  BY <1>5c, <1>6a, Gemma2TakesBoth
<1>7a. PICK m7 : /\ Gemma2Takes(p7, m6, m7) /\ Leaves(m6, m7, {"g16"})
                 /\ Carries(m7, "g16", "act", l, T)
  BY <1>0, <1>1, <1>6a, <1>6b, Gemma2Computes, Gemma2MakesOne DEF Gemma2!Gemm, p7
<1> HIDE DEF p7
<1>7b. DOMAIN m7 = D /\ Carries(m7, "ple", "ple", 1, T) /\ Carries(m7, "proj", "attn_proj", l, T) /\ Carries(m7, "x", "mid", l, T) /\ Carries(m7, "h16", "ffn_in", l, T) /\ Carries(m7, "wide", "up_gate", l, T)
  <2>1. "ple" \in DOMAIN m6 \ {"g16"} /\ "proj" \in DOMAIN m6 \ {"g16"} /\ "x" \in DOMAIN m6 \ {"g16"} /\ "h16" \in DOMAIN m6 \ {"g16"} /\ "wide" \in DOMAIN m6 \ {"g16"}
    BY <1>1, <1>6b
  <2> QED
    BY <1>6a, <1>6b, <1>7a, <2>1, CarriedOn DEF Leaves
<1>7c. Gemma2Takes(p1 \o p2 \o p3 \o p4 \o p5 \o p6 \o p7, m, m7)
  BY <1>6c, <1>7a, Gemma2TakesBoth
<1>8a. PICK m8 : /\ Gemma2Takes(p8, m7, m8) /\ Leaves(m7, m8, {"proj"})
                 /\ Carries(m8, "proj", "down", l, T)
  BY <1>0, <1>1, <1>7a, <1>7b, Gemma2Computes, Gemma2MakesOne DEF Gemma2!Gemm, p8
<1> HIDE DEF p8
<1>8b. DOMAIN m8 = D /\ Carries(m8, "ple", "ple", 1, T) /\ Carries(m8, "x", "mid", l, T) /\ Carries(m8, "h16", "ffn_in", l, T) /\ Carries(m8, "wide", "up_gate", l, T)
  <2>1. "ple" \in DOMAIN m7 \ {"proj"} /\ "x" \in DOMAIN m7 \ {"proj"} /\ "h16" \in DOMAIN m7 \ {"proj"} /\ "wide" \in DOMAIN m7 \ {"proj"}
    BY <1>1, <1>7b
  <2> QED
    BY <1>7b, <1>8a, <2>1, CarriedOn DEF Leaves
<1>8c. Gemma2Takes(p1 \o p2 \o p3 \o p4 \o p5 \o p6 \o p7 \o p8, m, m8)
  BY <1>7c, <1>8a, Gemma2TakesBoth
<1>9a. PICK m9 : /\ Gemma2Takes(p9, m8, m9) /\ Leaves(m8, m9, {"x", "x16"})
                 /\ Carries(m9, "x", "ffn_out", l, T) /\ Carries(m9, "x16", "ffn_out", l, T)
  BY <1>0, <1>1, <1>8a, <1>8b, Gemma2PostsRaw, Gemma2MakesTwo DEF p9, QuantityNames
<1> HIDE DEF p9
<1>9b. DOMAIN m9 = D /\ Carries(m9, "ple", "ple", 1, T) /\ Carries(m9, "h16", "ffn_in", l, T) /\ Carries(m9, "wide", "up_gate", l, T) /\ Carries(m9, "proj", "down", l, T)
  <2>1. "ple" \in DOMAIN m8 \ {"x", "x16"} /\ "h16" \in DOMAIN m8 \ {"x", "x16"} /\ "wide" \in DOMAIN m8 \ {"x", "x16"} /\ "proj" \in DOMAIN m8 \ {"x", "x16"}
    BY <1>1, <1>8b
  <2> QED
    BY <1>8a, <1>8b, <1>9a, <2>1, CarriedOn DEF Leaves
<1>9c. Gemma2Takes(p1 \o p2 \o p3 \o p4 \o p5 \o p6 \o p7 \o p8 \o p9, m, m9)
  BY <1>8c, <1>9a, Gemma2TakesBoth
<1>10a. PICK m10 : /\ Gemma2Takes(p10, m9, m10) /\ Leaves(m9, m10, {"proj"})
                   /\ Carries(m10, "proj", "gate_in", l, T)
  BY <1>0, <1>1, <1>9a, <1>9b, Gemma2Computes, Gemma2MakesOne DEF Gemma2!Gemm, p10
<1> HIDE DEF p10
<1>10b. DOMAIN m10 = D /\ Carries(m10, "ple", "ple", 1, T) /\ Carries(m10, "h16", "ffn_in", l, T) /\ Carries(m10, "wide", "up_gate", l, T) /\ Carries(m10, "x", "ffn_out", l, T)
  <2>1. "ple" \in DOMAIN m9 \ {"proj"} /\ "h16" \in DOMAIN m9 \ {"proj"} /\ "wide" \in DOMAIN m9 \ {"proj"} /\ "x" \in DOMAIN m9 \ {"proj"}
    BY <1>1, <1>9b
  <2> QED
    BY <1>10a, <1>9a, <1>9b, <2>1, CarriedOn DEF Leaves
<1>10c. Gemma2Takes(p1 \o p2 \o p3 \o p4 \o p5 \o p6 \o p7 \o p8 \o p9 \o p10, m, m10)
  BY <1>9c, <1>10a, Gemma2TakesBoth
<1>11a. PICK m11 : /\ Gemma2Takes(p11, m10, m11) /\ Leaves(m10, m11, {"h16"})
                   /\ Carries(m11, "h16", "gated", l, T)
  BY <1>0, <1>1, <1>10a, <1>10b, Gemma2Combines, Gemma2MakesTwo DEF p11
<1> HIDE DEF p11
<1>11b. DOMAIN m11 = D /\ Carries(m11, "ple", "ple", 1, T) /\ Carries(m11, "wide", "up_gate", l, T) /\ Carries(m11, "x", "ffn_out", l, T)
  <2>1. "ple" \in DOMAIN m10 \ {"h16"} /\ "wide" \in DOMAIN m10 \ {"h16"} /\ "x" \in DOMAIN m10 \ {"h16"}
    BY <1>1, <1>10b
  <2> QED
    BY <1>10b, <1>11a, <2>1, CarriedOn DEF Leaves
<1>11c. Gemma2Takes(p1 \o p2 \o p3 \o p4 \o p5 \o p6 \o p7 \o p8 \o p9 \o p10 \o p11, m, m11)
  BY <1>10c, <1>11a, Gemma2TakesBoth
<1>12a. PICK m12 : /\ Gemma2Takes(p12, m11, m12) /\ Leaves(m11, m12, {"wide"})
                   /\ Carries(m12, "wide", "projected", l, T)
  BY <1>0, <1>1, <1>11a, <1>11b, Gemma2Computes, Gemma2MakesOne DEF Gemma2!Gemm, p12
<1> HIDE DEF p12
<1>12b. DOMAIN m12 = D /\ Carries(m12, "ple", "ple", 1, T) /\ Carries(m12, "x", "ffn_out", l, T)
  <2>1. "ple" \in DOMAIN m11 \ {"wide"} /\ "x" \in DOMAIN m11 \ {"wide"}
    BY <1>1, <1>11b
  <2> QED
    BY <1>11b, <1>12a, <2>1, CarriedOn DEF Leaves
<1>12c. Gemma2Takes(p1 \o p2 \o p3 \o p4 \o p5 \o p6 \o p7 \o p8 \o p9 \o p10 \o p11 \o p12, m, m12)
  BY <1>11c, <1>12a, Gemma2TakesBoth
<1>13a. PICK m13 : /\ Gemma2Takes(p13, m12, m13) /\ Leaves(m12, m13, {"x", "h16"})
                   /\ Carries(m13, "x", "x", l + 1, T) /\ Carries(m13, "h16", made, l + 1, T)
  BY <1>0, <1>1, <1>12a, <1>12b, Gemma2PostsNext, Gemma2MakesTwo DEF p13
<1> HIDE DEF p13
<1>13b. DOMAIN m13 = D /\ Carries(m13, "ple", "ple", 1, T)
  <2>1. "ple" \in DOMAIN m12 \ {"x", "h16"}
    BY <1>1, <1>12b
  <2> QED
    BY <1>12b, <1>13a, <2>1, CarriedOn DEF Leaves
<1>13c. Gemma2Takes(p1 \o p2 \o p3 \o p4 \o p5 \o p6 \o p7 \o p8 \o p9 \o p10 \o p11 \o p12 \o p13, m, m13)
  BY <1>12c, <1>13a, Gemma2TakesBoth
<1>2. Gemma2!CudaLayer(o, l, n) = p1 \o p2 \o p3 \o p4 \o p5 \o p6 \o p7 \o p8 \o p9 \o p10 \o p11 \o p12 \o p13
  BY DEF Gemma2!CudaLayer, p1, p2, p3, p4, p5, p6, p7, p8, p9, p10, p11, p12, p13
<1> QED
  BY <1>2, <1>13a, <1>13b, <1>13c

-----------------------------------------------------------------------------
(* EmbeddingGemma 2 on CUDA: the inputs of the layers, and the answers *)

\* The first launches.
LEMMA Gemma2CudaStarts ==
    ASSUME NEW m, NEW T, NEW from, Held(T), NEW n, DOMAIN T = 0 .. n - 1, Fed(m, from, T),
           {"x", "x16", "ple", "h16"} \subseteq DOMAIN m,
           NEW b, b.tokens = n, b.from = from
    PROVE  \E w : /\ Gemma2Takes(Gemma2!CudaInput(b), m, w)
                  /\ Carries(w, "x", "x", 1, T) /\ Carries(w, "ple", "ple", 1, T)
                  /\ Carries(w, "h16", "attn_in", 1, T)
<1> DEFINE p == <<Gemma2!EmbedFrom(from, 0 .. n - 1)>>
           q == <<Gemma2!Convert("x", "x16", 0 .. n - 1)>>
           r == Gemma2!Gemm("per_layer_model_proj", 1, "x16", "ple", n)
           s == Gemma2!Norm("per_layer_proj_norm", 1, "ple", "ple", n)
           t == Gemma2!Norm("attn_norm", 1, "x", "h16", n)
<1>1. \A i \in {"x", "x16", "ple", "h16"} : i \notin Settled
  BY DEF Settled, Inputs
<1>2. PICK m1 : Gemma2Takes(p, m, m1) /\ Leaves(m, m1, {"x"}) /\ Carries(m1, "x", "x", 1, T)
  BY Gemma2Embeds, ComputesLeaves
<1>3. DOMAIN m1 = DOMAIN m
  BY <1>2 DEF Leaves
<1>4. PICK m2 : Gemma2Takes(q, m1, m2) /\ Leaves(m1, m2, {"x16"}) /\ Carries(m2, "x16", "x", 1, T)
  <2>1. "x16" \in DOMAIN m1 /\ "x16" \notin Settled /\ "x" \in QuantityNames /\ 1 \in Nat
    BY <1>1, <1>3 DEF QuantityNames
  <2>2. PICK m2 : Gemma2Takes(q, m1, m2) /\ Computes(m1, m2, "x16", "x", 1, T)
    BY <1>2, <2>1, Gemma2Converts
  <2> QED
    BY <2>2, ComputesLeaves
<1>5. Carries(m2, "x", "x", 1, T) /\ DOMAIN m2 = DOMAIN m
  <2>1. "x" \in DOMAIN m1 \ {"x16"}
    BY <1>3
  <2> QED
    BY <1>2, <1>3, <1>4, <2>1, CarriedOn DEF Leaves
<1>6. PICK m3 : Gemma2Takes(r, m2, m3) /\ Leaves(m2, m3, {"ple"}) /\ Carries(m3, "ple", "ple_raw", 1, T)
  BY <1>1, <1>4, <1>5, Gemma2Computes, Gemma2MakesOne DEF Gemma2!Gemm
<1>7. Carries(m3, "x", "x", 1, T) /\ DOMAIN m3 = DOMAIN m
  <2>1. "x" \in DOMAIN m2 \ {"ple"}
    BY <1>5
  <2> QED
    BY <1>5, <1>6, <2>1, CarriedOn DEF Leaves
<1>8. PICK m4 : Gemma2Takes(s, m3, m4) /\ Leaves(m3, m4, {"ple"}) /\ Carries(m4, "ple", "ple", 1, T)
  BY <1>1, <1>6, <1>7, Gemma2Computes, Gemma2MakesOne DEF Gemma2!Norm
<1>9. Carries(m4, "x", "x", 1, T) /\ DOMAIN m4 = DOMAIN m
  <2>1. "x" \in DOMAIN m3 \ {"ple"}
    BY <1>7
  <2> QED
    BY <1>7, <1>8, <2>1, CarriedOn DEF Leaves
<1>10. PICK m5 : Gemma2Takes(t, m4, m5) /\ Leaves(m4, m5, {"h16"}) /\ Carries(m5, "h16", "attn_in", 1, T)
  BY <1>1, <1>9, Gemma2Computes, Gemma2MakesOne DEF Gemma2!Norm
<1>11. Carries(m5, "x", "x", 1, T) /\ Carries(m5, "ple", "ple", 1, T)
  <2>1. "x" \in DOMAIN m4 \ {"h16"} /\ "ple" \in DOMAIN m4 \ {"h16"}
    BY <1>9
  <2> QED
    BY <1>8, <1>9, <1>10, <2>1, CarriedOn
<1>12. <<Gemma2!EmbedFrom(from, 0 .. n - 1), Gemma2!Convert("x", "x16", 0 .. n - 1)>> = p \o q
  BY TuplesJoin
<1>13. Gemma2!CudaInput(b) = p \o q \o r \o s \o t
  BY <1>12 DEF Gemma2!CudaInput
<1> HIDE DEF p, q, r, s, t
<1>14. Gemma2Takes(p \o q, m, m2)
  BY <1>2, <1>4, Gemma2TakesBoth
<1>15. Gemma2Takes(p \o q \o r, m, m3)
  BY <1>6, <1>14, Gemma2TakesBoth
<1>16. Gemma2Takes(p \o q \o r \o s, m, m4)
  BY <1>8, <1>15, Gemma2TakesBoth
<1>17. Gemma2Takes(p \o q \o r \o s \o t, m, m5)
  BY <1>10, <1>16, Gemma2TakesBoth
<1> QED
  BY <1>10, <1>11, <1>13, <1>17

\* The means of the sequences of a part.
Gemma2Means16(w, call, first, ls) ==
    \A s \in 0 .. Len(ls) - 1 : At(w, "pooled", s) = Embedding(call, first + s, ls[s + 1])

\* The pooling makes the means of the sequences of a part.
LEMMA Gemma2CudaPools ==
    ASSUME NEW m, "pooled" \in DOMAIN m, NEW from, NEW T, NEW call, NEW first, NEW ls, Packs(T, call, first, ls),
           \A s \in DOMAIN ls : ls[s] # 0, Carries(m, from, "out", LayerCount + 1, T),
           \A s \in 0 .. Len(ls) : m.offsets[s] = Offsets(ls)[s],
           NEW sequences, sequences = 0 .. Len(ls) - 1
    PROVE  \E w : /\ Gemma2Takes(<<Gemma2!PoolOf(from, "pooled", sequences)>>, m, w)
                  /\ Gemma2Means16(w, call, first, ls)
<1> DEFINE F == Gemma2PoolsOf(m, from, sequences)
           g == Gemma2!PoolOf(from, "pooled", sequences)
<1>1. PICK w : w = Gemma2!Execution!Run(m, g)
  OBVIOUS
<1>2. w = Write(m, "pooled", F)
  BY <1>1, Gemma2PoolRuns
<1>3. Gemma2Fold!Leads(<<g>>, m, w)
  BY <1>1, Gemma2Fold!LeadsOne
<1>4. ls \in Seq(Nat)
  BY DEF Packs
<1>5. ASSUME NEW s \in 0 .. Len(ls) - 1
      PROVE  s \in DOMAIN F /\ F[s] = Embedding(call, first + s, ls[s + 1])
  <2>1. F[s] = Gemma2!Pooled({At(m, from, r) : r \in m.offsets[s] .. m.offsets[s + 1] - 1}) /\ s \in DOMAIN F
    BY DEF Gemma2PoolsOf
  <2>2. s \in 0 .. Len(ls) /\ s + 1 \in 0 .. Len(ls) /\ s + 1 \in DOMAIN ls
    BY <1>4
  <2>3. m.offsets[s] = Offsets(ls)[s] /\ m.offsets[s + 1] = Offsets(ls)[s + 1] /\ ls[s + 1] # 0
    BY <2>2
  <2>4. Gemma2!Pooled({At(m, from, r) : r \in Offsets(ls)[s] .. Offsets(ls)[s + 1] - 1}) =
            Embedding(call, first + s, ls[s + 1])
    BY <2>3, Gemma2PoolsOne
  <2> HIDE DEF F
  <2> QED
    BY <2>1, <2>3, <2>4
<1> HIDE DEF F, g
<1>6. Keeps(m, w, "pooled") /\ \A r \in DOMAIN F : At(w, "pooled", r) = F[r]
  BY <1>2, Written
<1>7. Gemma2Means16(w, call, first, ls)
  BY <1>5, <1>6 DEF Gemma2Means16
<1>8. "pooled" \notin Settled
  BY DEF Settled, Inputs
<1>9. Gemma2Takes(<<g>>, m, w)
  BY <1>3, <1>6, <1>8, KeepsSteady DEF Gemma2Takes
<1> QED
  BY <1>7, <1>9 DEF g

\* The last launches.
LEMMA Gemma2CudaEnds ==
    ASSUME NEW m, NEW T, NEW call, NEW first, NEW ls, Packs(T, call, first, ls),
           \A s \in DOMAIN ls : ls[s] # 0, Gemma2CudaReady(m, T, ls), NEW n, n = Total(ls),
           Carries(m, "h16", "normed", LayerCount + 1, T),
           NEW sequences, sequences = 0 .. Len(ls) - 1
    PROVE  \E w : /\ Gemma2Takes(Gemma2!Gemm("output", LayerCount + 1, "h16", "wide", n)
                                 \o <<Gemma2!PoolOf("wide", "pooled", sequences)>>, m, w)
                  /\ Gemma2Means16(w, call, first, ls)
<1> DEFINE p == Gemma2!Gemm("output", LayerCount + 1, "h16", "wide", n)
           q == <<Gemma2!PoolOf("wide", "pooled", sequences)>>
<1>1. PICK k \in Nat : k = LayerCount + 1
  BY LayersAreCounted
<1>2. "wide" \in DOMAIN m \ Settled /\ "pooled" \in DOMAIN m /\ Held(T) /\ DOMAIN T = 0 .. n - 1
  <2>1. Held(T)
    BY RowsArePacked DEF Held
  <2>2. DOMAIN T = 0 .. n - 1
    BY DEF Packs
  <2>3. "wide" \in DOMAIN m \ Settled /\ "pooled" \in DOMAIN m
    BY DEF Gemma2CudaReady, Gemma2CudaNames, Gemma2TokenBuffers, Gemma2Upload, Settled, Inputs
  <2> QED
    BY <2>1, <2>2, <2>3
<1>3. PICK v : Gemma2Takes(p, m, v) /\ Leaves(m, v, {"wide"}) /\ Carries(v, "wide", "out", k, T)
  BY <1>1, <1>2, Gemma2Computes, Gemma2MakesOne DEF Gemma2!Gemm
<1> HIDE DEF p
<1>4. Gemma2CudaReady(v, T, ls)
  BY <1>3, CudaReadySteady DEF Gemma2Takes
<1>5. PICK w : Gemma2Takes(q, v, w) /\ Gemma2Means16(w, call, first, ls)
  <2>1. "pooled" \in DOMAIN v
    BY <1>2, <1>3 DEF Leaves
  <2>2. Carries(v, "wide", "out", LayerCount + 1, T) /\ \A s \in 0 .. Len(ls) : v.offsets[s] = Offsets(ls)[s]
    BY <1>1, <1>3, <1>4 DEF Gemma2CudaReady
  <2> QED
    BY <2>1, <2>2, Gemma2CudaPools
<1> HIDE DEF q
<1>6. Gemma2Takes(p \o q, m, w)
  BY <1>3, <1>5, Gemma2TakesBoth
<1> QED
  BY <1>5, <1>6 DEF p, q

\* What a stage finds when it begins.
Gemma2CudaAt(m, T, ls, from, l) ==
    /\ Gemma2CudaReady(m, T, ls)
    /\ l = 0 => Fed(m, from, T)
    /\ l \in Layers => /\ Carries(m, "x", "x", l, T) /\ Carries(m, "h16", "attn_in", l, T)
                       /\ Carries(m, "ple", "ple", 1, T)
    /\ l = LayerCount + 1 => Carries(m, "h16", "normed", l, T)

\* The launches of a stage, for the sequences ls of a call from its sequence `first' on.
LEMMA Gemma2CudaStage ==
    ASSUME NEW o, NEW m, NEW T, NEW call, NEW first, NEW ls, Packs(T, call, first, ls),
           \A s \in DOMAIN ls : ls[s] # 0,
           NEW b, b.tokens = Total(ls), b.batch = Len(ls),
           NEW l \in 0 .. LayerCount + 1, Gemma2CudaAt(m, T, ls, b.from, l)
    PROVE  \E w : /\ w = FoldLeft(Gemma2!Execution!Run, m, Gemma2!CudaForward(o, b, l)) /\ Steady(m, w)
                  /\ l # LayerCount + 1 => Gemma2CudaAt(w, T, ls, b.from, l + 1)
                  /\ l = LayerCount + 1 => Gemma2Means16(w, call, first, ls)
<1>1. PICK n : n = b.tokens /\ n = Total(ls)
  OBVIOUS
<1>2. Held(T) /\ DOMAIN T = 0 .. n - 1
  <2>1. Held(T)
    BY RowsArePacked DEF Held
  <2> QED
    BY <1>1, <2>1 DEF Packs
<1>3. {"x", "x16", "ple", "h16"} \subseteq DOMAIN m /\ Gemma2CudaReady(m, T, ls)
  BY DEF Gemma2CudaAt, Gemma2CudaReady, Gemma2CudaNames, Gemma2TokenBuffers
<1>4. LayerCount \in Nat /\ LayerCount # 0 /\ Layers = 1 .. LayerCount /\ Gemma2!Layers = 1 .. LayerCount
  BY LayersAreCounted DEF Layers, Gemma2!Layers
<1>5. ASSUME NEW p, p = Gemma2!CudaForward(o, b, l), NEW w, Gemma2Takes(p, m, w)
      PROVE  w = FoldLeft(Gemma2!Execution!Run, m, Gemma2!CudaForward(o, b, l)) /\ Steady(m, w) /\ Gemma2CudaReady(w, T, ls)
  BY <1>3, <1>5, Gemma2Folds, CudaReadySteady DEF Gemma2Takes, Gemma2Fold!Leads
<1>6. CASE l = 0
  <2>1. PICK p : p = Gemma2!CudaInput(b)
    OBVIOUS
  <2>2. PICK w : /\ Gemma2Takes(p, m, w) /\ Carries(w, "x", "x", 1, T) /\ Carries(w, "ple", "ple", 1, T)
                 /\ Carries(w, "h16", "attn_in", 1, T)
    <3>1. Fed(m, b.from, T)
      BY <1>6 DEF Gemma2CudaAt
    <3> QED
      BY <1>1, <1>2, <1>3, <2>1, <3>1, Gemma2CudaStarts
  <2>3. Gemma2!CudaForward(o, b, l) = p
    <3>1. l \notin Gemma2!Layers
      BY <1>4, <1>6
    <3> QED
      BY <1>6, <2>1, <3>1 DEF Gemma2!CudaForward
  <2>4. l + 1 = 1 /\ l # LayerCount + 1 /\ 1 # 0 /\ 1 # LayerCount + 1
    BY <1>4, <1>6
  <2>5. w = FoldLeft(Gemma2!Execution!Run, m, Gemma2!CudaForward(o, b, l)) /\ Steady(m, w) /\ Gemma2CudaReady(w, T, ls)
    BY <1>5, <2>2, <2>3
  <2>6. Gemma2CudaAt(w, T, ls, b.from, l + 1)
    BY <2>2, <2>4, <2>5 DEF Gemma2CudaAt
  <2> QED
    BY <2>4, <2>5, <2>6
<1>7. CASE l \in Layers
  <2>1. l \in Nat /\ l # 0 /\ l # LayerCount + 1 /\ l \in Gemma2!Layers
    BY <1>4, <1>7
  <2>2. PICK p : p = Gemma2!CudaLayer(o, l, n)
    OBVIOUS
  <2>3. PICK next, made : /\ next = (IF l < LayerCount THEN "attn_norm" ELSE "output_norm")
                          /\ made = (IF l < LayerCount THEN "attn_in" ELSE "normed")
    OBVIOUS
  <2>4. Gemma2Makes(next, "x", made)
    BY <2>3, Gemma2MakesOne
  <2>5. Carries(m, "x", "x", l, T) /\ Carries(m, "h16", "attn_in", l, T) /\ Carries(m, "ple", "ple", 1, T)
    BY <1>7 DEF Gemma2CudaAt
  <2>6. PICK w : /\ Gemma2Takes(p, m, w)
                 /\ Carries(w, "x", "x", l + 1, T) /\ Carries(w, "h16", made, l + 1, T)
                 /\ Carries(w, "ple", "ple", 1, T)
    BY <1>1, <1>3, <2>1, <2>2, <2>3, <2>4, <2>5, Gemma2CudaLayers
  <2>7. Gemma2!CudaForward(o, b, l) = p
    BY <1>1, <2>1, <2>2 DEF Gemma2!CudaForward
  <2>8. w = FoldLeft(Gemma2!Execution!Run, m, Gemma2!CudaForward(o, b, l)) /\ Steady(m, w) /\ Gemma2CudaReady(w, T, ls)
    BY <1>5, <2>6, <2>7
  <2>9. PICK k : k = l + 1
    OBVIOUS
  <2>10. k # 0 /\ (k \in Layers => made = "attn_in") /\ (k = LayerCount + 1 => made = "normed")
    BY <1>4, <1>7, <2>3, <2>9
  <2>11. Gemma2CudaAt(w, T, ls, b.from, k)
    BY <2>6, <2>8, <2>9, <2>10 DEF Gemma2CudaAt
  <2> QED
    BY <2>1, <2>8, <2>9, <2>11
<1>8. CASE l = LayerCount + 1
  <2>1. l # 0 /\ l \notin Gemma2!Layers /\ Carries(m, "h16", "normed", LayerCount + 1, T)
    BY <1>4, <1>8 DEF Gemma2CudaAt
  <2>2. PICK sequences : sequences = 0 .. Len(ls) - 1 /\ sequences = 0 .. b.batch - 1
    OBVIOUS
  <2>3. PICK p : p = Gemma2!Gemm("output", LayerCount + 1, "h16", "wide", n)
                     \o <<Gemma2!PoolOf("wide", "pooled", sequences)>>
    OBVIOUS
  <2>4. PICK w : Gemma2Takes(p, m, w) /\ Gemma2Means16(w, call, first, ls)
    BY <1>1, <1>3, <2>1, <2>2, <2>3, Gemma2CudaEnds
  <2>5. Gemma2!CudaForward(o, b, l) = p
    BY <1>1, <2>1, <2>2, <2>3 DEF Gemma2!CudaForward
  <2> QED
    BY <1>5, <1>8, <2>4, <2>5
<1> QED
  BY <1>4, <1>6, <1>7, <1>8

-----------------------------------------------------------------------------
(* EmbeddingGemma 2 on CUDA: the parts of a call *)

\* The totals of a longer sequence.
LEMMA OffsetsLonger ==
    ASSUME NEW ls \in Seq(Nat), NEW n \in Nat
    PROVE  /\ Offsets(Append(ls, n)) = [s \in 0 .. Len(ls) + 1 |-> IF s <= Len(ls) THEN Offsets(ls)[s] ELSE Total(ls) + n]
           /\ Total(Append(ls, n)) = Total(ls) + n
<1> DEFINE f == Offsets(ls)
           k == Len(ls)
           r == Append(ls, n)
           g == [s \in 0 .. k + 1 |-> IF s <= k THEN f[s] ELSE Total(ls) + n]
<1>1. /\ k \in Nat /\ r \in Seq(Nat) /\ Len(r) = k + 1 /\ r[k + 1] = n
      /\ \A s \in 1 .. k : r[s] = ls[s]
  OBVIOUS
<1>2. Totals(ls, f)
  BY OffsetsAreTotals
<1>3. f[0] = 0 /\ \A s \in 0 .. k - 1 : f[s + 1] = f[s] + ls[s + 1]
  BY <1>2, TotalsStep
<1>4. Total(ls) = f[k]
  BY DEF Total
<1>5. Totals(r, Offsets(r))
  BY <1>1, OffsetsAreTotals
<1> HIDE DEF f, k, r
<1>6. ASSUME NEW s \in 0 .. k + 1
      PROVE  g[s] = IF s = 0 THEN 0 ELSE g[s - 1] + r[s]
  <2>1. CASE s = 0
    BY <1>1, <1>3, <2>1
  <2>2. CASE s \in 1 .. k
    <3>1. PICK i : i = s - 1 /\ i \in 0 .. k - 1 /\ i + 1 = s
      BY <1>1, <2>2
    <3>2. f[s] = f[i] + ls[s]
      BY <1>3, <3>1
    <3>3. i \in 0 .. k + 1 /\ i <= k /\ s <= k /\ s # 0
      BY <1>1, <2>2, <3>1
    <3>4. g[s] = f[s] /\ g[i] = f[i]
      BY <3>3
    <3> QED
      BY <1>1, <2>2, <3>1, <3>2, <3>3, <3>4
  <2>3. CASE s = k + 1
    <3>1. PICK i : i = s - 1 /\ i = k /\ i \in 0 .. k + 1 /\ i <= k /\ ~(s <= k) /\ s # 0
      BY <1>1, <2>3
    <3>2. g[i] = f[k] /\ g[s] = f[k] + n
      BY <1>4, <3>1
    <3> QED
      BY <1>1, <2>3, <3>1, <3>2
  <2> QED
    BY <1>1, <2>1, <2>2, <2>3
<1>7. g = [s \in 0 .. k + 1 |-> g[s]]
  OBVIOUS
<1>8. g[k + 1] = Total(ls) + n
  <2>1. k + 1 \in 0 .. k + 1 /\ ~(k + 1 <= k)
    BY <1>1
  <2> QED
    BY <2>1
<1>9. PICK h : h = g
  OBVIOUS
<1>10. h = [s \in 0 .. k + 1 |-> IF s = 0 THEN 0 ELSE h[s - 1] + r[s]]
  <2>1. \A s \in 0 .. k + 1 : h[s] = IF s = 0 THEN 0 ELSE h[s - 1] + r[s]
    BY <1>6, <1>9
  <2>2. h = [s \in 0 .. k + 1 |-> h[s]]
    BY <1>7, <1>9
  <2> HIDE DEF g
  <2> QED
    BY <2>1, <2>2
<1>11. Totals(r, h)
  BY <1>1, <1>10 DEF Totals
<1>12. Offsets(r) = h
  BY <1>1, <1>5, <1>11, TotalsUnique
<1>13. Total(r) = h[k + 1]
  BY <1>1, <1>12 DEF Total
<1> QED
  BY <1>8, <1>9, <1>12, <1>13 DEF f, k, r

\* A part with one more sequence.
LEMMA LongerPart ==
    ASSUME NEW ls \in Seq(Nat), NEW n \in Nat, NEW from, NEW first
    PROVE  Longer(PartOf(ls, from, first), n) = PartOf(Append(ls, n), from, first)
<1>1. PICK t, b, f, u : t = Total(ls) /\ b = Len(ls) /\ f = Offsets(ls) /\ u = Append(ls, n)
  OBVIOUS
<1>2. PICK g : g = [s \in 0 .. b + 1 |-> IF s <= b THEN f[s] ELSE t + n]
  OBVIOUS
<1>3. Offsets(u) = g /\ Total(u) = t + n /\ Len(u) = b + 1
  BY <1>1, <1>2, OffsetsLonger
<1>4. PICK p : p = [from |-> from, tokens |-> t, batch |-> b, offsets |-> f, first |-> first]
  OBVIOUS
<1>5. PartOf(ls, from, first) = p
  BY <1>1, <1>4 DEF PartOf
<1>6. Longer(p, n) = [p EXCEPT !.tokens = t + n, !.batch = b + 1, !.offsets = g]
  BY <1>2, <1>4 DEF Longer
<1>7. Longer(p, n) = [from |-> from, tokens |-> t + n, batch |-> b + 1, offsets |-> g, first |-> first]
  BY <1>4, <1>6
<1> QED
  BY <1>1, <1>3, <1>5, <1>7 DEF PartOf

\* A stretch of a longer sequence.
LEMMA StretchLonger ==
    ASSUME NEW ls \in Seq(Nat), NEW n \in Nat, NEW a \in 0 .. Len(ls)
    PROVE  /\ SubSeq(Append(ls, n), a + 1, Len(ls) + 1) = Append(SubSeq(ls, a + 1, Len(ls)), n)
           /\ \A b \in a .. Len(ls) : SubSeq(Append(ls, n), a + 1, b) = SubSeq(ls, a + 1, b)
           /\ SubSeq(Append(ls, n), Len(ls) + 1, Len(ls) + 1) = <<n>>
<1>0. PICK k, u : k = Len(ls) /\ u = Append(ls, n)
  OBVIOUS
<1>1. k = Len(ls) /\ k \in Nat /\ u = Append(ls, n) /\ a \in 0 .. k
  BY <1>0
<1>2. u \in Seq(Nat) /\ Len(u) = k + 1 /\ u[k + 1] = n /\ \A i \in 1 .. k : u[i] = ls[i]
  BY <1>1
<1>3. ASSUME NEW b \in a .. k
      PROVE  SubSeq(u, a + 1, b) = SubSeq(ls, a + 1, b)
  <2>1. PICK s, t : s = SubSeq(u, a + 1, b) /\ t = SubSeq(ls, a + 1, b)
    OBVIOUS
  <2>2. s \in Seq(Nat) /\ t \in Seq(Nat) /\ Len(s) = b - a /\ Len(t) = b - a
    BY <1>1, <1>2, <2>1
  <2>3. \A i \in 1 .. b - a : s[i] = t[i]
    BY <1>1, <1>2, <2>1
  <2>4. s = t
    BY <2>2, <2>3, SeqEqual
  <2> QED
    BY <2>1, <2>4
<1>4. SubSeq(u, a + 1, k + 1) = Append(SubSeq(ls, a + 1, k), n)
  <2>1. PICK s, t : s = SubSeq(u, a + 1, k + 1) /\ t = SubSeq(ls, a + 1, k)
    OBVIOUS
  <2>2. s \in Seq(Nat) /\ t \in Seq(Nat) /\ Len(s) = k + 1 - a /\ Len(t) = k - a
    BY <1>1, <1>2, <2>1
  <2>8. PICK r : r = Append(t, n)
    OBVIOUS
  <2>3. /\ r = Append(t, n) /\ r \in Seq(Nat) /\ Len(r) = k + 1 - a /\ r[k + 1 - a] = n
        /\ \A i \in 1 .. k - a : r[i] = t[i]
    BY <1>1, <2>2, <2>8
  <2>4. \A i \in 1 .. k - a : s[i] = ls[a + i] /\ t[i] = ls[a + i]
    BY <1>1, <1>2, <2>1
  <2>5. s[k + 1 - a] = n
    BY <1>1, <1>2, <2>1
  <2>6. \A i \in 1 .. k + 1 - a : s[i] = r[i]
    <3> TAKE i \in 1 .. k + 1 - a
    <3>1. i = k + 1 - a \/ i \in 1 .. k - a
      BY <1>1
    <3> QED
      BY <2>3, <2>4, <2>5, <3>1
  <2>7. s = r
    BY <2>2, <2>3, <2>6, SeqEqual
  <2> QED
    BY <2>1, <2>3, <2>7
<1>5. SubSeq(u, k + 1, k + 1) = <<n>>
  <2>1. PICK s, t : s = SubSeq(u, k + 1, k + 1) /\ t = <<n>>
    OBVIOUS
  <2>2. s \in Seq(Nat) /\ Len(s) = 1 /\ s[1] = n
    BY <1>1, <1>2, <2>1
  <2>3. t \in Seq(Nat) /\ Len(t) = 1 /\ t[1] = n
    BY <2>1
  <2>4. s = t
    BY <2>2, <2>3, SeqEqual
  <2> QED
    BY <2>1, <2>4
<1> QED
  BY <1>1, <1>3, <1>4, <1>5

\* A sequence more is another part, or the last one is longer.
LEMMA WaveGrows ==
    ASSUME NEW parts, NEW ls \in Seq(Nat), NEW n \in Nat, Gemma2Left(parts, ls, 0, "ids")
    PROVE  Gemma2Left(WaveStep(parts, n), Append(ls, n), 0, "ids")
<1>1. PICK at \in [0 .. Len(parts) -> 0 .. Len(ls)] :
           /\ at[0] = 0 /\ at[Len(parts)] = Len(ls)
           /\ \A i \in 1 .. Len(parts) :
                  /\ at[i - 1] <= at[i]
                  /\ parts[i] = PartOf(SubSeq(ls, at[i - 1] + 1, at[i]), "ids", at[i - 1])
  BY DEF Gemma2Left
<1>2. PICK G : parts \in Seq(G)
  BY DEF Gemma2Left, IsList
<1>3. PICK m : m = Len(parts)
  OBVIOUS
<1>4. PICK k : k = Len(ls)
  OBVIOUS
<1>5. PICK u : u = Append(ls, n)
  OBVIOUS
<1>6. /\ m \in Nat /\ k \in Nat /\ u \in Seq(Nat) /\ Len(u) = k + 1 /\ DOMAIN parts = 1 .. m
      /\ m = Len(parts) /\ k = Len(ls) /\ u = Append(ls, n)
  BY <1>2, <1>3, <1>4, <1>5
<1>7. \A i \in 0 .. m : at[i] \in 0 .. k
  BY <1>1, <1>6
<1>8. ASSUME NEW a \in 0 .. k
      PROVE  /\ SubSeq(u, a + 1, k + 1) = Append(SubSeq(ls, a + 1, k), n)
             /\ \A b \in a .. k : SubSeq(u, a + 1, b) = SubSeq(ls, a + 1, b)
             /\ SubSeq(u, k + 1, k + 1) = <<n>>
  BY <1>6, StretchLonger
<1>9. ASSUME NEW i \in 1 .. m
      PROVE  /\ at[i - 1] \in 0 .. k /\ at[i] \in 0 .. k /\ at[i - 1] <= at[i] /\ at[i] <= k + 1
             /\ parts[i] = PartOf(SubSeq(u, at[i - 1] + 1, at[i]), "ids", at[i - 1])
  <2>1. i - 1 \in 0 .. m /\ i \in 0 .. m
    BY <1>6
  <2>2. PICK a, b : a = at[i - 1] /\ b = at[i]
    OBVIOUS
  <2>3. a \in 0 .. k /\ b \in 0 .. k /\ a <= b /\ parts[i] = PartOf(SubSeq(ls, a + 1, b), "ids", a)
    BY <1>1, <1>6, <1>7, <2>1, <2>2
  <2>4. b \in a .. k /\ b <= k + 1
    BY <1>6, <2>3
  <2>5. SubSeq(u, a + 1, b) = SubSeq(ls, a + 1, b)
    BY <1>8, <2>3, <2>4
  <2> QED
    BY <2>2, <2>3, <2>4, <2>5
<1>10. at[m] = k /\ at[0] = 0
  BY <1>1, <1>6
<1>11. CASE parts # <<>> /\ Last(parts).tokens + n <= ContextLength
  <2>1. m # 0 /\ m \in 1 .. m /\ m \in 0 .. m /\ m - 1 \in 0 .. m
    BY <1>2, <1>6, <1>11
  <2>2. PICK a : a = at[m - 1]
    OBVIOUS
  <2>3. PICK t : t = SubSeq(ls, a + 1, k)
    OBVIOUS
  <2>4. a \in 0 .. k /\ parts[m] = PartOf(t, "ids", a)
    BY <1>1, <1>6, <1>7, <1>10, <2>1, <2>2, <2>3
  <2>17. t \in Seq(Nat)
    <3>1. k = Len(ls) /\ k \in Nat
      BY <1>6
    <3> QED
      BY <2>3, <2>4, <3>1
  <2>18. SubSeq(u, a + 1, k + 1) = Append(SubSeq(ls, a + 1, k), n)
    BY <1>8, <2>4
  <2>5. t \in Seq(Nat) /\ SubSeq(u, a + 1, k + 1) = Append(t, n)
    BY <2>3, <2>17, <2>18
  <2>6. PICK p : p = Longer(parts[m], n)
    OBVIOUS
  <2>7. p = PartOf(SubSeq(u, a + 1, k + 1), "ids", a)
    <3>1. Longer(PartOf(t, "ids", a), n) = PartOf(Append(t, n), "ids", a)
      BY <2>5, LongerPart
    <3> QED
      BY <2>4, <2>5, <2>6, <3>1
  <2>8. PICK ws : ws = [parts EXCEPT ![m] = p]
    OBVIOUS
  <2>9. WaveStep(parts, n) = ws
    BY <1>6, <1>11, <2>6, <2>8 DEF WaveStep
  <2>10. IsList(ws) /\ Len(ws) = m /\ ws[m] = p /\ \A i \in 1 .. m : i # m => ws[i] = parts[i]
    <3>1. PICK H : H = G \cup {p}
      OBVIOUS
    <3>2. ws \in [1 .. m -> H]
      <4>1. parts \in [1 .. m -> G]
        <5>1. \A i \in 1 .. m : parts[i] \in G
          BY <1>2, <1>6
        <5>2. parts = [i \in 1 .. m |-> parts[i]]
          BY <1>2, <1>6
        <5> QED
          BY <5>1, <5>2
      <4> QED
        BY <2>8, <3>1, <4>1
    <3>3. ws \in Seq(H)
      BY <1>6, <3>2, SeqDef
    <3>4. Len(ws) = m
      BY <1>6, <3>2, <3>3
    <3>5. ws[m] = p /\ \A i \in 1 .. m : i # m => ws[i] = parts[i]
      BY <1>6, <2>1, <2>8
    <3> QED
      BY <3>3, <3>4, <3>5, SequencesAreLists
  <2>11. PICK to : to = [i \in 0 .. m |-> IF i = m THEN k + 1 ELSE at[i]]
    OBVIOUS
  <2>12. \A i \in 0 .. m : to[i] = IF i = m THEN k + 1 ELSE at[i]
    BY <2>11
  <2>13. to \in [0 .. m -> 0 .. k + 1]
    <3>1. k + 1 \in 0 .. k + 1 /\ \A i \in 0 .. m : at[i] \in 0 .. k + 1
      BY <1>6, <1>7
    <3> QED
      BY <2>11, <3>1
  <2>14. to[0] = 0 /\ to[m] = k + 1
    <3>1. 0 \in 0 .. m /\ 0 # m
      BY <1>6, <2>1
    <3> QED
      BY <1>10, <2>1, <2>12, <3>1
  <2>15. ASSUME NEW i \in 1 .. m
         PROVE  to[i - 1] <= to[i] /\ ws[i] = PartOf(SubSeq(u, to[i - 1] + 1, to[i]), "ids", to[i - 1])
    <3>1. i - 1 \in 0 .. m /\ i - 1 # m /\ i \in 0 .. m
      BY <1>6
    <3>2. to[i - 1] = at[i - 1]
      BY <2>12, <3>1
    <3>3. CASE i = m
      <4>1. to[i] = k + 1 /\ ws[i] = p /\ to[i - 1] = a
        BY <2>2, <2>10, <2>14, <3>2, <3>3
      <4>2. a <= k + 1
        BY <1>6, <2>4
      <4> QED
        BY <2>7, <4>1, <4>2
    <3>4. CASE i # m
      <4>1. to[i] = at[i] /\ ws[i] = parts[i]
        BY <2>10, <2>12, <3>1, <3>4
      <4> QED
        BY <1>9, <3>2, <4>1
    <3> QED
      BY <3>3, <3>4
  <2>16. Gemma2Left(ws, u, 0, "ids")
    BY <1>6, <2>10, <2>13, <2>14, <2>15 DEF Gemma2Left
  <2> QED
    BY <1>5, <2>9, <2>16
<1>12. CASE ~(parts # <<>> /\ Last(parts).tokens + n <= ContextLength)
  <2>1. NextFirst(parts) = k
    <3>1. CASE parts = <<>>
      <4>1. m = 0
        BY <1>6, <3>1
      <4> QED
        BY <1>10, <3>1, <4>1 DEF NextFirst
    <3>2. CASE parts # <<>>
      <4>1. m # 0 /\ m \in 1 .. m /\ m - 1 \in 0 .. m /\ Last(parts) = parts[m]
        BY <1>2, <1>6, <3>2 DEF Last
      <4>2. PICK a : a = at[m - 1]
        OBVIOUS
      <4>3. PICK t : t = SubSeq(ls, a + 1, k)
        OBVIOUS
      <4>4. a \in 0 .. k /\ parts[m] = PartOf(t, "ids", a)
        BY <1>1, <1>6, <1>7, <1>10, <4>1, <4>2, <4>3
      <4>5. Len(t) = k - a
        BY <1>6, <4>3, <4>4
      <4>6. Last(parts).first = a /\ Last(parts).batch = k - a
        BY <4>1, <4>4, <4>5 DEF PartOf
      <4>7. a + (k - a) = k
        BY <1>6, <4>4
      <4> QED
        BY <3>2, <4>6, <4>7 DEF NextFirst
    <3> QED
      BY <3>1, <3>2
  <2>2. PICK p : p = PartOf(<<n>>, "ids", k)
    OBVIOUS
  <2>3. PICK ws : ws = Append(parts, p)
    OBVIOUS
  <2>4. WaveStep(parts, n) = ws
    BY <1>12, <2>1, <2>2, <2>3 DEF WaveStep
  <2>5. IsList(ws) /\ Len(ws) = m + 1 /\ ws[m + 1] = p /\ \A i \in 1 .. m : ws[i] = parts[i]
    <3>1. PICK H : H = G \cup {p}
      OBVIOUS
    <3>2. parts \in Seq(H) /\ p \in H
      BY <1>2, <3>1
    <3>3. ws \in Seq(H) /\ Len(ws) = m + 1 /\ ws[m + 1] = p /\ \A i \in 1 .. m : ws[i] = parts[i]
      BY <1>6, <2>3, <3>2, AppendProperties
    <3> QED
      BY <3>3, SequencesAreLists
  <2>6. PICK to : to = [i \in 0 .. m + 1 |-> IF i = m + 1 THEN k + 1 ELSE at[i]]
    OBVIOUS
  <2>7. \A i \in 0 .. m + 1 : to[i] = IF i = m + 1 THEN k + 1 ELSE at[i]
    BY <2>6
  <2>8. to \in [0 .. m + 1 -> 0 .. k + 1]
    <3>1. k + 1 \in 0 .. k + 1 /\ \A i \in 0 .. m + 1 : i # m + 1 => at[i] \in 0 .. k + 1
      BY <1>6, <1>7
    <3> QED
      BY <2>6, <3>1
  <2>9. to[0] = 0 /\ to[m + 1] = k + 1
    <3>1. 0 \in 0 .. m + 1 /\ 0 # m + 1 /\ m + 1 \in 0 .. m + 1
      BY <1>6
    <3> QED
      BY <1>10, <2>7, <3>1
  <2>10. ASSUME NEW i \in 1 .. m + 1
         PROVE  to[i - 1] <= to[i] /\ ws[i] = PartOf(SubSeq(u, to[i - 1] + 1, to[i]), "ids", to[i - 1])
    <3>1. i - 1 \in 0 .. m + 1 /\ i - 1 # m + 1 /\ i \in 0 .. m + 1
      BY <1>6
    <3>2. to[i - 1] = at[i - 1]
      BY <2>7, <3>1
    <3>3. CASE i = m + 1
      <4>1. i - 1 = m
        BY <1>6, <3>3
      <4>2. to[i] = k + 1 /\ ws[i] = p /\ to[i - 1] = k
        BY <1>10, <2>5, <2>9, <3>2, <3>3, <4>1
      <4>3. k <= k + 1 /\ k \in 0 .. k
        BY <1>6
      <4>4. SubSeq(u, k + 1, k + 1) = <<n>>
        BY <1>8, <4>3
      <4> QED
        BY <2>2, <4>2, <4>3, <4>4
    <3>4. CASE i # m + 1
      <4>1. i \in 1 .. m
        <5>1. m \in Nat
          BY <1>6
        <5> QED
          BY <3>4, <5>1
      <4>2. to[i] = at[i] /\ ws[i] = parts[i]
        BY <2>5, <2>7, <3>1, <3>4, <4>1
      <4> QED
        BY <1>9, <3>2, <4>1, <4>2
    <3> QED
      BY <3>3, <3>4
  <2>11. Gemma2Left(ws, u, 0, "ids")
    BY <1>6, <2>5, <2>8, <2>9, <2>10 DEF Gemma2Left
  <2> QED
    BY <1>5, <2>4, <2>11
<1> QED
  BY <1>11, <1>12

WaveFold == INSTANCE ListProofs WITH FoldStep <- WaveStep

\* Waves are made one sequence after the other.
LEMMA WavesFold ==
    ASSUME NEW ls
    PROVE  WaveParts(ls) = WaveFold!Folded(<<>>, ls)
BY DEF WaveParts, WaveFold!Folded, WaveFold!FoldLeft, WaveFold!MapThenFoldSet, WaveFold!Max,
       FoldLeft, MapThenFoldSet, Max

\* The waves of a call take its sequences one after the other.
LEMMA WavesLeft ==
    ASSUME NEW ls \in Seq(Nat)
    PROVE  Gemma2Left(WaveParts(ls), ls, 0, "ids")
<1> DEFINE n == Len(ls)
           P == {k \in 0 .. n : Gemma2Left(WaveParts(SubSeq(ls, 1, k)), SubSeq(ls, 1, k), 0, "ids")}
<1>1. n \in Nat /\ SubSeq(ls, 1, 0) = <<>> /\ SubSeq(ls, 1, n) = ls
  OBVIOUS
<1>2. Gemma2Left(<<>>, <<>>, 0, "ids")
  <2>1. PICK at : at = [i \in 0 .. 0 |-> 0]
    OBVIOUS
  <2>2. IsList(<<>>)
    <3>1. <<>> \in Seq(Nat)
      OBVIOUS
    <3> QED
      BY <3>1, SequencesAreLists
  <2>3. at \in [0 .. Len(<<>>) -> 0 .. Len(<<>>)] /\ at[0] = 0 /\ Len(<<>>) = 0 /\ 1 .. 0 = {}
    BY <2>1
  <2> QED
    BY <2>2, <2>3 DEF Gemma2Left
<1>3. WaveParts(<<>>) = <<>>
  BY WavesFold, WaveFold!FoldedEmpty
<1> HIDE DEF n
<1>4. 0 \in P
  <2>1. 0 \in 0 .. n
    BY <1>1
  <2>2. Gemma2Left(WaveParts(SubSeq(ls, 1, 0)), SubSeq(ls, 1, 0), 0, "ids")
    <3>1. PICK t : t = SubSeq(ls, 1, 0) /\ t = <<>>
      BY <1>1
    <3>2. Gemma2Left(WaveParts(t), t, 0, "ids")
      BY <1>2, <1>3, <3>1
    <3> QED
      BY <3>1, <3>2
  <2> QED
    BY <2>1, <2>2
<1>5. ASSUME NEW k \in 0 .. n - 1, k \in P
      PROVE  k + 1 \in P
  <2>1. PICK t, e : t = SubSeq(ls, 1, k) /\ e = ls[k + 1]
    OBVIOUS
  <2>2. t \in Seq(Nat) /\ e \in Nat /\ SubSeq(ls, 1, k + 1) = Append(t, e)
    BY <1>1, <2>1 DEF n
  <2>3. Gemma2Left(WaveParts(t), t, 0, "ids")
    BY <1>5, <2>1
  <2>4. WaveFold!Folded(<<>>, Append(t, e)) = WaveStep(WaveFold!Folded(<<>>, t), e)
    BY <2>2, WaveFold!FoldedAppend
  <2>5. WaveParts(Append(t, e)) = WaveStep(WaveParts(t), e)
    BY <2>4, WavesFold
  <2>6. Gemma2Left(WaveParts(Append(t, e)), Append(t, e), 0, "ids")
    BY <2>2, <2>3, <2>5, WaveGrows
  <2>7. k + 1 \in 0 .. n
    BY <1>1
  <2> QED
    BY <2>2, <2>6, <2>7
<1> HIDE DEF P
<1>6. 0 .. n \subseteq P
  BY <1>1, <1>4, <1>5, UpTo
<1>7. n \in P
  BY <1>1, <1>6
<1> QED
  BY <1>1, <1>7 DEF P

-----------------------------------------------------------------------------
(* EmbeddingGemma 2 on CUDA: what a call copies *)

\* Four elements and five.
LEMMA MoreTuplesJoin ==
    ASSUME NEW a, NEW b, NEW c, NEW d, NEW e
    PROVE  <<a, b, c, d>> = <<a, b, c>> \o <<d>> /\ <<a, b, c, d, e>> = <<a, b, c, d>> \o <<e>>
<1>1. PICK G : G = {a, b, c, d, e}
  OBVIOUS
<1>2. PICK s, t : s = <<a, b, c>> \o <<d>> /\ t = <<a, b, c, d>>
  OBVIOUS
<1>3. s \in Seq(G) /\ Len(s) = 4 /\ s[1] = a /\ s[2] = b /\ s[3] = c /\ s[4] = d
  BY <1>1, <1>2
<1>4. t \in Seq(G) /\ Len(t) = 4 /\ t[1] = a /\ t[2] = b /\ t[3] = c /\ t[4] = d
  BY <1>1, <1>2
<1>5. \A i \in 1 .. 4 : i = 1 \/ i = 2 \/ i = 3 \/ i = 4
  OBVIOUS
<1>6. \A i \in 1 .. 4 : s[i] = t[i]
  BY <1>3, <1>4, <1>5
<1>7. s = t
  BY <1>3, <1>4, <1>6, SeqEqual
<1>8. PICK u, v : u = t \o <<e>> /\ v = <<a, b, c, d, e>>
  OBVIOUS
<1>9. u \in Seq(G) /\ Len(u) = 5 /\ u[1] = a /\ u[2] = b /\ u[3] = c /\ u[4] = d /\ u[5] = e
  <2>1. PICK x : x = <<e>>
    OBVIOUS
  <2>2. x \in Seq(G) /\ Len(x) = 1 /\ x[1] = e
    BY <1>1, <2>1
  <2>3. u = t \o x
    BY <1>8, <2>1
  <2>4. u \in Seq(G) /\ Len(u) = Len(t) + Len(x)
    BY <1>4, <2>2, <2>3, ConcatProperties
  <2>5. \A i \in 1 .. Len(t) + Len(x) : u[i] = IF i <= Len(t) THEN t[i] ELSE x[i - Len(t)]
    BY <1>4, <2>2, <2>3, ConcatProperties
  <2>6. \A i \in 1 .. 5 : u[i] = IF i <= 4 THEN t[i] ELSE x[i - 4]
    BY <1>4, <2>2, <2>5
  <2> QED
    BY <1>4, <2>2, <2>4, <2>6
<1>10. v \in Seq(G) /\ Len(v) = 5 /\ v[1] = a /\ v[2] = b /\ v[3] = c /\ v[4] = d /\ v[5] = e
  BY <1>1, <1>8
<1>11. \A i \in 1 .. 5 : i = 1 \/ i = 2 \/ i = 3 \/ i = 4 \/ i = 5
  OBVIOUS
<1>12. \A i \in 1 .. 5 : u[i] = v[i]
  BY <1>9, <1>10, <1>11
<1>13. u = v
  BY <1>9, <1>10, <1>12, SeqEqual
<1> QED
  BY <1>2, <1>7, <1>8, <1>13

\* Copies keep the buffers.
LEMMA CopiesKeep ==
    ASSUME NEW m, NEW G, NEW s \in Seq(G)
    PROVE  DOMAIN Copied(m, s) = DOMAIN m
<1> DEFINE n == Len(s)
           P == {k \in 0 .. n : DOMAIN Copied(m, SubSeq(s, 1, k)) = DOMAIN m}
<1>1. n \in Nat /\ SubSeq(s, 1, 0) = <<>> /\ SubSeq(s, 1, n) = s
  OBVIOUS
<1>2. Copied(m, <<>>) = m
  BY CopiesFold, CopyFold!FoldedEmpty
<1> HIDE DEF n
<1>3. 0 \in P
  <2>1. 0 \in 0 .. n
    BY <1>1
  <2>2. DOMAIN Copied(m, SubSeq(s, 1, 0)) = DOMAIN m
    BY <1>1, <1>2
  <2> QED
    BY <2>1, <2>2
<1>4. ASSUME NEW k \in 0 .. n - 1, k \in P
      PROVE  k + 1 \in P
  <2>1. PICK t, e : t = SubSeq(s, 1, k) /\ e = s[k + 1]
    OBVIOUS
  <2>2. t \in Seq(G) /\ e \in G /\ SubSeq(s, 1, k + 1) = Append(t, e)
    BY <1>1, <2>1 DEF n
  <2>3. PICK w : w = Copied(m, t) /\ DOMAIN w = DOMAIN m
    BY <1>4, <2>1
  <2>4. CopyFold!Folded(m, Append(t, e)) = CopyStep(CopyFold!Folded(m, t), e)
    BY <2>2, CopyFold!FoldedAppend
  <2>5. Copied(m, Append(t, e)) = CopyStep(w, e)
    BY <2>3, <2>4, CopiesFold
  <2>6. DOMAIN CopyStep(w, e) = DOMAIN w
    BY DEF CopyStep, Write
  <2>7. DOMAIN Copied(m, SubSeq(s, 1, k + 1)) = DOMAIN m
    BY <2>2, <2>3, <2>5, <2>6
  <2>8. k + 1 \in 0 .. n
    BY <1>1
  <2> QED
    BY <2>7, <2>8
<1> HIDE DEF P
<1>5. 0 .. n \subseteq P
  BY <1>1, <1>3, <1>4, UpTo
<1>6. n \in P
  BY <1>1, <1>5
<1> QED
  BY <1>1, <1>6 DEF P

\* The uploads of a part are all that its kernels need.
LEMMA UploadsReady ==
    ASSUME NEW m, DOMAIN m = Gemma2CudaNames, NEW done, NEW n, NEW from, Gemma2PartIs(done, n, from)
    PROVE  \E w : /\ w = Copied(m, Gemma2Uploads) /\ w["result"] = m["result"]
                  /\ Gemma2CudaReady(w, PartTokens, PartLens) /\ Fed(w, from, PartTokens)
<1>1. PICK a, b, c : a = <<"lo", RowStarts>> /\ b = <<"hi", RowStops>> /\ c = <<"pos", RowPositions>>
  OBVIOUS
<1>2. PICK d, e : d = <<"offsets", run.parts[1].offsets>> /\ e = <<run.parts[1].from, PartTokens>>
  OBVIOUS
<1>3. Gemma2Uploads = <<a, b, c, d, e>>
  BY <1>1, <1>2 DEF Gemma2Uploads
<1>4. PICK m3 : m3 = Copied(m, <<a, b, c>>)
  OBVIOUS
<1>5. PICK m4 : m4 = CopyStep(m3, d)
  OBVIOUS
<1>6. PICK m5 : m5 = CopyStep(m4, e)
  OBVIOUS
<1>7. Copied(m, Gemma2Uploads) = m5
  <2>1. CopyFold!Leads(<<a, b, c>>, m, m3)
    <3>1. <<a, b, c>> \in Seq({a, b, c})
      OBVIOUS
    <3>2. IsList(<<a, b, c>>)
      BY <3>1, SequencesAreLists
    <3>3. CopyFold!IsList(<<a, b, c>>)
      BY <3>2 DEF IsList, CopyFold!IsList
    <3> QED
      BY <1>4, <3>3, CopiesFold DEF CopyFold!Leads
  <2>2. CopyFold!Leads(<<d>>, m3, m4) /\ CopyFold!Leads(<<e>>, m4, m5)
    BY <1>5, <1>6, CopyFold!LeadsOne
  <2>3. CopyFold!Leads(<<a, b, c>> \o <<d>>, m, m4)
    BY <2>1, <2>2, CopyFold!LeadsBoth
  <2>4. CopyFold!Leads(<<a, b, c, d>>, m, m4)
    <3>1. <<a, b, c, d>> = <<a, b, c>> \o <<d>>
      BY MoreTuplesJoin
    <3> QED
      BY <2>3, <3>1
  <2>5. CopyFold!Leads(<<a, b, c, d>> \o <<e>>, m, m5)
    BY <2>2, <2>4, CopyFold!LeadsBoth
  <2>6. CopyFold!Leads(<<a, b, c, d, e>>, m, m5)
    <3>1. <<a, b, c, d, e>> = <<a, b, c, d>> \o <<e>>
      BY MoreTuplesJoin
    <3> QED
      BY <2>5, <3>1
  <2> QED
    BY <1>3, <2>6, CopiesFold DEF CopyFold!Leads
<1>8. {"lo", "hi", "pos", "offsets", "ids", "inputs", "result"} \subseteq DOMAIN m
  BY DEF Gemma2CudaNames, Gemma2TokenBuffers, Gemma2Upload
<1>9. Gemma2Copies(m, m3)
  BY <1>1, <1>4, <1>8, CopiesRows
<1>10. Bounded(m3, PartLens) /\ Placed(m3, "pos", PartTokens)
  BY <1>9, CopiesPlaced
<1>11. DOMAIN m3 = DOMAIN m /\ m3["result"] = m["result"]
  <2>1. "result" \notin {"lo", "hi", "pos"}
    OBVIOUS
  <2> QED
    BY <1>8, <1>9, <2>1 DEF Gemma2Copies
<1>12. PICK T, ls : T = PartTokens /\ ls = PartLens
  OBVIOUS
<1>13. run.parts[1].from = from /\ from \in {"ids", "inputs"} /\ run.parts[1].offsets = Offsets(ls)
  BY <1>12 DEF Gemma2PartIs, Gemma2Due, PartOf
<1>14. m4 = Write(m3, "offsets", Offsets(ls)) /\ m5 = Write(m4, from, T)
  BY <1>2, <1>5, <1>6, <1>12, <1>13 DEF CopyStep
<1>15. Keeps(m3, m4, "offsets")
  BY <1>8, <1>11, <1>14, Written
<1>16. m4.offsets = Overlaid(Offsets(ls), m3.offsets)
  BY <1>8, <1>11, <1>14 DEF Write
<1>17. \A s \in 0 .. Len(ls) : m4.offsets[s] = Offsets(ls)[s]
  <2>1. ls \in Seq(Nat)
    BY <1>12 DEF Gemma2PartIs, Packs
  <2>2. DOMAIN Offsets(ls) = 0 .. Len(ls)
    BY <2>1, OffsetsAreTotals, TotalsStep
  <2> QED
    BY <1>16, <2>2 DEF Overlaid
<1>18. Keeps(m4, m5, from) /\ \A r \in DOMAIN T : At(m5, from, r) = T[r]
  <2>1. from \in DOMAIN m4
    BY <1>8, <1>11, <1>13, <1>15 DEF Keeps
  <2> QED
    BY <1>14, <2>1, Written
<1>19. /\ DOMAIN m5 = DOMAIN m /\ m5["result"] = m["result"] /\ m5["offsets"] = m4["offsets"]
       /\ m5["lo"] = m3["lo"] /\ m5["hi"] = m3["hi"] /\ m5["pos"] = m3["pos"]
  BY <1>8, <1>11, <1>13, <1>15, <1>18 DEF Keeps
<1>20. Bounded(m5, ls)
  BY <1>10, <1>12, <1>19 DEF Bounded
<1>21. Placed(m5, "pos", T)
  BY <1>10, <1>12, <1>19 DEF Placed, At
<1>22. Gemma2CudaReady(m5, T, ls)
  BY <1>17, <1>19, <1>20, <1>21 DEF Gemma2CudaReady
<1>23. Fed(m5, from, T)
  BY <1>18 DEF Fed
<1> QED
  BY <1>7, <1>12, <1>19, <1>22, <1>23

===============================================================================
