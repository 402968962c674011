------------------------------ MODULE CpuForward ------------------------------
(***************************************************************************)
(* The forward pass of the CPU backend (src/src/engine.c): every step is a      *)
(* parallel loop over the tokens, or over the columns of a projection, which  *)
(* ei_parallel_for cuts into chunks.                                        *)
(***************************************************************************)
EXTENDS ForwardGraph, FiniteSetsExt

-----------------------------------------------------------------------------
(* ei_parallel_for: the chunks of a loop, as pairs of a begin and an end. *)

Chunks(o, count, grain) ==
    IF o.threads = 1 \/ count <= grain THEN {<<0, count>>}
    ELSE {<<i * grain, Min({count, (i + 1) * grain})>> : i \in 0 .. (count - 1) \div grain}

TokenRows(o, n) == UNION {c[1] .. c[2] - 1 : c \in Chunks(o, n, 1)}

-----------------------------------------------------------------------------
(* Columns of the projections: EI_HEAD_DIM, EI_N_EMBD and EI_N_FF in proportion. *)

HeadDim == 2
Embd == 3 * HeadDim
FeedForward == 9

\* The chunks of the projection of a single token.
ColumnChunks(o, columns) == Chunks(o, columns, (columns + o.short_threads - 1) \div o.short_threads)

\* Of columns begin to end of several weights in a row, those of the weight at first.
Slice(c, first, width) == Max({c[1] - first, 0}) .. Min({c[2] - first, width}) - 1
SliceWhole(o, columns, first, width) ==
    UNION {Slice(c, first, width) : c \in ColumnChunks(o, columns)} = 0 .. width - 1

\* Three columns at a time, then the rest.
Rows3(begin, end) ==
    LET rest == begin + 3 * ((end - begin) \div 3)
    IN  {c \in begin .. end - 1 : c < rest} \cup rest .. end - 1

\* Of q, k and v together, then of q alone.
TripleWhole(o) ==
    LET together(c) == c[1] .. Min({c[2], HeadDim}) - 1
        alone(c) == Rows3(Max({c[1], HeadDim}), c[2])
        chunks == ColumnChunks(o, Embd)
    IN  /\ UNION {together(c) : c \in chunks} = 0 .. HeadDim - 1
        /\ UNION {together(c) \cup (IF c[2] > HeadDim THEN alone(c) ELSE {}) : c \in chunks} = 0 .. Embd - 1

QkvWhole(o) ==
    IF o.dual THEN TripleWhole(o)
    ELSE LET columns == Embd + 2 * HeadDim
         IN  /\ SliceWhole(o, columns, 0, Embd)
             /\ SliceWhole(o, columns, Embd, HeadDim)
             /\ SliceWhole(o, columns, Embd + HeadDim, HeadDim)

UpGateWhole(o) ==
    IF o.dual THEN SliceWhole(o, FeedForward, 0, FeedForward)
    ELSE SliceWhole(o, 2 * FeedForward, 0, FeedForward) /\ SliceWhole(o, 2 * FeedForward, FeedForward, FeedForward)

\* parallel_q4_projection
Q4Whole(o) == UNION {Rows3(c[1], c[2]) : c \in ColumnChunks(o, Embd)} = 0 .. Embd - 1

-----------------------------------------------------------------------------
(* Loops *)

\* The three ways through a layer.
Multirow(o, n) == n >= o.multirow_min
SingleToken(o, n) == ~Multirow(o, n) /\ n = 1 /\ o.threads > 1

\* The rows of a chunk keep what they need between two kernels on a thread's stack.
NormQuant(o, f, l, through, n) ==
    IF o.fused_rms THEN <<Map(f, l, <<"x">>, "row_q8", TokenRows(o, n))>>
    ELSE <<Map(f, l, <<"x">>, through, TokenRows(o, n)), Convert(through, "row_q8", TokenRows(o, n))>>

Project(o, whole, weights, l, from, tos, n) ==
    [i \in DOMAIN weights |-> MapIf(whole, weights[i], l, <<from>>, tos[i], TokenRows(o, n))]

\* Four tokens at a time, for every column of a chunk.
BatchRows(n) == UNION {4 * i .. 4 * i + Min({n - 4 * i, 4}) - 1 : i \in 0 .. (n - 1) \div 4}
BatchProjection(o, f, l, from, to, n) ==
    <<MapIf(UNION {c[1] .. c[2] - 1 : c \in Chunks(o, Embd, 1)} = 0 .. Embd - 1, f, l, <<from>>, to, BatchRows(n))>>

Residual(o, f, l, projection, n) == <<Map(f, l, <<projection, "x">>, "x", TokenRows(o, n))>>

\* Positions are those of the batch, or the rows of a single sequence.
QkPost(o, b, l) ==
    <<RotateAt(b.positions, "attn_q_norm", l, "q", "q", IsSwa(l), TokenRows(o, b.tokens)),
      RotateAt(b.positions, "attn_k_norm", l, "k", "k", IsSwa(l), TokenRows(o, b.tokens))>>

BuildQkv(o, b, l) ==
    LET n == b.tokens
        qkv == <<"attn_q", "attn_k", "attn_v">>
        whole == SingleToken(o, n) => QkvWhole(o)
    IN  (IF Multirow(o, n)
         THEN <<Map("attn_norm", l, <<"x">>, "q8", TokenRows(o, n))>>
              \o BatchProjection(o, "attn_q", l, "q8", "q", n)
              \o BatchProjection(o, "attn_k", l, "q8", "k", n)
              \o BatchProjection(o, "attn_v", l, "q8", "v", n)
         ELSE NormQuant(o, "attn_norm", l, "attn_in", n)
              \o Project(o, whole, qkv, l, "row_q8", <<"q", "k", "v">>, n))
        \o QkPost(o, b, l)

\* ei_attention_mha_range for the queries of a sequence of n tokens
RangeKeys(query, n, window) ==
    LET half == window \div 2
    IN  (IF window > 0 /\ query > half THEN query - half ELSE 0) ..
        (IF window > 0 THEN Min({query + half + 1, n}) ELSE n) - 1

\* The sequences of a batch that a chunk of its queries goes through.
Segments(b, c) ==
    LET firsts == {s \in 0 .. b.batch - 1 : b.offsets[s + 1] > c[1]}
        stop(s) == Min({c[2], b.offsets[s + 1]})
    IN  {<<s, Max({c[1], b.offsets[s]}), stop(s)>> : s \in {s \in firsts : b.offsets[s] < c[2]}}

Attention(o, b, l) ==
    LET segments == UNION {Segments(b, c) : c \in Chunks(o, b.tokens, 1)}
        rows == UNION {g[2] .. g[3] - 1 : g \in segments}
        start(r) == b.offsets[(CHOOSE g \in segments : g[2] <= r /\ r < g[3])[1]]
        length(r) == b.offsets[(CHOOSE g \in segments : g[2] <= r /\ r < g[3])[1] + 1] - start(r)
    IN  <<Attend(l, "range", "q", "k", "v", "ctx",
                 [r \in rows |-> {start(r) + k : k \in RangeKeys(r - start(r), length(r), WindowOf(l))}])>>

KeysOf(m, g) == g.arg

Execution == INSTANCE Kernels

AttentionOutput(o, b, l) ==
    LET n == b.tokens
    IN  IF Multirow(o, n)
        THEN <<Convert("ctx", "q8", TokenRows(o, n))>> \o BatchProjection(o, "attn_output", l, "q8", "attn_in", n)
             \o Residual(o, "post_attention_norm", l, "attn_in", n)
        ELSE <<Convert("ctx", "row_q8", TokenRows(o, n))>>
             \o Project(o, SingleToken(o, n) => Q4Whole(o), <<"attn_output">>, l, "row_q8", <<"row_out">>, n)
             \o Residual(o, "post_attention_norm", l, "row_out", n)

Gelu(o, l, gate, up, to, n) ==
    IF o.fused_gelu THEN <<Map("gelu", l, <<gate, up>>, to, TokenRows(o, n))>>
    ELSE <<Map("gelu", l, <<gate, up>>, gate, TokenRows(o, n)), Convert(gate, to, TokenRows(o, n))>>

Ffn(o, b, l) ==
    LET n == b.tokens
    IN  IF Multirow(o, n)
        THEN <<Map("ffn_norm", l, <<"x">>, "q8", TokenRows(o, n))>>
             \o BatchProjection(o, "ffn_up", l, "q8", "up", n) \o BatchProjection(o, "ffn_gate", l, "q8", "gate", n)
             \o Gelu(o, l, "gate", "up", "q8", n)
             \o BatchProjection(o, "ffn_down", l, "q8", "ctx", n)
             \o Residual(o, "post_ffw_norm", l, "ctx", n)
        ELSE NormQuant(o, "ffn_norm", l, "row_in", n)
             \o Project(o, SingleToken(o, n) => UpGateWhole(o), <<"ffn_up", "ffn_gate">>, l,
                        "row_q8", <<"row_up", "row_gate">>, n)
             \o Gelu(o, l, "row_gate", "row_up", "row_q8", n)
             \o Project(o, SingleToken(o, n) => Q4Whole(o), <<"ffn_down">>, l, "row_q8", <<"row_out">>, n)
             \o Residual(o, "post_ffw_norm", l, "row_out", n)

\* The loops of a layer, for the sequences b; the embedding before, the means after.
EmbedTokens(o, b, l) ==
    CASE l = 0 -> <<Embed(0 .. b.tokens - 1)>>
      [] l \in Layers -> BuildQkv(o, b, l) \o Attention(o, b, l) \o AttentionOutput(o, b, l) \o Ffn(o, b, l)
      [] OTHER -> <<MeanPool([s \in 0 .. b.batch - 1 |-> b.offsets[s] .. b.offsets[s + 1] - 1], b.first)>>

=============================================================================
