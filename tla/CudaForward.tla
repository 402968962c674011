----------------------------- MODULE CudaForward -----------------------------
(***************************************************************************)
(* The kernels of the CUDA backend and the launches of its forward pass       *)
(* (src/src/engine_cuda.cu), which depend on the engine's options and on the   *)
(* shape of the call.                                                       *)
(***************************************************************************)
EXTENDS DeviceForward

CONSTANTS
    MmaTile,            \* rows and columns of a tile of the tensor-core kernels (16)
    Crossover           \* tuned thresholds for batches of 1, of 2 to 4, and larger ones

-----------------------------------------------------------------------------
(* Launch geometry *)

\* A warp of q4_mma_projection_kernel writes four tokens and columns per lane.
MmaRows(n) ==
    {r \in 0 .. n - 1 : \E tile \in 0 .. (n + MmaTile - 1) \div MmaTile - 1 :
        \E group \in 0 .. MmaTile \div 2 - 1, d \in {0, MmaTile \div 2} :
            r = tile * MmaTile + group + d}
MmaColumns(width) ==
    {c \in 0 .. width - 1 : \E tile \in 0 .. (width + MmaTile - 1) \div MmaTile - 1 :
        \E pair \in 0 .. MmaTile \div 4 - 1, d \in {0, 1, MmaTile \div 2, MmaTile \div 2 + 1} :
            c = tile * MmaTile + 2 * pair + d}

-----------------------------------------------------------------------------
(* The weights of a layer as the kernels find them. *)

\* Dequantized, in this order; a projection with more rows reads on.
HalfWeights == <<"attn_q", "attn_k", "attn_v", "attn_output", "ffn_up", "ffn_gate", "ffn_down">>

\* Repacked for the integer kernels.
W4a8Weights == [
    qkv |-> <<"attn_q", "attn_k", "attn_v">>, ao |-> <<"attn_output">>,
    up_gate |-> <<"ffn_up", "ffn_gate">>, down |-> <<"ffn_down">>]

-----------------------------------------------------------------------------
(* Kernels *)

Norm(f, l, to, n) == <<Map(f, l, <<"x">>, to, GridRows(n))>>
NormResidual(f, l, n) == <<Map(f, l, <<"tmp", "x">>, "x", GridRows(n))>>
NormResidualNext(f, l, next, of, n) == NormResidual(f, l, n) \o Norm(next, of, "half_input", n)
NormQuantize(f, l, n) == Norm(f, l, "q8_input", n)
QuantizeQ8(from, n) == <<Convert(from, "q8_input", GridRows(n))>>
ToHalf(from, n) == <<Convert(from, "half_input", TaskRows(n, Width))>>

\* cuBLAS, with as many weights as there are outputs.
TensorCore(first, l, from, tos, n) ==
    LET at == CHOOSE i \in DOMAIN HalfWeights : HalfWeights[i] = first
    IN  ProjectAll(SubSeq(HalfWeights, at, at + Len(tos) - 1), l, from, tos, 0 .. n - 1)

NativeQ4(f, l, to, n) ==
    <<MapIf(MmaColumns(Width) = 0 .. Width - 1, f, l, <<"half_input">>, to, MmaRows(n))>>

\* One kernel for several weights of a layer, a warp per token and column.
Q4Projection(weights, l, from, tos, n) == ProjectAll(weights, l, from, tos, TaskRows(n, Width))

QuantizeSoa(from, n) == <<Convert(from, "w4a8_aq", TaskRows(n, Width))>>
W4a8Gemm(group, l, tos, n) == ProjectAll(W4a8Weights[group], l, "w4a8_aq", tos, MmaRows(n))
W4a8Launch(group, l, from, tos, n) == QuantizeSoa(from, n) \o W4a8Gemm(group, l, tos, n)

Gelu(l, gate, up, to, n) == <<Map("gelu", l, <<gate, up>>, to, TaskRows(n, Width))>>

-----------------------------------------------------------------------------
(* Attention.  The kernels find the sequences of the batch in device arrays, *)
(* the tensor-core path in the offsets of the host.                         *)

\* flash_attention_f16_kernel: the queries of a tile share its keys.
FlashKeys(m, arg) ==
    LET tiles == {m.tiles[i] : i \in 0 .. arg.tiles - 1}
        queries(t) == {q \in t.query .. t.query + WarpsPerBlock - 1 : q < t.stop}
        shared(t) ==
            FirstKey(t.query, t.start, arg.window) ..
            StopKey(Min({t.stop, t.query + WarpsPerBlock}) - 1, t.stop, arg.window) - 1
    IN  [query \in UNION {queries(t) : t \in tiles} |->
            LET t == CHOOSE t \in tiles : query \in queries(t)
            IN  {k \in shared(t) : FirstKey(query, t.start, arg.window) <= k /\ k < StopKey(query, t.stop, arg.window)}]

KeysOf(m, g) ==
    CASE g.kind = "packed" -> PackedKeys(m, g.arg)
      [] g.kind = "flash"  -> FlashKeys(m, g.arg)
      [] g.kind = "tile"   -> g.arg

Execution == INSTANCE Kernels

\* The buffers of a tile: the integer product with V wants a multiple of four keys.
TensorTile(o, l, start, n, first, to) ==
    TileAttention(o, l, start, n, first,
        IF o.int8 >= 1 THEN "q8_attn" ELSE "q_half",
        IF o.int8 >= 1 THEN "k8_attn" ELSE "k_half",
        IF o.int8 >= 2 /\ Cardinality(TileKeys(o, n, WindowOf(l), first)) % 4 = 0 THEN "v8_attn" ELSE "v_half",
        to)

QuantizeVCols(o, start, n) ==
    IF o.int8 >= 2 THEN <<Convert("v_half", "v8_attn", start .. start + n - 1)>> ELSE <<>>
QuantizeAttnRows(o, b) ==
    IF o.int8 >= 1
    THEN <<Convert("q_half", "q8_attn", GridRows(b.tokens)), Convert("k_half", "k8_attn", GridRows(b.tokens))>>
    ELSE <<>>

TensorSequence(o, l, start, n, to) ==
    LET tiles == Tiles(o, n, WindowOf(l))
    IN  QuantizeVCols(o, start, n) \o [i \in DOMAIN tiles |-> TensorTile(o, l, start, n, tiles[i], to)]

\* Sequences below the threshold are left to another kernel.
TensorAttention(o, b, l, minimum, to) ==
    QuantizeAttnRows(o, b)
    \o FlattenSeq([i \in DOMAIN LongSequences(b, minimum) |->
           LET s == LongSequences(b, minimum)[i] IN TensorSequence(o, l, s.start, s.n, to)])

FlashAttention(b, l, to) ==
    <<Attend(l, "flash", "q_half", "k_half", "v_half", to, [tiles |-> b.tiles, window |-> WindowOf(l)])>>

PackedAttention(b, l, q, k, v, to) ==
    <<Attend(l, "packed", q, k, v, to, [tokens |-> b.tokens, window |-> WindowOf(l), limit |-> b.tokens + 1])>>

-----------------------------------------------------------------------------
(* launch_forward, for options o and the arguments b of a call. *)

TunedThreshold(o, batch) ==
    IF o.tuned
    THEN Max({o.tensor_min, Crossover[IF batch = 1 THEN 1 ELSE IF batch <= 4 THEN 2 ELSE 3]})
    ELSE o.tensor_min

Gemm(o, b) == b.tokens >= o.gemm_min
Fp16Attention(o, b) == b.longest >= o.fp16_min
DirectQkv(o, b) == Gemm(o, b) /\ Fp16Attention(o, b) /\ ~o.native /\ o.direct_qkv
DirectContext(o, b) == Gemm(o, b) /\ Fp16Attention(o, b) /\ o.direct_context
Context(o, b) == IF DirectContext(o, b) THEN "half_input" ELSE "ctx"

\* The kernels of the projections.
Route(o, b) ==
    CASE Gemm(o, b) /\ o.native -> "native"
      [] Gemm(o, b) /\ ~o.native /\ o.w4a8 # "off" -> "w4a8"
      [] Gemm(o, b) /\ ~o.native /\ o.w4a8 = "off" -> "blas"
      [] ~Gemm(o, b) /\ o.q8 -> "q8"
      [] ~Gemm(o, b) /\ ~o.q8 -> "f32"

QkvCombined(o, b, l) ==
    IF o.w4a8 = "all"
    THEN W4a8Launch("qkv", l, "half_input", CombinedQkv, b.tokens)
    ELSE TensorCore("attn_q", l, "half_input", CombinedQkv, b.tokens)

SplitQkv(b) ==
    [i \in 1 .. 3 |-> Convert(CombinedQkv[i], <<"q", "k", "v">>[i], TaskRows(b.tokens, Width))]

Qkv(o, b, l) ==
    LET qkv == <<"attn_q", "attn_k", "attn_v">>
        n == b.tokens
        input == IF l = 1 THEN Norm("attn_norm", l, "half_input", n) ELSE <<>>
    IN  CASE Route(o, b) = "native" ->
                input \o NativeQ4("attn_q", l, "q", n) \o NativeQ4("attn_k", l, "k", n)
                      \o NativeQ4("attn_v", l, "v", n)
          [] Route(o, b) \in {"w4a8", "blas"} ->
                input \o QkvCombined(o, b, l) \o (IF DirectQkv(o, b) THEN <<>> ELSE SplitQkv(b))
          [] Route(o, b) = "q8" ->
                NormQuantize("attn_norm", l, n) \o Q4Projection(qkv, l, "q8_input", <<"q", "k", "v">>, n)
          [] Route(o, b) = "f32" ->
                Norm("attn_norm", l, "norm", n) \o Q4Projection(qkv, l, "norm", <<"q", "k", "v">>, n)

\* A warp per head and token; the second kernel also has one for v.
QkNormRope(b, l) == Rotations(l, <<"q", "k">>, <<"q", "k">>, TaskRows(b.tokens, Heads + 1))
QkvNormRopeF16(b, l) ==
    LET rows == TaskRows(b.tokens, Heads + 2)
    IN  Append(Rotations(l, CombinedQkv, <<"q_half", "k_half">>, rows), Convert("combined_v", "v_half", rows))

Rope(o, b, l) == IF DirectQkv(o, b) THEN QkvNormRopeF16(b, l) ELSE QkNormRope(b, l)

QkvToHalf(b) ==
    [i \in 1 .. 3 |->
        Convert(<<"q", "k", "v">>[i], <<"q_half", "k_half", "v_half">>[i], TaskRows(b.tokens, Width))]

HalfAttention(o, b, l) ==
    LET threshold == TunedThreshold(o, b.batch)
        to == Context(o, b)
        tensor == TensorAttention(o, b, l, threshold, to)
    IN  CASE o.tuned ->
                (IF b.longest >= threshold THEN tensor ELSE <<>>)
                \o (IF b.tiles # 0 THEN FlashAttention(b, l, to) ELSE <<>>)
          [] ~o.tuned /\ b.longest >= o.tensor_min -> tensor
          [] ~o.tuned /\ b.longest < o.tensor_min /\ b.longest \in o.flash_min .. o.flash_max ->
                FlashAttention(b, l, to)
          [] OTHER -> PackedAttention(b, l, "q_half", "k_half", "v_half", to)

Attention(o, b, l) ==
    IF Fp16Attention(o, b)
    THEN (IF DirectQkv(o, b) THEN <<>> ELSE QkvToHalf(b)) \o HalfAttention(o, b, l)
    ELSE PackedAttention(b, l, "q", "k", "v", "ctx")

AttentionOutput(o, b, l) ==
    LET n == b.tokens
        half == IF DirectContext(o, b) THEN <<>> ELSE ToHalf("ctx", n)
    IN  CASE Route(o, b) = "native" -> half \o NativeQ4("attn_output", l, "tmp", n)
          [] Route(o, b) = "w4a8" -> W4a8Launch("ao", l, Context(o, b), <<"tmp">>, n)
          [] Route(o, b) = "blas" -> half \o TensorCore("attn_output", l, "half_input", <<"tmp">>, n)
          [] Route(o, b) = "q8" ->
                QuantizeQ8("ctx", n) \o Q4Projection(<<"attn_output">>, l, "q8_input", <<"tmp">>, n)
          [] Route(o, b) = "f32" -> Q4Projection(<<"attn_output">>, l, "ctx", <<"tmp">>, n)

UpGateCombined(o, b, l) ==
    IF o.w4a8 = "all"
    THEN W4a8Launch("up_gate", l, "half_input", CombinedUpGate, b.tokens)
    ELSE TensorCore("ffn_up", l, "half_input", CombinedUpGate, b.tokens)

\* The feed-forward block of the routes with a GEMM, from half_input to tmp.
GemmFfn(o, b, l) ==
    LET n == b.tokens
    IN  CASE Route(o, b) = "native" ->
                NativeQ4("ffn_up", l, "up", n) \o NativeQ4("ffn_gate", l, "gate", n)
                \o Gelu(l, "gate", "up", "gate", n) \o ToHalf("gate", n) \o NativeQ4("ffn_down", l, "tmp", n)
          [] Route(o, b) = "w4a8" ->
                UpGateCombined(o, b, l) \o Gelu(l, "combined_gate", "combined_up", "w4a8_aq", n)
                \o W4a8Gemm("down", l, <<"tmp">>, n)
          [] Route(o, b) = "blas" ->
                UpGateCombined(o, b, l) \o Gelu(l, "combined_gate", "combined_up", "half_input", n)
                \o TensorCore("ffn_down", l, "half_input", <<"tmp">>, n)

\* up_gate_gelu_kernel and up_gate_q8_gelu_kernel keep the two projections in registers.
UpGateGelu(l, from, n) ==
    Q4Projection(<<"ffn_up", "ffn_gate">>, l, from, <<"register_up", "register_gate">>, n)
    \o Gelu(l, "register_gate", "register_up", "gate", n)

Ffn(o, b, l) ==
    LET n == b.tokens
    IN  CASE Gemm(o, b) ->
                NormResidualNext("post_attention_norm", l, "ffn_norm", l, n) \o GemmFfn(o, b, l)
                \o (IF l < LayerCount
                    THEN NormResidualNext("post_ffw_norm", l, "attn_norm", l + 1, n)
                    ELSE NormResidual("post_ffw_norm", l, n))
          [] Route(o, b) = "q8" ->
                NormResidual("post_attention_norm", l, n) \o NormQuantize("ffn_norm", l, n)
                \o UpGateGelu(l, "q8_input", n) \o QuantizeQ8("gate", n)
                \o Q4Projection(<<"ffn_down">>, l, "q8_input", <<"tmp">>, n)
                \o NormResidual("post_ffw_norm", l, n)
          [] Route(o, b) = "f32" ->
                NormResidual("post_attention_norm", l, n) \o Norm("ffn_norm", l, "norm", n)
                \o UpGateGelu(l, "norm", n) \o Q4Projection(<<"ffn_down">>, l, "gate", <<"tmp">>, n)
                \o NormResidual("post_ffw_norm", l, n)

\* The kernels of a layer; the embedding comes before the first, pooling after the last.
LaunchForward(o, b, l) ==
    CASE l = 0 -> <<Embed(TaskRows(b.tokens, Width))>>
      [] l \in Layers -> Qkv(o, b, l) \o Rope(o, b, l) \o Attention(o, b, l)
                         \o AttentionOutput(o, b, l) \o Ffn(o, b, l)
      [] OTHER -> <<Pool(GridRows(b.batch))>>

-----------------------------------------------------------------------------
(* What embed_batch computes on the host. *)

\* The tiles of the flash kernel: without tuning of every sequence, else of those
\* below the threshold of the tensor cores.
TilesOf(o, ls) ==
    FlattenSeq([s \in 1 .. Len(ls) |->
        LET start == Offsets(ls)[s - 1]
        IN  IF o.tuned /\ ls[s] >= TunedThreshold(o, Len(ls)) THEN <<>>
            ELSE [i \in 1 .. Blocks(ls[s]) |->
                     [query |-> start + (i - 1) * WarpsPerBlock, start |-> start, stop |-> start + ls[s]]]])

Arguments(o, ls) ==
    [tokens |-> Total(ls), batch |-> Len(ls), offsets |-> Offsets(ls), longest |-> Longest(ls),
     tiles |-> Len(TilesOf(o, ls))]

=============================================================================
