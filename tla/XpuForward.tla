----------------------------- MODULE XpuForward -----------------------------
(***************************************************************************)
(* The launches of the forward pass of the XPU backend                       *)
(* (src/src/engine_xpu.cpp) for the options of an engine and the shape of a    *)
(* call.                                                                    *)
(***************************************************************************)
EXTENDS DeviceForward

CONSTANT XpuCrossover       \* thresholds for batches of 1, of 2 to 4, of 5 to 8, and larger ones

-----------------------------------------------------------------------------
(* What execute_batch decides from the options o and the arguments b. *)

Threshold(o, batch) ==
    IF o.forced THEN o.tensor_min
    ELSE XpuCrossover[CASE batch = 1 -> 1 [] batch \in 2 .. 4 -> 2 [] batch \in 5 .. 8 -> 3 [] OTHER -> 4]

AllSingle(b) == b.longest = 1
AllTensor(o, b) == b.shortest >= Threshold(o, b.batch)
AllOnline(o, b) == b.longest < Threshold(o, b.batch)

Gemm(o, b) == b.tokens >= o.gemm_min
XeFlash(o, b) ==
    /\ Gemm(o, b) /\ ~AllSingle(b)
    /\ \/ o.flash = "on"
       \/ o.flash = "auto" /\ b.shortest >= (IF b.batch = 1 THEN o.flash_min ELSE o.flash_batch_min)
Fp16Attention(o, b) == o.fp16 = "on" \/ (o.fp16 = "auto" /\ (AllTensor(o, b) \/ XeFlash(o, b)))
ValueOnly(o, b) == Gemm(o, b) /\ o.v_only /\ AllSingle(b)
FusedContext(o, b) == o.fuse_context /\ Gemm(o, b) /\ ~ValueOnly(o, b) /\ ~XeFlash(o, b) /\ AllOnline(o, b)

CommandGraph(o, b) == o.graph = "on" \/ (o.graph = "auto" /\ AllSingle(b) /\ b.batch <= 4)

Arguments(ls) ==
    [tokens |-> Total(ls), batch |-> Len(ls), offsets |-> Offsets(ls), longest |-> Longest(ls), shortest |-> Shortest(ls)]

-----------------------------------------------------------------------------
(* Kernels *)

\* The norms of a few rows have a workgroup each.
NormRows(o, n) == IF n <= o.coop_rows THEN 0 .. n - 1 ELSE GridRows(n)

RmsNorm(f, l, n) == <<Map(f, l, <<"x">>, "norm", GridRows(n))>>
RmsNormHalf(o, f, l, n) == <<Map(f, l, <<"x">>, "half_input", NormRows(o, n))>>
RmsResidual(f, l, n) == <<Map(f, l, <<"tmp", "x">>, "x", GridRows(n))>>
RmsResidualNextHalf(o, f, l, next, of, n) ==
    <<Map(f, l, <<"tmp", "x">>, "x", NormRows(o, n)), Map(next, of, <<"x">>, "half_input", NormRows(o, n))>>
FloatToHalf(from, to, n) == <<Convert(from, to, 0 .. n - 1)>>
RepeatValue(l, n) == <<Map("repeat", l, <<"combined_q">>, "half_input", 0 .. n - 1)>>

\* The expanded weights of a layer; a product may start behind the first of them.
ExpandedWeights == [
    qkv |-> <<"attn_q", "attn_k", "attn_v">>, attn_output |-> <<"attn_output">>,
    up_gate |-> <<"ffn_up", "ffn_gate">>, ffn_down |-> <<"ffn_down">>]
GemmFrom(group, skipped, l, from, tos, n) ==
    ProjectAll(SubSeq(ExpandedWeights[group], skipped + 1, skipped + Len(tos)), l, from, tos, 0 .. n - 1)
LaunchGemm(group, l, from, tos, n) == GemmFrom(group, 0, l, from, tos, n)

\* A subgroup computes a column of one token, or, of up to eight tokens, of all.
Q4Projection(o, f, l, from, to, n) ==
    <<MapIf(o.q4_m_tiled /\ n <= 8 => GridRows(Width) = 0 .. Width - 1, f, l, <<from>>, to,
            IF o.q4_m_tiled /\ n <= 8 THEN 0 .. n - 1 ELSE TaskRows(n, Width))>>

QkNormRope(l, n) == Rotations(l, <<"q", "k">>, <<"q", "k">>, TaskRows(n, Heads + 1))

\* Queries, keys and values are kept in one of two formats.
QkvBuffers(half) == IF half THEN <<"q_half", "k_half", "v_half">> ELSE <<"q", "k", "v">>

QkvEpilogue(l, half, n) ==
    LET rows == TaskRows(n, Heads + 2)
    IN  Append(Rotations(l, CombinedQkv, QkvBuffers(half), rows), Convert("combined_v", QkvBuffers(half)[3], rows))

GeluMul(l, n) == <<Map("gelu", l, <<"gate", "up">>, "gate", 0 .. n - 1)>>
UpGateGeluHalf(l, n) == <<Map("gelu", l, <<"combined_gate", "combined_up">>, "half_input", 0 .. n - 1)>>
Xe2W4UpGate(l, n) ==
    ProjectAll(<<"ffn_up", "ffn_gate">>, l, "half_input", <<"w4_up", "w4_gate">>, 0 .. n - 1)
    \o <<Map("gelu", l, <<"w4_gate", "w4_up">>, "half_input", 0 .. n - 1)>>

-----------------------------------------------------------------------------
(* Attention *)

\* ei_xpu_xe2_flash_attention, with the sequences of the device.
XeFlashKeys(m, arg) ==
    LET rows(s) == m.offsets[s] .. m.offsets[s + 1] - 1
        sequence(q) == CHOOSE s \in 0 .. arg.batch - 1 : q \in rows(s)
        near(q, k) == arg.window = 0 \/ (q - k <= Half(arg.window) /\ k - q <= Half(arg.window))
    IN  [q \in UNION {rows(s) : s \in 0 .. arg.batch - 1} |-> {k \in rows(sequence(q)) : near(q, k)}]

KeysOf(m, g) ==
    CASE g.kind = "online" -> PackedKeys(m, g.arg)
      [] g.kind = "flash"  -> XeFlashKeys(m, g.arg)
      [] g.kind = "tile"   -> g.arg

Execution == INSTANCE Kernels

LaunchAttention(l, b, half, limit, to) ==
    LET qkv == QkvBuffers(half)
    IN  <<Attend(l, "online", qkv[1], qkv[2], qkv[3], to,
                 [tokens |-> b.tokens, window |-> WindowOf(l), limit |-> limit])>>

TensorSequence(o, l, half, start, n) ==
    LET qkv == QkvBuffers(half)
        tiles == Tiles(o, n, WindowOf(l))
    IN  [i \in DOMAIN tiles |-> TileAttention(o, l, start, n, tiles[i], qkv[1], qkv[2], qkv[3], "ctx")]
LaunchTensorAttention(o, b, l, half, minimum) ==
    FlattenSeq([i \in DOMAIN LongSequences(b, minimum) |->
        LET s == LongSequences(b, minimum)[i] IN TensorSequence(o, l, half, s.start, s.n)])

Attention(o, b, l) ==
    LET half == Fp16Attention(o, b)
        limit == Threshold(o, b.batch)
    IN  CASE XeFlash(o, b) ->
                <<Attend(l, "flash", "q_half", "k_half", "v_half", "half_input",
                         [batch |-> b.batch, window |-> WindowOf(l)])>>
          [] ValueOnly(o, b) -> <<>>
          [] OTHER ->
                LaunchAttention(l, b, half, limit, "ctx")
                \o (IF FusedContext(o, b) THEN LaunchAttention(l, b, half, limit, "half_input") ELSE <<>>)
                \o LaunchTensorAttention(o, b, l, half, limit)

-----------------------------------------------------------------------------
(* enqueue_forward *)

Qkv(o, b, l) ==
    LET n == b.tokens
        half == Fp16Attention(o, b)
        input == IF l = 1 THEN RmsNormHalf(o, "attn_norm", l, n) ELSE <<>>
        project(f, to) == Q4Projection(o, f, l, "norm", to, n)
    IN  CASE Gemm(o, b) /\ ValueOnly(o, b) ->
                input \o GemmFrom("qkv", 2, l, "half_input", <<"combined_q">>, n) \o RepeatValue(l, n)
          [] Gemm(o, b) /\ ~ValueOnly(o, b) ->
                input \o LaunchGemm("qkv", l, "half_input", CombinedQkv, n) \o QkvEpilogue(l, half, n)
          [] ~Gemm(o, b) ->
                RmsNorm("attn_norm", l, n)
                \o project("attn_q", "q") \o project("attn_k", "k") \o project("attn_v", "v")
                \o QkNormRope(l, n)
                \o (IF half
                    THEN FloatToHalf("q", "q_half", n) \o FloatToHalf("k", "k_half", n) \o FloatToHalf("v", "v_half", n)
                    ELSE <<>>)

AttentionOutput(o, b, l) ==
    IF Gemm(o, b)
    THEN (IF ValueOnly(o, b) \/ XeFlash(o, b) \/ FusedContext(o, b) THEN <<>>
          ELSE FloatToHalf("ctx", "half_input", b.tokens))
         \o LaunchGemm("attn_output", l, "half_input", <<"tmp">>, b.tokens)
         \o RmsResidualNextHalf(o, "post_attention_norm", l, "ffn_norm", l, b.tokens)
    ELSE Q4Projection(o, "attn_output", l, "ctx", "tmp", b.tokens)
         \o RmsResidual("post_attention_norm", l, b.tokens)

UpGate(o, b, l) ==
    IF o.xe2_w4 /\ b.tokens = 2 /\ b.batch = 1 THEN Xe2W4UpGate(l, b.tokens)
    ELSE LaunchGemm("up_gate", l, "half_input", CombinedUpGate, b.tokens) \o UpGateGeluHalf(l, b.tokens)

Ffn(o, b, l) ==
    LET n == b.tokens
    IN  IF Gemm(o, b)
        THEN UpGate(o, b, l) \o LaunchGemm("ffn_down", l, "half_input", <<"tmp">>, n)
             \o (IF l < LayerCount
                 THEN RmsResidualNextHalf(o, "post_ffw_norm", l, "attn_norm", l + 1, n)
                 ELSE RmsResidual("post_ffw_norm", l, n))
        ELSE RmsNorm("ffn_norm", l, n)
             \o Q4Projection(o, "ffn_up", l, "norm", "up", n) \o Q4Projection(o, "ffn_gate", l, "norm", "gate", n)
             \o GeluMul(l, n) \o Q4Projection(o, "ffn_down", l, "gate", "tmp", n)
             \o RmsResidual("post_ffw_norm", l, n)

\* The kernels of a layer; the embedding comes before the first, pooling after the last.
EnqueueForward(o, b, l) ==
    CASE l = 0 -> <<Embed(0 .. b.tokens - 1)>>
      [] l \in Layers -> Qkv(o, b, l) \o Attention(o, b, l) \o AttentionOutput(o, b, l) \o Ffn(o, b, l)
      [] OTHER -> <<Pool(0 .. b.batch - 1)>>

=============================================================================
