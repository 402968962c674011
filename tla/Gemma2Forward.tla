---------------------------- MODULE Gemma2Forward ----------------------------
(***************************************************************************)
(* The loops of the CPU backend (src/src/gemma2.c and gemma2_fast.c) and the   *)
(* kernels of the CUDA backend (src/src/gemma2_cuda.cu) for EmbeddingGemma 2,  *)
(* for n packed tokens.  The sequences are found in arrays: the first row of *)
(* the sequence of a token, the row behind it, its position.                *)
(***************************************************************************)
EXTENDS Gemma2Graph, FiniteSetsExt

\* Queries of a block, which share the keys they load: of the CUDA kernels with
\* (128) and without tensor cores (8), and of the CPU with (16 to 128) and without (8)
\* the online softmax.
CONSTANT BlockOf

-----------------------------------------------------------------------------
(* Attention *)

\* The keys that a block of queries goes through: of all its sequences, and within
\* the windows of its queries.
BlockKeys(m, arg, block) ==
    {k \in m.lo[Min(block)] .. m.hi[Max(block)] - 1 :
        arg.window = 0 \/ (k >= Min(block) - arg.window /\ k <= Max(block) + arg.window)}

\* Those a query does not mask.
QueryKeys(m, arg, query) ==
    {k \in m.lo[query] .. m.hi[query] - 1 :
        arg.window = 0 \/ (k >= query - arg.window /\ k <= query + arg.window)}

\* attention_kernel, flash_mma_kernel; attention_rows, flash_tasks
BlockAttention(m, arg) ==
    LET size == BlockOf[arg.kernel]
        block(q) == {r \in 0 .. arg.tokens - 1 : r \div size = q \div size}
    IN  [q \in 0 .. arg.tokens - 1 |-> BlockKeys(m, arg, block(q)) \cap QueryKeys(m, arg, q)]

\* attention_rows of the reference graph: a single sequence.
SequenceKeys(arg) ==
    [q \in 0 .. arg.tokens - 1 |->
        (IF arg.window # 0 /\ q > arg.window THEN q - arg.window ELSE 0) ..
        (IF arg.window # 0 /\ q + arg.window + 1 < arg.tokens THEN q + arg.window + 1 ELSE arg.tokens) - 1]

KeysOf(m, g) == IF g.arg.kernel = "sequence" THEN SequenceKeys(g.arg) ELSE BlockAttention(m, g.arg)

Execution == INSTANCE Kernels

AttentionOver(kernel, l, q, k, v, to, n) ==
    <<Attend(l, "block", q, k, v, to, [kernel |-> kernel, tokens |-> n, window |-> WindowOf(l)])>>

-----------------------------------------------------------------------------
(* CPU: the graph with packed sequences, or the reference for one sequence. *)

Norm(f, l, from, to, n) == <<Map(f, l, <<from>>, to, 0 .. n - 1)>>

\* The projections of a buffer, which the packed graph quantizes first.
Multiply(o, weights, l, from, tos, n) ==
    LET input == IF o.fast THEN "xq" ELSE from
    IN  (IF o.fast THEN <<Convert(from, "xq", 0 .. n - 1)>> ELSE <<>>)
        \o [i \in DOMAIN weights |-> Map(weights[i], l, <<input>>, tos[i], 0 .. n - 1)]

Residual(f, l, from, n) == <<Map(f, l, <<from, "x">>, "x", 0 .. n - 1)>>

\* The reference rotates by the row.
QkvPost(o, l, n) ==
    LET positions == IF o.fast THEN "pos" ELSE "row"
    IN  <<RotateAt(positions, "attn_q_norm", l, "q", "q", IsSwa(l), 0 .. n - 1),
          RotateAt(positions, "attn_k_norm", l, "k", "k", IsSwa(l), 0 .. n - 1)>>
        \o Norm("v_norm", l, "v", "v", n)

CpuKernel(o) == IF ~o.fast THEN "sequence" ELSE IF o.flash THEN "flash_tasks" ELSE "attention_rows"

CpuLayer(o, l, n) ==
    Norm("attn_norm", l, "x", "h", n)
    \o Multiply(o, <<"attn_q", "attn_k", "attn_v">>, l, "h", <<"q", "k", "v">>, n)
    \o QkvPost(o, l, n)
    \o AttentionOver(CpuKernel(o), l, "q", "k", "v", "a", n)
    \o Multiply(o, <<"attn_output">>, l, "a", <<"h">>, n)
    \o Residual("post_attention_norm", l, "h", n)
    \o Norm("ffn_norm", l, "x", "h", n)
    \o Multiply(o, <<"ffn_up", "ffn_gate">>, l, "h", <<"up", "gate">>, n)
    \o <<Map("gelu", l, <<"gate", "up">>, "gate", 0 .. n - 1)>>
    \o Multiply(o, <<"ffn_down">>, l, "gate", <<"h">>, n)
    \o Residual("post_ffw_norm", l, "h", n)
    \o Multiply(o, <<"inp_gate">>, l, "x", <<"h">>, n)
    \o <<Map("ple_gate", l, <<"h", "ple">>, "h", 0 .. n - 1)>>
    \o Multiply(o, <<"proj">>, l, "h", <<"a">>, n)
    \o Residual("post_norm", l, "a", n)

\* The output weight may be stored in a format that is not multiplied by quantized rows.
CpuOutput(o, n) ==
    LET l == LayerCount + 1
    IN  Norm("output_norm", l, "x", "h", n)
        \o Multiply([o EXCEPT !.fast = @ /\ o.output_q8], <<"output">>, l, "h", <<"a">>, n)

\* The loops of a layer, for the sequences b; the embedding before, the means after.
CpuEmbed(o, b, l) ==
    LET n == b.tokens
    IN  CASE l = 0 ->
                <<EmbedFrom(b.from, 0 .. n - 1)>>
                \o <<Map("per_layer_model_proj", 1, <<"x">>, "ple", 0 .. n - 1)>>
                \o Norm("per_layer_proj_norm", 1, "ple", "ple", n)
          [] l \in Layers -> CpuLayer(o, l, n)
          [] OTHER ->
                CpuOutput(o, n)
                \o <<MeanPoolOf("a", [s \in 0 .. b.batch - 1 |-> b.offsets[s] .. b.offsets[s + 1] - 1], b.first)>>

-----------------------------------------------------------------------------
(* CUDA: forward, for the tokens and sequences of a graph.  wide holds one    *)
(* product after the other.                                                 *)

Gemm(f, l, from, to, n) == <<Map(f, l, <<from>>, to, 0 .. n - 1)>>

\* post_add_kernel: the sum, and the input of the next product.
PostAdd(f, l, from, n) == Residual(f, l, from, n)
PostAddNext(f, l, from, next, of, n) == PostAdd(f, l, from, n) \o Norm(next, of, "x", "h16", n)
PostAddRaw(f, l, from, n) == PostAdd(f, l, from, n) \o <<Convert("x", "x16", 0 .. n - 1)>>

CudaInput(b) ==
    LET n == b.tokens
    IN  <<EmbedFrom(b.from, 0 .. n - 1), Convert("x", "x16", 0 .. n - 1)>>
        \o Gemm("per_layer_model_proj", 1, "x16", "ple", n)
        \o Norm("per_layer_proj_norm", 1, "ple", "ple", n)
        \o Norm("attn_norm", 1, "x", "h16", n)

\* qkv_post_kernel
CudaQkvPost(l, n) ==
    <<RotateAt("pos", "attn_q_norm", l, "wide", "q16", IsSwa(l), 0 .. n - 1),
      RotateAt("pos", "attn_k_norm", l, "wide", "k16", IsSwa(l), 0 .. n - 1)>>
    \o Norm("v_norm", l, "wide", "v16", n)

CudaLayer(o, l, n) ==
    Gemm("qkv", l, "h16", "wide", n)
    \o CudaQkvPost(l, n)
    \o AttentionOver(IF o.mma THEN "flash_mma_kernel" ELSE "attention_kernel", l, "q16", "k16", "v16", "a16", n)
    \o Gemm("attn_output", l, "a16", "proj", n)
    \o PostAddNext("post_attention_norm", l, "proj", "ffn_norm", l, n)
    \o Gemm("upgate", l, "h16", "wide", n)
    \o Gemm("geglu", l, "wide", "g16", n)
    \o Gemm("ffn_down", l, "g16", "proj", n)
    \o PostAddRaw("post_ffw_norm", l, "proj", n)
    \o Gemm("inp_gate", l, "x16", "proj", n)
    \o <<Map("ple_gate", l, <<"proj", "ple">>, "h16", 0 .. n - 1)>>
    \o Gemm("proj", l, "h16", "wide", n)
    \o PostAddNext("post_norm", l, "wide", IF l < LayerCount THEN "attn_norm" ELSE "output_norm", l + 1, n)

CudaForward(o, b, l) ==
    CASE l = 0 -> CudaInput(b)
      [] l \in Layers -> CudaLayer(o, l, b.tokens)
      [] OTHER -> Gemm("output", LayerCount + 1, "h16", "wide", b.tokens)
                  \o <<PoolOf("wide", "pooled", 0 .. b.batch - 1)>>

=============================================================================
