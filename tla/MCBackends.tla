------------------------------ MODULE MCBackends ------------------------------
(* Small instances of Backends for TLC. *)
EXTENDS Backends, TLC

MCCrossover == <<3, 4, 5>>
MCXpuCrossover == <<3, 4, 5, 6>>
MCShapes == {<<1>>, <<2>>, <<5>>, <<1, 4>>, <<1, 2>>, <<3, 4>>, <<1, 7>>}
MCBlocks == [attention_kernel |-> 2, flash_mma_kernel |-> 4, attention_rows |-> 2, flash_tasks |-> 3]

CudaDefaults == [
    backend |-> "cuda", calls |-> 2, failures |-> 0,
    gemm_min |-> 2, fp16_min |-> 2, flash_min |-> 2, flash_max |-> 4, tensor_min |-> 3, tuned |-> TRUE,
    swa_tile |-> 2, banded_min |-> 4, direct_qkv |-> TRUE, direct_context |-> FALSE,
    native |-> FALSE, q8 |-> TRUE, w4a8 |-> "off", int8 |-> 0]

\* The values of every option of the CUDA backend besides its default.
CudaValues == [
    gemm_min |-> {3, 6}, fp16_min |-> {3, 6}, swa_tile |-> {0}, banded_min |-> {6},
    direct_qkv |-> {FALSE}, direct_context |-> {TRUE}, native |-> {TRUE}, q8 |-> {FALSE},
    w4a8 |-> {"all", "big_only"}, int8 |-> {1, 2}]

\* Any two options set.
Varied(o, values) ==
    {[o EXCEPT ![f] = v] : <<f, v>> \in UNION {{f} \X values[f] : f \in DOMAIN values}}

\* EI_CUDA_TENSOR_ATTENTION_MIN_TOKENS: one threshold in place of the tuned ones.
CudaUntuned == [CudaDefaults EXCEPT !.tuned = FALSE, !.tensor_min = 6]
CudaUntunedValues == [
    tensor_min |-> {2, 3, 4}, flash_max |-> {2}, flash_min |-> {5}, direct_qkv |-> {FALSE}, direct_context |-> {TRUE}, w4a8 |-> {"all"}]

XpuDefaults == [
    backend |-> "xpu", calls |-> 2, failures |-> 0,
    forced |-> FALSE, tensor_min |-> 3, gemm_min |-> 1, flash |-> "off", flash_min |-> 3, flash_batch_min |-> 1,
    fp16 |-> "auto", v_only |-> TRUE, fuse_context |-> FALSE, graph |-> "auto", coop_rows |-> 1,
    q4_m_tiled |-> FALSE, banded_min |-> 4, swa_tile |-> 0, xe2_w4 |-> TRUE, host_fence |-> FALSE]
XpuXe2 == [XpuDefaults EXCEPT !.flash = "auto", !.graph = "on"]

XpuValues == [
    forced |-> {TRUE}, gemm_min |-> {2, 6}, fp16 |-> {"off", "on"}, v_only |-> {FALSE}, fuse_context |-> {TRUE},
    coop_rows |-> {0}, q4_m_tiled |-> {TRUE}, swa_tile |-> {2}, xe2_w4 |-> {FALSE}]
XpuPlainValues == [graph |-> {"off", "on"}] @@ XpuValues
XpuXe2Values == [flash |-> {"on"}, graph |-> {"off", "auto"}, flash_batch_min |-> {2}, host_fence |-> {TRUE}] @@ XpuValues

XpuSessions ==
    {[o EXCEPT !.calls = 4] : o \in {XpuDefaults, XpuXe2}}
    \cup {[o EXCEPT !.calls = 3, !.failures = 1] : o \in {XpuDefaults, XpuXe2}}
    \cup UNION {Varied(o, XpuPlainValues) : o \in Varied(XpuDefaults, XpuPlainValues)}
    \cup UNION {Varied(o, XpuXe2Values) : o \in Varied(XpuXe2, XpuXe2Values)}

CudaSessions ==
    Varied(CudaUntuned, CudaUntunedValues) \cup
    {[CudaDefaults EXCEPT !.calls = 4], [CudaDefaults EXCEPT !.calls = 3, !.failures = 1]}
    \cup UNION {Varied(o, CudaValues) : o \in Varied(CudaDefaults, CudaValues)}

CpuDefaults == [
    backend |-> "cpu", calls |-> 2, failures |-> 0,
    threads |-> 2, short_threads |-> 3, multirow_min |-> 4, fused_rms |-> TRUE, fused_gelu |-> FALSE, dual |-> TRUE]
CpuValues == [
    threads |-> {1}, short_threads |-> {1, 2, 4}, multirow_min |-> {1, 6}, fused_rms |-> {FALSE},
    fused_gelu |-> {TRUE}, dual |-> {FALSE}]
CpuSessions == {[CpuDefaults EXCEPT !.calls = 4]} \cup UNION {Varied(o, CpuValues) : o \in Varied(CpuDefaults, CpuValues)}

\* Calls before and after a failure.
Gemma2Failing == [backend : {"gemma2_cuda"}, calls : {3}, failures : {1}, graphs : {TRUE}, mma : {TRUE}]
Gemma2CudaSessions ==
    [backend : {"gemma2_cuda"}, calls : {3}, failures : {0}, graphs : BOOLEAN, mma : BOOLEAN]
    \cup Gemma2Failing
Gemma2CpuSessions ==
    [backend : {"gemma2_cpu"}, calls : {2}, failures : {0}, fast : BOOLEAN, flash : BOOLEAN, output_q8 : BOOLEAN]

MCSessions == Gemma2CudaSessions \cup Gemma2CpuSessions \cup CudaSessions \cup XpuSessions \cup CpuSessions

\* EI_CUDA_TENSOR_ATTENTION_MIN_TOKENS between the lengths of a batch.
MCOverridden == {[CudaDefaults EXCEPT !.tuned = FALSE, !.tensor_min = t] : t \in {2, 3, 4}}

\* The flash kernel of Xe2 with single-precision attention.
MCUnwritten == {[XpuXe2 EXCEPT !.fp16 = "off", !.flash = f] : f \in {"auto", "on"}}

\* Where a call may be answered wrongly: each of the three sets alone has one that is.
MCExceptions == MCOverridden \cup MCUnwritten \cup Gemma2Failing
=============================================================================
