------------------------------- MODULE Backends -------------------------------
(***************************************************************************)
(* The life of one engine: a handle of the backend and with the options that *)
(* the process was started with, one call after another.                    *)
(***************************************************************************)
EXTENDS CudaEngine, XpuEngine, CpuEngine, Gemma2Engine

CONSTANT Sessions       \* backends, options, calls and failures: values of opts

Init ==
    /\ opts \in Sessions
    /\ \/ opts.backend = "cuda" /\ CudaCreate
       \/ opts.backend = "xpu" /\ XpuCreate
       \/ opts.backend = "cpu" /\ CpuCreate
       \/ opts.backend = "gemma2_cuda" /\ Gemma2CudaCreate
       \/ opts.backend = "gemma2_cpu" /\ Gemma2CpuCreate

\* A call with a sequence of no tokens or too many is turned down before any backend.
Reject ==
    /\ phase = "idle" /\ calls < opts.calls
    /\ \E ls \in Shapes : ~Valid(ls) /\ lens' = ls
    /\ calls' = calls + 1 /\ answer' = Failed
    /\ UNCHANGED <<opts, mem, space, graphs, phase, stage, run, failures>>

Over == phase = "freed" /\ UNCHANGED vars

Next ==
    \/ Over \/ Reject
    \/ opts.backend = "cuda" /\ (CudaNext \/ CudaFree)
    \/ opts.backend = "xpu" /\ (XpuNext \/ XpuFree)
    \/ opts.backend = "cpu" /\ (CpuNext \/ CpuFree)
    \/ opts.backend = "gemma2_cuda" /\ (Gemma2CudaNext \/ Gemma2CudaFree)
    \/ opts.backend = "gemma2_cpu" /\ (Gemma2CpuNext \/ Gemma2CpuFree)

Spec == Init /\ [][Next]_vars

-----------------------------------------------------------------------------

\* The rows of a call are the embeddings of its sequences, whatever kernels the
\* options and the shape select and whatever calls came before.
EmbeddingsMatch == answer \in {None, Failed, Reference(calls, lens)}

\* Without tuning one kernel serves a whole batch: that of the tensor cores skips the
\* sequences below its threshold.
ShortSkipped ==
    /\ opts.backend = "cuda" /\ ~opts.tuned
    /\ \E s, t \in DOMAIN lens : lens[s] < opts.tensor_min /\ opts.tensor_min <= lens[t]

\* The flash kernel reads half-precision rows that nothing writes without fp16.
HalfUnwritten ==
    opts.backend = "xpu" /\ opts.fp16 = "off" /\ Xpu!XeFlash(opts, XpuArguments(lens))

\* The same but for the three cases that are wrong.
SoundCallsMatch == EmbeddingsMatch \/ ShortSkipped \/ HalfUnwritten \/ Torn

\* What the kernels of a shape are called with.
ArgumentsOf(ls) ==
    CASE opts.backend = "cuda" -> CudaArguments(ls)
      [] opts.backend = "xpu" -> XpuArguments(ls)
      [] OTHER -> ls

\* A stored graph uses the workspace that is there, with the arguments of its shape.
GraphsCurrent ==
    \A i \in DOMAIN graphs :
        graphs[i].executable # None =>
            graphs[i].executable = [args |-> ArgumentsOf(graphs[i].lens), made |-> Addresses]

\* The kernels that run, of a graph or not, were called for the sequences of this
\* call, and write to the workspace that is there.
KernelsCurrent ==
    phase = "run" =>
        /\ opts.backend = "cuda" => run = CudaPresent
        /\ opts.backend = "xpu" => run = XpuPresent
        /\ opts.backend = "gemma2_cuda" => run.executable = Gemma2Present

\* The workspace that a call found or made is large enough for it: no copy and no
\* kernel writes behind the end of a buffer, unless an allocation of EmbeddingGemma 2
\* failed in it.
IntactInBounds ==
    [][(phase \in {"upload", "run"}) /\ ~Torn => \A b \in DOMAIN mem : DOMAIN mem'[b] = DOMAIN mem[b]]_vars

=============================================================================
