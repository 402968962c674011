------------------------------ MODULE CudaEngine ------------------------------
(***************************************************************************)
(* A CUDA engine (src/src/engine_cuda.cu): one stream, a workspace in two      *)
(* parts that grow with the calls, and executable graphs of the shapes seen  *)
(* before, which hold the addresses of the workspace they were captured in.  *)
(***************************************************************************)
EXTENDS BackendState

CONSTANTS CudaWarps, MmaTile, Crossover,        \* of CudaForward
          GraphLimit                            \* graphs kept (16)

ASSUME CudaKeepsGraphs == GraphLimit \in Nat \ {0}

Cuda == INSTANCE CudaForward WITH WarpsPerBlock <- CudaWarps

-----------------------------------------------------------------------------
(* The workspace *)

CudaInputs == {"ids", "positions", "sequence_ids", "tiles"}
CudaTokenBuffers == CudaInputs \cup {
    "x", "norm", "q", "k", "v", "combined_q", "combined_k", "combined_v", "q_half", "k_half", "v_half",
    "q8_attn", "k8_attn", "v8_attn", "ctx", "up", "gate", "combined_up", "combined_gate",
    "register_up", "register_gate", "tmp", "half_input", "q8_input", "w4a8_aq"}
CudaBatchBuffers == {"offsets", "result"}
CudaBuffers == CudaTokenBuffers \cup CudaBatchBuffers

CudaWithTokens(m, capacity) == [b \in CudaBuffers |-> IF b \in CudaTokenBuffers THEN Fresh(capacity) ELSE m[b]]

\* A mutant: no room for the end of the last sequence.
CudaWithShortBatch(m, capacity) == [m EXCEPT !["offsets"] = Fresh(capacity), !["result"] = Fresh(capacity)]
CudaWithBatch(m, capacity) ==
    [m EXCEPT !["offsets"] = Fresh(IF capacity = 0 THEN 0 ELSE capacity + 1), !["result"] = Fresh(capacity)]

\* ensure_capacity: the parts that are too small, and what becomes of them.
CudaTokensTooFew(ls) == Total(ls) > space.tokens.capacity
CudaBatchTooSmall(ls) == Len(ls) > space.batch.capacity
CudaSpace(ls) ==
    [tokens |-> Ensured(space.tokens, Total(ls)), batch |-> Ensured(space.batch, Len(ls))]

CudaMemory(ls) ==
    LET tokens == IF CudaTokensTooFew(ls) THEN CudaWithTokens(mem, CudaSpace(ls).tokens.capacity) ELSE mem
    IN  IF CudaBatchTooSmall(ls) THEN CudaWithBatch(tokens, CudaSpace(ls).batch.capacity) ELSE tokens

\* A mutant: graphs that outlive their workspace.
CudaGraphsKept(ls) == graphs

\* A release destroys the graphs that hold its addresses.
CudaGraphs(ls) == IF CudaTokensTooFew(ls) \/ CudaBatchTooSmall(ls) THEN <<>> ELSE graphs

-----------------------------------------------------------------------------
(* embed_batch *)

\* The copies to the device, in order.
CudaUploads ==
    LET rows == 0 .. Total(lens) - 1
        tiles == Cuda!TilesOf(opts, lens)
    IN  <<<<"ids", [r \in rows |-> TokenOf(calls, lens, r)]>>,
          <<"offsets", Offsets(lens)>>,
          <<"positions", [r \in rows |-> PositionOf(lens, r)]>>,
          <<"sequence_ids", [r \in rows |-> SequenceOf(lens, r)]>>,
          <<"tiles", [i \in 0 .. Len(tiles) - 1 |-> tiles[i + 1]]>>>>

CudaPrepare(ls) ==
    /\ Begin(ls)
    /\ space' = CudaSpace(ls) /\ graphs' = CudaGraphs(ls) /\ mem' = CudaMemory(ls)
    /\ phase' = "upload" /\ answer' = None
    /\ UNCHANGED <<opts, stage, run, failures>>

\* An allocation of the token workspace fails, which is then released.
CudaTokensRefused(ls) ==
    /\ CudaTokensTooFew(ls)
    /\ Begin(ls) /\ Refuse
    /\ space' = [space EXCEPT !.tokens = Released]
    /\ mem' = CudaWithTokens(mem, 0) /\ graphs' = <<>>
    /\ UNCHANGED <<opts, stage, run>>

CudaBatchRefused(ls) ==
    /\ CudaBatchTooSmall(ls)
    /\ Begin(ls) /\ Refuse
    /\ space' = [tokens |-> CudaSpace(ls).tokens, batch |-> Released]
    /\ mem' = CudaWithBatch(CudaMemory(ls), 0) /\ graphs' = <<>>
    /\ UNCHANGED <<opts, stage, run>>

CudaUpload ==
    /\ phase = "upload"
    /\ mem' = Copied(mem, CudaUploads)
    /\ phase' = "execute"
    /\ UNCHANGED <<opts, space, graphs, stage, calls, lens, run, answer, failures>>

\* A copy fails behind some of the others.
CudaUploadFails ==
    /\ phase = "upload"
    /\ Refuse
    /\ \E done \in 0 .. Len(CudaUploads) - 1 : mem' = Copied(mem, SubSeq(CudaUploads, 1, done))
    /\ UNCHANGED <<opts, space, graphs, stage, calls, lens, run>>

\* ei_cuda_engine_reserve
CudaReserve(ls) ==
    /\ Begin(ls)
    /\ space' = CudaSpace(ls) /\ mem' = CudaMemory(ls) /\ graphs' = CudaGraphs(ls)
    /\ answer' = None
    /\ UNCHANGED <<opts, phase, stage, run, failures>>

-----------------------------------------------------------------------------
(* execute_forward.  The entry of a shape is found by a hash of its offsets, *)
(* taken as exact.                                                          *)

\* A mutant: shapes of as many tokens taken for the same.
CudaEntriesByTokens == {i \in DOMAIN graphs : Total(graphs[i].lens) = Total(lens)}

CudaEntries == {i \in DOMAIN graphs : graphs[i].lens = lens}
CudaArguments(ls) == Cuda!Arguments(opts, ls)
CudaPresent == [args |-> CudaArguments(lens), made |-> Addresses]

CudaLaunching(arguments) == phase' = "run" /\ stage' = 0 /\ run' = arguments

\* A shape is launched directly the first time; the oldest of too many entries leaves.
CudaFirstLaunch ==
    /\ phase = "execute" /\ CudaEntries = {}
    /\ graphs' = Append(IF Len(graphs) >= GraphLimit THEN Tail(graphs) ELSE graphs,
                        [lens |-> lens, executable |-> None])
    /\ CudaLaunching(CudaPresent)
    /\ UNCHANGED <<opts, mem, space, calls, lens, answer, failures>>

\* The second time it is captured, and the graph launched.
CudaCapture ==
    /\ phase = "execute"
    /\ \E i \in CudaEntries :
          /\ graphs[i].executable = None
          /\ graphs' = [graphs EXCEPT ![i].executable = CudaPresent]
    /\ CudaLaunching(CudaPresent)
    /\ UNCHANGED <<opts, mem, space, calls, lens, answer, failures>>

CudaReplay ==
    /\ phase = "execute"
    /\ \E i \in CudaEntries : graphs[i].executable # None /\ CudaLaunching(graphs[i].executable)
    /\ UNCHANGED <<opts, mem, space, graphs, calls, lens, answer, failures>>

\* Nothing runs when the capture or the launch of a graph fails; a graph whose
\* launch failed stays.
CudaExecuteFails ==
    /\ phase = "execute"
    /\ Refuse
    /\ \E i \in CudaEntries :
          graphs' \in {graphs, [graphs EXCEPT ![i].executable = IF @ = None THEN CudaPresent ELSE @]}
    /\ UNCHANGED <<opts, mem, space, stage, calls, lens, run>>

\* The kernels of a layer.  Those of a graph of a freed workspace write elsewhere.
CudaRunLayer ==
    /\ phase = "run"
    /\ mem' = IF run.made = Addresses THEN FoldLeft(Cuda!Execution!Run, mem, Cuda!LaunchForward(opts, run.args, stage)) ELSE mem
    /\ stage' = stage + 1
    /\ phase' = IF stage = LayerCount + 1 THEN "copy" ELSE "run"
    /\ UNCHANGED <<opts, space, graphs, calls, lens, run, answer, failures>>

\* A kernel, the copy of the result or the synchronization fails.
CudaRunFails ==
    /\ phase \in {"run", "copy"}
    /\ Refuse
    /\ UNCHANGED <<opts, mem, space, graphs, stage, calls, lens, run>>

CudaCopyResult ==
    /\ phase = "copy"
    /\ Respond
    /\ UNCHANGED <<opts, mem, space, graphs, stage, calls, lens, run, failures>>

\* ei_cuda_engine_free
CudaFree ==
    /\ phase = "idle" /\ calls = opts.calls
    /\ phase' = "freed"
    /\ space' = [tokens |-> Released, batch |-> Released]
    /\ mem' = CudaWithBatch(CudaWithTokens(mem, 0), 0) /\ graphs' = <<>>
    /\ UNCHANGED <<opts, stage, calls, lens, run, answer, failures>>

CudaNext ==
    \/ \E ls \in Shapes : CudaPrepare(ls) \/ CudaTokensRefused(ls) \/ CudaBatchRefused(ls) \/ CudaReserve(ls)
    \/ CudaUpload \/ CudaUploadFails
    \/ CudaFirstLaunch \/ CudaCapture \/ CudaReplay \/ CudaExecuteFails \/ CudaRunLayer \/ CudaRunFails \/ CudaCopyResult

\* ei_cuda_engine_create: the environment it accepts, where a threshold for the
\* tensor cores takes the place of the tuned ones.
CudaEnvironment(o) ==
    /\ {o.gemm_min, o.fp16_min, o.flash_min, o.flash_max, o.tensor_min, o.banded_min} \subseteq 1 .. 65536
    /\ o.swa_tile \in Nat /\ o.w4a8 \in {"off", "all", "big_only"} /\ o.int8 \in 0 .. 2
    /\ {o.direct_qkv, o.direct_context, o.native, o.q8} \subseteq BOOLEAN
    /\ o.tuned => o.tensor_min = Crossover[1]

CudaCreate ==
    /\ CudaEnvironment(opts)
    /\ mem = CudaWithBatch(CudaWithTokens([b \in CudaBuffers |-> Fresh(0)], 0), 0)
    /\ space = [tokens |-> Released, batch |-> Released]
    /\ graphs = <<>>
    /\ phase = "idle" /\ stage = 0 /\ calls = 0 /\ lens = <<>>
    /\ run = None /\ answer = None /\ failures = 0

=============================================================================
