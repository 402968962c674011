------------------------------- MODULE XpuEngine -------------------------------
(***************************************************************************)
(* An XPU engine (src/src/engine_xpu.cpp): one in-order queue, a workspace     *)
(* that is allocated again as a whole when a call does not fit, and command  *)
(* graphs recorded for the shapes used last.                                *)
(***************************************************************************)
EXTENDS BackendState

CONSTANTS XpuWarps, XpuCrossover,   \* of XpuForward
          XpuGraphLimit             \* command graphs kept (8)

ASSUME XpuKeepsGraphs == XpuGraphLimit \in Nat \ {0}

Xpu == INSTANCE XpuForward WITH WarpsPerBlock <- XpuWarps

-----------------------------------------------------------------------------
(* The workspace *)

XpuInputs == {"ids", "positions", "sequence_ids"}
XpuTokenBuffers == XpuInputs \cup {
    "x", "norm", "q", "k", "v", "q_half", "k_half", "v_half", "ctx", "up", "gate", "tmp", "half_input",
    "combined_q", "combined_k", "combined_v", "combined_up", "combined_gate", "w4_up", "w4_gate"}
XpuBuffers == XpuTokenBuffers \cup {"offsets", "result"}

XpuWorkspace(tokens, batch) ==
    [b \in XpuBuffers |->
        Fresh(CASE b \in XpuTokenBuffers -> tokens
                [] b = "offsets" -> IF batch = 0 THEN 0 ELSE batch + 1
                [] b = "result" -> batch)]

\* ensure_capacity
XpuFits(ls) == Total(ls) <= space.tokens.capacity /\ Len(ls) <= space.batch.capacity

XpuGrown(part, required) ==
    [capacity |-> GrowCapacity(FirstCapacity, part.capacity, required), made |-> calls + 1]
XpuSpace(ls) ==
    IF XpuFits(ls) THEN space
    ELSE [tokens |-> XpuGrown(space.tokens, Total(ls)), batch |-> XpuGrown(space.batch, Len(ls))]

XpuMemory(ls) ==
    IF XpuFits(ls) THEN mem
    ELSE XpuWorkspace(XpuSpace(ls).tokens.capacity, XpuSpace(ls).batch.capacity)

XpuGraphs(ls) == IF XpuFits(ls) THEN graphs ELSE <<>>

\* release_workspace
XpuRelease ==
    /\ space' = [tokens |-> Released, batch |-> Released]
    /\ mem' = XpuWorkspace(0, 0) /\ graphs' = <<>>

-----------------------------------------------------------------------------
(* execute_batch *)

\* The copies to the device, in order.
XpuUploads ==
    LET rows == 0 .. Total(lens) - 1
    IN  <<<<"ids", [r \in rows |-> TokenOf(calls, lens, r)]>>,
          <<"positions", [r \in rows |-> PositionOf(lens, r)]>>,
          <<"sequence_ids", [r \in rows |-> SequenceOf(lens, r)]>>,
          <<"offsets", Offsets(lens)>>>>

XpuPrepare(ls) ==
    /\ Begin(ls)
    /\ space' = XpuSpace(ls) /\ mem' = XpuMemory(ls) /\ graphs' = XpuGraphs(ls)
    /\ phase' = "upload" /\ answer' = None
    /\ UNCHANGED <<opts, stage, run, failures>>

XpuAllocationFails(ls) ==
    /\ ~XpuFits(ls)
    /\ Begin(ls) /\ Refuse
    /\ XpuRelease
    /\ UNCHANGED <<opts, stage, run>>

XpuUpload ==
    /\ phase = "upload"
    /\ mem' = Copied(mem, XpuUploads)
    /\ phase' = "execute"
    /\ UNCHANGED <<opts, space, graphs, stage, calls, lens, run, answer, failures>>

XpuUploadFails ==
    /\ phase = "upload"
    /\ Refuse
    /\ \E done \in 0 .. Len(XpuUploads) - 1 : mem' = Copied(mem, SubSeq(XpuUploads, 1, done))
    /\ UNCHANGED <<opts, space, graphs, stage, calls, lens, run>>

XpuArguments(ls) == Xpu!Arguments(ls)
XpuPresent == [args |-> XpuArguments(lens), made |-> Addresses]
XpuRecording == Xpu!CommandGraph(opts, XpuArguments(lens))
XpuEntries == {i \in DOMAIN graphs : graphs[i].lens = lens}

XpuLaunching(arguments) == phase' = "run" /\ stage' = 0 /\ run' = arguments

XpuLaunch ==
    /\ phase = "execute" /\ ~XpuRecording
    /\ XpuLaunching(XpuPresent)
    /\ UNCHANGED <<opts, mem, space, graphs, calls, lens, answer, failures>>

\* A wait for the flash kernel is refused by a queue that records.
XpuFenced == opts.host_fence /\ Xpu!XeFlash(opts, XpuArguments(lens))

\* The graph replaces the one used least recently, the first of the sequence.
XpuRecord ==
    /\ phase = "execute" /\ XpuRecording /\ XpuEntries = {} /\ ~XpuFenced
    /\ graphs' = Append(IF Len(graphs) = XpuGraphLimit THEN Tail(graphs) ELSE graphs,
                        [lens |-> lens, executable |-> XpuPresent])
    /\ XpuLaunching(XpuPresent)
    /\ UNCHANGED <<opts, mem, space, calls, lens, answer, failures>>

XpuRecordRefused ==
    /\ phase = "execute" /\ XpuRecording /\ XpuEntries = {} /\ XpuFenced
    /\ phase' = "idle" /\ answer' = Failed
    /\ UNCHANGED <<opts, mem, space, graphs, stage, calls, lens, run, failures>>

XpuReplay ==
    /\ phase = "execute" /\ XpuRecording
    /\ \E i \in XpuEntries :
          /\ graphs' = Append(RemoveAt(graphs, i), graphs[i])
          /\ XpuLaunching(graphs[i].executable)
    /\ UNCHANGED <<opts, mem, space, calls, lens, answer, failures>>

\* A graph that could not be recorded is not stored, one that could not be submitted is.
XpuExecuteFails ==
    /\ phase = "execute"
    /\ Refuse
    /\ \/ UNCHANGED graphs
       \/ XpuRecording /\ XpuEntries = {} /\ ~XpuFenced
          /\ graphs' = Append(IF Len(graphs) = XpuGraphLimit THEN Tail(graphs) ELSE graphs,
                              [lens |-> lens, executable |-> XpuPresent])
       \/ XpuRecording
          /\ \E i \in XpuEntries : graphs' = Append(RemoveAt(graphs, i), graphs[i])
    /\ UNCHANGED <<opts, mem, space, stage, calls, lens, run>>

\* The kernels of a layer.  Those of a graph of a freed workspace write elsewhere.
XpuRunLayer ==
    /\ phase = "run"
    /\ mem' = IF run.made = Addresses THEN FoldLeft(Xpu!Execution!Run, mem, Xpu!EnqueueForward(opts, run.args, stage)) ELSE mem
    /\ stage' = stage + 1
    /\ phase' = IF stage = LayerCount + 1 THEN "copy" ELSE "run"
    /\ UNCHANGED <<opts, space, graphs, calls, lens, run, answer, failures>>

XpuRunFails ==
    /\ phase \in {"run", "copy"}
    /\ Refuse
    /\ UNCHANGED <<opts, mem, space, graphs, stage, calls, lens, run>>

XpuCopyResult ==
    /\ phase = "copy"
    /\ Respond
    /\ UNCHANGED <<opts, mem, space, graphs, stage, calls, lens, run, failures>>

\* ei_xpu_engine_reserve
XpuReserve(ls) ==
    /\ Begin(ls)
    /\ space' = XpuSpace(ls) /\ mem' = XpuMemory(ls) /\ graphs' = XpuGraphs(ls)
    /\ answer' = None
    /\ UNCHANGED <<opts, phase, stage, run, failures>>

\* ei_xpu_engine_free
XpuFree ==
    /\ phase = "idle" /\ calls = opts.calls
    /\ phase' = "freed"
    /\ XpuRelease
    /\ UNCHANGED <<opts, stage, calls, lens, run, answer, failures>>

XpuNext ==
    \/ \E ls \in Shapes : XpuPrepare(ls) \/ XpuAllocationFails(ls) \/ XpuReserve(ls)
    \/ XpuUpload \/ XpuUploadFails \/ XpuLaunch \/ XpuRecord \/ XpuRecordRefused \/ XpuReplay \/ XpuExecuteFails
    \/ XpuRunLayer \/ XpuRunFails \/ XpuCopyResult

\* ei_xpu_engine_create: the environment it accepts.
XpuEnvironment(o) ==
    /\ {o.gemm_min, o.tensor_min, o.flash_min, o.flash_batch_min, o.banded_min} \subseteq 1 .. 65536
    /\ o.coop_rows \in 0 .. 128 /\ o.swa_tile \in Nat
    /\ {o.flash, o.fp16, o.graph} \subseteq {"off", "auto", "on"}
    /\ {o.forced, o.v_only, o.fuse_context, o.q4_m_tiled, o.xe2_w4, o.host_fence} \subseteq BOOLEAN

XpuCreate ==
    /\ XpuEnvironment(opts)
    /\ mem = XpuWorkspace(0, 0)
    /\ space = [tokens |-> Released, batch |-> Released]
    /\ graphs = <<>>
    /\ phase = "idle" /\ stage = 0 /\ calls = 0 /\ lens = <<>>
    /\ run = None /\ answer = None /\ failures = 0

=============================================================================
