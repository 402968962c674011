------------------------------- MODULE CpuEngine -------------------------------
(***************************************************************************)
(* The CPU engine of the embedding model (src/src/engine.c): a workspace that   *)
(* grows with the calls and keeps its contents, and one loop after another   *)
(* on the thread pool.  A process that runs out of memory ends.             *)
(***************************************************************************)
EXTENDS BackendState

Cpu == INSTANCE CpuForward

-----------------------------------------------------------------------------

\* The workspace, the stacks of the threads, and the arguments of the caller.
CpuWorkspace == {"positions", "x", "attn_in", "q", "k", "v", "ctx", "up", "gate", "q8"}
CpuStack == {"row_q8", "row_in", "row_up", "row_gate", "row_out"}
CpuArguments == {"ids", "result"}

\* ensure_workspace
CpuSpace(tokens) == [tokens |-> Ensured(space.tokens, tokens)]
CpuMemory(tokens) ==
    [b \in DOMAIN mem |-> IF b \in CpuWorkspace THEN Overlaid(mem[b], Fresh(CpuSpace(tokens).tokens.capacity)) ELSE mem[b]]

\* ei_engine_embed_tokens_batch: a batch of few tokens is run one by one.
CpuParts(ls) ==
    CASE Len(ls) = 1 ->
            <<[tokens |-> Total(ls), batch |-> 1, offsets |-> Offsets(ls), first |-> 0, positions |-> "row"]>>
      [] Len(ls) > 1 /\ Total(ls) < 4 ->
            [s \in 1 .. Len(ls) |->
                [tokens |-> ls[s], batch |-> 1, offsets |-> Offsets(<<ls[s]>>), first |-> s - 1,
                 positions |-> "row"]]
      [] OTHER ->
            <<[tokens |-> Total(ls), batch |-> Len(ls), offsets |-> Offsets(ls), first |-> 0,
               positions |-> "positions"]>>

CpuBegin(ls) ==
    /\ Begin(ls)
    /\ mem' = [mem EXCEPT !["result"] = Fresh(Len(ls))]
    /\ run' = CpuParts(ls)
    /\ phase' = "execute" /\ answer' = None
    /\ UNCHANGED <<opts, space, graphs, stage, failures>>

\* A run finds its workspace and the positions of a batch.
CpuStart ==
    /\ phase = "execute" /\ run # <<>>
    /\ LET part == run[1]
           rows == 0 .. part.tokens - 1
           memory == [CpuMemory(part.tokens) EXCEPT
                         !["ids"] = [r \in rows |-> TokenOf(calls, lens, r + Offsets(lens)[part.first])]]
           stacks == [b \in DOMAIN mem |-> IF b \in CpuStack THEN Fresh(part.tokens) ELSE memory[b]]
       IN  /\ space' = CpuSpace(part.tokens)
           /\ mem' = IF part.positions = "row" THEN stacks
                     ELSE Write(stacks, "positions", [r \in rows |-> PositionOf(lens, r)])
    /\ phase' = "run" /\ stage' = 0
    /\ UNCHANGED <<opts, graphs, calls, lens, run, answer, failures>>

CpuRunLayer ==
    /\ phase = "run"
    /\ mem' = FoldLeft(Cpu!Execution!Run, mem, Cpu!EmbedTokens(opts, run[1], stage))
    /\ stage' = stage + 1
    /\ IF stage = LayerCount + 1 THEN phase' = "execute" /\ run' = Tail(run) ELSE UNCHANGED <<phase, run>>
    /\ UNCHANGED <<opts, space, graphs, calls, lens, answer, failures>>

CpuReturn ==
    /\ phase = "execute" /\ run = <<>>
    /\ Respond
    /\ UNCHANGED <<opts, mem, space, graphs, stage, calls, lens, run, failures>>

\* ei_engine_reserve
CpuReserve(ls) ==
    /\ Begin(ls)
    /\ space' = CpuSpace(Total(ls)) /\ mem' = CpuMemory(Total(ls))
    /\ answer' = None
    /\ UNCHANGED <<opts, graphs, phase, stage, run, failures>>

\* ei_engine_free
CpuFree ==
    /\ phase = "idle" /\ calls = opts.calls
    /\ phase' = "freed"
    /\ space' = [tokens |-> Released]
    /\ mem' = [b \in DOMAIN mem |-> Fresh(0)]
    /\ UNCHANGED <<opts, graphs, stage, calls, lens, run, answer, failures>>

CpuNext ==
    \/ \E ls \in Shapes : CpuBegin(ls) \/ CpuReserve(ls)
    \/ CpuStart \/ CpuRunLayer \/ CpuReturn

\* ei_engine_load_backend: the environment it accepts.
CpuEnvironment(o) ==
    /\ o.threads \in Nat \ {0} /\ o.short_threads \in 1 .. 16 /\ o.multirow_min \in Nat \ {0}
    /\ {o.fused_rms, o.fused_gelu, o.dual} \subseteq BOOLEAN

CpuCreate ==
    /\ CpuEnvironment(opts)
    /\ mem = [b \in CpuWorkspace \cup CpuStack \cup CpuArguments |-> Fresh(0)]
    /\ space = [tokens |-> Released]
    /\ graphs = <<>>
    /\ phase = "idle" /\ stage = 0 /\ calls = 0 /\ lens = <<>>
    /\ run = None /\ answer = None /\ failures = 0

=============================================================================
