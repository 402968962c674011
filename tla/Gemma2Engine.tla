----------------------------- MODULE Gemma2Engine -----------------------------
(***************************************************************************)
(* The engines of EmbeddingGemma 2: on CUDA (src/src/gemma2_cuda.cu) one       *)
(* workspace and executable graphs of the numbers of tokens and sequences   *)
(* seen before, on the CPU (src/src/gemma2_fast.c, gemma2.c) a workspace of a  *)
(* context.  A call embeds packed sequences of tokens, or one sequence of    *)
(* input rows that the media towers made.                                    *)
(***************************************************************************)
EXTENDS BackendState

CONSTANTS
    Gemma2Window, BlockOf,      \* of Gemma2Forward
    FirstBatch,                 \* sequences of the first workspace (16)
    Gemma2GraphLimit            \* graphs kept (64)

ASSUME Gemma2KeepsGraphs == Gemma2GraphLimit \in Nat \ {0}

ASSUME Gemma2Geometry ==
    /\ Gemma2Window \in Nat
    /\ \A kernel \in {"attention_kernel", "flash_mma_kernel", "attention_rows", "flash_tasks"} :
           BlockOf[kernel] \in Nat \ {0}

Gemma2 == INSTANCE Gemma2Forward

-----------------------------------------------------------------------------
(* Calls *)

\* The rows of a part of a call: where they come from, the tokens, the sequences, and
\* the place of its first sequence among those of the call.
PartOf(ls, from, first) ==
    [from |-> from, tokens |-> Total(ls), batch |-> Len(ls), offsets |-> Offsets(ls), first |-> first]

\* The rows of the present part, and where its sequences begin and end.
PartRows == 0 .. run.parts[1].tokens - 1
FirstRow == Offsets(lens)[run.parts[1].first]
PartLens == SubSeq(lens, run.parts[1].first + 1, run.parts[1].first + run.parts[1].batch)

PartTokens == [r \in PartRows |-> TokenOf(calls, lens, FirstRow + r)]
RowStarts == [r \in PartRows |-> Offsets(PartLens)[SequenceOf(PartLens, r)]]
RowStops == [r \in PartRows |-> Offsets(PartLens)[SequenceOf(PartLens, r) + 1]]
RowPositions == [r \in PartRows |-> PositionOf(PartLens, r)]

\* A call of the text paths, or of ei_media_finish.
Gemma2Begin(ls, parts) ==
    /\ Begin(ls)
    /\ run' = [parts |-> parts, executable |-> None]
    /\ mem' = [mem EXCEPT !["result"] = Fresh(Len(ls))]
    /\ phase' = "next" /\ answer' = None
    /\ UNCHANGED <<opts, space, graphs, stage, failures>>

Gemma2Return ==
    /\ phase = "next" /\ run.parts = <<>>
    /\ Respond
    /\ UNCHANGED <<opts, mem, space, graphs, stage, calls, lens, run, failures>>

-----------------------------------------------------------------------------
(* CUDA *)

Gemma2Upload == {"ids", "lo", "hi", "pos", "offsets", "inputs"}
Gemma2TokenBuffers ==
    (Gemma2Upload \ {"offsets"}) \cup
    {"x", "ple", "proj", "wide", "h16", "q16", "k16", "v16", "a16", "g16", "x16"}

Gemma2Buffers(tokens, batch) ==
    [b \in Gemma2TokenBuffers \cup {"offsets", "pooled"} |->
        Fresh(CASE b \in Gemma2TokenBuffers -> tokens
                [] b = "offsets" -> IF batch = 0 THEN 0 ELSE batch + 1
                [] b = "pooled" -> batch)]

\* ei_gemma2_cuda_batch: as many sequences at a time as fit.
Longer(part, n) ==
    [part EXCEPT !.tokens = @ + n, !.batch = @ + 1,
                 !.offsets = [s \in 0 .. part.batch + 1 |-> IF s <= part.batch THEN @[s] ELSE part.tokens + n]]
NextFirst(parts) == IF parts = <<>> THEN 0 ELSE Last(parts).first + Last(parts).batch
WaveStep(parts, n) ==
    IF parts # <<>> /\ Last(parts).tokens + n <= ContextLength
    THEN [parts EXCEPT ![Len(parts)] = Longer(@, n)]
    ELSE Append(parts, PartOf(<<n>>, "ids", NextFirst(parts)))
WaveParts(ls) == FoldLeft(WaveStep, <<>>, ls)

\* The workspace of a handle that an allocation failed in: one buffer may be missing and
\* those behind it too small for capacities that were set all the same.
Torn == opts.backend = "gemma2_cuda" /\ space.tokens.torn

\* What fails in a torn workspace without a new failure of the device: a missing buffer,
\* and all that follows it.
Gemma2Refuse ==
    \/ Refuse
    \/ Torn /\ phase' = "idle" /\ answer' = Failed /\ UNCHANGED failures

\* reserve: every buffer is allocated again when there are too few tokens or sequences.
Gemma2TooSmall(part) == part.tokens > space.tokens.capacity \/ part.batch > space.batch.capacity
Gemma2Space(part, torn) ==
    [tokens |-> [capacity |-> Min({ContextLength, GrowCapacity(FirstCapacity, space.tokens.capacity, part.tokens)}),
                 made |-> space.tokens.made + 1, torn |-> torn],
     batch  |-> [capacity |-> GrowCapacity(FirstBatch, space.batch.capacity, part.batch),
                 made |-> space.batch.made + 1]]
Gemma2Grown == Gemma2Buffers(space'.tokens.capacity, space'.batch.capacity)

Gemma2Reserve ==
    /\ phase = "next" /\ run.parts # <<>>
    /\ IF Gemma2TooSmall(run.parts[1])
       THEN /\ space' = Gemma2Space(run.parts[1], Torn)
            /\ mem' = Overlaid(Gemma2Grown, mem)
            /\ graphs' = <<>>
       ELSE UNCHANGED <<mem, space, graphs>>
    /\ phase' = "upload"
    /\ UNCHANGED <<opts, stage, calls, lens, run, answer, failures>>

\* In which the buffers grow.
Gemma2Order ==
    <<"ids", "lo", "hi", "pos", "offsets", "x", "ple", "proj", "wide", "pooled", "inputs",
      "h16", "q16", "k16", "v16", "a16", "g16", "x16">>

\* The n-th allocation fails: its buffer is gone, those behind it keep their size, and the
\* capacities are the new ones.
Gemma2ReserveFails ==
    /\ phase = "next" /\ run.parts # <<>> /\ Gemma2TooSmall(run.parts[1])
    /\ Refuse
    /\ space' = Gemma2Space(run.parts[1], TRUE)
    /\ \E n \in DOMAIN Gemma2Order :
          LET done == {Gemma2Order[i] : i \in 1 .. n - 1}
          IN  mem' = [b \in DOMAIN mem |-> IF b \in done THEN Gemma2Grown[b]
                                           ELSE IF b = Gemma2Order[n] THEN Fresh(0) ELSE mem[b]]
    /\ graphs' = <<>>
    /\ UNCHANGED <<opts, stage, calls, lens, run>>

\* A buffer that can be written to.
Gemma2There(b) == DOMAIN mem[b] # {}

\* The copies to the device, in order.
Gemma2Uploads ==
    <<<<"lo", RowStarts>>, <<"hi", RowStops>>, <<"pos", RowPositions>>,
      <<"offsets", run.parts[1].offsets>>, <<run.parts[1].from, PartTokens>>>>

\* What the copies or kernels of a step leave.  A step that wrote behind the end of a
\* buffer may have hit any other.
Gemma2Leaves(m) ==
    \/ mem' = m
    \/ /\ Torn /\ \E b \in DOMAIN mem : DOMAIN m[b] # DOMAIN mem[b]
       /\ mem' = [b \in DOMAIN m |-> IF b \in Gemma2Upload \cup {"result"} THEN m[b] ELSE Fresh(Cardinality(DOMAIN m[b]))]

Gemma2UploadAll ==
    /\ phase = "upload"
    /\ \A i \in DOMAIN Gemma2Uploads : Gemma2There(Gemma2Uploads[i][1])
    /\ Gemma2Leaves(Copied(mem, Gemma2Uploads))
    /\ phase' = "execute"
    /\ UNCHANGED <<opts, space, graphs, stage, calls, lens, run, answer, failures>>

Gemma2UploadFails ==
    /\ phase = "upload"
    /\ Gemma2Refuse
    /\ \E done \in 0 .. Len(Gemma2Uploads) - 1 :
          /\ \A i \in 1 .. done : Gemma2There(Gemma2Uploads[i][1])
          /\ mem' = Copied(mem, SubSeq(Gemma2Uploads, 1, done))
    /\ UNCHANGED <<opts, space, graphs, stage, calls, lens, run>>

\* A graph depends on the numbers of tokens and sequences and on where the rows come from.
Gemma2Key == [tokens |-> run.parts[1].tokens, batch |-> run.parts[1].batch, from |-> run.parts[1].from]
Gemma2Entries == {i \in DOMAIN graphs : graphs[i].lens = Gemma2Key}
Gemma2Present == [args |-> Gemma2Key, made |-> Addresses]

\* The oldest of too many graphs leaves before the next one is captured.
Gemma2Room == IF Len(graphs) >= Gemma2GraphLimit THEN Tail(graphs) ELSE graphs
Gemma2Captured == Append(Gemma2Room, [lens |-> Gemma2Key, executable |-> Gemma2Present])

Gemma2Launching(executable) ==
    phase' = "run" /\ stage' = 0 /\ run' = [run EXCEPT !.executable = executable]

Gemma2Direct ==
    /\ phase = "execute" /\ ~opts.graphs
    /\ Gemma2Launching(Gemma2Present)
    /\ UNCHANGED <<opts, mem, space, graphs, calls, lens, answer, failures>>

Gemma2Capture ==
    /\ phase = "execute" /\ opts.graphs /\ Gemma2Entries = {}
    /\ graphs' = Gemma2Captured
    /\ Gemma2Launching(Gemma2Present)
    /\ UNCHANGED <<opts, mem, space, calls, lens, answer, failures>>

Gemma2Replay ==
    /\ phase = "execute" /\ opts.graphs
    /\ \E i \in Gemma2Entries : Gemma2Launching(graphs[i].executable)
    /\ UNCHANGED <<opts, mem, space, graphs, calls, lens, answer, failures>>

\* The capture or the launch fails: room was made, and a captured graph stays.
Gemma2ExecuteFails ==
    /\ phase = "execute"
    /\ Gemma2Refuse
    /\ graphs' \in IF opts.graphs /\ Gemma2Entries = {} THEN {Gemma2Room, Gemma2Captured} ELSE {graphs}
    /\ UNCHANGED <<opts, mem, space, stage, calls, lens, run>>

\* The buffers of a forward pass: one of the two inputs is not read.
Gemma2Used == (DOMAIN mem \ {"ids", "inputs", "result"}) \cup {run.parts[1].from}

\* The kernels of a layer.  Those of a graph of a freed workspace write elsewhere.
Gemma2RunLayer ==
    /\ phase = "run"
    /\ \A b \in Gemma2Used : Gemma2There(b)
    /\ IF run.executable.made = Addresses
       THEN Gemma2Leaves(FoldLeft(Gemma2!Execution!Run, mem, Gemma2!CudaForward(opts, run.executable.args, stage)))
       ELSE UNCHANGED mem
    /\ stage' = stage + 1
    /\ phase' = IF stage = LayerCount + 1 THEN "copy" ELSE "run"
    /\ UNCHANGED <<opts, space, graphs, calls, lens, run, answer, failures>>

\* A kernel, the copy of the result or the synchronization fails.
Gemma2RunFails ==
    /\ phase \in {"run", "copy"}
    /\ Gemma2Refuse
    /\ UNCHANGED <<opts, mem, space, graphs, stage, calls, lens, run>>

Gemma2CopyResult ==
    /\ phase = "copy"
    /\ LET part == run.parts[1]
       IN  mem' = Write(mem, "result",
                        [s \in part.first .. part.first + part.batch - 1 |-> At(mem, "pooled", s - part.first)])
    /\ run' = [run EXCEPT !.parts = Tail(@)]
    /\ phase' = "next"
    /\ UNCHANGED <<opts, space, graphs, stage, calls, lens, answer, failures>>

\* No workspace, of a handle that an allocation failed in or not.
Gemma2Nothing(torn) == [tokens |-> [capacity |-> 0, made |-> 0, torn |-> torn], batch |-> Released]

\* ei_gemma2_cuda_free
Gemma2CudaFree ==
    /\ phase = "idle" /\ calls = opts.calls
    /\ phase' = "freed"
    /\ space' = Gemma2Nothing(Torn)
    /\ mem' = Overlaid(Gemma2Buffers(0, 0), mem) /\ graphs' = <<>>
    /\ UNCHANGED <<opts, stage, calls, lens, run, answer, failures>>

Gemma2CudaNext ==
    \/ \E ls \in Shapes : Gemma2Begin(ls, WaveParts(ls))
    \/ \E ls \in Shapes : Len(ls) = 1 /\ Gemma2Begin(ls, <<PartOf(ls, "inputs", 0)>>)
    \/ Gemma2Reserve \/ Gemma2ReserveFails \/ Gemma2UploadAll \/ Gemma2UploadFails
    \/ Gemma2Direct \/ Gemma2Capture \/ Gemma2Replay \/ Gemma2ExecuteFails
    \/ Gemma2RunLayer \/ Gemma2RunFails \/ Gemma2CopyResult \/ Gemma2Return

Gemma2CudaCreate ==
    /\ {opts.graphs, opts.mma} \subseteq BOOLEAN
    /\ mem = Overlaid(Gemma2Buffers(0, 0), [result |-> Fresh(0)])
    /\ space = Gemma2Nothing(FALSE)
    /\ graphs = <<>>
    /\ phase = "idle" /\ stage = 0 /\ calls = 0 /\ lens = <<>>
    /\ run = None /\ answer = None /\ failures = 0

-----------------------------------------------------------------------------
(* CPU *)

Gemma2Context == {"x", "h", "q", "k", "v", "a", "up", "gate", "ple", "xq", "lo", "hi", "pos"}
Gemma2Caller == {"ids", "inputs", "result"}

\* The packed graph takes a batch as a whole, the reference one sequence after the other.
Gemma2CpuParts(ls, from) ==
    IF opts.fast THEN <<PartOf(ls, from, 0)>>
    ELSE [s \in DOMAIN ls |-> PartOf(<<ls[s]>>, from, s - 1)]

\* A batch of too many tokens is refused by the packed graph.
Gemma2CpuRefuse ==
    /\ phase = "next" /\ run.parts # <<>> /\ run.parts[1].tokens > ContextLength
    /\ phase' = "idle" /\ answer' = Failed
    /\ UNCHANGED <<opts, mem, space, graphs, stage, calls, lens, run, failures>>

\* reserve keeps a workspace that is large enough and else frees it; the reference
\* allocates its own.
Gemma2CpuSpace(tokens) == IF opts.fast THEN [tokens |-> Ensured(space.tokens, tokens)] ELSE space
Gemma2CpuMemory(tokens) ==
    IF opts.fast /\ tokens <= space.tokens.capacity THEN mem
    ELSE LET rows == IF opts.fast THEN Gemma2CpuSpace(tokens).tokens.capacity ELSE tokens
         IN  [b \in DOMAIN mem |-> IF b \in Gemma2Context THEN Fresh(rows) ELSE mem[b]]

Gemma2CpuStart ==
    /\ phase = "next" /\ run.parts # <<>> /\ run.parts[1].tokens <= ContextLength
    /\ space' = Gemma2CpuSpace(run.parts[1].tokens)
    /\ LET memory == [Gemma2CpuMemory(run.parts[1].tokens) EXCEPT ![run.parts[1].from] = PartTokens]
       IN  mem' = IF opts.fast
                  THEN Copied(memory, <<<<"lo", RowStarts>>, <<"hi", RowStops>>, <<"pos", RowPositions>>>>)
                  ELSE memory
    /\ phase' = "run" /\ stage' = 0
    /\ UNCHANGED <<opts, graphs, calls, lens, run, answer, failures>>

Gemma2CpuRunLayer ==
    /\ phase = "run"
    /\ mem' = FoldLeft(Gemma2!Execution!Run, mem, Gemma2!CpuEmbed(opts, run.parts[1], stage))
    /\ stage' = stage + 1
    /\ IF stage = LayerCount + 1
       THEN phase' = "next" /\ run' = [run EXCEPT !.parts = Tail(@)]
       ELSE UNCHANGED <<phase, run>>
    /\ UNCHANGED <<opts, space, graphs, calls, lens, answer, failures>>

\* ei_gemma2_fast_free
Gemma2CpuFree ==
    /\ phase = "idle" /\ calls = opts.calls
    /\ phase' = "freed"
    /\ space' = [tokens |-> Released]
    /\ mem' = [b \in DOMAIN mem |-> Fresh(0)]
    /\ UNCHANGED <<opts, graphs, stage, calls, lens, run, answer, failures>>

Gemma2CpuNext ==
    \/ \E ls \in Shapes : Gemma2Begin(ls, Gemma2CpuParts(ls, "ids"))
    \/ \E ls \in Shapes : Len(ls) = 1 /\ Gemma2Begin(ls, Gemma2CpuParts(ls, "inputs"))
    \/ Gemma2CpuRefuse \/ Gemma2CpuStart \/ Gemma2CpuRunLayer \/ Gemma2Return

Gemma2CpuCreate ==
    /\ {opts.fast, opts.flash, opts.output_q8} \subseteq BOOLEAN
    /\ mem = [b \in Gemma2Context \cup Gemma2Caller |-> Fresh(0)]
    /\ space = [tokens |-> Released]
    /\ graphs = <<>>
    /\ phase = "idle" /\ stage = 0 /\ calls = 0 /\ lens = <<>>
    /\ run = None /\ answer = None /\ failures = 0

=============================================================================
