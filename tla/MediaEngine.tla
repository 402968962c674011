----------------------------- MODULE MediaEngine -----------------------------
(***************************************************************************)
(* How media requests and text waves of src/src/server.c share the engine. *)
(*                                                                         *)
(* CPU backend (no media slots): both use the engine's thread pool under   *)
(* inference_mutex.  A media request takes cpu_media_mutex first, and its   *)
(* towers call cpu_tower_yield between layers, which gives inference_mutex  *)
(* to a waiting text wave while cpu_media_mutex stays taken.                *)
(*                                                                         *)
(* GPU backends: a request is assigned to a media slot and takes the slot's *)
(* lock around each engine call.  On Metal the final text pass and the      *)
(* audio tower may instead be queued to a batcher: an intrusive list of     *)
(* nodes that live on the submitters' stacks, emptied by one thread.        *)
(*                                                                         *)
(* Critical sections that cannot block are single actions.  Between        *)
(* reading `handoffs' and waiting, cpu_tower_yield holds handoff_mutex and  *)
(* gives up inference_mutex, so those are steps of their own.               *)
(***************************************************************************)
EXTENDS Integers, Sequences, FiniteSets, FiniteSetsExt

CONSTANTS
    Requests,       \* HTTP workers with a media request
    Waves,          \* text waves: one, as the service has one slot then
    Layouts,        \* the server configurations to explore, see LayoutType
    Layers,         \* yield points of a CPU tower
    Sizes,          \* rows (or mel frames) of a submission
    MaxItems,       \* 64: submissions of one batch
    MaxRows,        \* 8192 rows or 12000 frames of one batch
    Free, NULL      \* a mutex without an owner, a null pointer

Batchers == {"finish", "audio"}
Towers == {"image", "audio"}

\* media_slot_count (0 on the CPU), the batchers enabled (media_finisher,
\* media_audio_batcher: Metal only), the HTTP workers that serve media and the
\* towers their requests run, in order, before the text pass.
LayoutType ==
    [slots : Nat, batching : SUBSET Batchers,
     workers : SUBSET Requests, plans : SUBSET Seq(Towers)]

ASSUME MediaAssumption ==
    /\ Layouts \subseteq LayoutType
    /\ \A l \in Layouts : l.slots = 0 => l.batching = {}
    /\ Layers \in Nat
    /\ Sizes \subseteq Nat \ {0}
    /\ MaxItems \in Nat \ {0} /\ MaxRows \in Nat \ {0}
    /\ Requests \cap Waves = {}
    /\ Free \notin Requests \cup Waves /\ NULL \notin Requests \cup Nat
    /\ IsFiniteSet(Requests) /\ IsFiniteSet(Waves)

VARIABLES
    layout,         \* the configuration, fixed
    \* CPU
    inference,      \* owner of inference_mutex
    mediaLock,      \* owner of cpu_media_mutex
    handoff,        \* owner of handoff_mutex over several steps
    textWaiters,
    moved,          \* handoffs # seen, for the tower inside cpu_tower_yield
    taken,          \* history: a wave locked inference_mutex since the tower unlocked it
    wpc,            \* the text waves
    \* GPU
    busy, slotLock, nextSlot,
    \* requests
    pc, plan, layers, start, at, seen, slot,
    \* batchers; next, size and done are fields of the node of a request
    head, tail, next, size, done, batch, bpc

cpuVars == <<inference, mediaLock, handoff, textWaiters, moved, taken, wpc>>
slotVars == <<busy, slotLock, nextSlot>>
requestVars == <<plan, layers, start, at, seen, slot>>
batchVars == <<head, tail, next, size, done, batch, bpc>>
vars == <<layout, cpuVars, slotVars, pc, requestVars, batchVars>>

SlotCount == layout.slots
Slots == 0 .. SlotCount - 1
CPU == SlotCount = 0

Init ==
    /\ layout \in Layouts
    /\ inference = Free /\ mediaLock = Free /\ handoff = Free
    /\ textWaiters = 0 /\ moved = FALSE /\ taken = FALSE
    /\ wpc = [w \in Waves |-> "idle"]
    /\ busy = [s \in Slots |-> 0]
    /\ slotLock = [s \in Slots |-> Free]
    /\ nextSlot = 0
    /\ pc = [r \in Requests |-> "idle"]
    /\ plan = [r \in Requests |-> <<>>]
    /\ layers = [r \in Requests |-> 0]
    /\ start = [r \in Requests |-> 0]
    /\ at = [r \in Requests |-> 0]
    /\ seen = [r \in Requests |-> 0]
    /\ slot = [r \in Requests |-> NULL]
    /\ head = [b \in Batchers |-> NULL]
    /\ tail = [b \in Batchers |-> NULL]
    /\ next = [r \in Requests |-> NULL]
    /\ size = [r \in Requests |-> 0]
    /\ done = [r \in Requests |-> FALSE]
    /\ batch = [b \in Batchers |-> <<>>]
    /\ bpc = [b \in Batchers |-> "top"]

Goto(r, l) == pc' = [pc EXCEPT ![r] = l]
WaveGoto(w, l) == wpc' = [wpc EXCEPT ![w] = l]

-----------------------------------------------------------------------------
(* A text wave of the CPU backend: execute_engine_batch, text_engine_lock. *)

\* Mutant: a waiter is not counted in.
WaveWantsUncounted(w) ==
    /\ CPU /\ wpc[w] = "idle"
    /\ WaveGoto(w, "lock")
    /\ UNCHANGED <<textWaiters, inference, mediaLock, handoff, moved, taken, pc>>

WaveWants(w) ==
    /\ CPU /\ wpc[w] = "idle"
    /\ textWaiters' = textWaiters + 1
    /\ WaveGoto(w, "lock")
    /\ UNCHANGED <<inference, mediaLock, handoff, moved, taken, pc>>

WaveLocks(w) ==
    /\ wpc[w] = "lock" /\ inference = Free
    /\ inference' = w
    /\ taken' = TRUE
    /\ WaveGoto(w, "count")
    /\ UNCHANGED <<mediaLock, handoff, textWaiters, moved, pc>>

WaveCounted(w) ==
    /\ wpc[w] = "count"
    /\ textWaiters' = textWaiters - 1
    /\ WaveGoto(w, "note")
    /\ UNCHANGED <<inference, mediaLock, handoff, moved, taken, pc>>

\* pthread_cond_broadcast(&handoff_cond): the tower looks again.
\* Mutant: nobody is told.
WakeNobody == UNCHANGED pc

WakeTower == pc' = [r \in Requests |-> IF pc[r] = "yieldWait" THEN "yieldWoken" ELSE pc[r]]

WaveNotes(w) ==
    /\ wpc[w] = "note" /\ handoff = Free
    /\ moved' = TRUE
    /\ WakeTower
    /\ WaveGoto(w, "run")
    /\ UNCHANGED <<inference, mediaLock, handoff, textWaiters, taken>>

WaveEnds(w) ==
    /\ wpc[w] = "run"
    /\ inference' = Free
    /\ WaveGoto(w, "idle")
    /\ UNCHANGED <<mediaLock, handoff, textWaiters, moved, taken, pc>>

Wave(w) ==
    /\ WaveWants(w) \/ WaveLocks(w) \/ WaveCounted(w) \/ WaveNotes(w) \/ WaveEnds(w)
    /\ UNCHANGED <<layout, slotVars, requestVars, batchVars>>

-----------------------------------------------------------------------------
(* cpu_tower_yield, by the tower that holds inference_mutex. *)

\* No waiter, no yield; either way the tower has passed one more layer.
TowerLayer(r) ==
    /\ CPU /\ pc[r] = "tower" /\ layers[r] > 0
    /\ layers' = [layers EXCEPT ![r] = @ - 1]
    /\ Goto(r, IF textWaiters = 0 THEN "tower" ELSE "yieldBegin")
    /\ UNCHANGED cpuVars

\* handoff_mutex is taken and `seen' read.
YieldBegin(r) ==
    /\ pc[r] = "yieldBegin" /\ handoff = Free
    /\ handoff' = r
    /\ moved' = FALSE
    /\ Goto(r, "yieldUnlock")
    /\ UNCHANGED <<inference, mediaLock, textWaiters, taken, wpc>>

YieldUnlock(r) ==
    /\ pc[r] = "yieldUnlock"
    /\ inference' = Free
    /\ taken' = FALSE
    /\ Goto(r, "yieldTest")
    /\ UNCHANGED <<mediaLock, handoff, textWaiters, moved, wpc>>

\* The loop's condition, evaluated with handoff_mutex; waiting releases it.
YieldTest(r) ==
    /\ pc[r] = "yieldTest"
    /\ handoff' = Free
    /\ Goto(r, IF ~moved /\ textWaiters # 0 THEN "yieldWait" ELSE "yieldLock")
    /\ UNCHANGED <<inference, mediaLock, textWaiters, moved, taken, wpc>>

\* A wakeup, spurious ones included, needs handoff_mutex again.
YieldWake(r) ==
    /\ pc[r] = "yieldWoken" /\ handoff = Free
    /\ handoff' = r
    /\ Goto(r, "yieldTest")
    /\ UNCHANGED <<inference, mediaLock, textWaiters, moved, taken, wpc>>

\* Mutant: an if in place of the loop.
YieldSpuriousEnds(r) ==
    /\ pc[r] = "yieldWait" /\ handoff = Free
    /\ Goto(r, "yieldLock")
    /\ UNCHANGED cpuVars

YieldSpurious(r) ==
    /\ pc[r] = "yieldWait" /\ handoff = Free
    /\ handoff' = r
    /\ Goto(r, "yieldTest")
    /\ UNCHANGED <<inference, mediaLock, textWaiters, moved, taken, wpc>>

\* ETIMEDOUT after 50 ms.
YieldTimeout(r) ==
    /\ pc[r] \in {"yieldWait", "yieldWoken"} /\ handoff = Free
    /\ Goto(r, "yieldLate")
    /\ UNCHANGED cpuVars

\* Mutant: the tower goes on without waiting for its turn.
YieldReturnsUnlocked(r) ==
    /\ pc[r] \in {"yieldLock", "yieldLate"}
    /\ Goto(r, "tower")
    /\ UNCHANGED cpuVars

YieldRelock(r) ==
    /\ pc[r] \in {"yieldLock", "yieldLate"} /\ inference = Free
    /\ inference' = r
    /\ Goto(r, "tower")
    /\ UNCHANGED <<mediaLock, handoff, textWaiters, moved, taken, wpc>>

Yielding(r) ==
    \/ YieldBegin(r) \/ YieldUnlock(r) \/ YieldTest(r) \/ YieldWake(r) \/ YieldRelock(r)

Yield(r) ==
    /\ Yielding(r) \/ YieldSpurious(r) \/ YieldTimeout(r)
    /\ UNCHANGED <<layout, slotVars, requestVars, batchVars>>

Layer(r) ==
    /\ TowerLayer(r)
    /\ UNCHANGED <<layout, slotVars, plan, start, at, seen, slot, batchVars>>

-----------------------------------------------------------------------------
(* Media slots: media_slot_acquire and media_slot_release. *)

Candidate(r) == (start[r] + at[r]) % SlotCount

\* embed_structured, past the whole-input cache.
Begin(r) ==
    /\ pc[r] = "idle"
    /\ \E p \in layout.plans : plan' = [plan EXCEPT ![r] = p]
    /\ IF CPU
       THEN Goto(r, "next") /\ UNCHANGED <<nextSlot, start, at, slot>>
       ELSE /\ nextSlot' = (nextSlot + 1) % SlotCount
            /\ start' = [start EXCEPT ![r] = nextSlot]
            /\ slot' = [slot EXCEPT ![r] = nextSlot]
            /\ at' = [at EXCEPT ![r] = 1]
            /\ Goto(r, "look")
    /\ UNCHANGED <<cpuVars, busy, slotLock, layers, seen, batchVars>>

\* The two counters are loaded one after the other.
SlotLook(r) ==
    /\ pc[r] = "look" /\ at[r] < SlotCount
    /\ seen' = [seen EXCEPT ![r] = busy[Candidate(r)]]
    /\ Goto(r, "compare")
    /\ UNCHANGED <<cpuVars, slotVars, plan, layers, start, at, slot, batchVars>>

SlotCompare(r) ==
    /\ pc[r] = "compare"
    /\ slot' = IF seen[r] < busy[slot[r]] THEN [slot EXCEPT ![r] = Candidate(r)] ELSE slot
    /\ at' = [at EXCEPT ![r] = @ + 1]
    /\ Goto(r, "look")
    /\ UNCHANGED <<cpuVars, slotVars, plan, layers, start, seen, batchVars>>

SlotClaim(r) ==
    /\ pc[r] = "look" /\ at[r] = SlotCount
    /\ busy' = [busy EXCEPT ![slot[r]] = @ + 1]
    /\ start' = [start EXCEPT ![r] = 0]
    /\ at' = [at EXCEPT ![r] = 0]
    /\ seen' = [seen EXCEPT ![r] = 0]
    /\ Goto(r, "next")
    /\ UNCHANGED <<cpuVars, slotLock, nextSlot, plan, layers, slot, batchVars>>

-----------------------------------------------------------------------------
(* Engine calls of a request: ei_media_image, ei_media_audio, ei_media_finish *)

\* What the request does next: its first tower, then the text pass.
Call(r) == IF plan[r] = <<>> THEN "finish" ELSE Head(plan[r])

\* media.finish and media.audio replace the engine call by a submission.
Submits(r) == Call(r) \in layout.batching

\* engine_lock: outer_lock, then lock.
EnterOuter(r) ==
    /\ CPU /\ pc[r] = "next" /\ mediaLock = Free
    /\ mediaLock' = r
    /\ Goto(r, "enter")
    /\ UNCHANGED <<inference, handoff, textWaiters, moved, taken, wpc, slotVars, requestVars, batchVars>>

Inside(r) == IF Call(r) = "finish" THEN "finish" ELSE "tower"

EnterEngine(r) ==
    /\ CPU /\ pc[r] = "enter" /\ inference = Free
    /\ inference' = r
    /\ layers' = [layers EXCEPT ![r] = IF Call(r) = "finish" THEN 0 ELSE Layers]
    /\ Goto(r, Inside(r))
    /\ UNCHANGED <<mediaLock, handoff, textWaiters, moved, taken, wpc, slotVars,
                   plan, start, at, seen, slot, batchVars>>

EnterSlot(r) ==
    /\ ~CPU /\ pc[r] = "next" /\ ~Submits(r) /\ slotLock[slot[r]] = Free
    /\ slotLock' = [slotLock EXCEPT ![slot[r]] = r]
    /\ Goto(r, Inside(r))
    /\ UNCHANGED <<cpuVars, busy, nextSlot, requestVars, batchVars>>

\* engine_unlock.  A tower that fails, or the text pass, ends the request.
LeaveEngine(r) ==
    /\ pc[r] \in {"tower", "finish"} /\ layers[r] = 0
    /\ IF CPU
       THEN inference' = Free /\ mediaLock' = Free /\ UNCHANGED slotLock
       ELSE slotLock' = [slotLock EXCEPT ![slot[r]] = Free] /\ UNCHANGED <<inference, mediaLock>>
    /\ \/ /\ pc[r] = "tower"
          /\ plan' = [plan EXCEPT ![r] = Tail(@)]
          /\ Goto(r, "next")
       \/ UNCHANGED plan /\ Goto(r, "done")
    /\ UNCHANGED <<handoff, textWaiters, moved, taken, wpc, busy, nextSlot,
                   layers, start, at, seen, slot, batchVars>>

\* The label done, reached from every exit once the slot is assigned: a part
\* that cannot be parsed or decoded leaves from "next".
Abandon(r) ==
    /\ pc[r] = "next"
    /\ Goto(r, "done")
    /\ UNCHANGED <<cpuVars, slotVars, requestVars, batchVars>>

\* Mutant: the slot is kept.
ReleaseNothing(r) ==
    /\ pc[r] = "done"
    /\ slot' = [slot EXCEPT ![r] = NULL]
    /\ plan' = [plan EXCEPT ![r] = <<>>]
    /\ Goto(r, "idle")
    /\ UNCHANGED <<cpuVars, slotVars, layers, start, at, seen, batchVars>>

Release(r) ==
    /\ pc[r] = "done"
    /\ busy' = IF slot[r] = NULL THEN busy ELSE [busy EXCEPT ![slot[r]] = @ - 1]
    /\ slot' = [slot EXCEPT ![r] = NULL]
    /\ plan' = [plan EXCEPT ![r] = <<>>]
    /\ Goto(r, "idle")
    /\ UNCHANGED <<cpuVars, slotLock, nextSlot, layers, start, at, seen, batchVars>>

-----------------------------------------------------------------------------
(* The batchers: media_finish_submit / media_finisher_run and                *)
(* media_audio_submit / media_audio_batcher_run.                             *)

\* Append the node on the submitter's stack and signal ready.
Submit(r) ==
    LET b == Call(r)
    IN  /\ pc[r] = "next" /\ Submits(r)
        /\ \E n \in Sizes : size' = [size EXCEPT ![r] = n]
        /\ IF tail[b] # NULL
           THEN next' = [next EXCEPT ![tail[b]] = r] /\ UNCHANGED head
           ELSE head' = [head EXCEPT ![b] = r] /\ UNCHANGED next
        /\ tail' = [tail EXCEPT ![b] = r]
        /\ bpc' = [bpc EXCEPT ![b] = IF @ = "wait" THEN "top" ELSE @]
        /\ Goto(r, "wait")
        /\ UNCHANGED <<cpuVars, slotVars, requestVars, done, batch>>

\* Woken by the broadcast, the submitter looks at its own node, which goes with
\* its frame when it returns.
Answered(r) ==
    /\ pc[r] = "woken"
    /\ IF ~done[r]
       THEN Goto(r, "wait") /\ UNCHANGED <<plan, next, size, done>>
       ELSE /\ next' = [next EXCEPT ![r] = NULL]
            /\ size' = [size EXCEPT ![r] = 0]
            /\ done' = [done EXCEPT ![r] = FALSE]
            /\ \/ /\ Call(r) = "audio"
                  /\ plan' = [plan EXCEPT ![r] = Tail(@)]
                  /\ Goto(r, "next")
               \/ UNCHANGED plan /\ Goto(r, "done")
    /\ UNCHANGED <<cpuVars, slotVars, layers, start, at, seen, slot, head, tail, batch, bpc>>

\* The first n nodes reached from head, NULL behind the last.
Walk(b, n) ==
    LET node[i \in 1 .. n] ==
            IF i = 1 THEN head[b]
            ELSE IF node[i - 1] = NULL THEN NULL ELSE next[node[i - 1]]
    IN  node

Queued(b) == Walk(b, MaxItems)

RowsOf(b, k) == MapThenSumSet(LAMBDA i : size[Queued(b)[i]], 1 .. k)

\* The longest run of nodes within the limits.
Prefix(b) ==
    CHOOSE k \in 0 .. MaxItems :
        /\ \A i \in 1 .. k : Queued(b)[i] # NULL
        /\ RowsOf(b, k) <= MaxRows
        /\ \/ k = MaxItems \/ Queued(b)[k + 1] = NULL
           \/ RowsOf(b, k + 1) > MaxRows

\* An over-long node runs alone.
BatchSize(b) == IF Prefix(b) = 0 THEN 1 ELSE Prefix(b)

BatcherWaits(b) ==
    /\ bpc[b] = "top" /\ head[b] = NULL
    /\ bpc' = [bpc EXCEPT ![b] = "wait"]
    /\ UNCHANGED <<pc, head, tail, next, size, done, batch>>

\* Mutant: tail still points at the last node taken.
TakeKeepsTail(b) ==
    LET k == BatchSize(b)
    IN  /\ bpc[b] = "top" /\ head[b] # NULL
        /\ batch' = [batch EXCEPT ![b] = SubSeq(Queued(b), 1, k)]
        /\ head' = [head EXCEPT ![b] = next[Queued(b)[k]]]
        /\ bpc' = [bpc EXCEPT ![b] = "run"]
        /\ UNCHANGED <<pc, tail, next, size, done>>

\* Unlink the batch; rows are gathered and run with the mutex released.
BatcherTakes(b) ==
    LET k == BatchSize(b)
        rest == next[Queued(b)[k]]
    IN  /\ bpc[b] = "top" /\ head[b] # NULL
        /\ batch' = [batch EXCEPT ![b] = SubSeq(Queued(b), 1, k)]
        /\ head' = [head EXCEPT ![b] = rest]
        /\ tail' = IF rest = NULL THEN [tail EXCEPT ![b] = NULL] ELSE tail
        /\ bpc' = [bpc EXCEPT ![b] = "run"]
        /\ UNCHANGED <<pc, next, size, done>>

InBatch(b) == {batch[b][i] : i \in DOMAIN batch[b]}

\* Write the answers through the nodes and broadcast done.
BatcherAnswers(b) ==
    /\ bpc[b] = "run"
    /\ done' = [r \in Requests |-> r \in InBatch(b) \/ done[r]]
    /\ pc' = [r \in Requests |-> IF pc[r] = "wait" /\ Call(r) = b THEN "woken" ELSE pc[r]]
    /\ batch' = [batch EXCEPT ![b] = <<>>]
    /\ bpc' = [bpc EXCEPT ![b] = "top"]
    /\ UNCHANGED <<head, tail, next, size>>

\* media_finisher_run and media_audio_batcher_run, one thread each.
Batcher(b) ==
    /\ b \in layout.batching
    /\ BatcherWaits(b) \/ BatcherTakes(b) \/ BatcherAnswers(b)
    /\ UNCHANGED <<layout, cpuVars, slotVars, requestVars>>

Finisher == Batcher("finish")
AudioBatcher == Batcher("audio")

-----------------------------------------------------------------------------

\* A request that has begun: every step but a wakeup or a timeout of its yield.
Serving(r) ==
    \/ /\ \/ SlotLook(r) \/ SlotCompare(r) \/ SlotClaim(r)
          \/ EnterOuter(r) \/ EnterEngine(r) \/ EnterSlot(r) \/ LeaveEngine(r)
          \/ Submit(r) \/ Answered(r) \/ Release(r)
       /\ UNCHANGED layout
    \/ Layer(r)
    \/ Yielding(r) /\ UNCHANGED <<layout, slotVars, requestVars, batchVars>>

Request(r) ==
    \/ (Begin(r) \/ Abandon(r)) /\ UNCHANGED layout
    \/ Serving(r) \/ Yield(r)

Next ==
    \/ \E w \in Waves : Wave(w)
    \/ \E r \in layout.workers : Request(r)
    \/ Finisher
    \/ AudioBatcher

Spec == Init /\ [][Next]_vars

\* A thread that waits for a mutex gets it in the end, towers and waves end, and
\* the batchers are scheduled.  Nothing relies on the timeout of the yield.
Fairness ==
    /\ \A w \in Waves : SF_vars(Wave(w) /\ wpc[w] # "idle")
    /\ \A r \in Requests : SF_vars(Serving(r))
    /\ WF_vars(Finisher) /\ WF_vars(AudioBatcher)

FairSpec == Spec /\ Fairness

-----------------------------------------------------------------------------
(* Properties *)

RequestPCs ==
    {"idle", "look", "compare", "next", "enter", "tower", "finish", "wait", "woken", "done",
     "yieldBegin", "yieldUnlock", "yieldTest", "yieldWait", "yieldWoken", "yieldLock", "yieldLate"}

\* The type of every variable.
TypeOK ==
    /\ layout \in Layouts
    /\ inference \in Requests \cup Waves \cup {Free}
    /\ mediaLock \in Requests \cup {Free} /\ handoff \in Requests \cup {Free}
    /\ textWaiters \in Nat /\ moved \in BOOLEAN /\ taken \in BOOLEAN
    /\ wpc \in [Waves -> {"idle", "lock", "count", "note", "run"}]
    /\ busy \in [Slots -> Nat] /\ slotLock \in [Slots -> Requests \cup {Free}]
    /\ nextSlot \in Nat
    /\ pc \in [Requests -> RequestPCs]
    /\ plan \in [Requests -> Seq(Towers)] /\ layers \in [Requests -> Nat]
    /\ start \in [Requests -> Nat] /\ at \in [Requests -> Nat]
    /\ seen \in [Requests -> Nat] /\ slot \in [Requests -> Slots \cup {NULL}]
    /\ head \in [Batchers -> Requests \cup {NULL}] /\ tail \in [Batchers -> Requests \cup {NULL}]
    /\ next \in [Requests -> Requests \cup {NULL}]
    /\ size \in [Requests -> Nat] /\ done \in [Requests -> BOOLEAN]
    /\ batch \in [Batchers -> Seq(Requests)]
    /\ bpc \in [Batchers -> {"top", "wait", "run"}]

\* The requests assigned to a slot.
Assigned(s) == {r \in Requests : slot[r] = s /\ pc[r] \notin {"look", "compare"}}

\* The threads that run on the CPU engine's thread pool, and the requests inside
\* the towers, whose workspaces are static.
PoolUsers ==
    {r \in Requests : CPU /\ pc[r] \in {"tower", "finish", "yieldBegin", "yieldUnlock"}}
        \cup {w \in Waves : wpc[w] \in {"count", "note", "run"}}
InTowers ==
    {r \in Requests : CPU /\ pc[r] \in RequestPCs \ {"idle", "next", "done"}}

\* The pool and the static tower workspaces have one user at a time although a
\* tower gives up inference_mutex in the middle; a slot's context has one, and
\* its busy count is that of the requests assigned to it.
EngineExclusive ==
    /\ Cardinality(PoolUsers) <= 1
    /\ Cardinality(InTowers) <= 1
    /\ \A s \in Slots :
          /\ busy[s] = Cardinality(Assigned(s))
          /\ Cardinality({r \in Assigned(s) : pc[r] \in {"tower", "finish"}}) <= 1

\* A tower that goes on without having timed out has let a text wave in: the
\* wave may lock before the tower waits, and wakeups may be spurious.
YieldHandsOver == \A r \in Requests : pc[r] = "yieldLock" => taken

\* The nodes linked from head: one more place than there are requests, so that a
\* list that runs in a circle, or on through dead nodes, would be seen.
Chain(b) ==
    LET n == Cardinality(Requests) + 1
    IN  {Walk(b, n)[i] : i \in 1 .. n} \ {NULL}

\* The submitters that wait for batcher b: their stack frames are still there.
Unanswered(b) ==
    {r \in Requests : pc[r] \in {"wait", "woken"} /\ Call(r) = b /\ ~done[r]}

\* A batcher reaches exactly the nodes of submitters that still wait, each once:
\* no pointer outlives its frame, no submission is lost, and tail is the last.
NodesAlive ==
    \A b \in Batchers :
        /\ Chain(b) \cup InBatch(b) = Unanswered(b)
        /\ Chain(b) \cap InBatch(b) = {}
        /\ Len(batch[b]) = Cardinality(InBatch(b))
        /\ IF head[b] = NULL THEN tail[b] = NULL
           ELSE tail[b] \in Chain(b) /\ next[tail[b]] = NULL

\* Every media request ends and every text wave runs, without counting on the
\* timeout of the yield.
RequestsServed ==
    /\ \A r \in Requests : pc[r] # "idle" ~> pc[r] = "idle"
    /\ \A w \in Waves : wpc[w] # "idle" ~> wpc[w] = "idle"

=============================================================================
