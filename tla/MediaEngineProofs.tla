--------------------------- MODULE MediaEngineProofs ---------------------------
(***************************************************************************)
(* Theorems about how media requests and text waves share the engine: who  *)
(* may be inside it, when a yielding tower goes on, and which nodes a      *)
(* batcher can reach.                                                      *)
(***************************************************************************)
EXTENDS MediaEngine, ListProofs

(***************************************************************************)
(* Where a request can be.  On the CPU it runs under the two mutexes; on   *)
(* the GPU it has a slot, and no wave takes part.                          *)
(***************************************************************************)

\* Holding inference_mutex; having given it up inside cpu_tower_yield.
InPool == {"tower", "finish", "yieldBegin", "yieldUnlock"}
InYield == {"yieldTest", "yieldWait", "yieldWoken", "yieldLock", "yieldLate"}

\* Holding cpu_media_mutex.
UnderMedia == {"enter"} \cup InPool \cup InYield

OnCPU == {"idle", "next", "done"} \cup UnderMedia
OnGPU == {"idle", "look", "compare", "next", "tower", "finish", "wait", "woken", "done"}

\* Between the first and the last layer of a tower.
InTower == {"tower", "yieldBegin", "yieldUnlock"} \cup InYield

WavePCs == {"idle", "lock", "count", "note", "run"}

Places ==
    /\ layout \in Layouts
    /\ pc \in [Requests -> RequestPCs] /\ wpc \in [Waves -> WavePCs]
    /\ plan \in [Requests -> Seq(Towers)] /\ layers \in [Requests -> Nat]
    /\ \A r \in Requests : /\ pc[r] \in (IF CPU THEN OnCPU ELSE OnGPU)
                           /\ ~CPU => layers[r] = 0
                           /\ pc[r] \in InTower => plan[r] # <<>>
    /\ ~CPU => \A w \in Waves : wpc[w] = "idle"

(***************************************************************************)
(* The CPU.  A mutex has the owner whose place says so, textWaiters counts *)
(* the waves that are about to lock, and while no wave has locked since    *)
(* the tower unlocked, one still wants to.                                 *)
(***************************************************************************)

Mutexes ==
    /\ \A r \in Requests :
          /\ mediaLock = r <=> pc[r] \in UnderMedia
          /\ inference = r <=> pc[r] \in InPool
          /\ handoff = r <=> pc[r] \in {"yieldUnlock", "yieldTest"}
    /\ \A w \in Waves : inference = w <=> wpc[w] \in {"count", "note", "run"}

Counted == [w \in Waves |-> IF wpc[w] \in {"lock", "count"} THEN 1 ELSE 0]

SomeWaveWants == \E w \in Waves : wpc[w] = "lock"
NoWaveRuns == \A w \in Waves : wpc[w] \in {"idle", "lock"}

HandOver ==
    /\ textWaiters = CountIn(Waves, Counted, 1)
    /\ \A r \in Requests :
          /\ pc[r] \in {"yieldBegin", "yieldUnlock"} => SomeWaveWants
          /\ pc[r] = "yieldUnlock" => ~moved
          /\ pc[r] \in InYield => taken \/ (~moved /\ SomeWaveWants /\ NoWaveRuns)
          /\ pc[r] = "yieldLock" => taken

CpuTypes ==
    /\ inference \in Requests \cup Waves \cup {Free}
    /\ mediaLock \in Requests \cup {Free} /\ handoff \in Requests \cup {Free}
    /\ textWaiters \in Nat /\ moved \in BOOLEAN /\ taken \in BOOLEAN

CpuInv == CpuTypes /\ (CPU => Mutexes /\ HandOver)

(***************************************************************************)
(* The slots.  A request that has begun is assigned to one, its lock has   *)
(* the owner that is inside the engine, and busy counts those assigned.    *)
(***************************************************************************)

AssignedTo ==
    [r \in Requests |-> IF pc[r] \in {"look", "compare"} THEN NULL ELSE slot[r]]

SlotTypes ==
    /\ busy \in [Slots -> Nat] /\ slotLock \in [Slots -> Requests \cup {Free}]
    /\ nextSlot \in Nat /\ slot \in [Requests -> Slots \cup {NULL}]
    /\ start \in [Requests -> Nat] /\ at \in [Requests -> Nat] /\ seen \in [Requests -> Nat]

\* A request is assigned to a slot or idle, and a lock has the owner that is inside.
SlotsHeld ==
    /\ nextSlot \in Slots
    /\ \A r \in Requests : slot[r] = NULL <=> pc[r] = "idle"
    /\ \A s \in Slots, r \in Requests :
          slotLock[s] = r <=> slot[r] = s /\ pc[r] \in {"tower", "finish"}

SlotsCounted == \A s \in Slots : busy[s] = CountIn(Requests, AssignedTo, s)

SlotInv == SlotTypes /\ (~CPU => SlotsHeld /\ SlotsCounted)

(***************************************************************************)
(* The list of a batcher is a sequence q without repetition: head is its   *)
(* first node, tail its last, and next leads from each to the following.   *)
(***************************************************************************)

Waits == {"wait", "woken"}

\* The node at a place of a sequence, NULL outside.
At(q, i) == IF i \in DOMAIN q THEN q[i] ELSE NULL

Queue(b, q) ==
    /\ q \in Seq(Requests) /\ Distinct(q)
    /\ head[b] = At(q, 1) /\ tail[b] = At(q, Len(q))
    /\ \A i \in DOMAIN q : next[q[i]] = At(q, i + 1)

\* The list and the batch in work are the submitters that wait.
QueueOf(b) ==
    \E q \in Seq(Requests) :
        /\ Queue(b, q)
        /\ ToSet(q) \cap ToSet(batch[b]) = {}
        /\ ToSet(q) \cup ToSet(batch[b]) = Unanswered(b)

ListTypes ==
    /\ head \in [Batchers -> Requests \cup {NULL}] /\ tail \in [Batchers -> Requests \cup {NULL}]
    /\ next \in [Requests -> Requests \cup {NULL}]
    /\ size \in [Requests -> Nat] /\ done \in [Requests -> BOOLEAN]
    /\ batch \in [Batchers -> Seq(Requests)]
    /\ bpc \in [Batchers -> {"top", "wait", "run"}]

ListInv ==
    /\ ListTypes
    /\ \A b \in Batchers : /\ QueueOf(b) /\ Distinct(batch[b])
                           /\ bpc[b] # "run" => batch[b] = <<>>
    /\ \A r \in Requests : /\ done[r] => pc[r] = "woken"
                           /\ pc[r] \notin Waits => next[r] = NULL

EngineInv == Places /\ CpuInv /\ SlotInv /\ ListInv
-----------------------------------------------------------------------------
(* Where the requests and the waves are *)

\* The slots of a configuration, and its batchers.
LEMMA LayoutFacts ==
    ASSUME Places
    PROVE  /\ SlotCount \in Nat /\ layout.batching \subseteq Batchers
           /\ layout.workers \subseteq Requests /\ layout.plans \subseteq Seq(Towers)
           /\ CPU => layout.batching = {}
           /\ ~CPU => SlotCount \in Nat \ {0}
<1>1. layout \in LayoutType /\ (layout.slots = 0 => layout.batching = {})
  BY MediaAssumption DEF Places
<1> QED
  BY <1>1 DEF LayoutType, SlotCount, CPU

\* One request goes from one place to another.
LEMMA RequestMoves ==
    ASSUME Places, layout' = layout, wpc' = wpc, NEW r \in Requests, NEW l,
           pc' = [pc EXCEPT ![r] = l], l \in RequestPCs,
           l \in (IF CPU THEN OnCPU ELSE OnGPU),
           plan' \in [Requests -> Seq(Towers)], \A v \in Requests : v # r => plan'[v] = plan[v],
           l \in InTower => plan'[r] # <<>>,
           layers' \in [Requests -> Nat], ~CPU => layers' = layers
    PROVE  Places'
<1>1. CPU' = CPU
  BY DEF CPU, SlotCount
<1>2. \A v \in Requests : pc'[v] = IF v = r THEN l ELSE pc[v]
  BY DEF Places
<1>3. pc' \in [Requests -> RequestPCs]
  BY DEF Places
<1> QED
  BY <1>1, <1>2, <1>3 DEF Places

\* One wave does, of the CPU.
LEMMA WaveMoves ==
    ASSUME Places, UNCHANGED <<layout, pc, plan, layers>>, CPU, wpc' \in [Waves -> WavePCs]
    PROVE  Places'
BY DEF Places, CPU, SlotCount

\* The places after a request has begun, looked for a slot or gone on.
LEMMA PlacesRequest ==
    ASSUME Places, NEW r \in Requests, layout' = layout,
           \/ Begin(r) \/ SlotLook(r) \/ SlotCompare(r) \/ SlotClaim(r) \/ EnterOuter(r)
           \/ EnterEngine(r) \/ EnterSlot(r) \/ LeaveEngine(r) \/ Abandon(r) \/ Submit(r)
           \/ Answered(r) \/ Release(r)
    PROVE  Places'
<1>0. /\ pc \in [Requests -> RequestPCs] /\ plan \in [Requests -> Seq(Towers)]
      /\ layers \in [Requests -> Nat] /\ pc[r] \in (IF CPU THEN OnCPU ELSE OnGPU)
      /\ layout.plans \subseteq Seq(Towers) /\ plan[r] \in Seq(Towers)
      /\ pc[r] \in InTower => plan[r] # <<>>
  BY LayoutFacts DEF Places
<1> USE DEF cpuVars, slotVars
<1> DEFINE Stays == UNCHANGED <<layout, wpc, plan, layers>>
<1>1. CASE Begin(r)
  <2>1. PICK p \in layout.plans : plan' = [plan EXCEPT ![r] = p]
    BY <1>1 DEF Begin
  <2>2. wpc' = wpc /\ layers' = layers
    BY <1>1 DEF Begin
  <2>3. PICK l : l = IF CPU THEN "next" ELSE "look"
    OBVIOUS
  <2>4. pc' = [pc EXCEPT ![r] = l]
    BY <1>1, <2>3 DEF Begin, Goto
  <2>5. l \in RequestPCs /\ l \in (IF CPU THEN OnCPU ELSE OnGPU) /\ l \notin InTower
    BY <2>3 DEF RequestPCs, OnCPU, OnGPU, InTower, InYield
  <2>6. plan' \in [Requests -> Seq(Towers)] /\ \A v \in Requests : v # r => plan'[v] = plan[v]
    BY <1>0, <2>1
  <2> QED
    BY <1>0, <2>2, <2>4, <2>5, <2>6, RequestMoves
<1>2. ASSUME NEW l, pc' = [pc EXCEPT ![r] = l], UNCHANGED <<wpc, plan>>,
             l \in RequestPCs, l \in (IF CPU THEN OnCPU ELSE OnGPU),
             l \in InTower => plan[r] # <<>>,
             layers' \in [Requests -> Nat], ~CPU => layers' = layers
      PROVE  Places'
  BY <1>0, <1>2, RequestMoves
<1>3. CASE SlotLook(r) \/ SlotCompare(r) \/ SlotClaim(r) \/ EnterOuter(r) \/ Abandon(r)
           \/ Submit(r)
  <2>1. UNCHANGED <<wpc, plan, layers>>
    BY <1>3 DEF SlotLook, SlotCompare, SlotClaim, EnterOuter, Abandon, Submit, requestVars
  <2>2. \/ ~CPU /\ pc' = [pc EXCEPT ![r] = "compare"]
        \/ ~CPU /\ pc' = [pc EXCEPT ![r] = "look"]
        \/ pc' = [pc EXCEPT ![r] = "next"]
        \/ CPU /\ pc' = [pc EXCEPT ![r] = "enter"]
        \/ pc' = [pc EXCEPT ![r] = "done"]
        \/ ~CPU /\ pc' = [pc EXCEPT ![r] = "wait"]
    <3>1. CASE SlotLook(r)
      BY <1>0, <3>1 DEF SlotLook, Goto, OnCPU, UnderMedia, InPool, InYield
    <3>2. CASE SlotCompare(r)
      BY <1>0, <3>2 DEF SlotCompare, Goto, OnCPU, UnderMedia, InPool, InYield
    <3>3. CASE SlotClaim(r)
      BY <3>3 DEF SlotClaim, Goto
    <3>4. CASE EnterOuter(r)
      BY <3>4 DEF EnterOuter, Goto
    <3>5. CASE Abandon(r)
      BY <3>5 DEF Abandon, Goto
    <3>6. CASE Submit(r)
      BY <3>6, LayoutFacts DEF Submit, Submits, Goto
    <3> QED
      BY <1>3, <3>1, <3>2, <3>3, <3>4, <3>5, <3>6
  <2>3. \A l \in {"compare", "look", "next", "enter", "done", "wait"} :
           /\ l \in RequestPCs /\ l \notin InTower
           /\ l \in {"next", "done"} => l \in OnCPU /\ l \in OnGPU
           /\ l = "enter" => l \in OnCPU
           /\ l \in {"compare", "look", "wait"} => l \in OnGPU
    BY DEF RequestPCs, InTower, InYield, OnCPU, OnGPU, UnderMedia
  <2> QED
    BY <1>0, <1>2, <2>1, <2>2, <2>3
<1>4. CASE EnterEngine(r) \/ EnterSlot(r)
  <2>1. UNCHANGED <<wpc, plan>> /\ pc' = [pc EXCEPT ![r] = Inside(r)]
    BY <1>4 DEF EnterEngine, EnterSlot, Goto, requestVars
  <2>2. layers' \in [Requests -> Nat] /\ (~CPU => layers' = layers)
    <3>1. CASE EnterEngine(r)
      <4>1. Layers \in Nat
        BY MediaAssumption
      <4>2. CPU /\ layers' = [layers EXCEPT ![r] = IF Call(r) = "finish" THEN 0 ELSE Layers]
        BY <3>1 DEF EnterEngine
      <4> QED
        BY <1>0, <4>1, <4>2
    <3>2. CASE EnterSlot(r)
      BY <1>0, <3>2 DEF EnterSlot, requestVars
    <3> QED
      BY <1>4, <3>1, <3>2
  <2>3. \/ Inside(r) = "finish"
        \/ Inside(r) = "tower" /\ plan[r] # <<>>
    BY DEF Inside, Call
  <2>4. \A l \in {"finish", "tower"} : /\ l \in RequestPCs /\ l \in OnCPU /\ l \in OnGPU
                                       /\ l \in InTower => l = "tower"
    BY DEF RequestPCs, InTower, InYield, OnCPU, OnGPU, UnderMedia, InPool
  <2> QED
    BY <1>0, <1>2, <2>1, <2>2, <2>3, <2>4
<1>5. CASE LeaveEngine(r) \/ Answered(r) \/ Release(r)
  <2>1. wpc' = wpc /\ layers' = layers
    BY <1>5 DEF LeaveEngine, Answered, Release
  <2>2. \/ pc' = [pc EXCEPT ![r] = "wait"] /\ plan' = plan /\ ~CPU
        \/ /\ pc' = [pc EXCEPT ![r] = "next"]
           /\ plan' = [plan EXCEPT ![r] = Tail(@)] /\ plan[r] # <<>>
        \/ pc' = [pc EXCEPT ![r] = "done"] /\ plan' = plan
        \/ pc' = [pc EXCEPT ![r] = "idle"] /\ plan' = [plan EXCEPT ![r] = <<>>]
    <3>1. CASE LeaveEngine(r)
      BY <1>0, <3>1 DEF LeaveEngine, Goto, InTower
    <3>2. CASE Answered(r)
      BY <1>0, <3>2 DEF Answered, Goto, Call, OnCPU, UnderMedia, InPool, InYield
    <3>3. CASE Release(r)
      BY <3>3 DEF Release, Goto
    <3> QED
      BY <1>5, <3>1, <3>2, <3>3
  <2>3. \A l \in {"wait", "next", "done", "idle"} :
           /\ l \in RequestPCs /\ l \notin InTower
           /\ l \in {"next", "done", "idle"} => l \in OnCPU /\ l \in OnGPU
           /\ l = "wait" => l \in OnGPU
    BY DEF RequestPCs, InTower, InYield, OnCPU, OnGPU
  <2>4. /\ plan[r] # <<>> => Tail(plan[r]) \in Seq(Towers)
        /\ <<>> \in Seq(Towers)
    BY <1>0
  <2>5. /\ plan' \in [Requests -> Seq(Towers)]
        /\ \A v \in Requests : v # r => plan'[v] = plan[v]
    BY <1>0, <2>2, <2>4
  <2> QED
    BY <1>0, <2>1, <2>2, <2>3, <2>5, RequestMoves
<1> QED
  BY <1>1, <1>3, <1>4, <1>5

\* The places after a layer of a tower, and after a step of cpu_tower_yield.
LEMMA PlacesTower ==
    ASSUME Places, NEW r \in Requests, Layer(r) \/ Yield(r)
    PROVE  Places'
<1>0. /\ pc \in [Requests -> RequestPCs] /\ plan \in [Requests -> Seq(Towers)]
      /\ layers \in [Requests -> Nat] /\ pc[r] \in (IF CPU THEN OnCPU ELSE OnGPU)
      /\ pc[r] \in InTower => plan[r] # <<>>
  BY DEF Places
<1>1. layout' = layout /\ wpc' = wpc /\ plan' = plan
  BY DEF Layer, TowerLayer, Yield, Yielding, YieldBegin, YieldUnlock, YieldTest, YieldWake,
         YieldRelock, YieldSpurious, YieldTimeout, cpuVars, requestVars
<1>2. /\ CPU /\ pc[r] \in InTower
      /\ \E l \in {"tower", "yieldBegin", "yieldUnlock", "yieldTest", "yieldWait", "yieldLock",
                   "yieldLate"} : pc' = [pc EXCEPT ![r] = l]
  <2>1. CASE Layer(r)
    BY <2>1 DEF Layer, TowerLayer, Goto, InTower
  <2>2. CASE Yield(r)
    <3>1. pc[r] \in InYield \cup {"yieldBegin", "yieldUnlock"}
      BY <2>2 DEF Yield, Yielding, YieldBegin, YieldUnlock, YieldTest, YieldWake, YieldRelock,
                  YieldSpurious, YieldTimeout, InYield
    <3>2. CPU /\ pc[r] \in InTower
      BY <1>0, <3>1 DEF OnGPU, InTower, InYield
    <3>3. \E l \in {"tower", "yieldBegin", "yieldUnlock", "yieldTest", "yieldWait", "yieldLock",
                    "yieldLate"} : pc' = [pc EXCEPT ![r] = l]
      BY <2>2 DEF Yield, Yielding, YieldBegin, YieldUnlock, YieldTest, YieldWake, YieldRelock,
                  YieldSpurious, YieldTimeout, Goto
    <3> QED
      BY <3>2, <3>3
  <2> QED
    BY <2>1, <2>2
<1>3. PICK l \in {"tower", "yieldBegin", "yieldUnlock", "yieldTest", "yieldWait", "yieldLock",
                  "yieldLate"} : pc' = [pc EXCEPT ![r] = l]
  BY <1>2
<1>4. l \in RequestPCs /\ l \in OnCPU
  BY DEF RequestPCs, OnCPU, UnderMedia, InPool, InYield
<1>5. layers' \in [Requests -> Nat]
  <2>1. CASE Layer(r)
    <3>1. layers[r] \in Nat /\ layers[r] > 0 /\ layers' = [layers EXCEPT ![r] = @ - 1]
      BY <1>0, <2>1 DEF Layer, TowerLayer
    <3>2. layers[r] - 1 \in Nat
      BY <3>1
    <3> QED
      BY <1>0, <3>1, <3>2
  <2>2. CASE Yield(r)
    BY <1>0, <2>2 DEF Yield, requestVars
  <2> QED
    BY <2>1, <2>2
<1> QED
  BY <1>0, <1>1, <1>2, <1>3, <1>4, <1>5, RequestMoves

\* The places after a step of a wave: it may wake the tower.
LEMMA PlacesWave ==
    ASSUME Places, NEW w \in Waves, Wave(w)
    PROVE  Places'
<1>0. pc \in [Requests -> RequestPCs] /\ wpc \in [Waves -> WavePCs] /\ (wpc[w] # "idle" => CPU)
  BY DEF Places
<1>1. /\ layout' = layout /\ plan' = plan /\ layers' = layers
      /\ CPU
      /\ wpc' \in [Waves -> WavePCs]
      /\ pc' = pc \/ WakeTower
  <2>1. layout' = layout /\ plan' = plan /\ layers' = layers /\ (pc' = pc \/ WakeTower)
    BY DEF Wave, WaveWants, WaveLocks, WaveCounted, WaveNotes, WaveEnds, requestVars
  <2>2. CPU
    BY <1>0 DEF Wave, WaveWants, WaveLocks, WaveCounted, WaveNotes, WaveEnds
  <2>3. \E l \in WavePCs : WaveGoto(w, l)
    BY DEF Wave, WaveWants, WaveLocks, WaveCounted, WaveNotes, WaveEnds, WavePCs
  <2> QED
    BY <1>0, <2>1, <2>2, <2>3 DEF WaveGoto
<1>2. CASE pc' = pc
  BY <1>1, <1>2, WaveMoves
<1>3. CASE WakeTower
  <2>1. pc' \in [Requests -> RequestPCs]
    BY <1>0, <1>3 DEF WakeTower, RequestPCs
  <2>2. \A v \in Requests : pc'[v] = pc[v] \/ (pc[v] = "yieldWait" /\ pc'[v] = "yieldWoken")
    BY <1>3 DEF WakeTower
  <2> QED
    BY <1>1, <2>1, <2>2 DEF Places, CPU, SlotCount, OnCPU, UnderMedia, InYield, InTower
<1> QED
  BY <1>1, <1>2, <1>3

\* The places after a step of a batcher: it may wake those that wait.
LEMMA PlacesBatcher ==
    ASSUME Places, NEW b \in Batchers, Batcher(b)
    PROVE  Places'
<1>0. pc \in [Requests -> RequestPCs] /\ ~CPU
  BY LayoutFacts DEF Places, Batcher
<1>1. layout' = layout /\ plan' = plan /\ layers' = layers /\ wpc' = wpc
  BY DEF Batcher, cpuVars, requestVars
<1>2. \A v \in Requests : pc'[v] = pc[v] \/ (pc[v] = "wait" /\ pc'[v] = "woken")
  BY DEF Batcher, BatcherWaits, BatcherTakes, BatcherAnswers
<1>3. pc' \in [Requests -> RequestPCs]
  <2>1. pc' = pc \/ pc' = [v \in Requests |-> pc'[v]]
    BY DEF Batcher, BatcherWaits, BatcherTakes, BatcherAnswers
  <2> QED
    BY <1>0, <1>2, <2>1 DEF RequestPCs
<1> QED
  BY <1>0, <1>1, <1>2, <1>3 DEF Places, CPU, SlotCount, OnGPU, InTower, InYield

\* The four kinds of steps.
LEMMA StepKinds ==
    ASSUME Places, [Next]_vars
    PROVE  \/ \E w \in Waves : Wave(w)
           \/ \E r \in Requests :
                 /\ layout' = layout
                 /\ \/ Begin(r) \/ SlotLook(r) \/ SlotCompare(r) \/ SlotClaim(r)
                    \/ EnterOuter(r) \/ EnterEngine(r) \/ EnterSlot(r) \/ LeaveEngine(r)
                    \/ Abandon(r) \/ Submit(r) \/ Answered(r) \/ Release(r)
           \/ \E r \in Requests : Layer(r) \/ Yield(r)
           \/ \E b \in Batchers : Batcher(b)
           \/ UNCHANGED vars
<1>1. layout.workers \subseteq Requests
  BY LayoutFacts
<1>2. ASSUME NEW r \in Requests, Request(r)
      PROVE  \/ /\ layout' = layout
                /\ \/ Begin(r) \/ SlotLook(r) \/ SlotCompare(r) \/ SlotClaim(r)
                   \/ EnterOuter(r) \/ EnterEngine(r) \/ EnterSlot(r) \/ LeaveEngine(r)
                   \/ Abandon(r) \/ Submit(r) \/ Answered(r) \/ Release(r)
             \/ Layer(r) \/ Yield(r)
  BY <1>2 DEF Request, Serving, Yield
<1>3. Finisher \/ AudioBatcher => \E b \in Batchers : Batcher(b)
  BY DEF Finisher, AudioBatcher, Batchers
<1> QED
  BY <1>1, <1>2, <1>3 DEF Next

\* A request stays on the path of its backend.
LEMMA PlacesStep == Places /\ [Next]_vars => Places'
<1> SUFFICES ASSUME Places, [Next]_vars PROVE Places'
  OBVIOUS
<1>1. CASE UNCHANGED vars
  BY <1>1 DEF vars, cpuVars, requestVars, Places, CPU, SlotCount
<1> QED
  BY <1>1, StepKinds, PlacesWave, PlacesRequest, PlacesTower, PlacesBatcher
-----------------------------------------------------------------------------
(* The CPU *)

\* No request is a wave, and none of them is nobody.
LEMMA OwnersDiffer ==
    /\ \A r \in Requests : r # Free /\ r \notin Waves
    /\ \A w \in Waves : w # Free /\ w \notin Requests
BY MediaAssumption

\* A step of the GPU backend leaves the CPU's part alone.
LEMMA GpuKeepsCpu ==
    ASSUME Places, CpuInv, ~CPU, layout' = layout, UNCHANGED cpuVars
    PROVE  CpuInv'
BY DEF CpuInv, CpuTypes, CPU, SlotCount, cpuVars

\* At most one wave changes its count.
LEMMA WaveCount ==
    ASSUME wpc \in [Waves -> WavePCs], NEW w \in Waves, NEW l, wpc' = [wpc EXCEPT ![w] = l]
    PROVE  /\ CountIn(Waves, Counted, 1) \in Nat /\ CountIn(Waves, Counted', 1) \in Nat
           /\ CountIn(Waves, Counted', 1) + (IF wpc[w] \in {"lock", "count"} THEN 1 ELSE 0)
                 = CountIn(Waves, Counted, 1) + (IF l \in {"lock", "count"} THEN 1 ELSE 0)
<1>1. PICK f : f = Counted
  OBVIOUS
<1>2. PICK g : g = Counted'
  OBVIOUS
<1>3. /\ f[w] = (IF wpc[w] \in {"lock", "count"} THEN 1 ELSE 0)
      /\ g[w] = (IF l \in {"lock", "count"} THEN 1 ELSE 0)
  BY <1>1, <1>2 DEF Counted
<1>4. ChangesAt(Waves, f, g, w)
  BY <1>1, <1>2 DEF Counted, ChangesAt
<1>5. IsFiniteSet(Waves)
  BY MediaAssumption
<1>6. CountIn(Waves, f, 1) \in Nat /\ CountIn(Waves, g, 1) \in Nat
  BY <1>5, CountNat
<1>7. CountIn(Waves, g, 1) + Is(f[w], 1) = CountIn(Waves, f, 1) + Is(g[w], 1)
  BY <1>4, <1>5, CountMoves
<1>8. Is(f[w], 1) = f[w] /\ Is(g[w], 1) = g[w]
  BY <1>3 DEF Is
<1> QED
  BY <1>1, <1>2, <1>3, <1>6, <1>7, <1>8

\* textWaiters is zero exactly while no wave is about to lock.
LEMMA WaitersSeen ==
    ASSUME HandOver
    PROVE  textWaiters = 0 <=> \A w \in Waves : wpc[w] \notin {"lock", "count"}
<1>1. PICK f : f = Counted
  OBVIOUS
<1>2. textWaiters = CountIn(Waves, f, 1) /\ IsFiniteSet(Waves)
  BY <1>1, MediaAssumption DEF HandOver
<1>3. Where(Waves, f, 1) \in SUBSET Waves
  BY DEF Where
<1>4. IsFiniteSet(Where(Waves, f, 1))
  BY <1>2, <1>3, FS_Subset
<1>5. textWaiters = 0 <=> Where(Waves, f, 1) = {}
  BY <1>2, <1>4, FS_EmptySet DEF CountIn
<1>6. \A w \in Waves : f[w] = 1 <=> wpc[w] \in {"lock", "count"}
  BY <1>1 DEF Counted
<1> QED
  BY <1>5, <1>6 DEF Where

\* The steps of a wave.
LEMMA CpuWave ==
    ASSUME Places, CpuInv, NEW w \in Waves, Wave(w)
    PROVE  CpuInv'
<1>0. /\ layout' = layout /\ CPU' = CPU
      /\ pc \in [Requests -> RequestPCs] /\ wpc \in [Waves -> WavePCs]
      /\ wpc[w] # "idle" => CPU
  BY DEF Places, Wave, CPU, SlotCount
<1>1. CPU
  BY <1>0 DEF Wave, WaveWants, WaveLocks, WaveCounted, WaveNotes, WaveEnds
<1>2. CpuTypes /\ Mutexes /\ HandOver
  BY <1>1 DEF CpuInv
<1>3. textWaiters = CountIn(Waves, Counted, 1) /\ textWaiters \in Nat
  BY <1>2 DEF CpuTypes, HandOver
<1>4. \A r \in Requests : pc'[r] = pc[r] \/ (pc[r] = "yieldWait" /\ pc'[r] = "yieldWoken")
  BY <1>0 DEF Wave, WaveWants, WaveLocks, WaveCounted, WaveNotes, WaveEnds, WakeTower
<1>5. \A r \in Requests : /\ pc'[r] \in UnderMedia <=> pc[r] \in UnderMedia
                          /\ pc'[r] \in InPool <=> pc[r] \in InPool
                          /\ pc'[r] \in InYield <=> pc[r] \in InYield
                          /\ pc'[r] = "yieldBegin" <=> pc[r] = "yieldBegin"
                          /\ pc'[r] = "yieldUnlock" <=> pc[r] = "yieldUnlock"
                          /\ pc'[r] = "yieldTest" <=> pc[r] = "yieldTest"
                          /\ pc'[r] = "yieldLock" <=> pc[r] = "yieldLock"
  BY <1>4 DEF UnderMedia, InPool, InYield
<1>6. \A r \in Requests :
         /\ pc[r] \in {"yieldBegin", "yieldUnlock"} => inference = r /\ SomeWaveWants
         /\ pc[r] = "yieldUnlock" => ~moved
         /\ pc[r] \in InYield => taken \/ (~moved /\ SomeWaveWants /\ NoWaveRuns)
         /\ pc[r] = "yieldLock" => taken
  BY <1>2 DEF Mutexes, HandOver, InPool
<1>12. ASSUME NEW l \in WavePCs, NEW n \in Int, wpc' = [wpc EXCEPT ![w] = l], textWaiters' = n,
              n + (IF wpc[w] \in {"lock", "count"} THEN 1 ELSE 0)
                 = textWaiters + (IF l \in {"lock", "count"} THEN 1 ELSE 0)
       PROVE  textWaiters' = CountIn(Waves, Counted', 1) /\ textWaiters' \in Nat
  <2>1. wpc \in [Waves -> WavePCs]
    BY <1>0
  <2>2. CountIn(Waves, Counted', 1) \in Nat
    BY <1>12, <2>1, WaveCount
  <2>3. CountIn(Waves, Counted', 1) + (IF wpc[w] \in {"lock", "count"} THEN 1 ELSE 0)
           = CountIn(Waves, Counted, 1) + (IF l \in {"lock", "count"} THEN 1 ELSE 0)
    BY <1>12, <2>1, WaveCount
  <2> QED
    BY <1>3, <1>12, <2>2, <2>3
<1>7. CASE WaveWants(w)
  <2>1. /\ wpc[w] = "idle" /\ wpc' = [wpc EXCEPT ![w] = "lock"] /\ textWaiters' = textWaiters + 1
        /\ UNCHANGED <<inference, mediaLock, handoff, moved, taken, pc>>
    BY <1>7 DEF WaveWants, WaveGoto
  <2>2. textWaiters' = CountIn(Waves, Counted', 1) /\ textWaiters' \in Nat
    BY <1>3, <1>12, <2>1 DEF WavePCs
  <2>3. CpuTypes' /\ Mutexes'
    BY <1>0, <1>2, <2>1, <2>2 DEF CpuTypes, Mutexes
  <2>4. SomeWaveWants' /\ (NoWaveRuns => NoWaveRuns')
    BY <1>0, <2>1 DEF SomeWaveWants, NoWaveRuns
  <2>5. HandOver'
    BY <1>6, <2>1, <2>2, <2>4 DEF HandOver
  <2> QED
    BY <2>3, <2>5 DEF CpuInv
<1>8. CASE WaveLocks(w)
  <2>1. /\ wpc[w] = "lock" /\ wpc' = [wpc EXCEPT ![w] = "count"] /\ inference = Free
        /\ inference' = w /\ taken' = TRUE
        /\ UNCHANGED <<mediaLock, handoff, textWaiters, moved, pc>>
    BY <1>8 DEF WaveLocks, WaveGoto
  <2>2. textWaiters' = CountIn(Waves, Counted', 1)
    BY <1>3, <1>12, <2>1 DEF WavePCs
  <2>3. CpuTypes'
    BY <1>2, <2>1 DEF CpuTypes
  <2>4. Mutexes'
    <3>1. \A r \in Requests : pc[r] \notin InPool
      BY <1>2, <2>1, OwnersDiffer DEF Mutexes
    <3>2. \A v \in Waves : v # w => wpc'[v] \notin {"count", "note", "run"}
      BY <1>0, <1>2, <2>1, OwnersDiffer DEF Mutexes
    <3>3. wpc'[w] = "count"
      BY <1>0, <2>1
    <3> QED
      BY <1>2, <2>1, <3>1, <3>2, <3>3, OwnersDiffer DEF Mutexes
  <2>5. \A r \in Requests : pc[r] \notin {"yieldBegin", "yieldUnlock"}
    BY <1>6, <2>1, OwnersDiffer
  <2>6. HandOver'
    BY <2>1, <2>2, <2>5 DEF HandOver
  <2> QED
    BY <2>3, <2>4, <2>6 DEF CpuInv
<1>9. CASE WaveCounted(w)
  <2>1. /\ wpc[w] = "count" /\ wpc' = [wpc EXCEPT ![w] = "note"] /\ textWaiters' = textWaiters - 1
        /\ UNCHANGED <<inference, mediaLock, handoff, moved, taken, pc>>
    BY <1>9 DEF WaveCounted, WaveGoto
  <2>2. textWaiters' = CountIn(Waves, Counted', 1) /\ textWaiters' \in Nat
    BY <1>3, <1>12, <2>1 DEF WavePCs
  <2>3. CpuTypes' /\ Mutexes'
    BY <1>0, <1>2, <2>1, <2>2 DEF CpuTypes, Mutexes
  <2>4. (SomeWaveWants => SomeWaveWants') /\ ~NoWaveRuns
    BY <1>0, <2>1 DEF SomeWaveWants, NoWaveRuns
  <2>5. HandOver'
    BY <1>6, <2>1, <2>2, <2>4 DEF HandOver
  <2> QED
    BY <2>3, <2>5 DEF CpuInv
<1>10. CASE WaveNotes(w)
  <2>1. /\ wpc[w] = "note" /\ wpc' = [wpc EXCEPT ![w] = "run"] /\ moved' = TRUE
        /\ UNCHANGED <<inference, mediaLock, handoff, textWaiters, taken>>
    BY <1>10 DEF WaveNotes, WaveGoto
  <2>2. textWaiters' = CountIn(Waves, Counted', 1)
    BY <1>3, <1>12, <2>1 DEF WavePCs
  <2>3. CpuTypes'
    BY <1>2, <2>1 DEF CpuTypes
  <2>4. Mutexes'
    BY <1>0, <1>2, <1>5, <2>1 DEF Mutexes
  <2>5. (SomeWaveWants => SomeWaveWants') /\ ~NoWaveRuns
    BY <1>0, <2>1 DEF SomeWaveWants, NoWaveRuns
  <2>6. inference = w
    BY <1>2, <2>1 DEF Mutexes
  <2>7. \A r \in Requests : pc[r] \notin {"yieldBegin", "yieldUnlock"}
    BY <1>6, <2>6, OwnersDiffer
  <2>8. HandOver'
    BY <1>5, <1>6, <2>1, <2>2, <2>5, <2>7 DEF HandOver
  <2> QED
    BY <2>3, <2>4, <2>8 DEF CpuInv
<1>11. CASE WaveEnds(w)
  <2>1. /\ wpc[w] = "run" /\ wpc' = [wpc EXCEPT ![w] = "idle"] /\ inference' = Free
        /\ UNCHANGED <<mediaLock, handoff, textWaiters, moved, taken, pc>>
    BY <1>11 DEF WaveEnds, WaveGoto
  <2>2. textWaiters' = CountIn(Waves, Counted', 1)
    BY <1>3, <1>12, <2>1 DEF WavePCs
  <2>3. CpuTypes'
    BY <1>2, <2>1 DEF CpuTypes
  <2>4. inference = w
    BY <1>2, <2>1 DEF Mutexes
  <2>5. Mutexes'
    <3>1. \A r \in Requests : pc[r] \notin InPool
      BY <1>2, <2>4, OwnersDiffer DEF Mutexes
    <3>2. \A v \in Waves : wpc'[v] \notin {"count", "note", "run"}
      BY <1>0, <1>2, <2>1, <2>4 DEF Mutexes
    <3> QED
      BY <1>2, <2>1, <3>1, <3>2, OwnersDiffer DEF Mutexes
  <2>6. (SomeWaveWants => SomeWaveWants') /\ ~NoWaveRuns
    BY <1>0, <2>1 DEF SomeWaveWants, NoWaveRuns
  <2>7. HandOver'
    BY <1>6, <2>1, <2>2, <2>6 DEF HandOver
  <2> QED
    BY <2>3, <2>5, <2>7 DEF CpuInv
<1> QED
  BY <1>7, <1>8, <1>9, <1>10, <1>11 DEF Wave

\* The steps of a request outside the engine, or into and out of it.
LEMMA CpuRequest ==
    ASSUME Places, CpuInv, NEW r \in Requests, layout' = layout,
           \/ Begin(r) \/ SlotLook(r) \/ SlotCompare(r) \/ SlotClaim(r) \/ EnterOuter(r)
           \/ EnterEngine(r) \/ EnterSlot(r) \/ LeaveEngine(r) \/ Abandon(r) \/ Submit(r)
           \/ Answered(r) \/ Release(r)
    PROVE  CpuInv'
<1>0. /\ CPU' = CPU
      /\ pc \in [Requests -> RequestPCs] /\ pc[r] \in (IF CPU THEN OnCPU ELSE OnGPU)
  BY DEF Places, CPU, SlotCount
<1>1. CASE ~CPU
  <2>1. CASE LeaveEngine(r)
    <3>1. UNCHANGED cpuVars
      BY <1>1, <2>1 DEF LeaveEngine, cpuVars
    <3> QED
      BY <1>1, <3>1, GpuKeepsCpu
  <2>2. CASE ~LeaveEngine(r)
    <3>1. UNCHANGED cpuVars
      BY <1>1, <2>2 DEF Begin, SlotLook, SlotCompare, SlotClaim, EnterOuter, EnterEngine, EnterSlot,
                        Abandon, Submit, Answered, Release
    <3> QED
      BY <1>1, <3>1, GpuKeepsCpu
  <2> QED
    BY <2>1, <2>2
<1>2. CASE CPU
  <2>0. CpuTypes /\ Mutexes /\ HandOver
    BY <1>2 DEF CpuInv
  <2>1. \/ Begin(r) \/ EnterOuter(r) \/ EnterEngine(r) \/ LeaveEngine(r) \/ Abandon(r)
        \/ Release(r)
    <3>1. ~SlotLook(r) /\ ~SlotCompare(r) /\ ~SlotClaim(r) /\ ~Answered(r)
      BY <1>0, <1>2 DEF SlotLook, SlotCompare, SlotClaim, Answered, OnCPU, UnderMedia, InPool,
                        InYield
    <3>2. ~EnterSlot(r) /\ ~Submit(r)
      BY <1>2, LayoutFacts DEF EnterSlot, Submit, Submits
    <3> QED
      BY <3>1, <3>2
  <2>2. wpc' = wpc /\ UNCHANGED <<handoff, textWaiters, moved, taken>>
    BY <2>1 DEF Begin, EnterOuter, EnterEngine, LeaveEngine, Abandon, Release, cpuVars
  <2>3. /\ Counted' = Counted /\ SomeWaveWants' = SomeWaveWants /\ NoWaveRuns' = NoWaveRuns
    BY <2>2 DEF Counted, SomeWaveWants, NoWaveRuns
  \* Nothing but the place of r has changed, and it yields neither before nor after.
  <2>4. ASSUME NEW l, pc' = [pc EXCEPT ![r] = l],
               l \notin InYield \cup {"yieldBegin", "yieldUnlock"}
        PROVE  HandOver'
    <3>1. \A v \in Requests : pc'[v] = IF v = r THEN l ELSE pc[v]
      BY <1>0, <2>4
    <3>2. l \notin InYield /\ l # "yieldBegin" /\ l # "yieldUnlock" /\ l # "yieldLock"
      BY <2>4 DEF InYield
    <3> QED
      BY <2>0, <2>2, <2>3, <3>1, <3>2 DEF HandOver
  <2>5. CASE Begin(r) \/ Abandon(r) \/ Release(r)
    <3>1. PICK l \in {"next", "done", "idle"} : pc' = [pc EXCEPT ![r] = l]
      BY <1>2, <2>5 DEF Begin, Abandon, Release, Goto
    <3>2. UNCHANGED <<inference, mediaLock>> /\ pc[r] \in {"idle", "next", "done"}
      BY <2>5 DEF Begin, Abandon, Release, cpuVars
    <3>3. HandOver'
      BY <2>4, <3>1 DEF InYield
    <3>4. \A v \in Requests : pc'[v] = IF v = r THEN l ELSE pc[v]
      BY <1>0, <3>1
    <3>5. Mutexes'
      BY <2>0, <2>2, <3>1, <3>2, <3>4 DEF Mutexes, UnderMedia, InPool, InYield
    <3> QED
      BY <2>0, <2>2, <3>2, <3>3, <3>5 DEF CpuInv, CpuTypes
  <2>6. CASE EnterOuter(r)
    <3>1. /\ pc[r] = "next" /\ mediaLock = Free /\ mediaLock' = r /\ inference' = inference
          /\ pc' = [pc EXCEPT ![r] = "enter"]
      BY <2>6 DEF EnterOuter, Goto
    <3>2. HandOver'
      BY <2>4, <3>1 DEF InYield
    <3>3. \A v \in Requests : pc'[v] = IF v = r THEN "enter" ELSE pc[v]
      BY <1>0, <3>1
    <3>4. \A v \in Requests : pc[v] \notin UnderMedia
      BY <2>0, <3>1, OwnersDiffer DEF Mutexes
    <3>5. Mutexes'
      <4>1. "enter" \in UnderMedia /\ "enter" \notin InPool
        BY DEF UnderMedia, InPool
      <4>2. "next" \notin InPool
        BY DEF InPool
      <4> QED
        BY <2>0, <2>2, <3>1, <3>3, <3>4, <4>1, <4>2 DEF Mutexes
    <3> QED
      BY <2>0, <2>2, <3>1, <3>2, <3>5 DEF CpuInv, CpuTypes
  <2>7. CASE EnterEngine(r)
    <3>1. /\ pc[r] = "enter" /\ inference = Free /\ inference' = r /\ mediaLock' = mediaLock
          /\ pc' = [pc EXCEPT ![r] = Inside(r)]
      BY <2>7 DEF EnterEngine, Goto
    <3>2. PICK l \in {"finish", "tower"} : l = Inside(r)
      BY DEF Inside
    <3>3. HandOver'
      BY <2>4, <3>1, <3>2 DEF InYield
    <3>4. \A v \in Requests : pc'[v] = IF v = r THEN l ELSE pc[v]
      BY <1>0, <3>1, <3>2
    <3>5. \A v \in Requests : pc[v] \notin InPool
      BY <2>0, <3>1, OwnersDiffer DEF Mutexes
    <3>6. \A w \in Waves : wpc[w] \notin {"count", "note", "run"} /\ w # r
      BY <2>0, <3>1, OwnersDiffer DEF Mutexes
    <3>7. Mutexes'
      <4>1. "enter" \in UnderMedia /\ l \in InPool /\ l \in UnderMedia
        BY DEF UnderMedia, InPool
      <4> QED
        BY <2>0, <2>2, <3>1, <3>4, <3>5, <3>6, <4>1 DEF Mutexes
    <3> QED
      BY <2>0, <2>2, <3>1, <3>3, <3>7 DEF CpuInv, CpuTypes
  <2>8. CASE LeaveEngine(r)
    <3>1. /\ pc[r] \in {"tower", "finish"} /\ inference' = Free /\ mediaLock' = Free
          /\ \E l \in {"next", "done"} : pc' = [pc EXCEPT ![r] = l]
      BY <1>2, <2>8 DEF LeaveEngine, Goto
    <3>2. PICK l \in {"next", "done"} : pc' = [pc EXCEPT ![r] = l]
      BY <3>1
    <3>3. HandOver'
      BY <2>4, <3>2 DEF InYield
    <3>4. \A v \in Requests : pc'[v] = IF v = r THEN l ELSE pc[v]
      BY <1>0, <3>2
    <3>5. inference = r /\ mediaLock = r
      BY <2>0, <3>1 DEF Mutexes, InPool, UnderMedia
    <3>6. \A v \in Requests : v # r => pc[v] \notin InPool /\ pc[v] \notin UnderMedia
      BY <2>0, <3>5 DEF Mutexes
    <3>7. \A w \in Waves : wpc[w] \notin {"count", "note", "run"}
      BY <2>0, <3>5, OwnersDiffer DEF Mutexes
    <3>8. l \notin InPool /\ l \notin UnderMedia
      BY DEF UnderMedia, InPool, InYield
    <3>9. Mutexes'
      BY <2>0, <2>2, <3>1, <3>4, <3>6, <3>7, <3>8, OwnersDiffer DEF Mutexes
    <3> QED
      BY <2>0, <2>2, <3>1, <3>3, <3>9 DEF CpuInv, CpuTypes
  <2> QED
    BY <2>1, <2>5, <2>6, <2>7, <2>8
<1> QED
  BY <1>1, <1>2

\* A layer of a tower, and the steps of cpu_tower_yield.
LEMMA CpuTower ==
    ASSUME Places, CpuInv, NEW r \in Requests, Layer(r) \/ Yield(r)
    PROVE  CpuInv'
<1>0. /\ CPU' = CPU /\ wpc' = wpc
      /\ pc \in [Requests -> RequestPCs] /\ pc[r] \in (IF CPU THEN OnCPU ELSE OnGPU)
  BY DEF Places, CPU, SlotCount, Layer, TowerLayer, Yield, Yielding, YieldBegin, YieldUnlock,
         YieldTest, YieldWake, YieldRelock, YieldSpurious, YieldTimeout, cpuVars
<1>1. CPU
  <2>1. CASE Layer(r)
    BY <2>1 DEF Layer, TowerLayer
  <2>2. CASE Yield(r)
    BY <1>0, <2>2 DEF Yield, Yielding, YieldBegin, YieldUnlock, YieldTest, YieldWake, YieldRelock,
                      YieldSpurious, YieldTimeout, OnGPU
  <2> QED
    BY <2>1, <2>2
<1>2. CpuTypes /\ Mutexes /\ HandOver
  BY <1>1 DEF CpuInv
<1>3. /\ Counted' = Counted /\ SomeWaveWants' = SomeWaveWants /\ NoWaveRuns' = NoWaveRuns
  BY <1>0 DEF Counted, SomeWaveWants, NoWaveRuns
<1>4. /\ pc[r] \in UnderMedia => \A v \in Requests : v # r => pc[v] \notin UnderMedia
      /\ pc[r] \in InPool => inference = r
      /\ pc[r] \in {"yieldUnlock", "yieldTest"} => handoff = r
  BY <1>2 DEF Mutexes
<1>5. \A v \in Requests : pc[v] \notin UnderMedia => /\ pc[v] \notin InPool
                                                     /\ pc[v] \notin InYield
                                                     /\ pc[v] # "yieldBegin"
                                                     /\ pc[v] # "yieldUnlock"
                                                     /\ pc[v] # "yieldTest"
                                                     /\ pc[v] # "yieldLock"
  BY DEF UnderMedia, InPool, InYield
<1>6. inference = r => \A w \in Waves : wpc[w] \notin {"count", "note", "run"}
  BY <1>2, OwnersDiffer DEF Mutexes
<1>7. /\ textWaiters = CountIn(Waves, Counted, 1)
      /\ pc[r] \in {"yieldBegin", "yieldUnlock"} => SomeWaveWants
      /\ pc[r] = "yieldUnlock" => ~moved
      /\ pc[r] \in InYield => taken \/ (~moved /\ SomeWaveWants /\ NoWaveRuns)
      /\ pc[r] = "yieldLock" => taken
  BY <1>2 DEF HandOver
\* r stays under cpu_media_mutex, where nobody else is.
<1> DEFINE Owned(l) ==
              /\ inference' = r <=> l \in InPool
              /\ \A w \in Waves : inference' = w <=> inference = w
              /\ handoff' = r <=> l \in {"yieldUnlock", "yieldTest"}
              /\ \A v \in Requests : v # r => inference' # v /\ handoff' # v
           Handed(l) ==
              /\ l \in {"yieldBegin", "yieldUnlock"} => SomeWaveWants
              /\ l = "yieldUnlock" => ~moved'
              /\ l \in InYield => taken' \/ (~moved' /\ SomeWaveWants /\ NoWaveRuns)
              /\ l = "yieldLock" => taken'
<1>8. ASSUME NEW l, pc[r] \in UnderMedia, l \in UnderMedia, Goto(r, l),
             mediaLock' = mediaLock, textWaiters' = textWaiters, CpuTypes', Owned(l), Handed(l)
      PROVE  CpuInv'
  <2>1. \A v \in Requests : pc'[v] = IF v = r THEN l ELSE pc[v]
    BY <1>0, <1>8 DEF Goto
  <2>2. \A v \in Requests : v # r => pc[v] \notin UnderMedia
    BY <1>4, <1>8
  <2>3. Mutexes'
    BY <1>0, <1>2, <1>5, <1>8, <2>1, <2>2 DEF Mutexes
  <2>4. HandOver'
    BY <1>3, <1>5, <1>7, <1>8, <2>1, <2>2 DEF HandOver
  <2> QED
    BY <1>0, <1>1, <1>8, <2>3, <2>4 DEF CpuInv
<1> HIDE DEF Owned, Handed
<1> DEFINE Names == /\ InPool = {"tower", "finish", "yieldBegin", "yieldUnlock"}
                    /\ InYield = {"yieldTest", "yieldWait", "yieldWoken", "yieldLock", "yieldLate"}
                    /\ UnderMedia = {"enter"} \cup InPool \cup InYield
<1>9. Names
  BY DEF InPool, InYield, UnderMedia
<1>10. /\ inference \in Requests \cup Waves \cup {Free}
       /\ mediaLock \in Requests \cup {Free} /\ handoff \in Requests \cup {Free}
       /\ textWaiters \in Nat /\ moved \in BOOLEAN /\ taken \in BOOLEAN
       /\ Free \notin Requests \cup Waves /\ Requests \cap Waves = {}
  BY <1>2, MediaAssumption DEF CpuTypes
<1>11. CASE Layer(r)
  <2>1. /\ pc[r] = "tower" /\ UNCHANGED cpuVars
        /\ pc' = [pc EXCEPT ![r] = IF textWaiters = 0 THEN "tower" ELSE "yieldBegin"]
    BY <1>11 DEF Layer, TowerLayer, Goto
  <2>2. inference = r /\ handoff # r
    BY <1>2, <1>9, <2>1 DEF Mutexes
  <2>3. textWaiters # 0 => SomeWaveWants
    BY <1>2, <1>6, <2>2, WaitersSeen DEF SomeWaveWants
  <2>4. CpuTypes'
    BY <1>2, <2>1 DEF CpuTypes, cpuVars
  <2>5. PICK l : l = IF textWaiters = 0 THEN "tower" ELSE "yieldBegin"
    OBVIOUS
  <2>6. UNCHANGED <<inference, mediaLock, handoff, textWaiters, moved, taken>>
    BY <2>1 DEF cpuVars
  <2>7. \A v \in Requests : v # r => handoff # v
    BY <1>2, <1>4, <1>5, <1>9, <2>1 DEF Mutexes
  <2>10. l \in UnderMedia /\ pc[r] \in UnderMedia
    BY <1>9, <2>1, <2>2, <2>3, <2>4, <2>5, <2>6, <2>7
  <2>11. Goto(r, l) /\ mediaLock' = mediaLock /\ textWaiters' = textWaiters
    BY <1>9, <2>1, <2>2, <2>3, <2>4, <2>5, <2>6, <2>7 DEF Goto
  <2>12. Owned(l)
    BY <1>9, <2>1, <2>2, <2>3, <2>4, <2>5, <2>6, <2>7, <2>10 DEF Owned
  <2>13. Handed(l)
    BY <1>9, <2>1, <2>2, <2>3, <2>4, <2>5, <2>6, <2>7 DEF Handed
  <2> QED
    BY <1>8, <2>4, <2>10, <2>11, <2>12, <2>13
<1>12. ASSUME pc[r] \in UnderMedia
       PROVE  \A v \in Requests : v # r => handoff # v /\ inference # v
  BY <1>2, <1>4, <1>5, <1>12 DEF Mutexes
<1>13. CASE YieldBegin(r)
  <2>1. /\ pc[r] = "yieldBegin" /\ handoff' = r /\ moved' = FALSE
        /\ pc' = [pc EXCEPT ![r] = "yieldUnlock"]
        /\ UNCHANGED <<inference, mediaLock, textWaiters, taken>>
    BY <1>13 DEF YieldBegin, Goto
  <2>2. CpuTypes'
    BY <1>10, <2>1 DEF CpuTypes
  <2>10. "yieldUnlock" \in UnderMedia /\ pc[r] \in UnderMedia
    BY <1>4, <1>7, <1>9, <1>12, <2>1, <2>2
  <2>11. Goto(r, "yieldUnlock") /\ mediaLock' = mediaLock /\ textWaiters' = textWaiters
    BY <1>4, <1>7, <1>9, <1>12, <2>1, <2>2 DEF Goto
  <2>12. Owned("yieldUnlock")
    BY <1>4, <1>7, <1>9, <1>12, <2>1, <2>2, <2>10 DEF Owned
  <2>13. Handed("yieldUnlock")
    BY <1>4, <1>7, <1>9, <1>12, <2>1, <2>2 DEF Handed
  <2> QED
    BY <1>8, <2>2, <2>10, <2>11, <2>12, <2>13
<1>14. CASE YieldUnlock(r)
  <2>1. /\ pc[r] = "yieldUnlock" /\ inference' = Free /\ taken' = FALSE
        /\ pc' = [pc EXCEPT ![r] = "yieldTest"]
        /\ UNCHANGED <<mediaLock, handoff, textWaiters, moved>>
    BY <1>14 DEF YieldUnlock, Goto
  <2>2. CpuTypes'
    BY <1>10, <2>1 DEF CpuTypes
  <2>3. inference = r
    BY <1>4, <1>9, <2>1
  <2>4. NoWaveRuns /\ SomeWaveWants /\ ~moved
    <3>1. \A w \in Waves : wpc[w] \in WavePCs
      BY DEF Places
    <3>2. NoWaveRuns
      BY <1>6, <2>3, <3>1 DEF NoWaveRuns, WavePCs
    <3> QED
      BY <1>7, <2>1, <3>2
  <2>5. \A w \in Waves : inference' # w /\ inference # w
    BY <1>10, <2>1, <2>3
  <2>6. \A v \in Requests : inference' # v
    BY <1>10, <2>1
  <2>10. "yieldTest" \in UnderMedia /\ pc[r] \in UnderMedia
    BY <1>4, <1>9, <1>12, <2>1, <2>2, <2>4, <2>5, <2>6
  <2>11. Goto(r, "yieldTest") /\ mediaLock' = mediaLock /\ textWaiters' = textWaiters
    BY <1>4, <1>9, <1>12, <2>1, <2>2, <2>4, <2>5, <2>6 DEF Goto
  <2>12. Owned("yieldTest")
    BY <1>4, <1>9, <1>12, <2>1, <2>2, <2>4, <2>5, <2>6, <2>10 DEF Owned
  <2>13. Handed("yieldTest")
    BY <1>4, <1>9, <1>12, <2>1, <2>2, <2>4, <2>5, <2>6 DEF Handed
  <2> QED
    BY <1>8, <2>2, <2>10, <2>11, <2>12, <2>13
<1>15. CASE YieldTest(r)
  <2>1. PICK l : l = IF ~moved /\ textWaiters # 0 THEN "yieldWait" ELSE "yieldLock"
    OBVIOUS
  <2>2. /\ pc[r] = "yieldTest" /\ handoff' = Free
        /\ pc' = [pc EXCEPT ![r] = l]
        /\ UNCHANGED <<inference, mediaLock, textWaiters, moved, taken>>
    BY <1>15, <2>1 DEF YieldTest, Goto
  <2>3. CpuTypes'
    BY <1>10, <2>2 DEF CpuTypes
  <2>4. \A v \in Requests : handoff' # v
    BY <1>10, <2>2
  <2>5. inference # r
    BY <1>2, <1>9, <2>2 DEF Mutexes
  <2>6. SomeWaveWants => textWaiters # 0
    BY <1>2, WaitersSeen DEF SomeWaveWants
  <2>7. taken \/ (~moved /\ SomeWaveWants /\ NoWaveRuns)
    BY <1>7, <1>9, <2>2
  <2>8. l = "yieldLock" => taken
    BY <2>1, <2>6, <2>7
  <2>9. l \in {"yieldWait", "yieldLock"}
    BY <2>1
  <2>10. l \in UnderMedia /\ pc[r] \in UnderMedia
    BY <1>9, <1>12, <2>2, <2>3, <2>4, <2>5, <2>7, <2>8, <2>9
  <2>11. Goto(r, l) /\ mediaLock' = mediaLock /\ textWaiters' = textWaiters
    BY <1>9, <1>12, <2>2, <2>3, <2>4, <2>5, <2>7, <2>8, <2>9 DEF Goto
  <2>12. Owned(l)
    BY <1>9, <1>12, <2>2, <2>3, <2>4, <2>5, <2>7, <2>8, <2>9, <2>10 DEF Owned
  <2>13. Handed(l)
    BY <1>9, <1>12, <2>2, <2>3, <2>4, <2>5, <2>7, <2>8, <2>9 DEF Handed
  <2> QED
    BY <1>8, <2>3, <2>10, <2>11, <2>12, <2>13
<1>16. CASE YieldWake(r) \/ YieldSpurious(r)
  <2>1. /\ pc[r] \in {"yieldWait", "yieldWoken"} /\ handoff' = r
        /\ pc' = [pc EXCEPT ![r] = "yieldTest"]
        /\ UNCHANGED <<inference, mediaLock, textWaiters, moved, taken>>
    BY <1>16 DEF YieldWake, YieldSpurious, Goto
  <2>2. CpuTypes'
    BY <1>10, <2>1 DEF CpuTypes
  <2>3. inference # r
    BY <1>2, <1>9, <2>1 DEF Mutexes
  <2>4. taken \/ (~moved /\ SomeWaveWants /\ NoWaveRuns)
    BY <1>7, <1>9, <2>1
  <2>10. "yieldTest" \in UnderMedia /\ pc[r] \in UnderMedia
    BY <1>9, <1>12, <2>1, <2>2, <2>3, <2>4
  <2>11. Goto(r, "yieldTest") /\ mediaLock' = mediaLock /\ textWaiters' = textWaiters
    BY <1>9, <1>12, <2>1, <2>2, <2>3, <2>4 DEF Goto
  <2>12. Owned("yieldTest")
    BY <1>9, <1>12, <2>1, <2>2, <2>3, <2>4, <2>10 DEF Owned
  <2>13. Handed("yieldTest")
    BY <1>9, <1>12, <2>1, <2>2, <2>3, <2>4 DEF Handed
  <2> QED
    BY <1>8, <2>2, <2>10, <2>11, <2>12, <2>13
<1>17. CASE YieldTimeout(r)
  <2>1. /\ pc[r] \in {"yieldWait", "yieldWoken"}
        /\ pc' = [pc EXCEPT ![r] = "yieldLate"]
        /\ UNCHANGED <<inference, mediaLock, handoff, textWaiters, moved, taken>>
    BY <1>17 DEF YieldTimeout, Goto, cpuVars
  <2>2. CpuTypes'
    BY <1>10, <2>1 DEF CpuTypes
  <2>3. inference # r /\ handoff # r
    BY <1>2, <1>9, <2>1 DEF Mutexes
  <2>4. taken \/ (~moved /\ SomeWaveWants /\ NoWaveRuns)
    BY <1>7, <1>9, <2>1
  <2>10. "yieldLate" \in UnderMedia /\ pc[r] \in UnderMedia
    BY <1>9, <1>12, <2>1, <2>2, <2>3, <2>4
  <2>11. Goto(r, "yieldLate") /\ mediaLock' = mediaLock /\ textWaiters' = textWaiters
    BY <1>9, <1>12, <2>1, <2>2, <2>3, <2>4 DEF Goto
  <2>12. Owned("yieldLate")
    BY <1>9, <1>12, <2>1, <2>2, <2>3, <2>4, <2>10 DEF Owned
  <2>13. Handed("yieldLate")
    BY <1>9, <1>12, <2>1, <2>2, <2>3, <2>4 DEF Handed
  <2> QED
    BY <1>8, <2>2, <2>10, <2>11, <2>12, <2>13
<1>18. CASE YieldRelock(r)
  <2>1. /\ pc[r] \in {"yieldLock", "yieldLate"} /\ inference = Free /\ inference' = r
        /\ pc' = [pc EXCEPT ![r] = "tower"]
        /\ UNCHANGED <<mediaLock, handoff, textWaiters, moved, taken>>
    BY <1>18 DEF YieldRelock, Goto
  <2>2. CpuTypes'
    BY <1>10, <2>1 DEF CpuTypes
  <2>3. handoff # r
    BY <1>2, <1>9, <2>1 DEF Mutexes
  <2>4. \A w \in Waves : inference' # w /\ inference # w
    BY <1>10, <2>1
  <2>10. "tower" \in UnderMedia /\ pc[r] \in UnderMedia
    BY <1>9, <1>12, <2>1, <2>2, <2>3, <2>4
  <2>11. Goto(r, "tower") /\ mediaLock' = mediaLock /\ textWaiters' = textWaiters
    BY <1>9, <1>12, <2>1, <2>2, <2>3, <2>4 DEF Goto
  <2>12. Owned("tower")
    BY <1>9, <1>12, <2>1, <2>2, <2>3, <2>4, <2>10 DEF Owned
  <2>13. Handed("tower")
    BY <1>9, <1>12, <2>1, <2>2, <2>3, <2>4 DEF Handed
  <2> QED
    BY <1>8, <2>2, <2>10, <2>11, <2>12, <2>13
<1> HIDE DEF Names
<1> QED
  BY <1>11, <1>13, <1>14, <1>15, <1>16, <1>17, <1>18 DEF Yield, Yielding

\* No step breaks the two mutexes or the handoff.
LEMMA CpuInvStep == Places /\ CpuInv /\ [Next]_vars => CpuInv'
<1> SUFFICES ASSUME Places, CpuInv, [Next]_vars PROVE CpuInv'
  OBVIOUS
<1>1. CASE UNCHANGED vars
  <2>1. layout' = layout /\ pc' = pc /\ UNCHANGED cpuVars
    BY <1>1 DEF vars
  <2> QED
    BY <2>1 DEF CpuInv, CpuTypes, Mutexes, HandOver, Counted, SomeWaveWants, NoWaveRuns, cpuVars,
                CPU, SlotCount
<1>2. ASSUME NEW b \in Batchers, Batcher(b)
      PROVE  CpuInv'
  <2>1. ~CPU
    BY <1>2, LayoutFacts DEF Batcher
  <2> QED
    BY <1>2, <2>1, GpuKeepsCpu DEF Batcher
<1> QED
  BY <1>1, <1>2, StepKinds, CpuWave, CpuRequest, CpuTower

-----------------------------------------------------------------------------
(* The slots *)

\* The CPU backend has none.
LEMMA CpuKeepsSlots ==
    ASSUME Places, SlotInv, CPU, layout' = layout, UNCHANGED <<slotVars, slot>>,
           start' \in [Requests -> Nat], at' \in [Requests -> Nat], seen' \in [Requests -> Nat]
    PROVE  SlotInv'
BY DEF SlotInv, SlotTypes, CPU, SlotCount, Slots, slotVars

\* A request that moves within its slot, or within its search for one.
LEMMA QuietSlots ==
    ASSUME SlotInv, ~CPU, layout' = layout, UNCHANGED <<slotVars, slot>>,
           start' \in [Requests -> Nat], at' \in [Requests -> Nat], seen' \in [Requests -> Nat],
           \A v \in Requests : /\ pc'[v] = "idle" <=> pc[v] = "idle"
                               /\ pc'[v] \in {"look", "compare"} <=> pc[v] \in {"look", "compare"}
                               /\ pc'[v] \in {"tower", "finish"} <=> pc[v] \in {"tower", "finish"}
    PROVE  SlotInv'
<1>1. /\ CPU' = CPU /\ Slots' = Slots /\ busy' = busy /\ slotLock' = slotLock
      /\ nextSlot' = nextSlot /\ slot' = slot
  BY DEF CPU, SlotCount, Slots, slotVars
<1>2. AssignedTo' = AssignedTo
  BY <1>1 DEF AssignedTo
<1>3. SlotTypes'
  BY <1>1 DEF SlotInv, SlotTypes
<1>4. SlotsHeld'
  BY <1>1 DEF SlotInv, SlotsHeld
<1>5. SlotsCounted'
  BY <1>1, <1>2 DEF SlotInv, SlotsCounted
<1> QED
  BY <1>3, <1>4, <1>5 DEF SlotInv

\* The slots of a GPU backend.
LEMMA SlotFacts ==
    ASSUME Places, SlotInv, ~CPU
    PROVE  /\ SlotCount \in Nat \ {0} /\ Slots = 0 .. SlotCount - 1 /\ 0 \in Slots
           /\ \A n \in Nat : n % SlotCount \in Slots
           /\ NULL \notin Slots /\ NULL \notin Requests /\ Free \notin Requests
           /\ SlotTypes /\ SlotsHeld /\ SlotsCounted
<1>1. SlotCount \in Nat \ {0} /\ Slots = 0 .. SlotCount - 1
  BY LayoutFacts DEF Slots
<1>2. \A n \in Nat : n % SlotCount \in Slots
  BY <1>1
<1>3. 0 \in Slots
  BY <1>1
<1>4. NULL \notin Slots
  BY <1>1, MediaAssumption
<1>5. SlotTypes /\ SlotsHeld /\ SlotsCounted
  BY DEF SlotInv
<1> QED
  BY <1>1, <1>2, <1>3, <1>4, <1>5, MediaAssumption

\* A request has a slot as long as it is not idle.
LEMMA SlotOrIdle ==
    ASSUME Places, SlotInv, ~CPU
    PROVE  /\ \A r \in Requests : slot[r] = NULL <=> pc[r] = "idle"
           /\ \A r \in Requests : pc[r] # "idle" => slot[r] \in Slots
<1>1. SlotTypes /\ SlotsHeld
  BY DEF SlotInv
<1>2. \A r \in Requests : slot[r] \in Slots \cup {NULL}
  BY <1>1 DEF SlotTypes
<1>3. \A r \in Requests : slot[r] = NULL <=> pc[r] = "idle"
  BY <1>1 DEF SlotsHeld
<1> QED
  BY <1>2, <1>3

\* A request is assigned to a slot, or gives it back.
LEMMA AssignedCount ==
    ASSUME Places, NEW r \in Requests, NEW s,
           \A v \in Requests : v # r => pc'[v] = pc[v] /\ slot'[v] = slot[v]
    PROVE  /\ CountIn(Requests, AssignedTo, s) \in Nat
           /\ CountIn(Requests, AssignedTo', s) \in Nat
           /\ CountIn(Requests, AssignedTo', s) + Is(AssignedTo[r], s)
                 = CountIn(Requests, AssignedTo, s) + Is(AssignedTo'[r], s)
<1>1. PICK f : f = AssignedTo
  OBVIOUS
<1>2. PICK g : g = AssignedTo'
  OBVIOUS
<1>3. ChangesAt(Requests, f, g, r)
  BY <1>1, <1>2 DEF AssignedTo, ChangesAt
<1>4. IsFiniteSet(Requests)
  BY MediaAssumption
<1>5. CountIn(Requests, f, s) \in Nat /\ CountIn(Requests, g, s) \in Nat
  BY <1>4, CountNat
<1>6. CountIn(Requests, g, s) + Is(f[r], s) = CountIn(Requests, f, s) + Is(g[r], s)
  BY <1>3, <1>4, CountMoves
<1> QED
  BY <1>1, <1>2, <1>5, <1>6

\* media_slot_acquire: the search.
LEMMA SlotSearch ==
    ASSUME Places, SlotInv, NEW r \in Requests, layout' = layout, ~CPU,
           Begin(r) \/ SlotLook(r) \/ SlotCompare(r)
    PROVE  SlotInv'
<1>1. /\ SlotCount \in Nat \ {0} /\ Slots = 0 .. SlotCount - 1
      /\ \A n \in Nat : n % SlotCount \in Slots
      /\ NULL \notin Slots
      /\ CPU' = CPU /\ Slots' = Slots
  BY SlotFacts DEF CPU, SlotCount, Slots
<1>2. /\ busy \in [Slots -> Nat] /\ slotLock \in [Slots -> Requests \cup {Free}]
      /\ nextSlot \in Slots /\ slot \in [Requests -> Slots \cup {NULL}]
      /\ start \in [Requests -> Nat] /\ at \in [Requests -> Nat] /\ seen \in [Requests -> Nat]
      /\ pc \in [Requests -> RequestPCs]
  BY SlotFacts DEF SlotTypes, SlotsHeld, Places
<1>3. nextSlot \in Nat /\ nextSlot + 1 \in Nat /\ start[r] + at[r] \in Nat /\ at[r] + 1 \in Nat
  <2>1. start[r] \in Nat /\ at[r] \in Nat
    BY <1>2
  <2>2. nextSlot \in Nat
    BY <1>1, <1>2
  <2> QED
    BY <2>1, <2>2
<1>4. Candidate(r) \in Slots
  BY <1>1, <1>3 DEF Candidate
<1>5. PICK l : pc' = [pc EXCEPT ![r] = l] /\ l \in {"look", "compare"}
  BY DEF Begin, SlotLook, SlotCompare, Goto
<1>6. \A v \in Requests : pc'[v] = IF v = r THEN l ELSE pc[v]
  BY <1>2, <1>5
<1>7. busy' = busy /\ slotLock' = slotLock
  BY DEF Begin, SlotLook, SlotCompare, slotVars
<1>8. pc[r] \in {"idle", "look", "compare"}
  BY DEF Begin, SlotLook, SlotCompare
<1>9. /\ nextSlot' \in Slots /\ nextSlot' \in Nat
      /\ start' \in [Requests -> Nat] /\ at' \in [Requests -> Nat] /\ seen' \in [Requests -> Nat]
      /\ slot' \in [Requests -> Slots \cup {NULL}] /\ slot'[r] \in Slots
      /\ \A v \in Requests : v # r => slot'[v] = slot[v]
  <2>1. CASE Begin(r)
    <3>1. /\ nextSlot' = (nextSlot + 1) % SlotCount /\ start' = [start EXCEPT ![r] = nextSlot]
          /\ slot' = [slot EXCEPT ![r] = nextSlot] /\ at' = [at EXCEPT ![r] = 1] /\ seen' = seen
      BY <2>1 DEF Begin
    <3>2. nextSlot' \in Slots
      BY <1>1, <1>3, <3>1
    <3>3. nextSlot' \in Nat
      BY <1>1, <3>2
    <3>4. start' \in [Requests -> Nat] /\ at' \in [Requests -> Nat]
      BY <1>2, <1>3, <3>1
    <3> QED
      BY <1>2, <3>1, <3>2, <3>3, <3>4
  <2>2. CASE SlotLook(r)
    <3>1. /\ seen' = [seen EXCEPT ![r] = busy[Candidate(r)]]
          /\ nextSlot' = nextSlot /\ start' = start /\ slot' = slot /\ at' = at /\ pc[r] = "look"
      BY <2>2 DEF SlotLook, slotVars
    <3>2. slot[r] \in Slots
      BY <3>1, SlotOrIdle
    <3>3. busy[Candidate(r)] \in Nat
      BY <1>2, <1>4
    <3> QED
      BY <1>2, <1>3, <3>1, <3>2, <3>3
  <2>3. CASE SlotCompare(r)
    <3>1. PICK s : s = IF seen[r] < busy[slot[r]] THEN Candidate(r) ELSE slot[r]
      OBVIOUS
    <3>2. /\ seen' = seen /\ nextSlot' = nextSlot /\ start' = start /\ pc[r] = "compare"
          /\ at' = [at EXCEPT ![r] = at[r] + 1]
          /\ slot' = IF seen[r] < busy[slot[r]] THEN [slot EXCEPT ![r] = Candidate(r)] ELSE slot
      BY <2>3 DEF SlotCompare, slotVars
    <3>3. slot[r] \in Slots
      BY <3>2, SlotOrIdle
    <3>4. slot' = [slot EXCEPT ![r] = s]
      BY <1>2, <3>1, <3>2
    <3>5. s \in Slots
      BY <1>4, <3>1, <3>3
    <3>6. at' \in [Requests -> Nat]
      BY <1>2, <1>3, <3>2
    <3> QED
      BY <1>2, <1>3, <3>2, <3>4, <3>5, <3>6
  <2> QED
    BY <2>1, <2>2, <2>3
<1>10. SlotTypes'
  BY <1>1, <1>2, <1>7, <1>9 DEF SlotTypes
<1>11. SlotsHeld'
  <2>1. \A v \in Requests : slot'[v] = NULL <=> pc'[v] = "idle"
    BY <1>1, <1>5, <1>6, <1>9, SlotOrIdle
  <2>2. ASSUME NEW s \in Slots, NEW v \in Requests
        PROVE  slotLock[s] = v <=> slot'[v] = s /\ pc'[v] \in {"tower", "finish"}
    <3>1. slotLock[s] = v <=> slot[v] = s /\ pc[v] \in {"tower", "finish"}
      BY SlotFacts DEF SlotsHeld
    <3> QED
      BY <1>5, <1>6, <1>8, <1>9, <3>1
  <2> QED
    BY <1>1, <1>7, <1>9, <2>1, <2>2 DEF SlotsHeld
<1>12. SlotsCounted'
  <2>1. pc[r] = "idle" => slot[r] = NULL
    BY SlotOrIdle
  <2>2. AssignedTo' = AssignedTo
    BY <1>5, <1>6, <1>8, <1>9, <2>1 DEF AssignedTo
  <2> QED
    BY <1>1, <1>7, <2>2, SlotFacts DEF SlotsCounted
<1> QED
  BY <1>10, <1>11, <1>12 DEF SlotInv

\* The end of media_slot_acquire, and media_slot_release.
LEMMA SlotTurns ==
    ASSUME Places, SlotInv, NEW r \in Requests, layout' = layout, ~CPU,
           SlotClaim(r) \/ Release(r)
    PROVE  SlotInv'
<1>1. NULL \notin Slots /\ CPU' = CPU /\ Slots' = Slots
  BY SlotFacts DEF CPU, SlotCount, Slots
<1>2. /\ busy \in [Slots -> Nat] /\ slotLock \in [Slots -> Requests \cup {Free}]
      /\ nextSlot \in Slots /\ nextSlot \in Nat /\ slot \in [Requests -> Slots \cup {NULL}]
      /\ start \in [Requests -> Nat] /\ at \in [Requests -> Nat] /\ seen \in [Requests -> Nat]
      /\ pc \in [Requests -> RequestPCs]
  BY SlotFacts DEF SlotTypes, SlotsHeld, Places
<1>3. nextSlot' = nextSlot /\ slotLock' = slotLock
  BY DEF SlotClaim, Release
<1>4. /\ start' \in [Requests -> Nat] /\ at' \in [Requests -> Nat] /\ seen' \in [Requests -> Nat]
  <2>1. CASE SlotClaim(r)
    BY <1>2, <2>1 DEF SlotClaim
  <2>2. CASE Release(r)
    BY <1>2, <2>2 DEF Release
  <2> QED
    BY <2>1, <2>2
<1>5. PICK s \in Slots : s = slot[r]
  <2>1. pc[r] # "idle"
    BY DEF SlotClaim, Release
  <2> QED
    BY <2>1, SlotOrIdle
<1>6. CASE SlotClaim(r)
  <2>1. /\ pc[r] = "look" /\ busy' = [busy EXCEPT ![s] = busy[s] + 1] /\ slot' = slot
        /\ pc' = [pc EXCEPT ![r] = "next"]
    BY <1>5, <1>6 DEF SlotClaim, Goto
  <2>2. \A v \in Requests : pc'[v] = IF v = r THEN "next" ELSE pc[v]
    BY <1>2, <2>1
  <2>3. busy[s] \in Nat /\ busy[s] + 1 \in Nat
    BY <1>2
  <2>4. SlotTypes'
    BY <1>1, <1>2, <1>3, <1>4, <2>1, <2>3 DEF SlotTypes
  <2>5. SlotsHeld'
    <3>1. \A v \in Requests : slot'[v] = NULL <=> pc'[v] = "idle"
      BY <2>1, <2>2, SlotOrIdle
    <3>2. ASSUME NEW t \in Slots, NEW v \in Requests
          PROVE  slotLock[t] = v <=> slot'[v] = t /\ pc'[v] \in {"tower", "finish"}
      <4>1. slotLock[t] = v <=> slot[v] = t /\ pc[v] \in {"tower", "finish"}
        BY SlotFacts DEF SlotsHeld
      <4> QED
        BY <2>1, <2>2, <4>1
    <3> QED
      BY <1>1, <1>2, <1>3, <3>1, <3>2 DEF SlotsHeld
  <2>6. AssignedTo[r] = NULL /\ AssignedTo'[r] = s
    BY <1>5, <2>1, <2>2 DEF AssignedTo
  <2>7. ASSUME NEW t \in Slots
        PROVE  busy'[t] = CountIn(Requests, AssignedTo', t)
    <3>1. /\ CountIn(Requests, AssignedTo, t) \in Nat
          /\ CountIn(Requests, AssignedTo', t) \in Nat
          /\ CountIn(Requests, AssignedTo', t) + Is(AssignedTo[r], t)
                = CountIn(Requests, AssignedTo, t) + Is(AssignedTo'[r], t)
      BY <2>1, <2>2, AssignedCount
    <3>2. Is(AssignedTo[r], t) = 0 /\ Is(AssignedTo'[r], t) = IF t = s THEN 1 ELSE 0
      BY <1>1, <2>6 DEF Is
    <3>3. busy[t] = CountIn(Requests, AssignedTo, t)
      BY SlotFacts DEF SlotsCounted
    <3>4. busy'[t] = busy[t] + IF t = s THEN 1 ELSE 0
      BY <1>2, <2>1
    <3> QED
      BY <3>1, <3>2, <3>3, <3>4
  <2> QED
    BY <1>1, <2>4, <2>5, <2>7 DEF SlotInv, SlotsCounted
<1>7. CASE Release(r)
  <2>1. /\ pc[r] = "done" /\ busy' = [busy EXCEPT ![s] = busy[s] - 1]
        /\ slot' = [slot EXCEPT ![r] = NULL]
        /\ pc' = [pc EXCEPT ![r] = "idle"]
    BY <1>1, <1>5, <1>7 DEF Release, Goto
  <2>2. \A v \in Requests : /\ pc'[v] = IF v = r THEN "idle" ELSE pc[v]
                            /\ slot'[v] = IF v = r THEN NULL ELSE slot[v]
    BY <1>2, <2>1
  <2>3. AssignedTo[r] = s /\ AssignedTo'[r] = NULL
    BY <1>5, <2>1, <2>2 DEF AssignedTo
  <2>4. ASSUME NEW t \in Slots
        PROVE  busy'[t] = CountIn(Requests, AssignedTo', t) /\ busy'[t] \in Nat
    <3>1. /\ CountIn(Requests, AssignedTo, t) \in Nat
          /\ CountIn(Requests, AssignedTo', t) \in Nat
          /\ CountIn(Requests, AssignedTo', t) + Is(AssignedTo[r], t)
                = CountIn(Requests, AssignedTo, t) + Is(AssignedTo'[r], t)
      BY <2>1, <2>2, AssignedCount
    <3>2. Is(AssignedTo'[r], t) = 0 /\ Is(AssignedTo[r], t) = IF t = s THEN 1 ELSE 0
      BY <1>1, <2>3 DEF Is
    <3>3. busy[t] = CountIn(Requests, AssignedTo, t)
      BY SlotFacts DEF SlotsCounted
    <3>4. busy'[t] = busy[t] - IF t = s THEN 1 ELSE 0
      BY <1>2, <2>1
    <3> QED
      BY <3>1, <3>2, <3>3, <3>4
  <2>5. SlotTypes'
    <3>1. busy' \in [Slots -> Nat]
      BY <1>2, <2>1, <2>4
    <3>2. slot' \in [Requests -> Slots \cup {NULL}]
      BY <1>2, <2>1
    <3> QED
      BY <1>1, <1>2, <1>3, <1>4, <3>1, <3>2 DEF SlotTypes
  <2>6. SlotsHeld'
    <3>1. \A v \in Requests : slot'[v] = NULL <=> pc'[v] = "idle"
      BY <2>2, SlotOrIdle
    <3>2. ASSUME NEW t \in Slots, NEW v \in Requests
          PROVE  slotLock[t] = v <=> slot'[v] = t /\ pc'[v] \in {"tower", "finish"}
      <4>1. slotLock[t] = v <=> slot[v] = t /\ pc[v] \in {"tower", "finish"}
        BY SlotFacts DEF SlotsHeld
      <4> QED
        BY <1>1, <2>1, <2>2, <4>1
    <3> QED
      BY <1>1, <1>2, <1>3, <3>1, <3>2 DEF SlotsHeld
  <2> QED
    BY <1>1, <2>4, <2>5, <2>6 DEF SlotInv, SlotsCounted
<1> QED
  BY <1>6, <1>7

\* The slot's lock, around an engine call.
LEMMA SlotLocked ==
    ASSUME Places, SlotInv, NEW r \in Requests, layout' = layout, ~CPU,
           EnterSlot(r) \/ LeaveEngine(r)
    PROVE  SlotInv'
<1>1. /\ NULL \notin Slots /\ CPU' = CPU /\ Slots' = Slots
      /\ Free \notin Requests
  BY SlotFacts DEF CPU, SlotCount, Slots
<1>2. /\ busy \in [Slots -> Nat] /\ slotLock \in [Slots -> Requests \cup {Free}]
      /\ nextSlot \in Slots /\ nextSlot \in Nat /\ slot \in [Requests -> Slots \cup {NULL}]
      /\ start \in [Requests -> Nat] /\ at \in [Requests -> Nat] /\ seen \in [Requests -> Nat]
      /\ pc \in [Requests -> RequestPCs]
  BY SlotFacts DEF SlotTypes, SlotsHeld, Places
<1>3. /\ nextSlot' = nextSlot /\ busy' = busy /\ start' = start /\ at' = at /\ seen' = seen
      /\ slot' = slot
  BY DEF EnterSlot, LeaveEngine, requestVars
<1>4. PICK s \in Slots : s = slot[r]
  <2>1. pc[r] # "idle"
    BY DEF EnterSlot, LeaveEngine
  <2> QED
    BY <2>1, SlotOrIdle
<1>5. PICK o \in Requests \cup {Free}, l \in {"tower", "finish", "next", "done"} :
         /\ slotLock' = [slotLock EXCEPT ![s] = o]
         /\ pc' = [pc EXCEPT ![r] = l]
         /\ \/ /\ o = r /\ slotLock[s] = Free /\ pc[r] = "next" /\ l \in {"tower", "finish"}
            \/ /\ o = Free /\ pc[r] \in {"tower", "finish"} /\ l \in {"next", "done"}
  <2>1. CASE EnterSlot(r)
    <3>1. /\ slotLock' = [slotLock EXCEPT ![s] = r] /\ slotLock[s] = Free /\ pc[r] = "next"
          /\ pc' = [pc EXCEPT ![r] = Inside(r)]
      BY <1>4, <2>1 DEF EnterSlot, Goto
    <3>2. Inside(r) \in {"tower", "finish"}
      BY DEF Inside
    <3> QED
      BY <3>1, <3>2
  <2>2. CASE LeaveEngine(r)
    BY <1>4, <2>2 DEF LeaveEngine, Goto
  <2> QED
    BY <2>1, <2>2
<1>6. /\ \A v \in Requests : pc'[v] = IF v = r THEN l ELSE pc[v]
      /\ \A t \in Slots : slotLock'[t] = IF t = s THEN o ELSE slotLock[t]
  BY <1>2, <1>5
<1>7. SlotTypes'
  BY <1>1, <1>2, <1>3, <1>5 DEF SlotTypes
<1>8. SlotsHeld'
  <2>1. \A v \in Requests : slot'[v] = NULL <=> pc'[v] = "idle"
    <3>1. pc[r] # "idle" /\ l # "idle"
      BY <1>5
    <3> QED
      BY <1>3, <1>6, <3>1, SlotOrIdle
  <2>2. ASSUME NEW t \in Slots, NEW v \in Requests
        PROVE  slotLock'[t] = v <=> slot'[v] = t /\ pc'[v] \in {"tower", "finish"}
    <3>1. slotLock[t] = v <=> slot[v] = t /\ pc[v] \in {"tower", "finish"}
      BY SlotFacts DEF SlotsHeld
    <3>2. slotLock[s] = r <=> pc[r] \in {"tower", "finish"}
      BY <1>4, SlotFacts DEF SlotsHeld
    <3> QED
      BY <1>1, <1>3, <1>4, <1>5, <1>6, <3>1, <3>2
  <2> QED
    BY <1>1, <1>2, <1>3, <2>1, <2>2 DEF SlotsHeld
<1>9. SlotsCounted'
  <2>1. AssignedTo' = AssignedTo
    BY <1>3, <1>5, <1>6 DEF AssignedTo
  <2> QED
    BY <1>1, <1>3, <2>1, SlotFacts DEF SlotsCounted
<1> QED
  BY <1>7, <1>8, <1>9 DEF SlotInv

\* The steps of a request.
LEMMA SlotRequest ==
    ASSUME Places, SlotInv, NEW r \in Requests, layout' = layout,
           \/ Begin(r) \/ SlotLook(r) \/ SlotCompare(r) \/ SlotClaim(r) \/ EnterOuter(r)
           \/ EnterEngine(r) \/ EnterSlot(r) \/ LeaveEngine(r) \/ Abandon(r) \/ Submit(r)
           \/ Answered(r) \/ Release(r)
    PROVE  SlotInv'
<1>0. /\ pc \in [Requests -> RequestPCs] /\ pc[r] \in (IF CPU THEN OnCPU ELSE OnGPU)
      /\ SlotTypes
  BY DEF Places, SlotInv
<1>1. CASE ~CPU
  <2>1. CASE Begin(r) \/ SlotLook(r) \/ SlotCompare(r)
    BY <1>1, <2>1, SlotSearch
  <2>2. CASE SlotClaim(r) \/ Release(r)
    BY <1>1, <2>2, SlotTurns
  <2>3. CASE EnterSlot(r) \/ LeaveEngine(r)
    BY <1>1, <2>3, SlotLocked
  <2>4. CASE Abandon(r) \/ Submit(r) \/ Answered(r)
    <3>1. UNCHANGED <<slotVars, slot, start, at, seen>>
      BY <2>4 DEF Abandon, Submit, Answered, requestVars
    <3>2. /\ pc[r] \in {"next", "woken"}
          /\ \E l \in {"done", "wait", "next"} : pc' = [pc EXCEPT ![r] = l]
      BY <2>4 DEF Abandon, Submit, Answered, Goto
    <3>3. PICK l \in {"done", "wait", "next"} : pc' = [pc EXCEPT ![r] = l]
      BY <3>2
    <3>4. \A v \in Requests : pc'[v] = IF v = r THEN l ELSE pc[v]
      BY <1>0, <3>3
    <3>5. \A v \in Requests :
             /\ pc'[v] = "idle" <=> pc[v] = "idle"
             /\ pc'[v] \in {"look", "compare"} <=> pc[v] \in {"look", "compare"}
             /\ pc'[v] \in {"tower", "finish"} <=> pc[v] \in {"tower", "finish"}
      BY <3>2, <3>4
    <3> QED
      BY <1>0, <1>1, <3>1, <3>5, QuietSlots DEF SlotTypes
  <2> QED
    BY <1>1, <2>1, <2>2, <2>3, <2>4 DEF EnterOuter, EnterEngine
<1>2. CASE CPU
  <2>0. slot[r] = NULL
    BY <1>0, <1>2 DEF SlotTypes, Slots, CPU
  <2>1. ~SlotLook(r) /\ ~SlotCompare(r) /\ ~SlotClaim(r) /\ ~Answered(r)
    BY <1>0, <1>2 DEF SlotLook, SlotCompare, SlotClaim, Answered, OnCPU, UnderMedia, InPool,
                      InYield
  <2>2. ~EnterSlot(r) /\ ~Submit(r)
    BY <1>2, LayoutFacts DEF EnterSlot, Submit, Submits
  <2>3. UNCHANGED <<slotVars, slot, start, at, seen>>
    <3>1. CASE Begin(r)
      BY <1>2, <3>1 DEF Begin, slotVars
    <3>2. CASE EnterOuter(r) \/ EnterEngine(r) \/ Abandon(r)
      BY <3>2 DEF EnterOuter, EnterEngine, Abandon, requestVars
    <3>3. CASE LeaveEngine(r)
      BY <1>2, <3>3 DEF LeaveEngine, slotVars
    <3>4. CASE Release(r)
      <4>1. slot' = slot
        BY <1>0, <2>0, <3>4 DEF Release, SlotTypes
      <4> QED
        BY <2>0, <3>4, <4>1 DEF Release, slotVars
    <3> QED
      BY <2>1, <2>2, <3>1, <3>2, <3>3, <3>4
  <2> QED
    BY <1>0, <1>2, <2>3, CpuKeepsSlots DEF SlotTypes
<1> QED
  BY <1>1, <1>2

\* No step takes a slot twice, or forgets one.
LEMMA SlotInvStep == Places /\ SlotInv /\ [Next]_vars => SlotInv'
<1> SUFFICES ASSUME Places, SlotInv, [Next]_vars PROVE SlotInv'
  OBVIOUS
<1>0. SlotTypes /\ pc \in [Requests -> RequestPCs]
  BY DEF SlotInv, Places
<1>1. CASE UNCHANGED vars
  <2>1. /\ layout' = layout /\ pc' = pc /\ UNCHANGED <<slotVars, slot, start, at, seen>>
        /\ CPU' = CPU /\ Slots' = Slots
    BY <1>1 DEF vars, requestVars, CPU, Slots, SlotCount
  <2> QED
    BY <2>1 DEF SlotInv, SlotTypes, SlotsHeld, SlotsCounted, AssignedTo, slotVars
<1>2. ASSUME NEW w \in Waves, Wave(w)
      PROVE  SlotInv'
  <2>1. CPU
    BY <1>2 DEF Places, Wave, WaveWants, WaveLocks, WaveCounted, WaveNotes, WaveEnds
  <2>2. layout' = layout /\ UNCHANGED <<slotVars, slot, start, at, seen>>
    BY <1>2 DEF Wave, requestVars
  <2> QED
    BY <1>0, <2>1, <2>2, CpuKeepsSlots DEF SlotTypes
<1>3. ASSUME NEW r \in Requests, Layer(r) \/ Yield(r)
      PROVE  SlotInv'
  <2>1. CPU
    <3>1. pc[r] \in (IF CPU THEN OnCPU ELSE OnGPU)
      BY DEF Places
    <3> QED
      BY <1>3, <3>1 DEF Layer, TowerLayer, Yield, Yielding, YieldBegin, YieldUnlock, YieldTest,
                        YieldWake, YieldRelock, YieldSpurious, YieldTimeout, OnGPU
  <2>2. layout' = layout /\ UNCHANGED <<slotVars, slot, start, at, seen>>
    BY <1>3 DEF Layer, Yield, requestVars
  <2> QED
    BY <1>0, <2>1, <2>2, CpuKeepsSlots DEF SlotTypes
<1>4. ASSUME NEW b \in Batchers, Batcher(b)
      PROVE  SlotInv'
  <2>1. ~CPU
    BY <1>4, LayoutFacts DEF Batcher
  <2>2. layout' = layout /\ UNCHANGED <<slotVars, slot, start, at, seen>>
    BY <1>4 DEF Batcher, requestVars
  <2>3. \A v \in Requests : pc'[v] = pc[v] \/ (pc[v] = "wait" /\ pc'[v] = "woken")
    BY <1>4 DEF Batcher, BatcherWaits, BatcherTakes, BatcherAnswers
  <2>4. \A v \in Requests :
           /\ pc'[v] = "idle" <=> pc[v] = "idle"
           /\ pc'[v] \in {"look", "compare"} <=> pc[v] \in {"look", "compare"}
           /\ pc'[v] \in {"tower", "finish"} <=> pc[v] \in {"tower", "finish"}
    BY <2>3
  <2> QED
    BY <1>0, <2>1, <2>2, <2>4, QuietSlots DEF SlotTypes
<1> QED
  BY <1>1, <1>2, <1>3, <1>4, StepKinds, SlotRequest

-----------------------------------------------------------------------------
(* What a batcher reaches along its list *)

\* What LET .. IN makes of the walk: it steps from node to node.
Steps(b, n, g) ==
    g = [i \in 1 .. n |->
            IF i = 1 THEN head[b] ELSE IF g[i - 1] = NULL THEN NULL ELSE next[g[i - 1]]]

\* A walk from head visits the queue in its order, and then stays at NULL.
LEMMA WalkIsQueue ==
    ASSUME NEW b, NEW q, Queue(b, q), NEW n \in Nat
    PROVE  /\ Walk(b, n) = [i \in 1 .. n |-> At(q, i)]
           /\ \A i \in 1 .. n : Walk(b, n)[i] = At(q, i)
<1> DEFINE w == [i \in 1 .. n |-> At(q, i)]
<1>0. /\ q \in Seq(Requests) /\ DOMAIN q = 1 .. Len(q) /\ Len(q) \in Nat
      /\ head[b] = At(q, 1) /\ NULL \notin Requests
      /\ \A i \in 1 .. Len(q) : next[q[i]] = At(q, i + 1)
  BY MediaAssumption DEF Queue
<1>1. ASSUME NEW i \in 1 .. n, i # 1
      PROVE  At(q, i) = IF At(q, i - 1) = NULL THEN NULL ELSE next[At(q, i - 1)]
  <2>1. i - 1 \in Nat /\ i - 1 >= 1 /\ (i - 1) + 1 = i
    BY <1>1
  <2>2. CASE i - 1 <= Len(q)
    <3>1. At(q, i - 1) = q[i - 1] /\ q[i - 1] \in Requests /\ next[q[i - 1]] = At(q, i)
      BY <1>0, <2>1, <2>2 DEF At
    <3> QED
      BY <1>0, <3>1
  <2>3. CASE ~(i - 1 <= Len(q))
    <3>1. i - 1 \notin 1 .. Len(q) /\ i \notin 1 .. Len(q)
      BY <1>0, <2>1, <2>3
    <3> QED
      BY <1>0, <3>1 DEF At
  <2> QED
    BY <2>2, <2>3
<1>2. Steps(b, n, w)
  <2>1. \A i \in 1 .. n : i # 1 => i - 1 \in 1 .. n
    OBVIOUS
  <2>2. \A i \in 1 .. n :
           w[i] = IF i = 1 THEN head[b]
                  ELSE IF w[i - 1] = NULL THEN NULL ELSE next[w[i - 1]]
    BY <1>0, <1>1, <2>1
  <2> QED
    BY <2>2 DEF Steps
<1>3. PICK g : g = CHOOSE h : Steps(b, n, h)
  OBVIOUS
<1>4. Walk(b, n) = g
  BY <1>3 DEF Walk, Steps
<1>5. Steps(b, n, g)
  BY <1>2, <1>3
<1>6. /\ DOMAIN g = 1 .. n
      /\ \A i \in 1 .. n : g[i] = IF i = 1 THEN head[b]
                                  ELSE IF g[i - 1] = NULL THEN NULL ELSE next[g[i - 1]]
  BY <1>5 DEF Steps
<1> DEFINE U == {k \in 1 .. n : \A i \in 1 .. k : g[i] = At(q, i)}
<1>7. ASSUME NEW k \in 1 .. n
      PROVE  g[k] = At(q, k)
  <2>0. 1 \in 1 .. n
    OBVIOUS
  <2>1. 1 \in U
    BY <1>0, <1>6, <2>0
  <2>2. PICK m \in U : \A j \in U : j <= m
    <3> HIDE DEF U
    <3>1. U \in SUBSET (1 .. n)
      BY DEF U
    <3> QED
      BY <2>1, <3>1, LastPlace
  <2>3. m \in 1 .. n /\ \A i \in 1 .. m : g[i] = At(q, i)
    OBVIOUS
  <2>4. CASE m = n
    BY <2>3, <2>4
  <2>5. CASE m # n
    <3>1. m + 1 \in 1 .. n /\ m + 1 # 1 /\ (m + 1) - 1 = m /\ m \in 1 .. m
      BY <2>3, <2>5
    <3>2. g[m + 1] = IF g[m] = NULL THEN NULL ELSE next[g[m]]
      BY <1>6, <3>1
    <3>3. At(q, m + 1) = IF At(q, m) = NULL THEN NULL ELSE next[At(q, m)]
      BY <1>1, <3>1
    <3>4. g[m + 1] = At(q, m + 1)
      BY <2>3, <3>1, <3>2, <3>3
    <3>5. \A i \in 1 .. m + 1 : g[i] = At(q, i)
      BY <2>3, <3>4
    <3>6. m + 1 \in U
      BY <3>1, <3>5
    <3> HIDE DEF U
    <3>7. m + 1 <= m
      BY <2>2, <3>6
    <3> QED
      BY <2>3, <3>7
  <2> QED
    BY <2>4, <2>5
<1>8. g = w
  BY <1>5, <1>7 DEF Steps
<1> QED
  BY <1>4, <1>7, <1>8

\* The rows of the first k submissions, as a sum.
RowsAt(b) == [i \in 1 .. MaxItems |-> size[Queued(b)[i]]]

\* They are what RowsOf adds up.
LEMMA RowsSummed ==
    ASSUME NEW b, NEW k \in 0 .. MaxItems
    PROVE  RowsOf(b, k) = SumOver(RowsAt(b), 1 .. k)
<1> DEFINE S == 1 .. k
           Solves(g) ==
        g = [s \in SUBSET S |->
                IF s = {} THEN 0
                ELSE size[Queued(b)[CHOOSE x \in s : TRUE]] + g[s \ {CHOOSE x \in s : TRUE}]]
<1>0. MaxItems \in Nat /\ k \in Nat /\ S \subseteq 1 .. MaxItems
  BY MediaAssumption
<1>1. \A g : Solves(g) <=> Sums(RowsAt(b), S, g)
  <2>1. \A s \in SUBSET S : s # {} =>
           RowsAt(b)[Chosen(s)] = size[Queued(b)[CHOOSE x \in s : TRUE]]
    <3> HIDE DEF S
    <3> QED
      BY <1>0, ChosenIn DEF RowsAt, Chosen
  <2> QED
    BY <2>1 DEF Sums, Chosen
<1>2. PICK g : g = CHOOSE h : Solves(h)
  OBVIOUS
<1>3. RowsOf(b, k) = g[S]
  BY <1>2 DEF RowsOf, MapThenSumSet, MapThenFoldSet
<1>4. IsFiniteSet(S)
  BY <1>0, PlacesCounted
<1> HIDE DEF Solves, S
<1>5. Solves(g)
  BY <1>1, <1>2, <1>4, SumsExist
<1>6. g[S] = SumOver(RowsAt(b), S)
  BY <1>1, <1>4, <1>5, SumIsUnique
<1> QED
  BY <1>3, <1>6 DEF S

\* The batch is a first part of the queue, not an empty one.
LEMMA BatchIsPrefix ==
    ASSUME ListTypes, NEW b, NEW q, Queue(b, q), head[b] # NULL
    PROVE  BatchSize(b) \in 1 .. Len(q) /\ BatchSize(b) \in 1 .. MaxItems
<1>0. /\ q \in Seq(Requests) /\ DOMAIN q = 1 .. Len(q) /\ Len(q) \in Nat
      /\ head[b] = At(q, 1) /\ NULL \notin Requests
      /\ MaxItems \in Nat \ {0} /\ MaxRows \in Nat
      /\ size \in [Requests -> Nat]
  BY MediaAssumption DEF Queue, ListTypes
<1>1. \A i \in 1 .. MaxItems : Queued(b)[i] = At(q, i)
  BY <1>0, WalkIsQueue DEF Queued
<1>2. Len(q) >= 1
  <2>1. 1 \in 1 .. Len(q)
    BY <1>0 DEF At
  <2> QED
    BY <1>0, <2>1
<1>3. PICK l \in Nat : /\ l <= MaxItems /\ l <= Len(q) /\ (l = MaxItems \/ l = Len(q))
  <2>1. MaxItems \in Nat /\ Len(q) \in Nat
    BY <1>0
  <2>2. PICK m \in Nat, n \in Nat : m = MaxItems /\ n = Len(q)
    BY <2>1
  <2>3. CASE m <= n
    BY <2>2, <2>3
  <2>4. CASE ~(m <= n)
    <3>1. n <= m
      BY <2>4
    <3> QED
      BY <2>2, <3>1
  <2> QED
    BY <2>3, <2>4
<1>12. MaxItems \in Nat /\ Len(q) \in Nat /\ l \in Nat /\ l <= MaxItems /\ l <= Len(q)
  BY <1>0, <1>3
<1>4. \A i \in 1 .. l : i \in 1 .. MaxItems /\ Queued(b)[i] = q[i] /\ q[i] \in Requests
  <2>1. \A i \in 1 .. l : i \in 1 .. MaxItems /\ i \in 1 .. Len(q)
    BY <1>12
  <2> QED
    BY <1>0, <1>1, <2>1 DEF At
<1>5. \A k \in 0 .. l : RowsOf(b, k) \in Nat
  <2> SUFFICES ASSUME NEW k \in 0 .. l PROVE RowsOf(b, k) \in Nat
    OBVIOUS
  <2>1. k \in 0 .. MaxItems /\ k \in Nat /\ \A i \in 1 .. k : i \in 1 .. l
    BY <1>12
  <2>2. \A i \in 1 .. k : RowsAt(b)[i] \in Nat
    BY <1>0, <1>4, <2>1 DEF RowsAt
  <2>3. SumOver(RowsAt(b), 1 .. k) \in Nat
    BY <2>1, <2>2, PlacesCounted, SumNat
  <2> QED
    BY <2>1, <2>3, RowsSummed
<1> DEFINE Fits(k) == /\ \A i \in 1 .. k : Queued(b)[i] # NULL
                      /\ RowsOf(b, k) <= MaxRows
                      /\ \/ k = MaxItems \/ Queued(b)[k + 1] = NULL
                         \/ RowsOf(b, k + 1) > MaxRows
           U == {k \in 1 .. l : RowsOf(b, k) <= MaxRows}
<1>6. ASSUME NEW k \in 0 .. l, RowsOf(b, k) <= MaxRows,
             k # l => ~(RowsOf(b, k + 1) <= MaxRows)
      PROVE  \E j \in 0 .. MaxItems : Fits(j)
  <2>1. k \in 0 .. MaxItems /\ k \in Nat /\ \A i \in 1 .. k : i \in 1 .. l
    BY <1>12
  <2>2. \A i \in 1 .. k : Queued(b)[i] # NULL
    BY <1>0, <1>4, <2>1
  <2>3. CASE k # l
    <3>1. k + 1 \in 0 .. l
      BY <1>3, <2>1, <2>3
    <3>2. RowsOf(b, k + 1) \in Nat
      BY <1>5, <3>1
    <3>3. RowsOf(b, k + 1) > MaxRows
      BY <1>0, <1>6, <2>3, <3>2
    <3> QED
      BY <1>6, <2>1, <2>2, <3>3
  <2>4. CASE k = l /\ l # MaxItems
    <3>1. k + 1 \in 1 .. MaxItems /\ k + 1 \notin 1 .. Len(q)
      BY <1>12, <1>3, <2>4
    <3>2. Queued(b)[k + 1] = NULL
      BY <1>0, <1>1, <3>1 DEF At
    <3> QED
      BY <1>6, <2>1, <2>2, <3>2
  <2>5. CASE k = l /\ l = MaxItems
    BY <1>6, <2>1, <2>2, <2>5
  <2> QED
    BY <2>3, <2>4, <2>5
<1>7. \E k \in 0 .. l : RowsOf(b, k) <= MaxRows /\ (k # l => ~(RowsOf(b, k + 1) <= MaxRows))
  <2>1. CASE U = {}
    <3>1. 0 \in 0 .. MaxItems /\ 0 \in 0 .. l /\ 1 .. 0 = {} /\ IsFiniteSet({})
      BY <1>0, FS_EmptySet
    <3>2. SumOver(RowsAt(b), {}) = 0
      BY <3>1, SumStep
    <3>3. RowsOf(b, 0) = 0
      BY <3>1, <3>2, RowsSummed
    <3>4. 0 # l => 0 + 1 \in 1 .. l
      BY <1>3
    <3>5. 0 # l => ~(RowsOf(b, 0 + 1) <= MaxRows)
      BY <2>1, <3>4
    <3> QED
      BY <1>0, <3>1, <3>3, <3>5
  <2>2. CASE U # {}
    <3>1. PICK m \in U : \A j \in U : j <= m
      <4> HIDE DEF U
      <4>1. U \in SUBSET (1 .. l)
        BY DEF U
      <4> QED
        BY <2>2, <4>1, LastPlace
    <3>2. m \in 1 .. l /\ RowsOf(b, m) <= MaxRows
      OBVIOUS
    <3>3. m # l => ~(RowsOf(b, m + 1) <= MaxRows)
      <4> SUFFICES ASSUME m # l, RowsOf(b, m + 1) <= MaxRows PROVE FALSE
        OBVIOUS
      <4>1. m + 1 \in 1 .. l
        BY <1>3, <3>2
      <4>2. m + 1 \in U
        BY <4>1
      <4> HIDE DEF U
      <4>3. m + 1 <= m
        BY <3>1, <4>2
      <4> QED
        BY <3>2, <4>3
    <3> HIDE DEF U
    <3>4. m \in 0 .. l
      BY <1>3, <3>2
    <3> QED
      BY <3>2, <3>3, <3>4
  <2> QED
    BY <2>1, <2>2
<1>8. \E j \in 0 .. MaxItems : Fits(j)
  BY <1>6, <1>7
<1>9. Prefix(b) \in 0 .. MaxItems /\ Fits(Prefix(b))
  <2>1. Prefix(b) = CHOOSE k \in 0 .. MaxItems : Fits(k)
    BY DEF Prefix
  <2> HIDE DEF Fits
  <2> QED
    BY <1>8, <2>1
<1>10. CASE Prefix(b) = 0
  BY <1>0, <1>2, <1>10 DEF BatchSize
<1>11. CASE Prefix(b) # 0
  <2>1. Prefix(b) \in 1 .. MaxItems
    BY <1>9, <1>11
  <2>2. Queued(b)[Prefix(b)] # NULL
    BY <1>9, <2>1
  <2>3. Prefix(b) \in 1 .. Len(q)
    BY <1>0, <1>1, <2>1, <2>2 DEF At
  <2> QED
    BY <1>11, <2>1, <2>3 DEF BatchSize
<1> QED
  BY <1>10, <1>11
-----------------------------------------------------------------------------
(* The batchers' lists *)

\* A list stays as it is when no step of its own changes it or its waiters.
LEMMA QueueStays ==
    ASSUME NEW b, QueueOf(b), head'[b] = head[b], tail'[b] = tail[b], batch'[b] = batch[b],
           Unanswered(b)' = Unanswered(b), \A v \in Unanswered(b) : next'[v] = next[v]
    PROVE  QueueOf(b)'
<1>1. PICK q \in Seq(Requests) :
         /\ Queue(b, q)
         /\ ToSet(q) \cap ToSet(batch[b]) = {}
         /\ ToSet(q) \cup ToSet(batch[b]) = Unanswered(b)
  BY DEF QueueOf
<1>2. \A i \in DOMAIN q : q[i] \in Unanswered(b)
  BY <1>1 DEF ToSet
<1>3. Queue(b, q)'
  BY <1>1, <1>2 DEF Queue
<1> QED
  BY <1>1, <1>3 DEF QueueOf

\* The steps that neither submit nor answer.
LEMMA ListsStay ==
    ASSUME ListInv, UNCHANGED batchVars,
           \A v \in Requests : pc[v] \in Waits \/ pc'[v] \in Waits
                                  => pc'[v] = pc[v] /\ plan'[v] = plan[v]
    PROVE  ListInv'
<1>1. /\ head' = head /\ tail' = tail /\ next' = next /\ size' = size /\ done' = done
      /\ batch' = batch /\ bpc' = bpc
  BY DEF batchVars
<1>2. \A b : Unanswered(b)' = Unanswered(b)
  BY <1>1 DEF Unanswered, Waits, Call
<1>3. ListTypes'
  BY <1>1 DEF ListInv, ListTypes
<1>4. ASSUME NEW b \in Batchers
      PROVE  QueueOf(b)' /\ Distinct(batch'[b]) /\ (bpc'[b] # "run" => batch'[b] = <<>>)
  <2>1. QueueOf(b) /\ Distinct(batch[b]) /\ (bpc[b] # "run" => batch[b] = <<>>)
    BY DEF ListInv
  <2> QED
    BY <1>1, <1>2, <2>1, QueueStays
<1>5. ASSUME NEW r \in Requests
      PROVE  (done'[r] => pc'[r] = "woken") /\ (pc'[r] \notin Waits => next'[r] = NULL)
  <2>1. (done[r] => pc[r] = "woken") /\ (pc[r] \notin Waits => next[r] = NULL)
    BY DEF ListInv
  <2> QED
    BY <1>1, <2>1 DEF Waits
<1> QED
  BY <1>3, <1>4, <1>5 DEF ListInv

\* What holds of the lists, one conjunct after the other.
LEMMA ListFacts ==
    ASSUME ListInv
    PROVE  /\ ListTypes
           /\ \A b \in Batchers : QueueOf(b)
           /\ \A b \in Batchers : Distinct(batch[b])
           /\ \A b \in Batchers : bpc[b] # "run" => batch[b] = <<>>
           /\ \A r \in Requests : done[r] => pc[r] = "woken"
           /\ \A r \in Requests : pc[r] \notin Waits => next[r] = NULL
BY DEF ListInv

\* A submission: a node behind the last one.
LEMMA ListSubmit ==
    ASSUME Places, ListInv, NEW r \in Requests, Submit(r)
    PROVE  ListInv'
<1>0. PICK b : b = Call(r)
  OBVIOUS
<1>1. b \in Batchers
  BY <1>0, LayoutFacts DEF Submit, Submits
<1>2. /\ head \in [Batchers -> Requests \cup {NULL}] /\ tail \in [Batchers -> Requests \cup {NULL}]
      /\ next \in [Requests -> Requests \cup {NULL}] /\ size \in [Requests -> Nat]
      /\ done \in [Requests -> BOOLEAN] /\ batch \in [Batchers -> Seq(Requests)]
      /\ bpc \in [Batchers -> {"top", "wait", "run"}]
      /\ pc \in [Requests -> RequestPCs]
      /\ NULL \notin Requests
  BY ListFacts, MediaAssumption DEF ListTypes, Places
<1>3. /\ pc[r] = "next" /\ pc' = [pc EXCEPT ![r] = "wait"]
      /\ plan' = plan /\ done' = done /\ batch' = batch
      /\ tail' = [tail EXCEPT ![b] = r]
      /\ bpc' = [bpc EXCEPT ![b] = IF @ = "wait" THEN "top" ELSE @]
  BY <1>0 DEF Submit, Goto, requestVars
<1>4. IF tail[b] # NULL THEN next' = [next EXCEPT ![tail[b]] = r] /\ head' = head
                        ELSE head' = [head EXCEPT ![b] = r] /\ next' = next
  BY <1>0 DEF Submit
<1>5. PICK n \in Sizes : size' = [size EXCEPT ![r] = n]
  BY DEF Submit
<1>6. \A v \in Requests : pc'[v] = IF v = r THEN "wait" ELSE pc[v]
  BY <1>2, <1>3
<1>7. next[r] = NULL /\ ~done[r]
  BY <1>3, ListFacts DEF Waits
<1>8. /\ Unanswered(b)' = Unanswered(b) \cup {r}
      /\ \A c : c # b => Unanswered(c)' = Unanswered(c)
      /\ r \notin Unanswered(b)
  <2>1. \A v : Call(v)' = Call(v)
    BY <1>3 DEF Call
  <2> QED
    BY <1>0, <1>3, <1>6, <1>7, <2>1 DEF Unanswered
<1>9. PICK q \in Seq(Requests) :
         /\ Queue(b, q)
         /\ ToSet(q) \cap ToSet(batch[b]) = {}
         /\ ToSet(q) \cup ToSet(batch[b]) = Unanswered(b)
  BY <1>1, ListFacts DEF QueueOf
<1>10. /\ Distinct(q) /\ head[b] = At(q, 1) /\ tail[b] = At(q, Len(q))
       /\ \A i \in 1 .. Len(q) : next[q[i]] = At(q, i + 1)
       /\ DOMAIN q = 1 .. Len(q) /\ Len(q) \in Nat
  BY <1>9 DEF Queue
<1>11. \A i \in 1 .. Len(q) : q[i] \in Requests /\ q[i] \in Unanswered(b) /\ q[i] # r
  BY <1>8, <1>9, <1>10 DEF ToSet
<1>12. /\ tail[b] # NULL => Len(q) \in 1 .. Len(q) /\ tail[b] = q[Len(q)] /\ tail[b] \in Requests
                            /\ tail[b] # r
       /\ tail[b] = NULL => Len(q) = 0
  <2>1. CASE Len(q) = 0
    BY <1>10, <2>1 DEF At
  <2>2. CASE Len(q) # 0
    <3>1. Len(q) \in 1 .. Len(q)
      BY <1>10, <2>2
    <3> QED
      BY <1>2, <1>10, <1>11, <3>1 DEF At
  <2> QED
    BY <2>1, <2>2
<1>13. /\ \A v \in Requests : next'[v] = IF v = tail[b] THEN r ELSE next[v]
       /\ next' \in [Requests -> Requests \cup {NULL}]
       /\ head'[b] = IF tail[b] = NULL THEN r ELSE head[b]
       /\ head' \in [Batchers -> Requests \cup {NULL}]
       /\ tail'[b] = r
       /\ \A c \in Batchers : c # b => head'[c] = head[c] /\ tail'[c] = tail[c]
  <2>1. CASE tail[b] # NULL
    BY <1>1, <1>2, <1>3, <1>4, <2>1
  <2>2. CASE tail[b] = NULL
    BY <1>1, <1>2, <1>3, <1>4, <2>2
  <2> QED
    BY <2>1, <2>2
<1>14. ListTypes'
  <2>1. Sizes \subseteq Nat
    BY MediaAssumption
  <2>2. size' \in [Requests -> Nat]
    BY <1>2, <1>5, <2>1
  <2>3. bpc' \in [Batchers -> {"top", "wait", "run"}]
    BY <1>1, <1>2, <1>3
  <2>4. tail' \in [Batchers -> Requests \cup {NULL}]
    BY <1>2, <1>3
  <2> QED
    BY <1>2, <1>3, <1>13, <2>2, <2>3, <2>4 DEF ListTypes
<1>15. QueueOf(b)'
  <2> DEFINE p == Append(q, r)
  <2>1. /\ p \in Seq(Requests) /\ Distinct(p) /\ ToSet(p) = ToSet(q) \cup {r}
    <3>1. r \notin ToSet(q)
      BY <1>8, <1>9
    <3> QED
      BY <1>9, <1>10, <3>1, AppendLists DEF Lists
  <2>2. /\ DOMAIN p = 1 .. Len(q) + 1 /\ Len(p) = Len(q) + 1
        /\ \A i \in 1 .. Len(q) : p[i] = q[i]
        /\ p[Len(q) + 1] = r
    BY <1>9
  <2> HIDE DEF p
  <2>3. head'[b] = At(p, 1)
    <3>1. CASE tail[b] = NULL
      BY <1>12, <1>13, <2>2, <3>1 DEF At
    <3>2. CASE tail[b] # NULL
      <4>1. 1 \in 1 .. Len(q) /\ 1 \in 1 .. Len(q) + 1
        BY <1>10, <1>12, <3>2
      <4> QED
        BY <1>10, <1>13, <2>2, <3>2, <4>1 DEF At
    <3> QED
      BY <3>1, <3>2
  <2>4. tail'[b] = At(p, Len(p))
    BY <1>10, <1>13, <2>2 DEF At
  <2>5. ASSUME NEW i \in 1 .. Len(q) + 1
        PROVE  next'[p[i]] = At(p, i + 1)
    <3>1. CASE i = Len(q) + 1
      <4>1. i + 1 \notin 1 .. Len(q) + 1
        BY <1>10, <3>1
      <4>2. tail[b] # r
        BY <1>2, <1>12
      <4> QED
        BY <1>7, <1>13, <2>2, <3>1, <4>1, <4>2 DEF At
    <3>2. CASE i = Len(q) /\ i # Len(q) + 1
      <4>1. i \in 1 .. Len(q) /\ i + 1 = Len(q) + 1 /\ i + 1 \in 1 .. Len(q) + 1
        <5>1. i \in Nat /\ i >= 1
          OBVIOUS
        <5> QED
          BY <3>2, <5>1
      <4>2. tail[b] = q[i]
        BY <1>10, <3>2, <4>1 DEF At
      <4> QED
        BY <1>11, <1>13, <2>2, <4>1, <4>2 DEF At
    <3>3. CASE i # Len(q) /\ i # Len(q) + 1
      <4>1. /\ i \in 1 .. Len(q) /\ i + 1 \in 1 .. Len(q) /\ i + 1 \in 1 .. Len(q) + 1
            /\ Len(q) \in 1 .. Len(q)
        <5>1. PICK m \in Nat : m = Len(q)
          BY <1>10
        <5>2. i \in Nat /\ i >= 1 /\ i <= m + 1 /\ i # m /\ i # m + 1
          BY <3>3, <5>1
        <5>3. i + 1 <= m /\ i <= m /\ m >= 1
          BY <5>2
        <5> QED
          BY <5>1, <5>2, <5>3
      <4>2. tail[b] = q[Len(q)] /\ q[i] # q[Len(q)]
        BY <1>10, <3>3, <4>1 DEF At, Distinct
      <4>3. next'[q[i]] = next[q[i]]
        BY <1>11, <1>13, <4>1, <4>2
      <4>4. At(q, i + 1) = q[i + 1] /\ At(p, i + 1) = p[i + 1] /\ p[i + 1] = q[i + 1]
        BY <1>10, <2>2, <4>1 DEF At
      <4> QED
        BY <1>10, <2>2, <4>1, <4>3, <4>4
    <3> QED
      BY <3>1, <3>2, <3>3
  <2>6. Queue(b, p)'
    BY <2>1, <2>2, <2>3, <2>4, <2>5 DEF Queue
  <2>7. /\ ToSet(p) \cap ToSet(batch'[b]) = {}
        /\ ToSet(p) \cup ToSet(batch'[b]) = Unanswered(b)'
    BY <1>3, <1>8, <1>9, <2>1
  <2> QED
    BY <2>1, <2>6, <2>7 DEF QueueOf
<1>16. ASSUME NEW c \in Batchers, c # b
       PROVE  QueueOf(c)'
  <2>1. \A v \in Unanswered(c) : v \in Requests /\ v # tail[b]
    <3>1. tail[b] # NULL => tail[b] \in Unanswered(b)
      BY <1>11, <1>12
    <3> QED
      BY <1>2, <1>16, <3>1 DEF Unanswered
  <2>2. \A v \in Unanswered(c) : next'[v] = next[v]
    BY <1>13, <2>1
  <2>3. QueueOf(c)
    BY ListFacts
  <2> QED
    BY <1>3, <1>8, <1>13, <1>16, <2>2, <2>3, QueueStays
<1>17. \A c \in Batchers : Distinct(batch'[c]) /\ (bpc'[c] # "run" => batch'[c] = <<>>)
  <2>1. \A c \in Batchers : bpc'[c] # "run" => bpc[c] # "run"
    BY <1>1, <1>2, <1>3
  <2> QED
    BY <1>3, <2>1, ListFacts
<1>18. ASSUME NEW v \in Requests
       PROVE  (done'[v] => pc'[v] = "woken") /\ (pc'[v] \notin Waits => next'[v] = NULL)
  <2>1. (done[v] => pc[v] = "woken") /\ (pc[v] \notin Waits => next[v] = NULL)
    BY ListFacts
  <2>2. v = tail[b] => pc[v] \in Waits
    <3>1. tail[b] # NULL => tail[b] \in Unanswered(b)
      BY <1>11, <1>12
    <3> QED
      BY <1>2, <3>1 DEF Unanswered, Waits
  <2> QED
    BY <1>3, <1>6, <1>13, <2>1, <2>2 DEF Waits
<1> QED
  BY <1>14, <1>15, <1>16, <1>17, <1>18 DEF ListInv

\* A submitter finds its answer, and its node goes; or it waits again.
LEMMA ListAnswered ==
    ASSUME Places, ListInv, NEW r \in Requests, Answered(r)
    PROVE  ListInv'
<1>2. /\ next \in [Requests -> Requests \cup {NULL}] /\ size \in [Requests -> Nat]
      /\ done \in [Requests -> BOOLEAN]
      /\ pc \in [Requests -> RequestPCs] /\ plan \in [Requests -> Seq(Towers)]
      /\ ListTypes
  BY ListFacts DEF ListTypes, Places
<1>3. /\ pc[r] = "woken" /\ head' = head /\ tail' = tail /\ batch' = batch /\ bpc' = bpc
  BY DEF Answered
<1>4. PICK l :
         /\ pc' = [pc EXCEPT ![r] = l]
         /\ ~done[r] => l = "wait" /\ UNCHANGED <<plan, next, size, done>>
         /\ done[r] => /\ next' = [next EXCEPT ![r] = NULL]
                       /\ size' = [size EXCEPT ![r] = 0]
                       /\ done' = [done EXCEPT ![r] = FALSE]
                       /\ l \notin Waits
                       /\ plan' = [plan EXCEPT ![r] = Tail(@)] \/ plan' = plan
  <2>1. CASE ~done[r]
    BY <2>1 DEF Answered, Goto
  <2>2. CASE done[r]
    <3>1. /\ next' = [next EXCEPT ![r] = NULL]
          /\ size' = [size EXCEPT ![r] = 0]
          /\ done' = [done EXCEPT ![r] = FALSE]
          /\ plan' = [plan EXCEPT ![r] = Tail(@)] \/ plan' = plan
      BY <2>2 DEF Answered
    <3>2. PICK l \in {"next", "done"} : pc' = [pc EXCEPT ![r] = l]
      BY <2>2 DEF Answered, Goto
    <3>3. l \notin Waits
      BY DEF Waits
    <3> QED
      BY <2>2, <3>1, <3>2, <3>3
  <2> QED
    BY <2>1, <2>2
<1>5. \A v \in Requests : /\ pc'[v] = IF v = r THEN l ELSE pc[v]
                          /\ v # r => plan'[v] = plan[v] /\ next'[v] = next[v] /\ done'[v] = done[v]
  BY <1>2, <1>4
<1>6. ASSUME NEW b
      PROVE  Unanswered(b)' = Unanswered(b)
  <2>1. CASE done[r]
    <3>1. r \notin Unanswered(b) /\ r \notin Unanswered(b)'
      <4>1. pc'[r] \notin {"wait", "woken"}
        BY <1>4, <1>5, <2>1 DEF Waits
      <4> QED
        BY <2>1, <4>1 DEF Unanswered
    <3>2. \A v \in Requests : v # r => Call(v)' = Call(v)
      BY <1>5 DEF Call
    <3>3. \A v \in Requests : v # r => (v \in Unanswered(b)' <=> v \in Unanswered(b))
      BY <1>5, <3>2 DEF Unanswered
    <3> QED
      BY <3>1, <3>3 DEF Unanswered
  <2>2. CASE ~done[r]
    <3>1. \A v \in Requests : Call(v)' = Call(v)
      BY <1>4, <2>2 DEF Call
    <3> QED
      BY <1>3, <1>4, <1>5, <2>2, <3>1 DEF Unanswered
  <2> QED
    BY <2>1, <2>2
<1>7. ListTypes'
  <2>1. /\ next' \in [Requests -> Requests \cup {NULL}] /\ size' \in [Requests -> Nat]
        /\ done' \in [Requests -> BOOLEAN]
    <3>1. CASE ~done[r]
      BY <1>2, <1>4, <3>1
    <3>2. CASE done[r]
      <4>1. next' = [next EXCEPT ![r] = NULL] /\ size' = [size EXCEPT ![r] = 0]
        BY <1>4, <3>2
      <4>2. done' = [done EXCEPT ![r] = FALSE]
        BY <1>4, <3>2
      <4>3. done' \in [Requests -> BOOLEAN]
        BY <1>2, <4>2
      <4> QED
        BY <1>2, <4>1, <4>3
    <3> QED
      BY <3>1, <3>2
  <2> QED
    BY <1>2, <1>3, <2>1 DEF ListTypes
<1>8. ASSUME NEW b \in Batchers
      PROVE  QueueOf(b)'
  <2>1. \A v \in Unanswered(b) : next'[v] = next[v]
    <3>1. CASE done[r]
      BY <1>5, <3>1 DEF Unanswered
    <3>2. CASE ~done[r]
      BY <1>4, <3>2
    <3> QED
      BY <3>1, <3>2
  <2>2. QueueOf(b)
    BY ListFacts
  <2> QED
    BY <1>3, <1>6, <2>1, <2>2, QueueStays
<1>9. \A b \in Batchers : Distinct(batch'[b]) /\ (bpc'[b] # "run" => batch'[b] = <<>>)
  BY <1>3, ListFacts
<1>10. ASSUME NEW v \in Requests
       PROVE  (done'[v] => pc'[v] = "woken") /\ (pc'[v] \notin Waits => next'[v] = NULL)
  <2>1. (done[v] => pc[v] = "woken") /\ (pc[v] \notin Waits => next[v] = NULL)
    BY ListFacts
  <2>2. CASE v # r
    BY <1>5, <2>1, <2>2
  <2>3. CASE v = r /\ done[r]
    <3>1. ~done'[r] /\ next'[r] = NULL
      BY <1>2, <1>4, <2>3
    <3> QED
      BY <2>3, <3>1
  <2>4. CASE v = r /\ ~done[r]
    <3>1. ~done'[r] /\ pc'[r] \in Waits
      BY <1>4, <1>5, <2>4 DEF Waits
    <3> QED
      BY <2>4, <3>1
  <2> QED
    BY <2>2, <2>3, <2>4
<1> QED
  BY <1>7, <1>8, <1>9, <1>10 DEF ListInv

\* A batcher goes to sleep, or unlinks a batch.
LEMMA ListTaken ==
    ASSUME Places, ListInv, NEW b \in Batchers, UNCHANGED requestVars,
           BatcherWaits(b) \/ BatcherTakes(b)
    PROVE  ListInv'
<1>0. /\ head \in [Batchers -> Requests \cup {NULL}] /\ tail \in [Batchers -> Requests \cup {NULL}]
      /\ next \in [Requests -> Requests \cup {NULL}]
      /\ batch \in [Batchers -> Seq(Requests)] /\ bpc \in [Batchers -> {"top", "wait", "run"}]
      /\ ListTypes /\ NULL \notin Requests
  BY ListFacts, MediaAssumption DEF ListTypes
<1>1. /\ pc' = pc /\ plan' = plan /\ next' = next /\ size' = size /\ done' = done
      /\ bpc[b] = "top"
  BY DEF BatcherWaits, BatcherTakes, requestVars
<1>2. \A c : Unanswered(c)' = Unanswered(c)
  BY <1>1 DEF Unanswered, Call
<1>3. batch[b] = <<>>
  BY <1>1, ListFacts
<1>4. \A v \in Requests : (done'[v] => pc'[v] = "woken") /\ (pc'[v] \notin Waits => next'[v] = NULL)
  BY <1>1, ListFacts
<1>5. CASE BatcherWaits(b)
  <2>1. head' = head /\ tail' = tail /\ batch' = batch /\ bpc' = [bpc EXCEPT ![b] = "wait"]
    BY <1>5 DEF BatcherWaits
  <2>2. ListTypes'
    <3>1. bpc' \in [Batchers -> {"top", "wait", "run"}]
      BY <1>0, <2>1
    <3> QED
      BY <1>0, <1>1, <2>1, <3>1 DEF ListTypes
  <2>3. \A c \in Batchers : QueueOf(c)'
    BY <1>1, <1>2, <2>1, ListFacts, QueueStays
  <2>4. \A c \in Batchers : Distinct(batch'[c]) /\ (bpc'[c] # "run" => batch'[c] = <<>>)
    BY <1>0, <1>3, <2>1, ListFacts
  <2> QED
    BY <1>4, <2>2, <2>3, <2>4 DEF ListInv
<1>6. CASE BatcherTakes(b)
  <2>1. PICK k : k = BatchSize(b)
    OBVIOUS
  <2>2. PICK rest : rest = next[Queued(b)[k]]
    OBVIOUS
  <2>3. PICK t : t = SubSeq(Queued(b), 1, k)
    OBVIOUS
  <2>4. /\ head[b] # NULL
        /\ batch' = [batch EXCEPT ![b] = t]
        /\ head' = [head EXCEPT ![b] = rest]
        /\ tail' = IF rest = NULL THEN [tail EXCEPT ![b] = NULL] ELSE tail
        /\ bpc' = [bpc EXCEPT ![b] = "run"]
    BY <1>6, <2>1, <2>2, <2>3 DEF BatcherTakes
  <2>5. PICK q \in Seq(Requests) : Queue(b, q) /\ ToSet(q) = Unanswered(b)
    <3>1. PICK q \in Seq(Requests) :
             /\ Queue(b, q)
             /\ ToSet(q) \cap ToSet(batch[b]) = {}
             /\ ToSet(q) \cup ToSet(batch[b]) = Unanswered(b)
      BY ListFacts DEF QueueOf
    <3>2. ToSet(batch[b]) = {}
      BY <1>3, EmptyList DEF Lists
    <3> QED
      BY <3>1, <3>2
  <2>6. /\ Distinct(q) /\ head[b] = At(q, 1) /\ tail[b] = At(q, Len(q))
        /\ \A i \in 1 .. Len(q) : next[q[i]] = At(q, i + 1)
        /\ DOMAIN q = 1 .. Len(q) /\ Len(q) \in Nat
    BY <2>5 DEF Queue
  <2>7. k \in 1 .. Len(q) /\ k \in 1 .. MaxItems /\ k \in Nat /\ k \in 0 .. Len(q)
    <3>1. k \in 1 .. Len(q) /\ k \in 1 .. MaxItems
      BY <1>0, <2>1, <2>4, <2>5, BatchIsPrefix
    <3> QED
      BY <2>6, <3>1
  <2>8. /\ Queued(b) = [i \in 1 .. MaxItems |-> At(q, i)]
        /\ \A i \in 1 .. MaxItems : Queued(b)[i] = At(q, i)
    <3>1. MaxItems \in Nat
      BY MediaAssumption
    <3> QED
      BY <2>5, <3>1, WalkIsQueue DEF Queued
  <2>9. rest = At(q, k + 1)
    <3>1. Queued(b)[k] = q[k]
      BY <2>6, <2>7, <2>8 DEF At
    <3> QED
      BY <2>2, <2>6, <2>7, <3>1
  <2>10. t = SubSeq(q, 1, k)
    <3>1. \A i \in 1 .. k : Queued(b)[i] = q[i]
      <4>1. \A i \in 1 .. k : i \in 1 .. MaxItems /\ i \in 1 .. Len(q)
        BY <2>6, <2>7, MediaAssumption
      <4> QED
        BY <2>6, <2>8, <4>1 DEF At
    <3>2. Queued(b) \in Seq(Requests \cup {NULL})
      <4>1. \A i \in 1 .. MaxItems : Queued(b)[i] \in Requests \cup {NULL}
        BY <2>5, <2>6, <2>8 DEF At
      <4>2. \A i \in 1 .. MaxItems : At(q, i) \in Requests \cup {NULL}
        BY <2>8, <4>1
      <4> QED
        BY <2>8, <4>2, MediaAssumption
    <3>3. Len(Queued(b)) = MaxItems
      BY <2>8, <3>2, MediaAssumption
    <3>4. /\ t \in Seq(Requests \cup {NULL}) /\ Len(t) = k
          /\ \A i \in 1 .. k : t[i] = Queued(b)[i]
      <4>1. k \in 0 .. Len(Queued(b))
        BY <2>7, <3>3, MediaAssumption
      <4> QED
        BY <2>3, <3>2, <4>1, PrefixMembers
    <3>5. /\ SubSeq(q, 1, k) \in Seq(Requests) /\ Len(SubSeq(q, 1, k)) = k
          /\ \A i \in 1 .. k : SubSeq(q, 1, k)[i] = q[i]
      BY <2>5, <2>7, PrefixMembers
    <3> QED
      BY <3>1, <3>4, <3>5
  <2>11. PICK p : p = SubSeq(q, k + 1, Len(q))
    OBVIOUS
  <2>12. /\ t \in Seq(Requests) /\ Distinct(t) /\ ToSet(t) \subseteq ToSet(q)
         /\ p \in Seq(Requests) /\ Distinct(p) /\ ToSet(p) = ToSet(q) \ ToSet(t)
         /\ Len(p) = Len(q) - k /\ \A j \in 1 .. Len(q) - k : p[j] = q[j + k]
    <3>1. ToSet(t) \subseteq ToSet(q)
      BY <2>5, <2>7, <2>10, PrefixMembers
    <3>2. /\ Lists(Requests, t, ToSet(t)) /\ Lists(Requests, p, ToSet(q) \ ToSet(t))
          /\ Len(p) = Len(q) - k /\ \A j \in 1 .. Len(q) - k : p[j] = q[j + k]
      BY <2>5, <2>6, <2>7, <2>10, <2>11, SplitLists
    <3> QED
      BY <3>1, <3>2 DEF Lists
  <2>13. \A j : At(p, j) = IF j \in 1 .. Len(q) - k THEN q[j + k] ELSE NULL
    BY <2>12 DEF At
  <2>14. ASSUME NEW j \in Nat \ {0}
         PROVE  At(p, j) = At(q, j + k)
    <3>1. j \in 1 .. Len(q) - k <=> j + k \in 1 .. Len(q)
      <4>1. k \in Nat /\ Len(q) \in Nat
        BY <2>6, <2>7
      <4> QED
        BY <4>1
    <3> QED
      BY <2>6, <2>13, <3>1 DEF At
  <2>15. head'[b] = At(p, 1)
    <3>1. 1 + k = k + 1
      BY <2>7
    <3> QED
      BY <1>0, <2>4, <2>9, <2>14, <3>1
  <2>16. tail'[b] = At(p, Len(p))
    <3>1. CASE rest = NULL
      <4>1. k + 1 \notin 1 .. Len(q)
        BY <1>0, <2>5, <2>6, <2>9, <3>1 DEF At
      <4>2. Len(q) - k = 0
        <5>1. k \in 1 .. Len(q) /\ Len(q) \in Nat
          BY <2>6, <2>7
        <5> QED
          BY <4>1, <5>1
      <4>3. At(p, Len(p)) = NULL
        BY <2>12, <2>13, <4>2
      <4> QED
        BY <1>0, <2>4, <3>1, <4>3
    <3>2. CASE rest # NULL
      <4>1. k + 1 \in 1 .. Len(q)
        BY <2>6, <2>9, <3>2 DEF At
      <4>2. Len(p) \in Nat \ {0} /\ Len(p) + k = Len(q)
        <5>1. k \in Nat /\ Len(q) \in Nat /\ Len(p) = Len(q) - k
          BY <2>6, <2>7, <2>12
        <5> QED
          BY <4>1, <5>1
      <4> QED
        BY <2>4, <2>6, <2>14, <3>2, <4>2
    <3> QED
      BY <3>1, <3>2
  <2>17. ASSUME NEW i \in DOMAIN p
         PROVE  next'[p[i]] = At(p, i + 1)
    <3>1. i \in 1 .. Len(q) - k
      BY <2>12
    <3>2. i + k \in 1 .. Len(q) /\ i + 1 \in Nat \ {0} /\ (i + 1) + k = (i + k) + 1
      <4>1. k \in Nat /\ Len(q) \in Nat
        BY <2>6, <2>7
      <4> QED
        BY <3>1, <4>1
    <3>3. p[i] = q[i + k]
      BY <2>12, <3>1
    <3> QED
      BY <1>1, <2>6, <2>14, <3>2, <3>3
  <2>18. QueueOf(b)'
    <3>1. Queue(b, p)'
      BY <2>12, <2>15, <2>16, <2>17 DEF Queue
    <3>2. batch'[b] = t
      BY <1>0, <2>4
    <3>3. /\ ToSet(p) \cap ToSet(batch'[b]) = {}
          /\ ToSet(p) \cup ToSet(batch'[b]) = Unanswered(b)'
      BY <1>2, <2>5, <2>12, <3>2
    <3> QED
      BY <2>12, <3>1, <3>3 DEF QueueOf
  <2>19. ASSUME NEW c \in Batchers, c # b
         PROVE  QueueOf(c)'
    <3>1. head'[c] = head[c] /\ tail'[c] = tail[c] /\ batch'[c] = batch[c]
      BY <1>0, <2>4, <2>19
    <3> QED
      BY <1>1, <1>2, <3>1, ListFacts, QueueStays
  <2>20. ASSUME NEW c \in Batchers
         PROVE  Distinct(batch'[c]) /\ (bpc'[c] # "run" => batch'[c] = <<>>)
    <3>1. CASE c = b
      BY <1>0, <2>4, <2>12, <3>1
    <3>2. CASE c # b
      BY <1>0, <2>4, <3>2, ListFacts
    <3> QED
      BY <3>1, <3>2
  <2>21. ListTypes'
    <3>1. rest \in Requests \cup {NULL}
      BY <2>5, <2>6, <2>9 DEF At
    <3>2. head' \in [Batchers -> Requests \cup {NULL}]
      BY <1>0, <2>4, <3>1
    <3>3. tail' \in [Batchers -> Requests \cup {NULL}]
      BY <1>0, <2>4
    <3>4. batch' \in [Batchers -> Seq(Requests)] /\ bpc' \in [Batchers -> {"top", "wait", "run"}]
      BY <1>0, <2>4, <2>12
    <3> QED
      BY <1>0, <1>1, <3>2, <3>3, <3>4 DEF ListTypes
  <2> QED
    BY <1>4, <2>18, <2>19, <2>20, <2>21 DEF ListInv
<1> QED
  BY <1>5, <1>6

\* A batcher answers its batch: those nodes are no longer its own.
LEMMA ListAnswers ==
    ASSUME Places, ListInv, NEW b \in Batchers, UNCHANGED requestVars, BatcherAnswers(b)
    PROVE  ListInv'
<1>0. /\ batch \in [Batchers -> Seq(Requests)] /\ bpc \in [Batchers -> {"top", "wait", "run"}]
      /\ done \in [Requests -> BOOLEAN] /\ ListTypes
  BY ListFacts DEF ListTypes
<1>1. /\ head' = head /\ tail' = tail /\ next' = next /\ size' = size /\ plan' = plan
      /\ done' = [r \in Requests |-> r \in InBatch(b) \/ done[r]]
      /\ pc' = [r \in Requests |-> IF pc[r] = "wait" /\ Call(r) = b THEN "woken" ELSE pc[r]]
      /\ batch' = [batch EXCEPT ![b] = <<>>]
      /\ bpc' = [bpc EXCEPT ![b] = "top"]
  BY DEF BatcherAnswers, requestVars
<1>2. InBatch(b) = ToSet(batch[b])
  BY DEF InBatch, ToSet
<1>3. PICK q \in Seq(Requests) :
         /\ Queue(b, q)
         /\ ToSet(q) \cap ToSet(batch[b]) = {}
         /\ ToSet(q) \cup ToSet(batch[b]) = Unanswered(b)
  BY ListFacts DEF QueueOf
<1>4. \A v \in ToSet(batch[b]) : v \in Requests /\ pc[v] \in Waits /\ Call(v) = b
  BY <1>3 DEF Unanswered, Waits
<1>5. ASSUME NEW v \in Requests
      PROVE  /\ Call(v)' = Call(v)
             /\ done'[v] <=> v \in ToSet(batch[b]) \/ done[v]
             /\ pc'[v] = IF pc[v] = "wait" /\ Call(v) = b THEN "woken" ELSE pc[v]
  BY <1>1, <1>2 DEF Call
<1>6. \A v \in Requests : pc'[v] \in Waits <=> pc[v] \in Waits
  BY <1>5 DEF Waits
<1>7. Unanswered(b)' = ToSet(q)
  <2>1. \A v \in Requests : v \in Unanswered(b)' <=> v \in Unanswered(b) /\ v \notin ToSet(batch[b])
    BY <1>5, <1>6 DEF Unanswered, Waits
  <2>2. Unanswered(b)' \subseteq Requests /\ Unanswered(b) \subseteq Requests
    BY DEF Unanswered
  <2> QED
    BY <1>3, <2>1, <2>2
<1>8. ASSUME NEW c \in Batchers, c # b
      PROVE  Unanswered(c)' = Unanswered(c)
  <2>1. \A v \in Requests : v \in Unanswered(c)' <=> v \in Unanswered(c)
    BY <1>4, <1>5, <1>6, <1>8 DEF Unanswered, Waits
  <2>2. Unanswered(c)' \subseteq Requests /\ Unanswered(c) \subseteq Requests
    BY DEF Unanswered
  <2> QED
    BY <2>1, <2>2
<1>9. QueueOf(b)'
  <2>1. Queue(b, q)'
    BY <1>1, <1>3 DEF Queue
  <2>2. ToSet(batch'[b]) = {}
    BY <1>0, <1>1, EmptyList DEF Lists
  <2>3. /\ ToSet(q) \cap ToSet(batch'[b]) = {}
        /\ ToSet(q) \cup ToSet(batch'[b]) = Unanswered(b)'
    BY <1>7, <2>2
  <2> QED
    BY <2>1, <2>3 DEF QueueOf
<1>10. ASSUME NEW c \in Batchers, c # b
       PROVE  QueueOf(c)'
  <2>1. head'[c] = head[c] /\ tail'[c] = tail[c] /\ batch'[c] = batch[c] /\ next' = next
    BY <1>0, <1>1, <1>10
  <2> QED
    BY <1>8, <1>10, <2>1, ListFacts, QueueStays
<1>11. ASSUME NEW c \in Batchers
       PROVE  Distinct(batch'[c]) /\ (bpc'[c] # "run" => batch'[c] = <<>>)
  <2>1. Distinct(<<>>)
    BY EmptyList DEF Lists
  <2>2. CASE c = b
    BY <1>0, <1>1, <2>1, <2>2
  <2>3. CASE c # b
    BY <1>0, <1>1, <2>3, ListFacts
  <2> QED
    BY <2>2, <2>3
<1>12. ASSUME NEW v \in Requests
       PROVE  (done'[v] => pc'[v] = "woken") /\ (pc'[v] \notin Waits => next'[v] = NULL)
  <2>1. (done[v] => pc[v] = "woken") /\ (pc[v] \notin Waits => next[v] = NULL)
    BY ListFacts
  <2>2. v \in ToSet(batch[b]) => pc'[v] = "woken"
    BY <1>4, <1>5 DEF Waits
  <2>3. done[v] => pc'[v] = "woken"
    BY <1>5, <2>1
  <2> QED
    BY <1>1, <1>5, <1>6, <2>1, <2>2, <2>3
<1>13. ListTypes'
  <2>1. done' \in [Requests -> BOOLEAN]
    BY <1>1
  <2>2. batch' \in [Batchers -> Seq(Requests)] /\ bpc' \in [Batchers -> {"top", "wait", "run"}]
    BY <1>0, <1>1
  <2> QED
    BY <1>0, <1>1, <2>1, <2>2 DEF ListTypes
<1> QED
  BY <1>9, <1>10, <1>11, <1>12, <1>13 DEF ListInv

\* No step leaves a list with a node of a submitter that has gone, or loses one.
LEMMA ListInvStep == Places /\ ListInv /\ [Next]_vars => ListInv'
<1> SUFFICES ASSUME Places, ListInv, [Next]_vars PROVE ListInv'
  OBVIOUS
<1>0. pc \in [Requests -> RequestPCs] /\ plan \in [Requests -> Seq(Towers)]
  BY DEF Places
<1>1. CASE UNCHANGED vars
  <2>1. UNCHANGED batchVars /\ pc' = pc /\ plan' = plan
    BY <1>1 DEF vars, requestVars
  <2> QED
    BY <2>1, ListsStay
<1>2. ASSUME NEW w \in Waves, Wave(w)
      PROVE  ListInv'
  <2>1. UNCHANGED batchVars /\ plan' = plan
    BY <1>2 DEF Wave, requestVars
  <2>2. pc' = pc \/ WakeTower
    BY <1>2 DEF Wave, WaveWants, WaveLocks, WaveCounted, WaveNotes, WaveEnds
  <2>3. \A v \in Requests : pc'[v] = pc[v] \/ (pc[v] = "yieldWait" /\ pc'[v] = "yieldWoken")
    BY <2>2 DEF WakeTower
  <2> QED
    BY <2>1, <2>3, ListsStay DEF Waits
<1>3. ASSUME NEW r \in Requests, UNCHANGED batchVars, pc[r] \notin Waits,
             NEW l, pc' = [pc EXCEPT ![r] = l], l \notin Waits,
             \A v \in Requests : v # r => plan'[v] = plan[v]
      PROVE  ListInv'
  <2>1. \A v \in Requests : pc'[v] = IF v = r THEN l ELSE pc[v]
    BY <1>0, <1>3
  <2> QED
    BY <1>3, <2>1, ListsStay
<1>4. ASSUME NEW r \in Requests, Layer(r) \/ Yield(r)
      PROVE  ListInv'
  <2>1. UNCHANGED batchVars /\ plan' = plan
    BY <1>4 DEF Layer, Yield, requestVars
  <2>2. /\ pc[r] \notin Waits
        /\ \E l : l \notin Waits /\ pc' = [pc EXCEPT ![r] = l]
    BY <1>4 DEF Layer, TowerLayer, Yield, Yielding, YieldBegin, YieldUnlock, YieldTest, YieldWake,
                YieldRelock, YieldSpurious, YieldTimeout, Goto, Waits
  <2> QED
    BY <1>3, <2>1, <2>2
<1>5. ASSUME NEW r \in Requests,
             \/ Begin(r) \/ SlotLook(r) \/ SlotCompare(r) \/ SlotClaim(r) \/ EnterOuter(r)
             \/ EnterEngine(r) \/ EnterSlot(r) \/ LeaveEngine(r) \/ Abandon(r) \/ Release(r)
      PROVE  ListInv'
  <2>1. UNCHANGED batchVars
    BY <1>5 DEF Begin, SlotLook, SlotCompare, SlotClaim, EnterOuter, EnterEngine, EnterSlot,
                LeaveEngine, Abandon, Release
  <2>2. \/ plan' = plan
        \/ \E p : plan' = [plan EXCEPT ![r] = p]
    <3>1. CASE LeaveEngine(r)
      BY <3>1 DEF LeaveEngine
    <3>2. CASE ~LeaveEngine(r)
      BY <1>5, <3>2 DEF Begin, SlotLook, SlotCompare, SlotClaim, EnterOuter, EnterEngine,
                        EnterSlot, Abandon, Release, requestVars
    <3> QED
      BY <3>1, <3>2
  <2>3. \A v \in Requests : v # r => plan'[v] = plan[v]
    BY <1>0, <2>2
  <2>4. pc[r] \notin Waits
    BY <1>5 DEF Begin, SlotLook, SlotCompare, SlotClaim, EnterOuter, EnterEngine, EnterSlot,
                LeaveEngine, Abandon, Release, Waits
  <2>5. \E l : l \notin Waits /\ pc' = [pc EXCEPT ![r] = l]
    <3>1. CASE EnterEngine(r) \/ EnterSlot(r)
      <4>1. Inside(r) \notin Waits
        BY DEF Inside, Waits
      <4> QED
        BY <3>1, <4>1 DEF EnterEngine, EnterSlot, Goto
    <3>2. CASE Begin(r)
      BY <3>2 DEF Begin, Goto, Waits
    <3>3. CASE LeaveEngine(r)
      BY <3>3 DEF LeaveEngine, Goto, Waits
    <3>4. CASE SlotLook(r) \/ SlotCompare(r) \/ SlotClaim(r) \/ EnterOuter(r) \/ Abandon(r)
               \/ Release(r)
      BY <3>4 DEF SlotLook, SlotCompare, SlotClaim, EnterOuter, Abandon, Release, Goto, Waits
    <3> QED
      BY <1>5, <3>1, <3>2, <3>3, <3>4
  <2> QED
    BY <1>3, <2>1, <2>3, <2>4, <2>5
<1>6. ASSUME NEW b \in Batchers, Batcher(b)
      PROVE  ListInv'
  <2>1. UNCHANGED requestVars /\ (BatcherWaits(b) \/ BatcherTakes(b) \/ BatcherAnswers(b))
    BY <1>6 DEF Batcher
  <2> QED
    BY <2>1, ListTaken, ListAnswers
<1> QED
  BY <1>1, <1>2, <1>4, <1>5, <1>6, StepKinds, ListSubmit, ListAnswered
-----------------------------------------------------------------------------
(* The theorems *)

\* The invariant holds at the start: nobody is anywhere, the lists are empty.
LEMMA EngineInvInit == Init => EngineInv
<1> SUFFICES ASSUME Init PROVE EngineInv
  OBVIOUS
<1>0. /\ layout \in Layouts
      /\ pc = [r \in Requests |-> "idle"] /\ wpc = [w \in Waves |-> "idle"]
      /\ plan = [r \in Requests |-> <<>>] /\ layers = [r \in Requests |-> 0]
      /\ slot = [r \in Requests |-> NULL] /\ done = [r \in Requests |-> FALSE]
      /\ batch = [b \in Batchers |-> <<>>]
  BY DEF Init
<1>1. Places
  <2>1. "idle" \in RequestPCs /\ "idle" \in WavePCs /\ "idle" \in OnCPU /\ "idle" \in OnGPU
        /\ "idle" \notin InTower
    BY DEF RequestPCs, WavePCs, OnCPU, OnGPU, InTower, InYield
  <2>2. <<>> \in Seq(Towers)
    OBVIOUS
  <2> QED
    BY <1>0, <2>1, <2>2 DEF Places
<1>2. CpuInv
  <2>1. CpuTypes
    BY DEF Init, CpuTypes
  <2>2. Mutexes
    <3>1. inference = Free /\ mediaLock = Free /\ handoff = Free /\ Free \notin Requests \cup Waves
      BY MediaAssumption DEF Init
    <3> QED
      BY <1>0, <3>1 DEF Mutexes, UnderMedia, InPool, InYield
  <2>3. HandOver
    <3>1. Counted = [w \in Waves |-> 0]
      BY <1>0 DEF Counted
    <3>2. CountIn(Waves, [w \in Waves |-> 0], 1) = 0
      <4>1. 0 # 1
        OBVIOUS
      <4> QED
        BY <4>1, CountNone
    <3>3. textWaiters = 0
      BY DEF Init
    <3> QED
      BY <1>0, <3>1, <3>2, <3>3 DEF HandOver, InYield
  <2> QED
    BY <2>1, <2>2, <2>3 DEF CpuInv
<1>3. SlotInv
  <2>0. /\ nextSlot = 0 /\ busy = [s \in Slots |-> 0] /\ slotLock = [s \in Slots |-> Free]
        /\ start = [r \in Requests |-> 0] /\ at = [r \in Requests |-> 0]
        /\ seen = [r \in Requests |-> 0]
    BY DEF Init
  <2>1. SlotTypes
    BY <1>0, <2>0 DEF SlotTypes
  <2>2. ASSUME ~CPU
        PROVE  SlotsHeld
    <3>1. 0 \in Slots
      <4>1. SlotCount \in Nat \ {0}
        BY <1>1, <2>2, LayoutFacts
      <4> QED
        BY <4>1 DEF Slots
    <3> QED
      BY <1>0, <2>0, <3>1, MediaAssumption DEF SlotsHeld
  <2>3. SlotsCounted
    <3> SUFFICES ASSUME NEW s \in Slots PROVE busy[s] = CountIn(Requests, AssignedTo, s)
      BY DEF SlotsCounted
    <3>1. AssignedTo = [r \in Requests |-> NULL]
      BY <1>0 DEF AssignedTo
    <3>2. s # NULL
      <4>1. SlotCount \in Nat
        BY <1>1, LayoutFacts
      <4>2. s \in Nat
        BY <4>1 DEF Slots
      <4> QED
        BY <4>2, MediaAssumption
    <3>3. CountIn(Requests, [r \in Requests |-> NULL], s) = 0
      BY <3>2, CountNone
    <3> QED
      BY <2>0, <3>1, <3>3
  <2> QED
    BY <2>1, <2>2, <2>3 DEF SlotInv
<1>4. ListInv
  <2>0. /\ head = [b \in Batchers |-> NULL] /\ tail = [b \in Batchers |-> NULL]
        /\ next = [r \in Requests |-> NULL] /\ size = [r \in Requests |-> 0]
        /\ bpc = [b \in Batchers |-> "top"]
    BY DEF Init
  <2>1. ListTypes
    BY <1>0, <2>0 DEF ListTypes
  <2>2. ToSet(<<>>) = {} /\ Distinct(<<>>) /\ <<>> \in Seq(Requests)
    BY EmptyList DEF Lists
  <2>3. ASSUME NEW b \in Batchers
        PROVE  QueueOf(b) /\ Distinct(batch[b]) /\ (bpc[b] # "run" => batch[b] = <<>>)
    <3>1. Unanswered(b) = {}
      BY <1>0 DEF Unanswered
    <3>2. batch[b] = <<>>
      BY <1>0
    <3>3. Queue(b, <<>>)
      BY <2>0, <2>2 DEF Queue, At
    <3> QED
      BY <2>2, <3>1, <3>2, <3>3 DEF QueueOf
  <2>4. \A r \in Requests : (done[r] => pc[r] = "woken") /\ (pc[r] \notin Waits => next[r] = NULL)
    BY <1>0, <2>0
  <2> QED
    BY <2>1, <2>3, <2>4 DEF ListInv
<1> QED
  BY <1>1, <1>2, <1>3, <1>4 DEF EngineInv

\* The invariant that the four parts make together is kept by every step.
THEOREM EngineInvariant == Spec => []EngineInv
<1>1. Init => EngineInv
  BY EngineInvInit
<1>2. EngineInv /\ [Next]_vars => EngineInv'
  BY PlacesStep, CpuInvStep, SlotInvStep, ListInvStep DEF EngineInv
<1> QED
  BY <1>1, <1>2, PTL DEF Spec

\* Every variable of server.c's sharing of the engine keeps its type: in particular
\* busy never drops below zero and a slot is one of the configured ones.
THEOREM EngineTypes == Spec => []TypeOK
<1>1. EngineInv => TypeOK
  <2> SUFFICES ASSUME EngineInv PROVE TypeOK
    OBVIOUS
  <2>1. Places /\ CpuTypes /\ SlotTypes /\ ListTypes
    BY DEF EngineInv, CpuInv, SlotInv, ListInv
  <2> QED
    BY <2>1 DEF TypeOK, Places, CpuTypes, SlotTypes, ListTypes, WavePCs
<1> QED
  BY <1>1, EngineInvariant, PTL

\* Those that a mutex names are at most one.
LEMMA AtMostOne ==
    ASSUME NEW S, NEW o, S \subseteq {o}
    PROVE  Cardinality(S) <= 1
<1>1. IsFiniteSet({o}) /\ Cardinality({o}) = 1
  BY FS_Singleton
<1>2. Cardinality(S) <= Cardinality({o}) /\ Cardinality(S) \in Nat
  BY <1>1, FS_Subset, FS_CardinalityType
<1> QED
  BY <1>1, <1>2

\* The thread pool and the static tower workspaces of the CPU engine have one user at
\* a time, although cpu_tower_yield gives inference_mutex up inside a tower; the engine
\* context of a slot has one, and media_slot_busy counts the requests assigned to it.
THEOREM EngineIsExclusive == Spec => []EngineExclusive
<1>1. EngineInv => EngineExclusive
  <2> SUFFICES ASSUME EngineInv PROVE EngineExclusive
    OBVIOUS
  <2>0. Places /\ CpuInv /\ SlotInv
    BY DEF EngineInv
  <2>1. Cardinality(PoolUsers) <= 1
    <3>1. CASE CPU
      <4>1. Mutexes
        BY <2>0, <3>1 DEF CpuInv
      <4>2. PoolUsers \subseteq {inference}
        BY <4>1 DEF PoolUsers, Mutexes, InPool
      <4> QED
        BY <4>2, AtMostOne
    <3>2. CASE ~CPU
      <4>1. PoolUsers \subseteq {inference}
        BY <2>0, <3>2 DEF PoolUsers, Places
      <4> QED
        BY <4>1, AtMostOne
    <3> QED
      BY <3>1, <3>2
  <2>2. Cardinality(InTowers) <= 1
    <3>1. InTowers \subseteq {mediaLock}
      <4> SUFFICES ASSUME NEW r \in Requests, CPU, pc[r] \in RequestPCs \ {"idle", "next", "done"}
                   PROVE  r = mediaLock
        BY DEF InTowers
      <4>1. Mutexes
        BY <2>0 DEF CpuInv
      <4>2. pc[r] \in OnCPU
        BY <2>0 DEF Places
      <4>3. pc[r] \in UnderMedia
        BY <4>2 DEF OnCPU
      <4> QED
        BY <4>1, <4>3 DEF Mutexes
    <3> QED
      BY <3>1, AtMostOne
  <2>3. ASSUME NEW s \in Slots
        PROVE  /\ busy[s] = Cardinality(Assigned(s))
               /\ Cardinality({r \in Assigned(s) : pc[r] \in {"tower", "finish"}}) <= 1
    <3>0. ~CPU
      BY <2>0 DEF CPU, Slots, SlotCount, Places
    <3>1. /\ SlotsHeld /\ SlotsCounted /\ NULL \notin Slots
      BY <2>0, <3>0, SlotFacts
    <3>2. Assigned(s) = Where(Requests, AssignedTo, s)
      BY <3>1 DEF Assigned, Where, AssignedTo
    <3>3. busy[s] = Cardinality(Assigned(s))
      BY <3>1, <3>2 DEF SlotsCounted, CountIn
    <3>4. {r \in Assigned(s) : pc[r] \in {"tower", "finish"}} \subseteq {slotLock[s]}
      BY <3>1 DEF SlotsHeld, Assigned
    <3> QED
      BY <3>3, <3>4, AtMostOne
  <2> QED
    BY <2>1, <2>2, <2>3 DEF EngineExclusive
<1> QED
  BY <1>1, EngineInvariant, PTL

\* cpu_tower_yield returns before its timeout only when a text wave has locked
\* inference_mutex since the tower unlocked it.
THEOREM YieldHandsItOver == Spec => []YieldHandsOver
<1>1. EngineInv => YieldHandsOver
  <2> SUFFICES ASSUME EngineInv, NEW r \in Requests, pc[r] = "yieldLock" PROVE taken
    BY DEF YieldHandsOver
  <2>1. Places /\ CpuInv
    BY DEF EngineInv
  <2>2. CPU
    BY <2>1 DEF Places, OnGPU
  <2> QED
    BY <2>1, <2>2 DEF CpuInv, HandOver
<1> QED
  BY <1>1, EngineInvariant, PTL

\* The nodes that a walk longer than any list finds are those of the queue.
LEMMA ChainIsQueue ==
    ASSUME NEW b, NEW q, Queue(b, q)
    PROVE  Chain(b) = ToSet(q)
<1>1. IsFiniteSet(Requests) /\ Cardinality(Requests) \in Nat
  BY MediaAssumption, FS_CardinalityType
<1>2. PICK n \in Nat : n = Cardinality(Requests) + 1
  BY <1>1
<1>3. q \in Seq(Requests) /\ Distinct(q) /\ DOMAIN q = 1 .. Len(q) /\ Len(q) \in Nat
  BY DEF Queue
<1>4. Len(q) <= n
  <2>1. ToSet(q) \subseteq Requests
    BY <1>3, MembersAreCells
  <2>2. Cardinality(ToSet(q)) <= Cardinality(Requests)
    BY <1>1, <2>1, FS_Subset
  <2>3. Cardinality(ToSet(q)) = Len(q)
    BY <1>3, ListCounted
  <2> QED
    BY <1>1, <1>2, <1>3, <2>2, <2>3
<1>5. \A i \in 1 .. n : Walk(b, n)[i] = At(q, i)
  BY WalkIsQueue
<1>6. Chain(b) = {Walk(b, n)[i] : i \in 1 .. n} \ {NULL}
  BY <1>2 DEF Chain
<1>7. \A i \in 1 .. Len(q) : i \in 1 .. n
  BY <1>3, <1>4
<1>8. ASSUME NEW x \in Chain(b)
      PROVE  x \in ToSet(q)
  <2>1. PICK i \in 1 .. n : x = At(q, i) /\ x # NULL
    BY <1>5, <1>6
  <2> QED
    BY <2>1 DEF At, ToSet
<1>9. ASSUME NEW x \in ToSet(q)
      PROVE  x \in Chain(b)
  <2>1. PICK i \in 1 .. Len(q) : x = q[i]
    BY <1>3 DEF ToSet
  <2>2. x = Walk(b, n)[i] /\ i \in 1 .. n
    BY <1>3, <1>5, <1>7, <2>1 DEF At
  <2>3. x # NULL
    BY <1>3, <2>1, MediaAssumption
  <2> QED
    BY <1>6, <2>2, <2>3
<1> QED
  BY <1>8, <1>9

\* The intrusive lists of media_finisher and media_audio_batcher hold exactly the nodes on
\* the stacks of submitters that wait, each once, and tail points at the last of them.
THEOREM NodesAreAlive == Spec => []NodesAlive
<1>1. EngineInv => NodesAlive
  <2> SUFFICES ASSUME EngineInv, NEW b \in Batchers
               PROVE  /\ Chain(b) \cup InBatch(b) = Unanswered(b)
                      /\ Chain(b) \cap InBatch(b) = {}
                      /\ Len(batch[b]) = Cardinality(InBatch(b))
                      /\ IF head[b] = NULL THEN tail[b] = NULL
                         ELSE tail[b] \in Chain(b) /\ next[tail[b]] = NULL
    BY DEF NodesAlive
  <2>0. ListInv /\ ListTypes
    BY DEF EngineInv, ListInv
  <2>1. PICK q \in Seq(Requests) :
           /\ Queue(b, q)
           /\ ToSet(q) \cap ToSet(batch[b]) = {}
           /\ ToSet(q) \cup ToSet(batch[b]) = Unanswered(b)
    BY <2>0, ListFacts DEF QueueOf
  <2>2. Chain(b) = ToSet(q)
    BY <2>1, ChainIsQueue
  <2>3. InBatch(b) = ToSet(batch[b])
    BY DEF InBatch, ToSet
  <2>4. Len(batch[b]) = Cardinality(InBatch(b))
    <3>1. batch[b] \in Seq(Requests) /\ Distinct(batch[b])
      BY <2>0, ListFacts DEF ListTypes
    <3> QED
      BY <2>3, <3>1, ListCounted
  <2>5. IF head[b] = NULL THEN tail[b] = NULL ELSE tail[b] \in Chain(b) /\ next[tail[b]] = NULL
    <3>0. /\ DOMAIN q = 1 .. Len(q) /\ Len(q) \in Nat
          /\ head[b] = At(q, 1) /\ tail[b] = At(q, Len(q))
          /\ \A i \in 1 .. Len(q) : next[q[i]] = At(q, i + 1)
      BY <2>1 DEF Queue
    <3>1. CASE Len(q) = 0
      BY <3>0, <3>1 DEF At
    <3>2. CASE Len(q) # 0
      <4>1. Len(q) \in 1 .. Len(q) /\ Len(q) + 1 \notin 1 .. Len(q) /\ 1 \in 1 .. Len(q)
        BY <3>0, <3>2
      <4>2. tail[b] = q[Len(q)] /\ next[tail[b]] = NULL
        BY <3>0, <4>1 DEF At
      <4>3. tail[b] \in ToSet(q)
        BY <3>0, <4>1, <4>2 DEF ToSet
      <4>4. head[b] = q[1] /\ q[1] \in Requests
        BY <2>1, <3>0, <4>1 DEF At
      <4>5. head[b] # NULL
        BY <4>4, MediaAssumption
      <4> QED
        BY <2>2, <4>2, <4>3, <4>5
    <3> QED
      BY <3>1, <3>2
  <2> QED
    BY <2>1, <2>2, <2>3, <2>4, <2>5
<1> QED
  BY <1>1, EngineInvariant, PTL
=============================================================================
