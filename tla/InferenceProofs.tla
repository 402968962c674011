--------------------------- MODULE InferenceProofs ---------------------------
(***************************************************************************)
(* The slots and the entry table of InferenceService, for every number of  *)
(* clients, slots, devices, sequences and cells.                           *)
(*                                                                         *)
(* Slots: two executions never share one, and in bypass mode a device runs *)
(* at most one long and one short wave.  The inductive invariant adds to   *)
(* the two properties what a thread knows between picking a slot and       *)
(* claiming it: it holds the mutex, the slot is still free, and the device *)
(* is still one the wave may join.  It rests on what the rules of          *)
(* WavePolicy return for every queue and busy set.                         *)
(*                                                                         *)
(* Entries: none of their properties is inductive alone.  That a count     *)
(* never drops below zero needs that it is the number of references; that  *)
(* a freed entry has no pointer left needs that count and that the queue,  *)
(* the waves and the inline runs only hold pending entries; and that they  *)
(* do needs that they are disjoint, because a wave changes the state of    *)
(* its members.                                                            *)
(*                                                                         *)
(* Waves: a slot is only picked for a wave that will have a member, a wave *)
(* stays within the budget of its executor, and an overflow wave leaves    *)
(* the devices their next waves.  Membership is computed twice, when a     *)
(* slot is picked and while the queue is scanned; the inductive invariant  *)
(* says what the scan still knows of the pick: a request that it has not   *)
(* reached yet will join.  Then the counts that collectors wait on, and    *)
(* the order of eviction.                                                  *)
(*                                                                         *)
(* The promise: the service implements SharedAnswers.  Every item that     *)
(* still has to take its answer holds the entry of its own sequence; the   *)
(* table is one answer per sequence because keys are unique; and an item   *)
(* is the last holder of an answer exactly if its entry has one user.      *)
(***************************************************************************)
EXTENDS InferenceService, ListProofs

-----------------------------------------------------------------------------
(* The scheduling rules *)

\* A non-empty set of naturals has a lowest element.
LEMMA LowestNat ==
    ASSUME NEW S \in SUBSET Nat, S # {}
    PROVE  /\ Lowest(S) \in S
           /\ \A r \in S : Lowest(S) <= r
<1> DEFINE T == {0 .. n : n \in S}
           R == StrictSubsetOrdering(Nat)
           F == FiniteSubsetsOf(Nat)
<1>1. T \subseteq F
  <2> SUFFICES ASSUME NEW n \in S PROVE 0 .. n \in F
    OBVIOUS
  <2>1. 0 .. n \in SUBSET Nat
    OBVIOUS
  <2>2. IsFiniteSet(0 .. n)
    BY FS_Interval
  <2> QED
    BY <2>1, <2>2 DEF FiniteSubsetsOf
<1>2. T # {}
  OBVIOUS
<1>3. IsWellFoundedOn(R, F)
  BY FS_StrictSubsetOrderingWellFounded
<1> HIDE DEF T, R, F
<1>4. PICK x \in T : \A y \in T : ~ (<<y, x>> \in R)
  BY <1>1, <1>2, <1>3, WFMin
<1>5. PICK s \in S : x = 0 .. s
  BY <1>4 DEF T
<1>6. \A r \in S : s <= r
  <2> SUFFICES ASSUME NEW r \in S, ~(s <= r) PROVE FALSE
    OBVIOUS
  <2>1. 0 .. r \in SUBSET Nat /\ 0 .. s \in SUBSET Nat
    OBVIOUS
  <2>2. 0 .. r \subseteq 0 .. s /\ s \in 0 .. s /\ s \notin 0 .. r
    OBVIOUS
  <2>3. <<0 .. r, 0 .. s>> \in R
    BY <2>1, <2>2 DEF R, StrictSubsetOrdering
  <2> QED
    BY <2>3, <1>4, <1>5 DEF T
<1> QED
  BY <1>5, <1>6 DEF Lowest

\* The slots of a device are a non-empty set of naturals.
LEMMA GroupSlotsNonEmpty ==
    ASSUME NEW g \in DeviceGroups
    PROVE  /\ GroupSlots(g) \in SUBSET Nat
           /\ GroupSlots(g) # {}
           /\ GroupSlots(g) \subseteq Slots
BY SlotsAssumption DEF DeviceGroups, GroupSlots, DeviceSlots, Slots

\* Devices are natural numbers.
LEMMA DeviceGroupsNat == DeviceGroups \subseteq Nat
<1>1. \A s \in Slots : SlotGroup[s] \in Nat
  BY SlotsAssumption
<1> QED
  BY <1>1 DEF DeviceGroups, DeviceSlots

\* The number of busy slots of a device is a natural number.
LEMMA LoadNat ==
    ASSUME NEW g, NEW busy
    PROVE  Cardinality(BusySlots(g, busy)) \in Nat
<1>1. IsFiniteSet(Slots)
  BY SlotsAssumption, FS_Interval DEF Slots
<1>2. BusySlots(g, busy) \in SUBSET Slots
  BY DEF BusySlots, GroupSlots, DeviceSlots
<1>3. IsFiniteSet(BusySlots(g, busy))
  BY <1>1, <1>2, FS_Subset
<1> QED
  BY <1>3, FS_CardinalityType

\* The least-loaded device is one of the devices to choose from.
LEMMA LeastLoadedIn ==
    ASSUME NEW G \in SUBSET DeviceGroups, G # {}, NEW busy
    PROVE  LeastLoaded(G, busy) \in G
<1> DEFINE load(g) == Cardinality(BusySlots(g, busy))
           loads == {load(g) : g \in G}
           least == {g \in G : load(g) = Lowest(loads)}
<1>1. \A g \in G : load(g) \in Nat
  BY LoadNat
<1>2. Lowest(loads) \in loads /\ \A n \in loads : Lowest(loads) <= n
  <2>1. loads \in SUBSET Nat /\ loads # {}
    BY <1>1
  <2> HIDE DEF loads
  <2> QED
    BY <2>1, LowestNat
<1>3. least \in SUBSET Nat /\ least # {}
  BY <1>2, DeviceGroupsNat
<1>4. Lowest(least) \in least /\ \A g \in least : Lowest(least) <= g
  <2> HIDE DEF least
  <2> QED
    BY <1>3, LowestNat
<1>5. \E g \in G : \A h \in G : load(g) < load(h) \/ (load(g) = load(h) /\ g <= h)
  <2> DEFINE m == Lowest(least)
  <2>1. m \in G /\ load(m) = Lowest(loads)
    BY <1>4
  <2>2. ASSUME NEW h \in G
        PROVE  load(m) < load(h) \/ (load(m) = load(h) /\ m <= h)
    <3>1. load(m) <= load(h)
      BY <1>2, <2>1
    <3>2. load(m) = load(h) => m <= h
      BY <1>4, <2>1
    <3>3. load(m) \in Nat /\ load(h) \in Nat
      BY <1>1, <2>1
    <3> HIDE DEF load, m
    <3> QED
      BY <3>1, <3>2, <3>3
  <2> HIDE DEF m
  <2> QED
    BY <2>1, <2>2
<1> QED
  BY <1>5 DEF LeastLoaded

\* The lowest slot of a non-empty set of slots is one of them.
LEMMA LowestSlot ==
    ASSUME NEW S \in SUBSET Slots, S # {}
    PROVE  Lowest(S) \in S
<1>1. S \in SUBSET Nat
  BY SlotsAssumption DEF Slots
<1> QED
  BY <1>1, LowestNat

\* A wave starts on a free slot, and the slot belongs to what the wave is: an
\* idle device or (without bypass) one that has a free slot, a device running
\* only long waves, or the overflow executors.
LEMMA PickedSlot ==
    ASSUME NEW lens, NEW busy \in SUBSET Slots, NEW long,
           CanStartWave(lens, busy, long)
    PROVE  LET p == PickSlot(lens, busy, long)
           IN  /\ p.slot \in Slots \ busy
               /\ p.wave \in {"ANY", "SHORT", "OVERFLOW"}
               /\ BypassMode /\ p.wave = "ANY" =>
                      \E g \in DeviceGroups : /\ BusySlots(g, busy) = {}
                                              /\ p.slot = Lowest(GroupSlots(g))
                                              /\ p.slot \in GroupSlots(g)
               /\ p.wave = "SHORT" =>
                      \E g \in DeviceGroups : /\ BusySlots(g, busy) \subseteq long
                                              /\ p.slot \in GroupSlots(g)
               /\ p.wave = "OVERFLOW" => p.slot \in OverflowSlots
<1> DEFINE p == PickSlot(lens, busy, long)
           idle == IdleGroups(busy)
           open == OpenGroups(lens, busy, long)
           overflow == OverflowSlots \ busy
<1>1. p.wave # "NONE"
  BY DEF CanStartWave
<1>2. lens # <<>>
  BY <1>1 DEF PickSlot, NoWave
<1>3. CASE idle # {}
  <2> DEFINE g == Lowest(idle)
  <2>1. p = [wave |-> "ANY", slot |-> Lowest(GroupSlots(g))]
    BY <1>2, <1>3 DEF PickSlot
  <2>2. g \in idle
    BY <1>3, DeviceGroupsNat, LowestNat DEF IdleGroups
  <2>3. g \in DeviceGroups /\ GroupSlots(g) \cap busy = {}
    BY <2>2 DEF IdleGroups
  <2>4. Lowest(GroupSlots(g)) \in GroupSlots(g) /\ GroupSlots(g) \subseteq Slots
    BY <2>3, GroupSlotsNonEmpty, LowestNat
  <2> HIDE DEF g, p
  <2> QED
    BY <2>1, <2>3, <2>4 DEF p, BusySlots
<1>4. CASE idle = {} /\ open # {} /\ BypassMode
  <2> DEFINE g == Lowest(open)
  <2>1. p = [wave |-> "SHORT", slot |-> Lowest(FreeSlots(g, busy))]
    BY <1>2, <1>4 DEF PickSlot
  <2>2. g \in open
    BY <1>4, DeviceGroupsNat, LowestNat DEF OpenGroups
  <2>3. /\ g \in DeviceGroups /\ FreeSlots(g, busy) # {}
        /\ BusySlots(g, busy) \subseteq long
    BY <1>4, <2>2 DEF OpenGroups
  <2>4. FreeSlots(g, busy) \in SUBSET Slots
    BY <2>3, GroupSlotsNonEmpty DEF FreeSlots
  <2>5. Lowest(FreeSlots(g, busy)) \in FreeSlots(g, busy)
    BY <2>3, <2>4, LowestSlot
  <2> HIDE DEF g, p
  <2>6. Lowest(FreeSlots(g, busy)) \in (Slots \ busy) \cap GroupSlots(g)
    BY <2>4, <2>5 DEF FreeSlots
  <2> QED
    BY <2>1, <2>3, <2>6 DEF p
<1>5. CASE idle = {} /\ open # {} /\ ~BypassMode
  <2> DEFINE g == LeastLoaded(open, busy)
  <2>1. p = [wave |-> "ANY", slot |-> Lowest(FreeSlots(g, busy))]
    BY <1>2, <1>5 DEF PickSlot
  <2>2. g \in open
    BY <1>5, LeastLoadedIn DEF OpenGroups
  <2>3. g \in DeviceGroups /\ FreeSlots(g, busy) # {}
    BY <2>2 DEF OpenGroups
  <2>4. FreeSlots(g, busy) \in SUBSET (Slots \ busy)
    BY <2>3, GroupSlotsNonEmpty DEF FreeSlots
  <2>5. Lowest(FreeSlots(g, busy)) \in Slots \ busy
    BY <2>3, <2>4, LowestSlot
  <2> HIDE DEF g, p
  <2> QED
    BY <1>5, <2>1, <2>5 DEF p
<1>6. CASE idle = {} /\ open = {}
  <2>1. overflow # {} /\ p = [wave |-> "OVERFLOW", slot |-> Lowest(overflow)]
    BY <1>1, <1>2, <1>6 DEF PickSlot, NoWave
  <2>2. overflow \in SUBSET (Slots \ busy)
    BY SlotsAssumption
  <2>3. Lowest(overflow) \in Slots \ busy /\ Lowest(overflow) \in OverflowSlots
    BY <2>1, <2>2, LowestSlot
  <2> HIDE DEF p
  <2> QED
    BY <2>1, <2>3 DEF p
<1> QED
  BY <1>3, <1>4, <1>5, <1>6

-----------------------------------------------------------------------------
(* The inductive invariant *)

SlotTypes ==
    /\ slotMask \subseteq Slots
    /\ longMask \subseteq slotMask
    /\ pc \in [Clients -> ClientPCs]
    /\ soloSlot \in [Clients -> Slots]
    /\ bpc \in [Slots -> BackendPCs]
    /\ slot \in [Slots -> Slots]
    /\ class \in [Slots -> Classes]

ScanHoldsLock == \A t \in Slots : bpc[t] = "scan" => lock = t

\* Bypass lanes as a relation between busy slots.
Lanes ==
    \A g \in DeviceGroups :
        /\ \A s \in longMask : s \in GroupSlots(g) => s = Lowest(GroupSlots(g))
        /\ \A r, s \in (slotMask \ longMask) \cap GroupSlots(g) : r = s

\* A slot s may take a wave of short requests, of long ones, of overflow.
ShortLane(s) ==
    \E g \in DeviceGroups : s \in GroupSlots(g) /\ BusySlots(g, slotMask) \subseteq longMask

LongLane(s) == \E g \in DeviceGroups : s \in GroupSlots(g) /\ s = Lowest(GroupSlots(g))

ScanLanes ==
    \A t \in Slots : bpc[t] = "scan" =>
        /\ class[t] \in {"SHORT", "LONG", "OVERFLOW"}
        /\ class[t] = "SHORT" => ShortLane(slot[t])
        /\ class[t] = "LONG" => LongLane(slot[t])
        /\ class[t] = "OVERFLOW" => slot[t] \in OverflowSlots

SlotInv ==
    /\ SlotTypes
    /\ ScanHoldsLock
    /\ SlotsExclusive
    /\ BypassMode => Lanes /\ ScanLanes

-----------------------------------------------------------------------------
(* What the operators of the scheduler do to the program counters *)

\* Signals and broadcasts neither start nor end an execution or a scan.
SameWork(at, after) ==
    /\ after \in [Slots -> BackendPCs]
    /\ \A t \in Slots : /\ after[t] = "exec" <=> at[t] = "exec"
                        /\ after[t] = "scan" <=> at[t] = "scan"

\* That is what a signal or a broadcast on queue_ready does.
LEMMA SignalSameWork ==
    ASSUME NEW at \in [Slots -> BackendPCs]
    PROVE  /\ SameWork(at, WakeAll(at))
           /\ SameWork(at, AfterRelease(at))
           /\ SignalQueue(at) => SameWork(at, bpc')
<1>1. \A p \in BackendPCs : /\ Woken(p) \in BackendPCs
                            /\ Woken(p) = "exec" <=> p = "exec"
                            /\ Woken(p) = "scan" <=> p = "scan"
  BY DEF Woken, BackendPCs
<1>2. SameWork(at, WakeAll(at)) /\ SameWork(at, at)
  BY <1>1 DEF SameWork, WakeAll
<1>3. SameWork(at, AfterRelease(at))
  BY <1>2 DEF AfterRelease
<1>4. ASSUME SignalQueue(at) PROVE SameWork(at, bpc')
  <2>1. CASE Waiters(at) = {}
    BY <1>2, <1>4, <2>1 DEF SignalQueue
  <2>2. CASE Waiters(at) # {}
    <3>1. PICK t \in Waiters(at) : bpc' = [at EXCEPT ![t] = Woken(at[t])]
      BY <1>4, <2>2 DEF SignalQueue
    <3> QED
      BY <1>1, <3>1 DEF SameWork, Waiters
  <2> QED
    BY <2>1, <2>2
<1> QED
  BY <1>2, <1>3, <1>4

\* A broadcast on entries moves callers from one wait to the loop around it.
LEMMA WakeCallersSameSolo ==
    ASSUME NEW at \in [Clients -> ClientPCs], NEW done
    PROVE  /\ WakeCallers(at, done) \in [Clients -> ClientPCs]
           /\ \A c \in Clients : WakeCallers(at, done)[c] = "solo" <=> at[c] = "solo"
BY DEF WakeCallers, ClientPCs

-----------------------------------------------------------------------------
(* Steps *)

\* A step that claims and releases no slot: the threads that execute or scan
\* afterwards did so before, on the same slots, and a scanner keeps the mutex.
QuietStep ==
    /\ UNCHANGED <<slotMask, longMask, soloSlot>>
    /\ pc' \in [Clients -> ClientPCs]
    /\ bpc' \in [Slots -> BackendPCs]
    /\ slot' \in [Slots -> Slots]
    /\ class' \in [Slots -> Classes]
    /\ \A c \in Clients : pc'[c] = "solo" <=> pc[c] = "solo"
    /\ \A t \in Slots :
          /\ bpc'[t] = "exec" <=> bpc[t] = "exec"
          /\ bpc[t] = "exec" => slot'[t] = slot[t]
          /\ bpc'[t] = "scan" => /\ bpc[t] = "scan"
                                 /\ lock' = t
                                 /\ slot'[t] = slot[t]
                                 /\ class'[t] = class[t]

\* Such a step keeps the slots exclusive.
LEMMA QuietStepPreserves == SlotInv /\ QuietStep => SlotInv'
<1> SUFFICES ASSUME SlotInv, QuietStep PROVE SlotInv'
  OBVIOUS
<1>1. SlotTypes'
  BY DEF SlotInv, SlotTypes, QuietStep
<1>2. ScanHoldsLock'
  BY DEF QuietStep, ScanHoldsLock
<1>3. SlotsExclusive'
  <2>1. Executing' = Executing /\ Soloing' = Soloing
    BY DEF QuietStep, Executing, Soloing
  <2>2. {slot'[t] : t \in Executing} = {slot[t] : t \in Executing}
    BY DEF QuietStep, Executing
  <2>3. \A t \in Executing : slot'[t] = slot[t]
    BY DEF QuietStep, Executing
  <2>4. \A t \in Slots : bpc'[t] = "scan" => slot'[t] \notin slotMask
    BY DEF SlotInv, SlotsExclusive, QuietStep
  <2> QED
    BY <2>1, <2>2, <2>3, <2>4 DEF SlotInv, SlotsExclusive, QuietStep
<1>4. ASSUME BypassMode PROVE Lanes' /\ ScanLanes'
  <2>1. Lanes /\ ScanLanes
    BY <1>4 DEF SlotInv
  <2>2. Lanes'
    BY <2>1 DEF QuietStep, Lanes
  <2>3. ScanLanes'
    BY <2>1 DEF QuietStep, ScanLanes, ShortLane, LongLane
  <2> QED
    BY <2>2, <2>3
<1> QED
  BY <1>1, <1>2, <1>3, <1>4 DEF SlotInv, BypassMode

\* A slot belongs to one device, and an overflow slot to none.
LEMMA OneDevicePerSlot ==
    /\ \A g, h \in DeviceGroups, s \in Slots :
          s \in GroupSlots(g) /\ s \in GroupSlots(h) => g = h
    /\ \A g \in DeviceGroups, s \in OverflowSlots : s \notin GroupSlots(g)
BY DEF GroupSlots, DeviceSlots

\* Claiming a free slot in a lane of its kind keeps the lanes.
LEMMA ClaimLanes ==
    ASSUME Lanes, longMask \subseteq slotMask,
           NEW s \in Slots, s \notin slotMask, NEW isLong \in BOOLEAN,
           isLong => LongLane(s),
           ~isLong => ShortLane(s) \/ s \in OverflowSlots,
           slotMask' = slotMask \cup {s},
           longMask' = IF isLong THEN longMask \cup {s} ELSE longMask
    PROVE  Lanes'
<1> SUFFICES ASSUME NEW g \in DeviceGroups
             PROVE  /\ \A l \in longMask' : l \in GroupSlots(g) => l = Lowest(GroupSlots(g))
                    /\ \A q, r \in (slotMask' \ longMask') \cap GroupSlots(g) : q = r
  BY DEF Lanes
<1>1. /\ \A l \in longMask : l \in GroupSlots(g) => l = Lowest(GroupSlots(g))
      /\ \A q, r \in (slotMask \ longMask) \cap GroupSlots(g) : q = r
  BY DEF Lanes
<1>2. CASE isLong
  <2>1. s \in GroupSlots(g) => s = Lowest(GroupSlots(g))
    BY <1>2, OneDevicePerSlot DEF LongLane
  <2>2. (slotMask' \ longMask') = (slotMask \ longMask)
    BY <1>2
  <2> QED
    BY <1>1, <1>2, <2>1, <2>2
<1>3. CASE ~isLong
  <2>1. (slotMask' \ longMask') = (slotMask \ longMask) \cup {s}
    BY <1>3
  <2>2. s \in GroupSlots(g) => (slotMask \ longMask) \cap GroupSlots(g) = {}
    BY <1>3, OneDevicePerSlot DEF ShortLane, BusySlots
  <2> QED
    BY <1>1, <1>3, <2>1, <2>2
<1> QED
  BY <1>2, <1>3

\* Releasing a slot keeps the lanes.
LEMMA ReleaseLanes ==
    ASSUME Lanes, NEW s, ReleaseSlot(s)
    PROVE  Lanes'
BY DEF Lanes, ReleaseSlot

\* The slot a thread picks and the class of its wave.
LEMMA PickedLane ==
    ASSUME SlotTypes, CanStart
    PROVE  /\ Pick.slot \in Slots \ slotMask
           /\ Pick.wave \in {"ANY", "SHORT", "OVERFLOW"}
           /\ BypassMode /\ Pick.wave = "ANY" => ShortLane(Pick.slot) /\ LongLane(Pick.slot)
           /\ Pick.wave = "SHORT" => ShortLane(Pick.slot)
           /\ Pick.wave = "OVERFLOW" => Pick.slot \in OverflowSlots
<1>1. CanStartWave(Lens(queue), slotMask, longMask)
  BY DEF CanStart
<1>2. slotMask \in SUBSET Slots
  BY DEF SlotTypes
<1> DEFINE lens == Lens(queue)
<1>3. Pick = PickSlot(lens, slotMask, longMask)
  BY DEF Pick
<1> HIDE DEF lens
<1>4. CanStartWave(lens, slotMask, longMask)
  BY <1>1 DEF lens
<1>5. /\ Pick.slot \in Slots \ slotMask
      /\ Pick.wave \in {"ANY", "SHORT", "OVERFLOW"}
      /\ BypassMode /\ Pick.wave = "ANY" =>
             \E g \in DeviceGroups : /\ BusySlots(g, slotMask) = {}
                                     /\ Pick.slot = Lowest(GroupSlots(g))
                                     /\ Pick.slot \in GroupSlots(g)
      /\ Pick.wave = "SHORT" =>
             \E g \in DeviceGroups : /\ BusySlots(g, slotMask) \subseteq longMask
                                     /\ Pick.slot \in GroupSlots(g)
      /\ Pick.wave = "OVERFLOW" => Pick.slot \in OverflowSlots
  BY <1>2, <1>3, <1>4, PickedSlot
<1> QED
  BY <1>5 DEF ShortLane, LongLane

\* While the mutex is free or a caller's, no thread scans the queue; while a
\* thread may take it, no other does.
LEMMA NoScanner ==
    ASSUME SlotInv
    PROVE  /\ lock \in Clients \cup {Free} => \A t \in Slots : bpc[t] # "scan"
           /\ \A c \in Clients : MayLock(c) => \A t \in Slots : bpc[t] # "scan"
           /\ \A u \in Slots : MayLock(u) \/ Holds(u) =>
                  \A t \in Slots \ {u} : bpc[t] # "scan"
BY ServiceAssumption DEF SlotInv, ScanHoldsLock, MayLock, Holds

\* The start of a scan.
LEMMA BeginScanPreserves ==
    ASSUME SlotInv, NEW t \in Slots, CanStart, BeginScan(t),
           bpc[t] # "exec", \A u \in Slots \ {t} : bpc[u] # "scan",
           UNCHANGED <<slotMask, longMask, pc, soloSlot>>
    PROVE  SlotInv'
<1>1. SlotTypes
  BY DEF SlotInv
<1>2. /\ Pick.slot \in Slots \ slotMask
      /\ Pick.wave \in {"ANY", "SHORT", "OVERFLOW"}
      /\ BypassMode /\ Pick.wave = "ANY" => ShortLane(Pick.slot) /\ LongLane(Pick.slot)
      /\ Pick.wave = "SHORT" => ShortLane(Pick.slot)
      /\ Pick.wave = "OVERFLOW" => Pick.slot \in OverflowSlots
  BY <1>1, PickedLane
<1> DEFINE w == WaveClass(Pick.wave, Lens(queue)[1], On("lookahead"))
<1>3. /\ w \in Classes
      /\ BypassMode => w \in {"SHORT", "LONG", "OVERFLOW"}
      /\ w = "SHORT" => Pick.wave = "SHORT" \/ (Pick.wave = "ANY" /\ BypassMode)
      /\ w = "LONG" => Pick.wave = "ANY" /\ BypassMode
      /\ w = "OVERFLOW" => Pick.wave = "OVERFLOW"
  BY <1>2 DEF WaveClass, Classes
<1>4. /\ slot' = [slot EXCEPT ![t] = Pick.slot]
      /\ class' = [class EXCEPT ![t] = w]
      /\ bpc' = [bpc EXCEPT ![t] = "scan"]
      /\ lock' = t
  BY DEF BeginScan, BackendAt
<1> HIDE DEF w
<1>5. SlotTypes'
  BY <1>1, <1>2, <1>3, <1>4 DEF SlotTypes, BackendPCs
<1>6. ScanHoldsLock'
  BY <1>1, <1>4 DEF ScanHoldsLock, SlotTypes
<1>7. SlotsExclusive'
  <2>1. Executing' = Executing /\ Soloing' = Soloing /\ t \notin Executing
    BY <1>1, <1>4 DEF SlotTypes, Executing, Soloing
  <2>2. \A u \in Executing : slot'[u] = slot[u]
    BY <1>1, <1>4, <2>1 DEF SlotTypes, Executing
  <2>3. \A u \in Slots : bpc'[u] = "scan" => slot'[u] \notin slotMask
    BY <1>1, <1>2, <1>4 DEF SlotTypes
  <2>4. {slot'[u] : u \in Executing} = {slot[u] : u \in Executing}
    BY <2>2
  <2> QED
    BY <2>1, <2>2, <2>3, <2>4 DEF SlotInv, SlotsExclusive
<1>8. ASSUME BypassMode PROVE Lanes' /\ ScanLanes'
  <2>1. Lanes'
    BY <1>8 DEF SlotInv, Lanes
  <2>2. ScanLanes'
    <3> SUFFICES ASSUME NEW u \in Slots, bpc'[u] = "scan"
                 PROVE  /\ class'[u] \in {"SHORT", "LONG", "OVERFLOW"}
                        /\ class'[u] = "SHORT" => ShortLane(slot[u])'
                        /\ class'[u] = "LONG" => LongLane(slot[u])'
                        /\ class'[u] = "OVERFLOW" => slot'[u] \in OverflowSlots
      BY DEF ScanLanes
    <3>1. u = t
      BY <1>1, <1>4 DEF SlotTypes
    <3>2. class'[u] = w /\ slot'[u] = Pick.slot
      BY <1>1, <1>4, <3>1 DEF SlotTypes
    <3>3. w = "SHORT" => ShortLane(slot[u])'
      BY <1>2, <1>3, <1>8, <3>2 DEF ShortLane
    <3>4. w = "LONG" => LongLane(slot[u])'
      BY <1>2, <1>3, <1>8, <3>2 DEF LongLane
    <3> QED
      BY <1>2, <1>3, <1>8, <3>2, <3>3, <3>4
  <2> QED
    BY <2>1, <2>2
<1> QED
  BY <1>5, <1>6, <1>7, <1>8 DEF SlotInv, BypassMode

\* The end of a scan claims the slot picked at its start.
LEMMA RunWavePreserves ==
    ASSUME SlotInv, NEW t \in Slots, RunWave(t)
    PROVE  SlotInv'
<1>1. SlotTypes /\ bpc[t] = "scan" /\ lock' = Free
  BY DEF SlotInv, RunWave
<1>2. \A u \in Slots \ {t} : bpc[u] # "scan"
  BY NoScanner DEF RunWave
<1>3. UNCHANGED <<pc, soloSlot, slot, class>>
  BY DEF RunWave, clientVars
<1>4. CASE wave[t] = <<>>
  <2>1. bpc' = [bpc EXCEPT ![t] = "top"] /\ UNCHANGED <<slotMask, longMask>>
    BY <1>4 DEF RunWave, BackendAt, slotVars
  <2>2. QuietStep
    BY <1>1, <1>2, <1>3, <2>1 DEF QuietStep, SlotTypes, BackendPCs
  <2> QED
    BY <2>2, QuietStepPreserves
<1>5. CASE wave[t] # <<>>
  <2>1. /\ slotMask' = slotMask \cup {slot[t]}
        /\ longMask' = IF class[t] = "LONG" THEN longMask \cup {slot[t]} ELSE longMask
        /\ bpc' = [bpc EXCEPT ![t] = "exec"]
    BY <1>5 DEF RunWave, BackendAt
  <2>2. slot[t] \in Slots /\ slot[t] \notin slotMask
    BY <1>1 DEF SlotInv, SlotTypes, SlotsExclusive
  <2>3. SlotTypes'
    BY <1>1, <1>3, <2>1, <2>2 DEF SlotTypes, BackendPCs
  <2>4. ScanHoldsLock'
    BY <1>1, <1>2, <2>1 DEF ScanHoldsLock, SlotTypes
  <2>5. SlotsExclusive'
    <3>1. Executing' = Executing \cup {t} /\ Soloing' = Soloing
      BY <1>1, <1>3, <2>1 DEF Executing, Soloing, SlotTypes
    <3>2. \A u \in Slots : bpc'[u] # "scan"
      BY <1>1, <1>2, <2>1 DEF SlotTypes
    <3>3. slotMask = {slot[u] : u \in Executing} \cup {soloSlot[c] : c \in Soloing}
      BY DEF SlotInv, SlotsExclusive
    <3>4. \A u \in Executing : slot[u] # slot[t]
      BY <2>2, <3>3
    <3>5. \A c \in Soloing : soloSlot[c] # slot[t]
      BY <2>2, <3>3
    <3>6. slotMask' = {slot[u] : u \in Executing \cup {t}} \cup {soloSlot[c] : c \in Soloing}
      BY <2>1, <3>3
    <3>7. /\ \A u, v \in Executing : slot[u] = slot[v] => u = v
          /\ \A c, d \in Soloing : soloSlot[c] = soloSlot[d] => c = d
          /\ \A u \in Executing, c \in Soloing : slot[u] # soloSlot[c]
      BY DEF SlotInv, SlotsExclusive
    <3> QED
      BY <1>3, <3>1, <3>2, <3>4, <3>5, <3>6, <3>7 DEF SlotsExclusive
  <2>6. ASSUME BypassMode PROVE Lanes' /\ ScanLanes'
    <3> DEFINE isLong == class[t] = "LONG"
    <3>1. Lanes /\ longMask \subseteq slotMask
      BY <1>1, <2>6 DEF SlotInv, SlotTypes
    <3>2. /\ isLong => LongLane(slot[t])
          /\ ~isLong => ShortLane(slot[t]) \/ slot[t] \in OverflowSlots
      BY <1>1, <2>6 DEF SlotInv, ScanLanes
    <3>3. longMask' = IF isLong THEN longMask \cup {slot[t]} ELSE longMask
      BY <2>1
    <3> HIDE DEF isLong
    <3>4. isLong \in BOOLEAN
      BY DEF isLong
    <3>5. Lanes'
      BY <2>1, <2>2, <3>1, <3>2, <3>3, <3>4, ClaimLanes
    <3>6. ScanLanes'
      BY <1>1, <1>2, <2>1 DEF ScanLanes, SlotTypes
    <3> QED
      BY <3>5, <3>6
  <2> QED
    BY <2>3, <2>4, <2>5, <2>6 DEF SlotInv, BypassMode
<1> QED
  BY <1>4, <1>5

\* An inline wave claims the slot picked in the same critical section.
LEMMA LaunchSoloPreserves ==
    ASSUME SlotInv, NEW c \in Clients, LaunchSolo(c)
    PROVE  SlotInv'
<1>1. SlotTypes /\ pc[c] = "launch"
  BY DEF SlotInv, LaunchSolo
<1>2. \A t \in Slots : bpc[t] # "scan"
  BY NoScanner DEF LaunchSolo, Holds, MayLock
<1> DEFINE n == TokensOf[entries[handles[c][1]].key]
           isLong == BypassMode /\ ~IsShort(n)
<1>3. /\ Pick.wave = "ANY" \/ (Pick.wave = "SHORT" /\ IsShort(n))
      /\ slotMask' = slotMask \cup {Pick.slot}
      /\ longMask' = IF isLong THEN longMask \cup {Pick.slot} ELSE longMask
      /\ soloSlot' = [soloSlot EXCEPT ![c] = Pick.slot]
      /\ pc' = [pc EXCEPT ![c] = "solo"]
      /\ UNCHANGED <<bpc, slot, class>>
  BY DEF LaunchSolo, SoloAllowed, Goto, backendVars
<1> HIDE DEF n
<1>4. CanStart
  BY <1>3 DEF CanStart, CanStartWave, Pick
<1>5. /\ Pick.slot \in Slots \ slotMask
      /\ BypassMode /\ Pick.wave = "ANY" => ShortLane(Pick.slot) /\ LongLane(Pick.slot)
      /\ Pick.wave = "SHORT" => ShortLane(Pick.slot)
  BY <1>1, <1>4, PickedLane
<1>6. SlotTypes'
  BY <1>1, <1>3, <1>5 DEF SlotTypes, ClientPCs
<1>7. ScanHoldsLock'
  BY <1>2, <1>3 DEF ScanHoldsLock
<1>8. SlotsExclusive'
  <2>1. Executing' = Executing /\ Soloing' = Soloing \cup {c} /\ c \notin Soloing
    BY <1>1, <1>3 DEF Executing, Soloing, SlotTypes
  <2>2. slotMask = {slot[u] : u \in Executing} \cup {soloSlot[d] : d \in Soloing}
    BY DEF SlotInv, SlotsExclusive
  <2>3. \A u \in Executing : slot[u] # Pick.slot
    BY <1>5, <2>2
  <2>4. \A d \in Soloing : soloSlot[d] # Pick.slot
    BY <1>5, <2>2
  <2>5. soloSlot'[c] = Pick.slot /\ \A d \in Soloing : soloSlot'[d] = soloSlot[d]
    BY <1>1, <1>3, <2>1 DEF SlotTypes
  <2>6. {soloSlot'[d] : d \in Soloing \cup {c}} = {soloSlot[d] : d \in Soloing} \cup {Pick.slot}
    BY <2>5
  <2>7. /\ \A u, v \in Executing : slot[u] = slot[v] => u = v
        /\ \A b, d \in Soloing : soloSlot[b] = soloSlot[d] => b = d
        /\ \A u \in Executing, d \in Soloing : slot[u] # soloSlot[d]
    BY DEF SlotInv, SlotsExclusive
  <2>8. slotMask' = {slot[u] : u \in Executing} \cup {soloSlot'[d] : d \in Soloing \cup {c}}
    BY <1>3, <2>2, <2>6
  <2>9. /\ \A b, d \in Soloing \cup {c} : soloSlot'[b] = soloSlot'[d] => b = d
        /\ \A u \in Executing, d \in Soloing \cup {c} : slot[u] # soloSlot'[d]
    BY <2>3, <2>4, <2>5, <2>7
  <2> QED
    BY <1>2, <1>3, <2>1, <2>7, <2>8, <2>9 DEF SlotsExclusive
<1>9. ASSUME BypassMode PROVE Lanes' /\ ScanLanes'
  <2>1. Lanes /\ longMask \subseteq slotMask
    BY <1>1, <1>9 DEF SlotInv, SlotTypes
  <2>2. isLong => LongLane(Pick.slot)
    BY <1>3, <1>5
  <2>3. ~isLong => ShortLane(Pick.slot)
    BY <1>3, <1>5, <1>9
  <2> HIDE DEF isLong
  <2>4. isLong \in BOOLEAN
    BY DEF isLong
  <2>5. Lanes'
    BY <1>3, <1>5, <2>1, <2>2, <2>3, <2>4, ClaimLanes
  <2>6. ScanLanes'
    BY <1>2, <1>3 DEF ScanLanes
  <2> QED
    BY <2>5, <2>6
<1> QED
  BY <1>6, <1>7, <1>8, <1>9 DEF SlotInv, BypassMode

\* The end of a wave releases its slot and no other.
LEMMA FinishWavePreserves ==
    ASSUME SlotInv, NEW t \in Slots, NEW success \in BOOLEAN, FinishWave(t, success)
    PROVE  SlotInv'
<1>1. SlotTypes /\ bpc[t] = "exec" /\ lock = Free
  BY DEF SlotInv, FinishWave
<1>2. \A u \in Slots : bpc[u] # "scan"
  BY <1>1, NoScanner
<1>3. /\ slotMask' = slotMask \ {slot[t]}
      /\ longMask' = longMask \ {slot[t]}
      /\ bpc' = [AfterRelease(bpc) EXCEPT ![t] = "top"]
      /\ UNCHANGED <<soloSlot, slot, class>>
  BY DEF FinishWave, ReleaseSlot
<1>4. SameWork(bpc, AfterRelease(bpc))
  BY <1>1, SignalSameWork DEF SlotTypes
<1>5. /\ bpc' \in [Slots -> BackendPCs]
      /\ \A u \in Slots : /\ bpc'[u] = "exec" <=> bpc[u] = "exec" /\ u # t
                          /\ bpc'[u] # "scan"
  BY <1>2, <1>3, <1>4 DEF SameWork, BackendPCs
<1>6. /\ pc' \in [Clients -> ClientPCs]
      /\ \A c \in Clients : pc'[c] = "solo" <=> pc[c] = "solo"
  BY <1>1, WakeCallersSameSolo DEF FinishWave, SlotTypes
<1>7. SlotTypes'
  BY <1>1, <1>3, <1>5, <1>6 DEF SlotTypes
<1>8. ScanHoldsLock'
  BY <1>5 DEF ScanHoldsLock
<1>9. SlotsExclusive'
  <2>1. Executing' = Executing \ {t} /\ Soloing' = Soloing /\ t \in Executing
    BY <1>1, <1>5, <1>6 DEF Executing, Soloing
  <2>2. /\ slotMask = {slot[u] : u \in Executing} \cup {soloSlot[c] : c \in Soloing}
        /\ \A u, v \in Executing : slot[u] = slot[v] => u = v
        /\ \A c, d \in Soloing : soloSlot[c] = soloSlot[d] => c = d
        /\ \A u \in Executing, c \in Soloing : slot[u] # soloSlot[c]
    BY DEF SlotInv, SlotsExclusive
  <2>3. slotMask' = {slot[u] : u \in Executing \ {t}} \cup {soloSlot[c] : c \in Soloing}
    BY <1>3, <2>1, <2>2
  <2> QED
    BY <1>3, <1>5, <2>1, <2>2, <2>3 DEF SlotsExclusive
<1>10. ASSUME BypassMode PROVE Lanes' /\ ScanLanes'
  BY <1>5, <1>10, ReleaseLanes DEF SlotInv, FinishWave, ScanLanes
<1> QED
  BY <1>7, <1>8, <1>9, <1>10 DEF SlotInv, BypassMode

\* The end of an inline wave releases its slot and no other.
LEMMA SoloDonePreserves ==
    ASSUME SlotInv, NEW c \in Clients, NEW success \in BOOLEAN, SoloDone(c, success)
    PROVE  SlotInv'
<1>1. SlotTypes /\ pc[c] = "solo" /\ lock = Free
  BY DEF SlotInv, SoloDone
<1>2. \A u \in Slots : bpc[u] # "scan"
  BY <1>1, NoScanner
<1>3. /\ slotMask' = slotMask \ {soloSlot[c]}
      /\ longMask' = longMask \ {soloSlot[c]}
      /\ soloSlot' = [soloSlot EXCEPT ![c] = 0]
      /\ pc' = [WakeCallers(pc, {handles[c][1]}) EXCEPT ![c] = "await"]
      /\ SignalQueue(AfterRelease(bpc))
      /\ UNCHANGED <<slot, class>>
  BY DEF SoloDone, ReleaseSlot
<1>4. SameWork(bpc, AfterRelease(bpc))
  BY <1>1, SignalSameWork DEF SlotTypes
<1>5. SameWork(AfterRelease(bpc), bpc')
  BY <1>3, <1>4, SignalSameWork DEF SameWork
<1>6. /\ bpc' \in [Slots -> BackendPCs]
      /\ \A u \in Slots : /\ bpc'[u] = "exec" <=> bpc[u] = "exec"
                          /\ bpc'[u] # "scan"
  BY <1>2, <1>4, <1>5 DEF SameWork
<1> DEFINE woken == WakeCallers(pc, {handles[c][1]})
<1>7. /\ woken \in [Clients -> ClientPCs]
      /\ \A d \in Clients : woken[d] = "solo" <=> pc[d] = "solo"
  BY <1>1, WakeCallersSameSolo DEF SlotTypes
<1> HIDE DEF woken
<1>8. /\ pc' \in [Clients -> ClientPCs]
      /\ \A d \in Clients : pc'[d] = "solo" <=> pc[d] = "solo" /\ d # c
  BY <1>3, <1>7 DEF woken, ClientPCs
<1>9. 0 \in Slots
  BY SlotsAssumption DEF Slots
<1>10. SlotTypes'
  BY <1>1, <1>3, <1>6, <1>8, <1>9 DEF SlotTypes
<1>11. ScanHoldsLock'
  BY <1>6 DEF ScanHoldsLock
<1>12. SlotsExclusive'
  <2>1. Executing' = Executing /\ Soloing' = Soloing \ {c} /\ c \in Soloing
    BY <1>1, <1>6, <1>8 DEF Executing, Soloing
  <2>2. /\ slotMask = {slot[u] : u \in Executing} \cup {soloSlot[d] : d \in Soloing}
        /\ \A u, v \in Executing : slot[u] = slot[v] => u = v
        /\ \A b, d \in Soloing : soloSlot[b] = soloSlot[d] => b = d
        /\ \A u \in Executing, d \in Soloing : slot[u] # soloSlot[d]
    BY DEF SlotInv, SlotsExclusive
  <2>3. slotMask' = {slot[u] : u \in Executing} \cup {soloSlot[d] : d \in Soloing \ {c}}
    BY <1>3, <2>1, <2>2
  <2>4. \A d \in Soloing \ {c} : soloSlot'[d] = soloSlot[d]
    BY <1>1, <1>3 DEF SlotTypes, Soloing
  <2>5. {soloSlot'[d] : d \in Soloing \ {c}} = {soloSlot[d] : d \in Soloing \ {c}}
    BY <2>4
  <2> QED
    BY <1>3, <1>6, <2>1, <2>2, <2>3, <2>4, <2>5 DEF SlotsExclusive
<1>13. ASSUME BypassMode PROVE Lanes' /\ ScanLanes'
  BY <1>6, <1>13, ReleaseLanes DEF SlotInv, SoloDone, ScanLanes
<1> QED
  BY <1>10, <1>11, <1>12, <1>13 DEF SlotInv, BypassMode

\* The steps of a caller other than the inline wave.
LEMMA ClientPreserves ==
    ASSUME SlotInv, NEW c \in Clients, Client(c)
    PROVE  SlotInv'
<1> USE DEF Goto, Holds, MayLock, backendVars, slotVars
<1>a. SlotTypes
  BY DEF SlotInv
<1> DEFINE Elsewhere(where) == pc' = [pc EXCEPT ![c] = where]
\* A caller moves between places that are not an inline wave.
<1>b. ASSUME pc[c] # "solo", NEW where \in ClientPCs \ {"solo"}, Elsewhere(where),
             \A t \in Slots : bpc[t] # "scan",
             UNCHANGED <<slotMask, longMask, soloSlot, slot, class>>,
             SameWork(bpc, bpc')
      PROVE  SlotInv'
  <2>1. QuietStep
    BY <1>a, <1>b DEF QuietStep, SlotTypes, SameWork
  <2> QED
    BY <2>1, QuietStepPreserves
<1>c. ASSUME UNCHANGED bpc PROVE SameWork(bpc, bpc')
  BY <1>a, <1>c DEF SameWork, SlotTypes
<1>d. \A t \in Slots : lock \in {Free, c} => bpc[t] # "scan"
  BY NoScanner
<1>1. ASSUME NEW call \in Calls, Arrive(c, call) PROVE SlotInv'
  BY <1>1, <1>b, <1>c, <1>d DEF Arrive, ClientPCs
<1>2. ASSUME NEW call \in Calls, EmbedTokens(c, call) PROVE SlotInv'
  BY <1>2, <1>b, <1>c, <1>d DEF EmbedTokens, ClientPCs
<1>3. CASE NoTokens(c)
  <2>1. SameWork(bpc, bpc')
    BY <1>a, <1>3, SignalSameWork DEF NoTokens, SlotTypes
  <2> QED
    BY <1>3, <2>1, <1>b, <1>d DEF NoTokens, ClientPCs
<1>4. CASE Tokenized(c)
  BY <1>4, <1>b, <1>c, <1>d DEF Tokenized, ClientPCs
<1>5. CASE SubmitHit(c)
  <2>1. PICK e \in Matching(NextItem(c)) : Submitted(c, e)
    BY <1>5 DEF SubmitHit
  <2>2. Elsewhere("launch") \/ Elsewhere("submit")
    BY <2>1 DEF Submitted
  <2> QED
    BY <1>5, <2>1, <2>2, <1>b, <1>c, <1>d DEF SubmitHit, Submitted, ClientPCs
<1>6. CASE SubmitMiss(c)
  <2>1. PICK e : Submitted(c, e)
    BY <1>6 DEF SubmitMiss
  <2>2. Elsewhere("launch") \/ Elsewhere("submit")
    BY <2>1 DEF Submitted
  <2> QED
    BY <1>6, <2>1, <2>2, <1>b, <1>c, <1>d DEF SubmitMiss, Submitted, ClientPCs
<1>7. CASE LaunchSolo(c)
  BY <1>7, LaunchSoloPreserves
<1>8. CASE LaunchSignal(c)
  <2>1. SameWork(bpc, bpc')
    BY <1>a, <1>8, SignalSameWork DEF LaunchSignal, SlotTypes
  <2> QED
    BY <1>8, <2>1, <1>b, <1>d DEF LaunchSignal, ClientPCs
<1>9. ASSUME NEW success \in BOOLEAN, SoloDone(c, success) PROVE SlotInv'
  BY <1>9, SoloDonePreserves
<1>10. CASE AwaitBlock(c)
  BY <1>10, <1>b, <1>c, <1>d DEF AwaitBlock, ClientPCs
<1>11. CASE AwaitTake(c)
  <2>1. \E where \in ClientPCs \ {"solo"} : Elsewhere(where)
    BY <1>11 DEF AwaitTake, ClientPCs
  <2> QED
    BY <1>11, <2>1, <1>b, <1>c, <1>d DEF AwaitTake
<1>12. CASE Return(c)
  BY <1>12, <1>b, <1>c, <1>d DEF Return, ClientPCs
<1> QED
  BY <1>1, <1>2, <1>3, <1>4, <1>5, <1>6, <1>7, <1>8, <1>9, <1>10, <1>11, <1>12 DEF Client

\* The steps of a backend thread.
LEMMA BackendPreserves ==
    ASSUME SlotInv, NEW t \in Slots, Backend(t)
    PROVE  SlotInv'
<1> USE DEF BackendAt, clientVars, slotVars
<1>a. SlotTypes
  BY DEF SlotInv
<1>b. MayLock(t) \/ Holds(t) \/ lock = Free => \A u \in Slots \ {t} : bpc[u] # "scan"
  BY NoScanner
\* The thread moves between places of its loop outside executions and scans.
<1>c. ASSUME bpc[t] \notin {"exec", "scan"}, NEW where \in BackendPCs \ {"exec", "scan"},
             bpc' = [bpc EXCEPT ![t] = where], \A u \in Slots \ {t} : bpc[u] # "scan",
             UNCHANGED <<slotMask, longMask, soloSlot, pc, class>>,
             slot' \in [Slots -> Slots], \A u \in Slots \ {t} : slot'[u] = slot[u]
      PROVE  SlotInv'
  <2>1. QuietStep
    BY <1>a, <1>c DEF QuietStep, SlotTypes
  <2> QED
    BY <2>1, QuietStepPreserves
<1>1. CASE QueueWait(t)
  BY <1>1, <1>a, <1>b, <1>c DEF QueueWait, BackendPCs, SlotTypes
<1>2. CASE Exit(t)
  BY <1>2, <1>a, <1>b, <1>c DEF Exit, BackendPCs, SlotTypes
<1>3. CASE StartCollect(t)
  <2>1. CanStart
    BY <1>3 DEF StartCollect, CanStart, CanStartWave, Pick
  <2>2. Pick.slot \in Slots
    BY <1>a, <2>1, PickedLane
  <2>3. slot' = [slot EXCEPT ![t] = Pick.slot]
    BY <1>3 DEF StartCollect
  <2>4. slot' \in [Slots -> Slots] /\ \A u \in Slots \ {t} : slot'[u] = slot[u]
    BY <1>a, <2>2, <2>3 DEF SlotTypes
  <2> QED
    BY <1>3, <1>b, <1>c, <2>4 DEF StartCollect, BackendPCs
<1>4. CASE StartWave(t)
  BY <1>4, <1>b, BeginScanPreserves DEF StartWave
<1>5. CASE CollectAgain(t)
  BY <1>5, <1>a, <1>b, <1>c DEF CollectAgain, BackendPCs, SlotTypes
<1>6. CASE EndCollect(t)
  <2>1. CASE CanStart
    BY <1>6, <1>b, <2>1, BeginScanPreserves DEF EndCollect
  <2>2. CASE ~CanStart
    BY <1>6, <1>a, <1>b, <1>c, <2>2 DEF EndCollect, BackendPCs, SlotTypes
  <2> QED
    BY <2>1, <2>2
<1>7. ASSUME bpc[t] = "scan", \A u \in Slots \ {t} : bpc[u] # "scan", lock' = lock,
             UNCHANGED <<slotMask, longMask, soloSlot, pc, bpc, slot, class>>
      PROVE  SlotInv'
  <2>1. lock' = t
    BY <1>7 DEF SlotInv, ScanHoldsLock
  <2>2. QuietStep
    BY <1>a, <1>7, <2>1 DEF QuietStep, SlotTypes
  <2> QED
    BY <2>2, QuietStepPreserves
<1>8. CASE ScanTake(t)
  BY <1>8, <1>b, <1>7 DEF ScanTake
<1>9. CASE ScanSkip(t)
  BY <1>9, <1>b, <1>7 DEF ScanSkip
<1>10. CASE RunWave(t)
  BY <1>10, RunWavePreserves
<1>11. ASSUME NEW success \in BOOLEAN, FinishWave(t, success) PROVE SlotInv'
  BY <1>11, FinishWavePreserves
<1> QED
  BY <1>1, <1>2, <1>3, <1>4, <1>5, <1>6, <1>8, <1>9, <1>10, <1>11 DEF Backend, Working

\* The steps of prune_cache, of ei_inference_service_free, and stuttering.
LEMMA OtherPreserves ==
    ASSUME SlotInv, Evict \/ Pruned \/ Stop \/ Destroy \/ Destroyed \/ UNCHANGED vars
    PROVE  SlotInv'
<1>a. SlotTypes
  BY DEF SlotInv
<1>b. ASSUME UNCHANGED <<slotVars, clientVars, backendVars, lock>>
      PROVE  SlotInv'
  <2>1. QuietStep
    BY <1>a, <1>b DEF QuietStep, SlotInv, SlotTypes, ScanHoldsLock,
                      slotVars, clientVars, backendVars
  <2> QED
    BY <2>1, QuietStepPreserves
<1>1. CASE Stop
  <2>1. SameWork(bpc, bpc') /\ \A t \in Slots : bpc[t] # "scan"
    BY <1>a, <1>1, NoScanner, SignalSameWork DEF Stop, SlotTypes
  <2>2. QuietStep
    BY <1>a, <1>1, <2>1 DEF QuietStep, SlotTypes, SameWork, Stop, slotVars, clientVars
  <2> QED
    BY <2>2, QuietStepPreserves
<1>2. CASE Evict
  BY <1>b, <1>2 DEF Evict
<1>3. CASE Pruned
  BY <1>b, <1>3 DEF Pruned
<1>4. CASE Destroy
  BY <1>b, <1>4 DEF Destroy
<1>5. CASE Destroyed \/ UNCHANGED vars
  BY <1>b, <1>5 DEF Destroyed, vars
<1> QED
  BY <1>1, <1>2, <1>3, <1>4, <1>5

-----------------------------------------------------------------------------
(* Theorems *)

\* The invariant holds initially.
LEMMA SlotInit == Init => SlotInv
<1> SUFFICES ASSUME Init PROVE SlotInv
  OBVIOUS
<1>1. 0 \in Slots
  BY SlotsAssumption DEF Slots
<1>2. SlotTypes
  BY <1>1 DEF Init, SlotTypes, ClientPCs, BackendPCs, Classes
<1>3. Executing = {} /\ Soloing = {} /\ \A t \in Slots : bpc[t] # "scan"
  BY DEF Init, Executing, Soloing
<1>4. SlotsExclusive
  BY <1>3 DEF Init, SlotsExclusive
<1>5. ScanHoldsLock /\ ScanLanes /\ Lanes
  BY <1>3 DEF Init, ScanHoldsLock, ScanLanes, Lanes
<1> QED
  BY <1>2, <1>4, <1>5 DEF SlotInv

\* Every step keeps it.
LEMMA SlotStep == SlotInv /\ [Next]_vars => SlotInv'
<1> SUFFICES ASSUME SlotInv, [Next]_vars PROVE SlotInv'
  OBVIOUS
<1> QED
  BY ClientPreserves, BackendPreserves, OtherPreserves DEF Next

\* The inductive invariant holds in every reachable state.
THEOREM SlotInvariance == Spec => []SlotInv
<1> QED
  BY SlotInit, SlotStep, PTL DEF Spec

\* Executions in flight, on backend threads or inline, never share a slot, and
\* slot_mask is exactly the set of their slots: claim_slot_locked never dies.
THEOREM ExclusiveSlots == Spec => []SlotsExclusive
<1>1. SlotInv => SlotsExclusive
  BY DEF SlotInv
<1> QED
  BY <1>1, SlotInvariance, PTL

\* In bypass mode a device runs at most one long wave, on its first slot, and
\* at most one short wave.
THEOREM LanesKept == Spec => []BypassLanes
<1>1. SlotInv => BypassLanes
  <2> SUFFICES ASSUME SlotInv, BypassMode, NEW g \in DeviceGroups
               PROVE  LET busy == BusySlots(g, slotMask)
                      IN  /\ busy \cap longMask \subseteq {Lowest(GroupSlots(g))}
                          /\ Cardinality(busy \ longMask) <= 1
    BY DEF BypassLanes
  <2> DEFINE busy == BusySlots(g, slotMask)
             shorts == busy \ longMask
  <2>1. Lanes
    BY DEF SlotInv
  <2>2. busy \cap longMask \subseteq {Lowest(GroupSlots(g))}
    BY <2>1 DEF Lanes, BusySlots
  <2>3. \A r, s \in shorts : r = s
    BY <2>1 DEF Lanes, BusySlots
  <2>4. Cardinality(shorts) <= 1
    <3> HIDE DEF shorts
    <3>1. CASE shorts = {}
      BY <3>1, FS_EmptySet
    <3>2. CASE shorts # {}
      <4>1. PICK s : s \in shorts
        BY <3>2
      <4>2. shorts = {s}
        BY <2>3, <4>1
      <4> QED
        BY <4>2, FS_Singleton
    <3> QED
      BY <3>1, <3>2
  <2> QED
    BY <2>2, <2>4
<1> QED
  BY <1>1, SlotInvariance, PTL

(***************************************************************************)
(* The entry table: entries are shared by key, counted, never freed under  *)
(* a pointer, and a pending one is in exactly one place.                   *)
(***************************************************************************)

\* Unlinking an entry that is in the list, or is not.
LEMMA WithoutLists ==
    ASSUME NEW s \in Seq(Cells), Distinct(s), NEW e
    PROVE  /\ Lists(Cells, Without(s, e), ToSet(s) \ {e})
           /\ e \in ToSet(s) => Len(Without(s, e)) = Len(s) - 1
           /\ e \notin ToSet(s) => Without(s, e) = s
<1>1. CASE e \in ToSet(s)
  <2> DEFINE i == CHOOSE i \in DOMAIN s : s[i] = e
  <2>1. i \in 1 .. Len(s) /\ s[i] = e
    BY <1>1 DEF ToSet
  <2>2. Without(s, e) = RemoveAt(s, i)
    BY <1>1 DEF Without
  <2> HIDE DEF i
  <2>3. Lists(Cells, RemoveAt(s, i), ToSet(s) \ {s[i]})
    BY <2>1, RemoveLists
  <2>4. Len(RemoveAt(s, i)) = Len(s) - 1
    BY <2>1, RemoveAtShifts
  <2> QED
    BY <1>1, <2>1, <2>2, <2>3, <2>4
<1>2. CASE e \notin ToSet(s)
  BY <1>2 DEF Without, Lists
<1> QED
  BY <1>1, <1>2

\* lru_push_front of an entry that is in the list already.
LEMMA PushFrontLists ==
    ASSUME NEW s \in Seq(Cells), Distinct(s), NEW e \in ToSet(s)
    PROVE  Lists(Cells, PushFront(s, e), ToSet(s)) /\ Len(PushFront(s, e)) = Len(s)
<1>1. e \in Cells
  BY MembersAreCells
<1>2. /\ Lists(Cells, Without(s, e), ToSet(s) \ {e})
      /\ Len(Without(s, e)) = Len(s) - 1
  BY WithoutLists
<1>3. /\ <<e>> \in Seq(Cells) /\ Distinct(<<e>>) /\ ToSet(<<e>>) = {e} /\ Len(<<e>>) = 1
  BY <1>1 DEF Distinct, ToSet
<1>4. Lists(Cells, <<e>> \o Without(s, e), {e} \cup (ToSet(s) \ {e}))
  <2> DEFINE front == <<e>>
             rest == Without(s, e)
  <2>1. /\ front \in Seq(Cells) /\ Distinct(front) /\ ToSet(front) = {e}
        /\ rest \in Seq(Cells) /\ Distinct(rest) /\ ToSet(rest) = ToSet(s) \ {e}
    BY <1>2, <1>3 DEF Lists
  <2> HIDE DEF front, rest
  <2>2. Lists(Cells, front \o rest, ToSet(front) \cup ToSet(rest))
    BY <2>1, ConcatLists
  <2> QED
    BY <2>1, <2>2 DEF front, rest
<1>5. Len(<<e>> \o Without(s, e)) = Len(s)
  BY <1>2, <1>3 DEF Lists
<1>6. {e} \cup (ToSet(s) \ {e}) = ToSet(s)
  OBVIOUS
<1> QED
  BY <1>4, <1>5, <1>6 DEF PushFront

\* qsort of a wave keeps its members.
LEMMA ArrangementLists ==
    ASSUME NEW w \in Seq(Cells), Distinct(w), NEW r \in Arrangements(w)
    PROVE  Lists(Cells, r, ToSet(w)) /\ Len(r) = Len(w)
<1>1. CASE ~On("sort")
  BY <1>1 DEF Arrangements, Lists
<1>2. CASE On("sort")
  <2> DEFINE D == 1 .. Len(w)
  <2>1. DOMAIN w = D
    OBVIOUS
  <2>2. PICK p \in Bijection(D, D) : r = [i \in D |-> w[p[i]]]
    BY <1>2, <2>1 DEF Arrangements
  <2>3. p \in [D -> D] /\ \A x \in D : \E y \in D : p[y] = x
    BY <2>2 DEF Bijection, Surjection
  <2>4. \A i, j \in D : p[i] = p[j] => i = j
    BY <2>2 DEF Bijection, Injection, IsInjective
  <2>5. r \in Seq(Cells) /\ Len(r) = Len(w) /\ DOMAIN r = D
    BY <2>2, <2>3
  <2>6. Distinct(r)
    <3> SUFFICES ASSUME NEW i \in D, NEW j \in D, r[i] = r[j]
                 PROVE  i = j
      BY <2>5 DEF Distinct
    <3>1. w[p[i]] = w[p[j]]
      BY <2>2
    <3>2. p[i] = p[j]
      BY <2>1, <2>3, <3>1 DEF Distinct
    <3> QED
      BY <2>4, <3>2
  <2>7. ToSet(r) = ToSet(w)
    BY <2>1, <2>2, <2>3, <2>5 DEF ToSet
  <2> QED
    BY <2>5, <2>6, <2>7 DEF Lists
<1> QED
  BY <1>1, <1>2

-----------------------------------------------------------------------------
(* The inductive invariant *)

Pending(e) == entries[e] # NoEntry /\ entries[e].state = "PENDING"
Ready(e) == entries[e] # NoEntry /\ entries[e].state = "READY"

TableTypes ==
    /\ entries \in [Cells -> EntryType \cup {NoEntry}]
    /\ queue \in Seq(Cells)
    /\ lru \in Seq(Cells)
    /\ handles \in [Clients -> Seq(Cells)]
    /\ index \in [Clients -> Nat \ {0}]
    /\ wave \in [Slots -> Seq(Cells)]

QueuePending ==
    /\ Distinct(queue)
    /\ \A e \in ToSet(queue) : Pending(e)

WavesPending ==
    \A t \in Slots :
        /\ Distinct(wave[t])
        /\ wave[t] # <<>> => bpc[t] \in {"scan", "exec"}
        /\ \A e \in ToSet(wave[t]) :
              /\ Pending(e)
              /\ e \notin ToSet(queue)
              /\ \A u \in Slots : e \in ToSet(wave[u]) => u = t

SolosPending ==
    \A c \in Clients : pc[c] = "solo" =>
        /\ Pending(handles[c][1])
        /\ handles[c][1] \notin ToSet(queue)
        /\ \A t \in Slots : handles[c][1] \notin ToSet(wave[t])
        /\ \A d \in Clients : pc[d] = "solo" /\ handles[d][1] = handles[c][1] => d = c

\* A pending entry is not lost.
PendingHeld ==
    \A e \in Cells : Pending(e) =>
        \/ e \in ToSet(queue)
        \/ \E t \in Slots : e \in ToSet(wave[t])
        \/ \E c \in Clients : pc[c] = "solo" /\ handles[c][1] = e

LruReady ==
    /\ Distinct(lru)
    /\ \A e \in Cells : e \in ToSet(lru) <=> Ready(e)
    /\ readyEntries = Len(lru)

Counted ==
    \A e \in Cells :
        /\ entries[e] = NoEntry => References(e) = {}
        /\ entries[e] # NoEntry =>
              /\ IsFiniteSet(References(e))
              /\ entries[e].users = Cardinality(References(e))
              /\ entries[e].state # "READY" => entries[e].users > 0

KeysUnique ==
    \A e, f \in Cells :
        entries[e] # NoEntry /\ entries[f] # NoEntry /\ entries[e].key = entries[f].key => e = f

WorkInv == QueuePending /\ WavesPending /\ SolosPending /\ PendingHeld

TableInv == TableTypes /\ WorkInv /\ LruReady /\ Counted /\ KeysUnique

\* How far a call has come in its list of items.
CallShape ==
    /\ items \in [Clients -> Seq(Keys)]
    /\ \A c \in Clients :
          /\ pc[c] \in {"idle", "tokenize"} => handles[c] = <<>> /\ index[c] = 1
          /\ pc[c] = "tokenize" => items[c] # <<>>
          /\ pc[c] = "submit" => index[c] = 1 /\ Len(handles[c]) < Len(items[c])
          /\ pc[c] \in {"launch", "solo"} => index[c] = 1 /\ Len(handles[c]) > 0
          /\ pc[c] \in {"await", "doneWait"} => index[c] <= Len(handles[c])
          /\ pc[c] = "return" => index[c] = Len(handles[c]) + 1

\* No call submits to a service that stops, and no thread leaves work behind.
StopShape ==
    /\ stopping => \A c \in Clients : pc[c] \notin {"tokenize", "submit", "launch"}
    /\ \A t \in Slots : bpc[t] = "exited" => stopping /\ queue = <<>>

\* The variables that nothing above depends on.
PlainTypes ==
    /\ pruning \in BOOLEAN
    /\ arriving \in Int /\ active \in Int /\ activePeak \in Int
    /\ stopping \in BOOLEAN
    /\ lock \in Clients \cup Slots \cup {Free}
    /\ ok \in [Clients -> BOOLEAN]
    /\ position \in [Slots -> Nat \ {0}]

EntryInv == TableInv /\ CallShape /\ StopShape /\ PlainTypes

-----------------------------------------------------------------------------
(* Steps that leave parts of the table alone *)

\* The references to an entry, pair by pair.
LEMMA ReferenceMember ==
    ASSUME NEW e, NEW c, NEW i
    PROVE  <<c, i>> \in References(e) <=>
               /\ c \in Clients
               /\ i \in index[c] .. Len(handles[c])
               /\ handles[c][i] = e
BY DEF References

\* Pending entries stay where they are, and no other entry becomes pending.
WorkStays ==
    /\ \A e \in Cells : (entries'[e] # NoEntry /\ entries'[e].state = "PENDING") <=> Pending(e)
    /\ UNCHANGED <<queue, wave>>
    /\ \A c \in Clients : /\ pc'[c] = "solo" <=> pc[c] = "solo"
                          /\ pc[c] = "solo" => handles'[c][1] = handles[c][1]
    /\ \A t \in Slots : bpc[t] \in {"scan", "exec"} => bpc'[t] \in {"scan", "exec"}

\* The first handle of an inline run, and the members of the lists, are cells.
LEMMA WorkCells ==
    ASSUME TableTypes, CallShape
    PROVE  /\ \A c \in Clients : pc[c] \in {"launch", "solo"} => handles[c][1] \in Cells
           /\ ToSet(queue) \subseteq Cells
           /\ ToSet(lru) \subseteq Cells
           /\ \A t \in Slots : ToSet(wave[t]) \subseteq Cells
<1>1. ASSUME NEW c \in Clients, pc[c] \in {"launch", "solo"}
      PROVE  handles[c][1] \in Cells
  <2>1. handles[c] \in Seq(Cells) /\ Len(handles[c]) > 0
    BY <1>1 DEF TableTypes, CallShape
  <2> QED
    BY <2>1
<1>2. ToSet(queue) \subseteq Cells /\ ToSet(lru) \subseteq Cells
  BY MembersAreCells DEF TableTypes
<1>3. \A t \in Slots : wave[t] \in Seq(Cells)
  BY DEF TableTypes
<1>4. \A t \in Slots : ToSet(wave[t]) \subseteq Cells
  BY <1>3, MembersAreCells
<1> QED
  BY <1>1, <1>2, <1>4

\* Such a step keeps every pending entry in its one place.
LEMMA WorkStaysPreserves ==
    ASSUME TableTypes, CallShape, WorkInv, WorkStays
    PROVE  WorkInv'
<1>1. /\ \A c \in Clients : pc[c] = "solo" => handles[c][1] \in Cells
      /\ ToSet(queue) \subseteq Cells
      /\ \A t \in Slots : ToSet(wave[t]) \subseteq Cells
  BY WorkCells
<1>2. \A e \in Cells : Pending(e)' <=> Pending(e)
  BY DEF WorkStays, Pending
<1>3. queue' = queue /\ wave' = wave
  BY DEF WorkStays
<1>4. \A c \in Clients : /\ pc'[c] = "solo" <=> pc[c] = "solo"
                         /\ pc[c] = "solo" => handles'[c][1] = handles[c][1]
  BY DEF WorkStays
<1>5. QueuePending'
  <2>1. \A e \in ToSet(queue) : Pending(e)'
    BY <1>1, <1>2 DEF WorkInv, QueuePending
  <2> QED
    BY <1>3, <2>1 DEF WorkInv, QueuePending, Distinct, ToSet, Pending
<1>6. WavesPending'
  <2>1. \A t \in Slots : \A e \in ToSet(wave[t]) : Pending(e)'
    BY <1>1, <1>2 DEF WorkInv, WavesPending
  <2>2. \A t \in Slots : wave[t] # <<>> => bpc'[t] \in {"scan", "exec"}
    BY DEF WorkInv, WavesPending, WorkStays
  <2> QED
    BY <1>3, <2>1, <2>2 DEF WorkInv, WavesPending, Distinct, ToSet, Pending
<1>7. SolosPending'
  <2> SUFFICES ASSUME NEW c \in Clients, pc'[c] = "solo"
               PROVE  /\ Pending(handles[c][1])'
                      /\ handles'[c][1] \notin ToSet(queue)
                      /\ \A t \in Slots : handles'[c][1] \notin ToSet(wave[t])
                      /\ \A d \in Clients :
                            pc'[d] = "solo" /\ handles'[d][1] = handles'[c][1] => d = c
    BY <1>3 DEF SolosPending, ToSet
  <2>1. pc[c] = "solo" /\ handles'[c][1] = handles[c][1] /\ handles[c][1] \in Cells
    BY <1>1, <1>4
  <2>2. Pending(handles[c][1])'
    BY <2>1, <1>2 DEF WorkInv, SolosPending, Pending
  <2> QED
    BY <1>4, <2>1, <2>2 DEF WorkInv, SolosPending
<1>8. PendingHeld'
  <2> SUFFICES ASSUME NEW e \in Cells, Pending(e)'
               PROVE  \/ e \in ToSet(queue)
                      \/ \E t \in Slots : e \in ToSet(wave[t])
                      \/ \E c \in Clients : pc'[c] = "solo" /\ handles'[c][1] = e
    BY <1>3 DEF PendingHeld, ToSet
  <2>1. Pending(e)
    BY <1>2
  <2> QED
    BY <1>4, <2>1 DEF WorkInv, PendingHeld
<1> QED
  BY <1>5, <1>6, <1>7, <1>8 DEF WorkInv

\* No entry appears or goes and no call refers to another one.
CountsStay ==
    /\ UNCHANGED <<handles, index>>
    /\ \A e \in Cells :
          /\ entries'[e] # NoEntry <=> entries[e] # NoEntry
          /\ entries[e] # NoEntry =>
                /\ entries'[e].users = entries[e].users
                /\ entries'[e].key = entries[e].key
                /\ entries'[e].state # "READY" => entries[e].state # "READY"

\* Such a step keeps the user counts right and the keys unique.
LEMMA CountsStayPreserves ==
    ASSUME TableTypes, Counted, KeysUnique, CountsStay
    PROVE  Counted' /\ KeysUnique'
<1>1. handles' = handles /\ index' = index
  BY DEF CountsStay
<1>2. \A e \in Cells : References(e)' = References(e)
  BY <1>1 DEF References
<1>6. Counted'
  BY <1>2 DEF Counted, CountsStay
<1>7. KeysUnique'
  BY DEF KeysUnique, CountsStay
<1> QED
  BY <1>6, <1>7

\* A step that touches neither the entries nor any pointer to one.
TableQuiet ==
    /\ UNCHANGED <<entries, lru, readyEntries, queue, handles, index, wave>>
    /\ \A c \in Clients : pc'[c] = "solo" <=> pc[c] = "solo"
    /\ \A t \in Slots : bpc[t] \in {"scan", "exec"} => bpc'[t] \in {"scan", "exec"}

\* Such a step keeps the table.
LEMMA TableQuietPreserves ==
    ASSUME TableInv, CallShape, TableQuiet
    PROVE  TableInv'
<1>1. WorkStays
  BY DEF TableQuiet, WorkStays, Pending
<1>2. CountsStay
  BY DEF TableQuiet, CountsStay
<1>3. WorkInv'
  BY <1>1, WorkStaysPreserves DEF TableInv
<1>4. Counted' /\ KeysUnique'
  BY <1>2, CountsStayPreserves DEF TableInv
<1>5. TableTypes'
  BY DEF TableInv, TableTypes, TableQuiet
<1>6. LruReady'
  BY DEF TableInv, LruReady, TableQuiet, Distinct, ToSet, Ready
<1> QED
  BY <1>3, <1>4, <1>5, <1>6 DEF TableInv

-----------------------------------------------------------------------------
(* Waves end: FinishWave and SoloDone *)

\* Answering a list of pending entries.
LEMMA CompletePreserves ==
    ASSUME TableInv, NEW done \in Seq(Cells), Distinct(done),
           \A e \in ToSet(done) : Pending(e),
           NEW success \in BOOLEAN, Complete(done, success),
           UNCHANGED <<handles, index>>
    PROVE  /\ entries' \in [Cells -> EntryType \cup {NoEntry}]
           /\ lru' \in Seq(Cells)
           /\ LruReady' /\ Counted' /\ KeysUnique'
           /\ \A e \in Cells : (entries'[e] # NoEntry /\ entries'[e].state = "PENDING")
                                  <=> Pending(e) /\ e \notin ToSet(done)
<1> DEFINE answer == IF success THEN "READY" ELSE "FAILED"
<1>1. ToSet(done) \subseteq Cells
  BY MembersAreCells
<1>2. \A e \in Cells : entries[e] \in EntryType \cup {NoEntry}
  BY DEF TableInv, TableTypes
<1>3. \A e \in ToSet(done) : entries[e] \in EntryType /\ entries[e] # NoEntry
  BY <1>1, <1>2 DEF Pending
<1>4. \A e \in Cells : entries'[e] =
          IF e \in ToSet(done) THEN [entries[e] EXCEPT !.state = answer] ELSE entries[e]
  BY DEF Complete
<1>5. \A e \in ToSet(done) :
          /\ entries'[e] \in EntryType
          /\ entries'[e].key = entries[e].key
          /\ entries'[e].users = entries[e].users
          /\ entries'[e].state = answer
  <2> SUFFICES ASSUME NEW e \in ToSet(done)
               PROVE  /\ entries'[e] \in EntryType
                      /\ entries'[e].key = entries[e].key
                      /\ entries'[e].users = entries[e].users
                      /\ entries'[e].state = answer
    OBVIOUS
  <2>1. entries'[e] = [entries[e] EXCEPT !.state = answer] /\ entries[e] \in EntryType
    BY <1>1, <1>3, <1>4
  <2> QED
    BY <2>1 DEF EntryType
<1>6. \A e \in ToSet(done) : entries'[e] # NoEntry
  BY <1>5, ServiceAssumption
<1>7. \A e \in Cells \ ToSet(done) : entries'[e] = entries[e]
  BY <1>4
<1>8. entries' \in [Cells -> EntryType \cup {NoEntry}]
  <2>1. entries' = [e \in Cells |-> entries'[e]]
    BY DEF Complete
  <2>2. \A e \in Cells : entries'[e] \in EntryType \cup {NoEntry}
    BY <1>2, <1>5, <1>7
  <2> QED
    BY <2>1, <2>2
<1>9. CountsStay
  BY <1>3, <1>5, <1>6, <1>7 DEF CountsStay, Pending
<1>10. Counted' /\ KeysUnique'
  BY <1>9, CountsStayPreserves DEF TableInv
<1>11. \A e \in Cells : (entries'[e] # NoEntry /\ entries'[e].state = "PENDING")
                           <=> Pending(e) /\ e \notin ToSet(done)
  BY <1>5, <1>6, <1>7 DEF Pending
<1>12. lru' \in Seq(Cells) /\ LruReady'
  <2>1. /\ lru \in Seq(Cells) /\ Distinct(lru) /\ readyEntries = Len(lru)
        /\ \A e \in Cells : e \in ToSet(lru) <=> Ready(e)
    BY DEF TableInv, TableTypes, LruReady
  <2>2. CASE success
    <3>1. lru' = Reverse(done) \o lru /\ readyEntries' = readyEntries + Len(done)
      BY <2>2 DEF Complete
    <3> DEFINE r == Reverse(done)
    <3>2. Lists(Cells, r, ToSet(done)) /\ Len(r) = Len(done)
      BY ReverseLists
    <3> HIDE DEF r
    <3>3. ToSet(done) \cap ToSet(lru) = {}
      BY <1>1, <2>1 DEF Pending, Ready
    <3>4. /\ r \in Seq(Cells) /\ Distinct(r) /\ ToSet(r) = ToSet(done)
      BY <3>2 DEF Lists
    <3>5. Lists(Cells, r \o lru, ToSet(done) \cup ToSet(lru))
      BY <2>1, <3>3, <3>4, ConcatLists
    <3>6. Len(r \o lru) = Len(lru) + Len(done)
      BY <2>1, <3>2, <3>4, ConcatProperties
    <3>7. lru' = r \o lru
      BY <3>1 DEF r
    <3>8. lru' \in Seq(Cells) /\ Distinct(lru)' /\ ToSet(lru)' = ToSet(done) \cup ToSet(lru)
      BY <3>5, <3>7 DEF Lists, Distinct, ToSet
    <3>9. readyEntries' = Len(lru')
      BY <2>1, <3>1, <3>6, <3>7
    <3>10. \A e \in Cells : e \in ToSet(lru)' <=> Ready(e)'
      BY <1>5, <1>6, <1>7, <2>1, <2>2, <3>8 DEF Ready
    <3> QED
      BY <3>8, <3>9, <3>10 DEF LruReady
  <2>3. CASE ~success
    <3>1. lru' = lru /\ readyEntries' = readyEntries
      BY <2>3 DEF Complete
    <3>2. \A e \in Cells : Ready(e)' <=> Ready(e)
      BY <1>5, <1>7, <2>3 DEF Ready, Pending
    <3>3. \A e \in Cells : e \in ToSet(lru)' <=> Ready(e)'
      BY <2>1, <3>1, <3>2 DEF ToSet
    <3> QED
      BY <2>1, <3>1, <3>3 DEF LruReady, Distinct
  <2> QED
    BY <2>2, <2>3
<1> QED
  BY <1>8, <1>10, <1>11, <1>12

\* The end of a wave on a backend thread.
LEMMA FinishWaveTable ==
    ASSUME TableInv, CallShape, SlotInv, NEW t \in Slots, NEW success \in BOOLEAN,
           FinishWave(t, success)
    PROVE  TableInv'
<1> DEFINE done == wave[t]
<1>1. /\ done \in Seq(Cells) /\ Distinct(done) /\ \A e \in ToSet(done) : Pending(e)
  BY DEF TableInv, TableTypes, WorkInv, WavesPending
<1>2. /\ Complete(done, success) /\ UNCHANGED <<handles, index, queue>>
      /\ wave' = [wave EXCEPT ![t] = <<>>]
      /\ pc' = WakeCallers(pc, ToSet(done))
      /\ bpc' = [AfterRelease(bpc) EXCEPT ![t] = "top"]
  BY DEF FinishWave
<1> HIDE DEF done
<1>3. /\ entries' \in [Cells -> EntryType \cup {NoEntry}]
      /\ lru' \in Seq(Cells)
      /\ LruReady' /\ Counted' /\ KeysUnique'
      /\ \A e \in Cells : (entries'[e] # NoEntry /\ entries'[e].state = "PENDING")
                             <=> Pending(e) /\ e \notin ToSet(done)
  BY <1>1, <1>2, CompletePreserves
<1>4. wave' \in [Slots -> Seq(Cells)]
  BY <1>2, EmptyList DEF TableInv, TableTypes, Lists
<1>5. TableTypes'
  BY <1>2, <1>3, <1>4 DEF TableInv, TableTypes
<1>6. \A c \in Clients : pc'[c] = "solo" <=> pc[c] = "solo"
  BY <1>2, WakeCallersSameSolo DEF SlotInv, SlotTypes
<1>7. /\ wave'[t] = <<>> /\ \A u \in Slots \ {t} : wave'[u] = wave[u]
      /\ ToSet(wave'[t]) = {}
  BY <1>2, EmptyList DEF TableInv, TableTypes, Lists
<1>8. /\ \A c \in Clients : pc[c] = "solo" => handles[c][1] \in Cells
      /\ ToSet(queue) \subseteq Cells
      /\ \A u \in Slots : ToSet(wave[u]) \subseteq Cells
  BY WorkCells DEF TableInv
<1>9. QueuePending'
  <2>1. \A e \in ToSet(queue) : Pending(e)'
    BY <1>3, <1>8 DEF TableInv, WorkInv, QueuePending, WavesPending, Pending, done
  <2> QED
    BY <1>2, <2>1 DEF TableInv, WorkInv, QueuePending, Distinct, ToSet, Pending
<1>10. WavesPending'
  <2> SUFFICES ASSUME NEW u \in Slots
               PROVE  /\ Distinct(wave'[u])
                      /\ wave'[u] # <<>> => bpc'[u] \in {"scan", "exec"}
                      /\ \A e \in ToSet(wave'[u]) :
                            /\ Pending(e)'
                            /\ e \notin ToSet(queue)
                            /\ \A v \in Slots : e \in ToSet(wave'[v]) => v = u
    BY <1>2 DEF WavesPending, Distinct, ToSet, Pending
  <2>1. CASE u = t
    BY <1>7, <2>1 DEF Distinct
  <2>2. CASE u # t
    <3>1. wave'[u] = wave[u]
      BY <1>7, <2>2
    <3>2. wave[u] # <<>> => bpc[u] \in {"scan", "exec"}
      BY DEF TableInv, WorkInv, WavesPending
    <3>3. wave'[u] # <<>> => bpc'[u] \in {"scan", "exec"}
      BY <1>2, <2>2, <3>1, <3>2 DEF AfterRelease, WakeAll, Woken, SlotInv, SlotTypes
    <3>4. \A e \in ToSet(wave[u]) : Pending(e)' /\ e \notin ToSet(queue)
      BY <1>3, <1>8, <2>2 DEF TableInv, WorkInv, WavesPending, Pending, done
    <3>5. \A e \in ToSet(wave'[u]) : \A v \in Slots : e \in ToSet(wave'[v]) => v = u
      BY <1>7, <2>2, <3>1 DEF TableInv, WorkInv, WavesPending
    <3> QED
      BY <3>1, <3>3, <3>4, <3>5 DEF TableInv, WorkInv, WavesPending
  <2> QED
    BY <2>1, <2>2
<1>11. SolosPending'
  <2> SUFFICES ASSUME NEW c \in Clients, pc'[c] = "solo"
               PROVE  /\ Pending(handles[c][1])'
                      /\ handles[c][1] \notin ToSet(queue)
                      /\ \A u \in Slots : handles[c][1] \notin ToSet(wave'[u])
                      /\ \A d \in Clients :
                            pc'[d] = "solo" /\ handles[d][1] = handles[c][1] => d = c
    BY <1>2 DEF SolosPending, ToSet
  <2>1. pc[c] = "solo" /\ handles[c][1] \in Cells
    BY <1>6, <1>8
  <2>2. Pending(handles[c][1])'
    BY <1>2, <1>3, <2>1 DEF TableInv, WorkInv, SolosPending, Pending, done
  <2>3. \A u \in Slots : handles[c][1] \notin ToSet(wave'[u])
    BY <1>7, <2>1 DEF TableInv, WorkInv, SolosPending
  <2> QED
    BY <1>6, <2>1, <2>2, <2>3 DEF TableInv, WorkInv, SolosPending
<1>12. PendingHeld'
  <2> SUFFICES ASSUME NEW e \in Cells, Pending(e)'
               PROVE  \/ e \in ToSet(queue)
                      \/ \E u \in Slots : e \in ToSet(wave'[u])
                      \/ \E c \in Clients : pc'[c] = "solo" /\ handles[c][1] = e
    BY <1>2 DEF PendingHeld, ToSet
  <2>1. Pending(e) /\ e \notin ToSet(wave[t])
    BY <1>3 DEF Pending, done
  <2> QED
    BY <1>6, <1>7, <2>1 DEF TableInv, WorkInv, PendingHeld
<1> QED
  BY <1>3, <1>5, <1>9, <1>10, <1>11, <1>12 DEF TableInv, WorkInv

\* The end of an inline wave.
LEMMA SoloDoneTable ==
    ASSUME TableInv, CallShape, SlotInv, NEW c \in Clients, NEW success \in BOOLEAN,
           SoloDone(c, success)
    PROVE  TableInv'
<1> DEFINE mine == handles[c][1]
           done == <<mine>>
<1>1. /\ pc[c] = "solo" /\ Complete(done, success)
      /\ UNCHANGED <<handles, index, queue, wave>>
      /\ pc' = [WakeCallers(pc, {mine}) EXCEPT ![c] = "await"]
  BY DEF SoloDone
<1>2. /\ \A d \in Clients : pc[d] = "solo" => handles[d][1] \in Cells
      /\ ToSet(queue) \subseteq Cells
      /\ \A u \in Slots : ToSet(wave[u]) \subseteq Cells
  BY WorkCells DEF TableInv
<1>3. /\ done \in Seq(Cells) /\ Distinct(done) /\ ToSet(done) = {mine}
  BY <1>1, <1>2 DEF Distinct, ToSet
<1>4. Pending(mine)
  BY <1>1 DEF TableInv, WorkInv, SolosPending
<1> HIDE DEF done, mine
<1>5. \A e \in ToSet(done) : Pending(e)
  BY <1>3, <1>4 DEF Pending
<1>6. /\ entries' \in [Cells -> EntryType \cup {NoEntry}]
      /\ lru' \in Seq(Cells)
      /\ LruReady' /\ Counted' /\ KeysUnique'
      /\ \A e \in Cells : (entries'[e] # NoEntry /\ entries'[e].state = "PENDING")
                             <=> Pending(e) /\ e \notin ToSet(done)
  BY <1>1, <1>3, <1>5, CompletePreserves
<1>7. TableTypes'
  BY <1>1, <1>6 DEF TableInv, TableTypes
<1>8. \A e \in Cells : Pending(e)' <=> Pending(e) /\ e # mine
  BY <1>3, <1>6 DEF Pending
<1>9. \A d \in Clients : pc'[d] = "solo" <=> pc[d] = "solo" /\ d # c
  BY <1>1, WakeCallersSameSolo DEF SlotInv, SlotTypes
<1>10. mine \notin ToSet(queue) /\ \A u \in Slots : mine \notin ToSet(wave[u])
  BY <1>1 DEF TableInv, WorkInv, SolosPending, mine
<1>11. \A d \in Clients : pc'[d] = "solo" => handles[d][1] # mine
  BY <1>1, <1>9 DEF TableInv, WorkInv, SolosPending, mine
<1>12. QueuePending'
  <2>1. \A e \in ToSet(queue) : Pending(e)'
    BY <1>2, <1>8, <1>10 DEF TableInv, WorkInv, QueuePending
  <2> QED
    BY <1>1, <2>1 DEF TableInv, WorkInv, QueuePending, Distinct, ToSet, Pending
<1>13. WavesPending'
  <2>1. \A u \in Slots : \A e \in ToSet(wave[u]) : Pending(e)'
    BY <1>2, <1>8, <1>10 DEF TableInv, WorkInv, WavesPending
  <2>2. \A u \in Slots : bpc'[u] \in {"scan", "exec"} <=> bpc[u] \in {"scan", "exec"}
    <3> DEFINE at == AfterRelease(bpc)
    <3>1. SameWork(bpc, at) /\ at \in [Slots -> BackendPCs]
      BY DEF AfterRelease, WakeAll, Woken, SameWork, SlotInv, SlotTypes, BackendPCs
    <3> HIDE DEF at
    <3>2. SignalQueue(at)
      BY DEF SoloDone, at
    <3>3. SameWork(at, bpc')
      BY <3>1, <3>2, SignalSameWork
    <3> QED
      BY <3>1, <3>3 DEF SameWork
  <2> QED
    BY <1>1, <2>1, <2>2 DEF TableInv, WorkInv, WavesPending, Distinct, ToSet, Pending
<1>14. SolosPending'
  <2> SUFFICES ASSUME NEW d \in Clients, pc'[d] = "solo"
               PROVE  /\ Pending(handles[d][1])'
                      /\ handles[d][1] \notin ToSet(queue)
                      /\ \A u \in Slots : handles[d][1] \notin ToSet(wave[u])
                      /\ \A b \in Clients :
                            pc'[b] = "solo" /\ handles[b][1] = handles[d][1] => b = d
    <3>1. handles' = handles /\ queue' = queue /\ wave' = wave
      BY <1>1
    <3> QED
      BY <3>1 DEF SolosPending, ToSet
  <2>1. pc[d] = "solo" /\ handles[d][1] \in Cells /\ handles[d][1] # mine
    BY <1>2, <1>9, <1>11
  <2>2. Pending(handles[d][1])'
    BY <1>1, <1>8, <2>1 DEF TableInv, WorkInv, SolosPending, Pending
  <2> QED
    BY <1>9, <2>1, <2>2 DEF TableInv, WorkInv, SolosPending
<1>15. PendingHeld'
  <2> SUFFICES ASSUME NEW e \in Cells, Pending(e)'
               PROVE  \/ e \in ToSet(queue)
                      \/ \E u \in Slots : e \in ToSet(wave[u])
                      \/ \E d \in Clients : pc'[d] = "solo" /\ handles[d][1] = e
    BY <1>1 DEF PendingHeld, ToSet
  <2>1. Pending(e) /\ e # mine
    BY <1>8
  <2> QED
    BY <1>9, <2>1 DEF TableInv, WorkInv, PendingHeld, mine
<1> QED
  BY <1>6, <1>7, <1>12, <1>13, <1>14, <1>15 DEF TableInv, WorkInv

-----------------------------------------------------------------------------
(* Pending entries move: LaunchSolo, ScanTake, RunWave *)

\* A caller takes the only entry of the queue for an inline run.
LEMMA LaunchSoloTable ==
    ASSUME TableInv, CallShape, SlotInv, NEW c \in Clients, LaunchSolo(c)
    PROVE  TableInv'
<1> DEFINE mine == handles[c][1]
<1>1. /\ pc[c] = "launch" /\ pc' = [pc EXCEPT ![c] = "solo"]
      /\ queue' = <<>>
      /\ UNCHANGED <<entries, lru, readyEntries, handles, index, wave, bpc>>
  BY DEF LaunchSolo, Goto, tableVars, backendVars
<1>2. queue = <<mine>>
  BY DEF LaunchSolo, SoloAllowed
<1>3. mine \in Cells
  BY <1>1, WorkCells DEF TableInv
<1>4. ToSet(queue) = {mine}
  BY <1>2, <1>3 DEF ToSet
<1>5. Pending(mine) /\ \A t \in Slots : mine \notin ToSet(wave[t])
  BY <1>3, <1>4 DEF TableInv, WorkInv, QueuePending, WavesPending
<1>6. \A d \in Clients : pc'[d] = "solo" <=> pc[d] = "solo" \/ d = c
  BY <1>1 DEF SlotInv, SlotTypes
<1>7. \A d \in Clients : pc[d] = "solo" => handles[d][1] # mine
  BY <1>4 DEF TableInv, WorkInv, SolosPending
<1>8. ToSet(queue)' = {} /\ Distinct(queue)'
  BY <1>1, EmptyList DEF Lists, Distinct, ToSet
<1>9. \A e : Pending(e)' <=> Pending(e)
  BY <1>1 DEF Pending
<1>10. TableTypes'
  BY <1>1, EmptyList DEF TableInv, TableTypes, Lists
<1>11. CountsStay
  BY <1>1 DEF CountsStay
<1>12. Counted' /\ KeysUnique'
  BY <1>11, CountsStayPreserves DEF TableInv
<1>13. LruReady'
  BY <1>1 DEF TableInv, LruReady, Distinct, ToSet, Ready
<1>14. QueuePending'
  BY <1>8 DEF QueuePending
<1>15. WavesPending'
  BY <1>1, <1>8 DEF TableInv, WorkInv, WavesPending, Distinct, ToSet, Pending
<1>16. SolosPending'
  <2> SUFFICES ASSUME NEW d \in Clients, pc'[d] = "solo"
               PROVE  /\ Pending(handles[d][1])
                      /\ \A u \in Slots : handles[d][1] \notin ToSet(wave[u])
                      /\ \A b \in Clients :
                            pc'[b] = "solo" /\ handles[b][1] = handles[d][1] => b = d
    BY <1>1, <1>8, <1>9 DEF SolosPending, ToSet, Pending
  <2>1. CASE d = c
    BY <1>5, <1>6, <1>7, <2>1 DEF mine
  <2>2. CASE d # c
    BY <1>6, <1>7, <2>2 DEF TableInv, WorkInv, SolosPending, mine
  <2> QED
    BY <2>1, <2>2
<1>17. PendingHeld'
  <2> SUFFICES ASSUME NEW e \in Cells, Pending(e)
               PROVE  \/ \E u \in Slots : e \in ToSet(wave[u])
                      \/ \E d \in Clients : pc'[d] = "solo" /\ handles[d][1] = e
    BY <1>1, <1>9 DEF PendingHeld, ToSet
  <2> QED
    BY <1>4, <1>6 DEF TableInv, WorkInv, PendingHeld, mine
<1> QED
  BY <1>10, <1>12, <1>13, <1>14, <1>15, <1>16, <1>17 DEF TableInv, WorkInv

\* A request under the scan moves from the queue to the wave.
LEMMA ScanTakeTable ==
    ASSUME TableInv, CallShape, PlainTypes, SlotInv, NEW t \in Slots, ScanTake(t)
    PROVE  TableInv'
<1> DEFINE i == position[t]
           taken == queue[i]
           r == RemoveAt(queue, i)
           w == Append(wave[t], taken)
<1>1. /\ bpc[t] = "scan" /\ i <= Len(queue)
      /\ wave' = [wave EXCEPT ![t] = w] /\ queue' = r
      /\ UNCHANGED <<entries, lru, readyEntries, handles, index, pc, bpc>>
  <2>1. Len(Lens(queue)) = Len(queue)
    BY DEF Lens, TableInv, TableTypes
  <2> QED
    BY <2>1 DEF ScanTake, Scanning, ScanContinues, tableVars, clientVars
<1>2. /\ queue \in Seq(Cells) /\ Distinct(queue) /\ i \in 1 .. Len(queue)
      /\ wave[t] \in Seq(Cells) /\ Distinct(wave[t])
  BY <1>1 DEF TableInv, TableTypes, WorkInv, QueuePending, WavesPending, PlainTypes
<1>3. taken \in ToSet(queue) /\ taken \in Cells
  BY <1>2 DEF ToSet
<1>4. Pending(taken) /\ \A u \in Slots : taken \notin ToSet(wave[u])
  BY <1>3 DEF TableInv, WorkInv, QueuePending, WavesPending
<1>5. Lists(Cells, r, ToSet(queue) \ {taken})
  BY <1>2, RemoveLists
<1>6. Lists(Cells, w, ToSet(wave[t]) \cup {taken})
  BY <1>2, <1>3, <1>4, AppendLists
<1> HIDE DEF taken, r, w
<1>7. /\ wave'[t] = w /\ \A u \in Slots \ {t} : wave'[u] = wave[u]
      /\ wave' \in [Slots -> Seq(Cells)]
  BY <1>1, <1>6 DEF TableInv, TableTypes, Lists
<1>8. ToSet(wave'[t]) = ToSet(wave[t]) \cup {taken} /\ Distinct(wave'[t])
  BY <1>6, <1>7 DEF Lists
<1>9. /\ Distinct(queue)' /\ ToSet(queue)' = ToSet(queue) \ {taken} /\ queue' \in Seq(Cells)
  BY <1>1, <1>5 DEF Lists, Distinct, ToSet
<1>10. \A e : Pending(e)' <=> Pending(e)
  BY <1>1 DEF Pending
<1>11. TableTypes'
  BY <1>1, <1>7, <1>9 DEF TableInv, TableTypes
<1>12. CountsStay
  BY <1>1 DEF CountsStay
<1>13. Counted' /\ KeysUnique'
  BY <1>12, CountsStayPreserves DEF TableInv
<1>14. LruReady'
  BY <1>1 DEF TableInv, LruReady, Distinct, ToSet, Ready
<1>15. QueuePending'
  BY <1>9, <1>10 DEF TableInv, WorkInv, QueuePending
<1>16. WavesPending'
  <2> SUFFICES ASSUME NEW u \in Slots
               PROVE  /\ Distinct(wave'[u])
                      /\ wave'[u] # <<>> => bpc'[u] \in {"scan", "exec"}
                      /\ \A e \in ToSet(wave'[u]) :
                            /\ Pending(e)
                            /\ e \notin ToSet(queue)'
                            /\ \A v \in Slots : e \in ToSet(wave'[v]) => v = u
    BY <1>1, <1>10 DEF WavesPending, Distinct, ToSet, Pending
  <2>1. CASE u = t
    BY <1>1, <1>4, <1>7, <1>8, <1>9, <2>1 DEF TableInv, WorkInv, WavesPending
  <2>2. CASE u # t
    BY <1>1, <1>4, <1>7, <1>8, <1>9, <2>2 DEF TableInv, WorkInv, WavesPending
  <2> QED
    BY <2>1, <2>2
<1>17. SolosPending'
  <2> SUFFICES ASSUME NEW c \in Clients, pc[c] = "solo"
               PROVE  /\ Pending(handles[c][1])
                      /\ handles[c][1] \notin ToSet(queue)'
                      /\ \A u \in Slots : handles[c][1] \notin ToSet(wave'[u])
                      /\ \A d \in Clients :
                            pc[d] = "solo" /\ handles[d][1] = handles[c][1] => d = c
    BY <1>1, <1>10 DEF SolosPending, ToSet, Pending
  <2>1. handles[c][1] # taken
    BY <1>3 DEF TableInv, WorkInv, SolosPending
  <2> QED
    BY <1>7, <1>8, <1>9, <2>1 DEF TableInv, WorkInv, SolosPending
<1>18. PendingHeld'
  <2> SUFFICES ASSUME NEW e \in Cells, Pending(e)
               PROVE  \/ e \in ToSet(queue)'
                      \/ \E u \in Slots : e \in ToSet(wave'[u])
                      \/ \E c \in Clients : pc[c] = "solo" /\ handles[c][1] = e
    BY <1>1, <1>10 DEF PendingHeld, ToSet
  <2> QED
    BY <1>7, <1>8, <1>9 DEF TableInv, WorkInv, PendingHeld
<1> QED
  BY <1>11, <1>13, <1>14, <1>15, <1>16, <1>17, <1>18 DEF TableInv, WorkInv

\* The scan ends: the wave is sorted, or there is none.
LEMMA RunWaveTable ==
    ASSUME TableInv, CallShape, SlotInv, NEW t \in Slots, RunWave(t)
    PROVE  TableInv'
<1>1. /\ UNCHANGED <<entries, lru, readyEntries, queue, handles, index, pc>>
  BY DEF RunWave, tableVars, clientVars
<1>2. CASE wave[t] = <<>>
  <2>1. wave' = wave /\ bpc' = [bpc EXCEPT ![t] = "top"]
    BY <1>2 DEF RunWave, BackendAt
  <2>2. \A u \in Slots : wave[u] # <<>> => bpc'[u] \in {"scan", "exec"}
    BY <1>2, <2>1 DEF TableInv, WorkInv, WavesPending, SlotInv, SlotTypes
  <2>3. WavesPending'
    BY <1>1, <2>1, <2>2 DEF TableInv, WorkInv, WavesPending, Distinct, ToSet, Pending
  <2>4. CountsStay
    BY <1>1 DEF CountsStay
  <2>5. Counted' /\ KeysUnique'
    BY <2>4, CountsStayPreserves DEF TableInv
  <2>6. TableTypes' /\ LruReady'
    BY <1>1, <2>1 DEF TableInv, TableTypes, LruReady, Distinct, ToSet, Ready
  <2>7. QueuePending' /\ SolosPending' /\ PendingHeld'
    BY <1>1, <2>1 DEF TableInv, WorkInv, QueuePending, SolosPending, PendingHeld, Distinct,
                      ToSet, Pending
  <2> QED
    BY <2>3, <2>5, <2>6, <2>7 DEF TableInv, WorkInv
<1>3. CASE wave[t] # <<>>
  <2>1. bpc' = [bpc EXCEPT ![t] = "exec"]
    BY <1>3 DEF RunWave, BackendAt
  <2>2. PICK w \in Arrangements(wave[t]) : wave' = [wave EXCEPT ![t] = w]
    BY <1>3 DEF RunWave
  <2>3. wave[t] \in Seq(Cells) /\ Distinct(wave[t])
    BY DEF TableInv, TableTypes, WorkInv, WavesPending
  <2>4. w \in Seq(Cells) /\ Distinct(w) /\ ToSet(w) = ToSet(wave[t])
    BY <2>2, <2>3, ArrangementLists DEF Lists
  <2>5. /\ wave' \in [Slots -> Seq(Cells)]
        /\ \A u \in Slots : Distinct(wave'[u]) /\ ToSet(wave'[u]) = ToSet(wave[u])
        /\ \A u \in Slots \ {t} : wave'[u] = wave[u]
    BY <2>2, <2>4 DEF TableInv, TableTypes, WorkInv, WavesPending
  <2>6. \A u \in Slots : wave'[u] # <<>> => bpc'[u] \in {"scan", "exec"}
    <3> SUFFICES ASSUME NEW u \in Slots, wave'[u] # <<>>
                 PROVE  bpc'[u] \in {"scan", "exec"}
      OBVIOUS
    <3>1. CASE u = t
      BY <2>1, <3>1 DEF SlotInv, SlotTypes
    <3>2. CASE u # t
      BY <2>1, <2>5, <3>2 DEF TableInv, WorkInv, WavesPending, SlotInv, SlotTypes
    <3> QED
      BY <3>1, <3>2
  <2>7. \A e : Pending(e)' <=> Pending(e)
    BY <1>1 DEF Pending
  <2>8. WavesPending'
    <3> SUFFICES ASSUME NEW u \in Slots
                 PROVE  /\ Distinct(wave'[u])
                        /\ wave'[u] # <<>> => bpc'[u] \in {"scan", "exec"}
                        /\ \A e \in ToSet(wave'[u]) :
                              /\ Pending(e)
                              /\ e \notin ToSet(queue)
                              /\ \A v \in Slots : e \in ToSet(wave'[v]) => v = u
      BY <1>1, <2>7 DEF WavesPending, Distinct, ToSet, Pending
    <3> QED
      BY <2>5, <2>6 DEF TableInv, WorkInv, WavesPending
  <2>9. CountsStay
    BY <1>1 DEF CountsStay
  <2>10. Counted' /\ KeysUnique'
    BY <2>9, CountsStayPreserves DEF TableInv
  <2>11. TableTypes' /\ LruReady'
    BY <1>1, <2>5 DEF TableInv, TableTypes, LruReady, Distinct, ToSet, Ready
  <2>12. QueuePending'
    BY <1>1 DEF TableInv, WorkInv, QueuePending, Distinct, ToSet, Pending
  <2>13. SolosPending'
    <3> SUFFICES ASSUME NEW c \in Clients, pc[c] = "solo"
                 PROVE  /\ Pending(handles[c][1])
                        /\ handles[c][1] \notin ToSet(queue)
                        /\ \A u \in Slots : handles[c][1] \notin ToSet(wave'[u])
                        /\ \A d \in Clients :
                              pc[d] = "solo" /\ handles[d][1] = handles[c][1] => d = c
      BY <1>1, <2>7 DEF SolosPending, ToSet, Pending
    <3> QED
      BY <2>5 DEF TableInv, WorkInv, SolosPending
  <2>14. PendingHeld'
    <3> SUFFICES ASSUME NEW e \in Cells, Pending(e)
                 PROVE  \/ e \in ToSet(queue)
                        \/ \E u \in Slots : e \in ToSet(wave'[u])
                        \/ \E c \in Clients : pc[c] = "solo" /\ handles[c][1] = e
      BY <1>1, <2>7 DEF PendingHeld, ToSet
    <3> QED
      BY <2>5 DEF TableInv, WorkInv, PendingHeld
  <2> QED
    BY <2>8, <2>10, <2>11, <2>12, <2>13, <2>14 DEF TableInv, WorkInv
<1> QED
  BY <1>2, <1>3

-----------------------------------------------------------------------------
(* Callers refer to entries and let them go *)

\* The references to an entry, one by one.
LEMMA ReferenceIs ==
    ASSUME NEW e, NEW x
    PROVE  x \in References(e) <=>
               \E d \in Clients : \E j \in index[d] .. Len(handles[d]) :
                   handles[d][j] = e /\ x = <<d, j>>
BY DEF References

\* A handle is appended to those of a call.
LEMMA ReferencesAppend ==
    ASSUME TableTypes, NEW c \in Clients, NEW e \in Cells,
           index[c] = 1, index' = index,
           handles' = [handles EXCEPT ![c] = Append(@, e)]
    PROVE  /\ \A f \in Cells : References(f)' =
                  IF f = e THEN References(f) \cup {<<c, Len(handles[c]) + 1>>}
                           ELSE References(f)
           /\ \A f \in Cells : <<c, Len(handles[c]) + 1>> \notin References(f)
           /\ handles' \in [Clients -> Seq(Cells)]
<1> DEFINE n == Len(handles[c]) + 1
<1>1. handles[c] \in Seq(Cells) /\ index[c] \in Nat
  BY DEF TableTypes
<1>2. /\ Len(handles'[c]) = n /\ handles'[c][n] = e /\ handles'[c] \in Seq(Cells)
      /\ \A j \in 1 .. n - 1 : handles'[c][j] = handles[c][j]
  <2>1. handles'[c] = Append(handles[c], e)
    BY DEF TableTypes
  <2> QED
    BY <1>1, <2>1
<1>3. \A d \in Clients \ {c} : handles'[d] = handles[d]
  BY DEF TableTypes
<1>4. handles' \in [Clients -> Seq(Cells)]
  BY <1>2, <1>3 DEF TableTypes
<1>5. n \in Nat /\ n - 1 = Len(handles[c])
  BY <1>1
<1>6. ASSUME NEW f \in Cells
      PROVE  <<c, n>> \notin References(f)
  BY <1>1, <1>5, ReferenceIs
<1> HIDE DEF n
<1>7. ASSUME NEW f \in Cells, NEW x
      PROVE  x \in References(f)' <=> x \in References(f) \/ (f = e /\ x = <<c, n>>)
  <2>1. x \in References(f)' <=>
            \E d \in Clients : \E j \in index[d] .. Len(handles'[d]) :
                handles'[d][j] = f /\ x = <<d, j>>
    BY DEF References
  <2>2. ASSUME NEW d \in Clients, NEW j \in index[d] .. Len(handles'[d]),
               handles'[d][j] = f, x = <<d, j>>
        PROVE  x \in References(f) \/ (f = e /\ x = <<c, n>>)
    <3>1. CASE d = c /\ j = n
      BY <1>2, <2>2, <3>1
    <3>2. CASE d = c /\ j # n
      <4>1. j \in 1 .. n - 1
        BY <1>2, <1>5, <2>2, <3>2
      <4>2. j \in index[d] .. Len(handles[d]) /\ handles[d][j] = f
        BY <1>2, <1>5, <2>2, <3>2, <4>1
      <4> QED
        BY <2>2, <4>2, ReferenceIs
    <3>3. CASE d # c
      BY <1>3, <2>2, <3>3, ReferenceIs
    <3> QED
      BY <3>1, <3>2, <3>3
  <2>3. ASSUME NEW d \in Clients, NEW j \in index[d] .. Len(handles[d]),
               handles[d][j] = f, x = <<d, j>>
        PROVE  x \in References(f)'
    <3>1. j \in index[d] .. Len(handles'[d]) /\ handles'[d][j] = f
      <4>1. CASE d = c
        <5>1. j \in 1 .. n - 1
          BY <1>1, <1>5, <2>3, <4>1
        <5> QED
          BY <1>2, <1>5, <2>3, <4>1, <5>1
      <4>2. CASE d # c
        BY <1>3, <2>3, <4>2
      <4> QED
        BY <4>1, <4>2
    <3> QED
      BY <2>1, <2>3, <3>1
  <2>4. ASSUME f = e, x = <<c, n>>
        PROVE  x \in References(f)'
    <3>1. n \in index[c] .. Len(handles'[c])
      BY <1>1, <1>2, <1>5
    <3> QED
      BY <1>2, <2>1, <2>4, <3>1
  <2> QED
    BY <2>1, <2>2, <2>3, <2>4, ReferenceIs
<1>8. \A f \in Cells : References(f)' =
          IF f = e THEN References(f) \cup {<<c, n>>} ELSE References(f)
  BY <1>7
<1> QED
  BY <1>4, <1>6, <1>8 DEF n

\* The first handle that a call still has is taken.
LEMMA ReferencesTake ==
    ASSUME TableTypes, NEW c \in Clients, index[c] <= Len(handles[c]),
           handles' = handles, index' = [index EXCEPT ![c] = @ + 1]
    PROVE  /\ \A f \in Cells : References(f)' =
                  IF f = handles[c][index[c]] THEN References(f) \ {<<c, index[c]>>}
                                              ELSE References(f)
           /\ <<c, index[c]>> \in References(handles[c][index[c]])
           /\ handles[c][index[c]] \in Cells
           /\ index' \in [Clients -> Nat \ {0}]
<1> DEFINE i == index[c]
           e == handles[c][i]
<1>1. /\ handles[c] \in Seq(Cells) /\ i \in 1 .. Len(handles[c])
      /\ index[c] \in Nat \ {0}
  BY DEF TableTypes
<1>2. e \in Cells
  BY <1>1
<1>3. index'[c] = i + 1 /\ \A d \in Clients \ {c} : index'[d] = index[d]
  BY DEF TableTypes
<1>4. index' \in [Clients -> Nat \ {0}]
  BY <1>1 DEF TableTypes
<1>5. <<c, i>> \in References(e)
  <2>1. i \in index[c] .. Len(handles[c])
    BY <1>1
  <2> QED
    BY <2>1, ReferenceIs
<1> HIDE DEF i, e
<1>6. ASSUME NEW f \in Cells, NEW x
      PROVE  x \in References(f)' <=> x \in References(f) /\ x # <<c, i>>
  <2>1. x \in References(f)' <=>
            \E d \in Clients : \E j \in index'[d] .. Len(handles[d]) :
                handles[d][j] = f /\ x = <<d, j>>
    BY DEF References
  <2>2. ASSUME NEW d \in Clients, NEW j \in index'[d] .. Len(handles[d])
        PROVE  j \in index[d] .. Len(handles[d]) /\ (d = c => j # i)
    <3>1. index[d] \in Nat /\ Len(handles[d]) \in Nat /\ i \in Nat
      BY <1>1 DEF TableTypes
    <3> QED
      BY <1>3, <2>2, <3>1 DEF i
  <2>3. ASSUME NEW d \in Clients, NEW j \in index[d] .. Len(handles[d]), <<d, j>> # <<c, i>>
        PROVE  j \in index'[d] .. Len(handles[d])
    <3>1. index[d] \in Nat /\ Len(handles[d]) \in Nat /\ i \in Nat
      BY <1>1 DEF TableTypes
    <3> QED
      BY <1>3, <2>3, <3>1 DEF i
  <2> QED
    BY <2>1, <2>2, <2>3, ReferenceIs
<1>7. ASSUME NEW f \in Cells, f # e
      PROVE  <<c, i>> \notin References(f)
  BY <1>7, ReferenceIs DEF e
<1>8. \A f \in Cells : References(f)' =
          IF f = e THEN References(f) \ {<<c, i>>} ELSE References(f)
  BY <1>6, <1>7
<1> QED
  BY <1>2, <1>4, <1>5, <1>8 DEF e, i

\* Changing the user count of one entry keeps the lists of the table.
LEMMA SetUsers ==
    ASSUME TableTypes, NEW e \in Cells, entries[e] # NoEntry, NEW n \in Nat,
           entries' = [entries EXCEPT ![e].users = n]
    PROVE  /\ entries' \in [Cells -> EntryType \cup {NoEntry}]
           /\ entries'[e] # NoEntry /\ entries'[e].users = n
           /\ entries'[e].key = entries[e].key /\ entries'[e].state = entries[e].state
           /\ \A f \in Cells \ {e} : entries'[f] = entries[f]
<1>1. entries[e] \in EntryType
  BY DEF TableTypes
<1>2. entries'[e] = [entries[e] EXCEPT !.users = n]
  BY DEF TableTypes
<1>3. entries'[e] \in EntryType
  BY <1>1, <1>2 DEF EntryType
<1>4. \A f \in Cells \ {e} : entries'[f] = entries[f]
  BY DEF TableTypes
<1>5. entries' \in [Cells -> EntryType \cup {NoEntry}]
  <2>1. entries' = [f \in Cells |-> entries'[f]]
    BY DEF TableTypes
  <2>2. \A f \in Cells : entries'[f] \in EntryType \cup {NoEntry}
    BY <1>3, <1>4 DEF TableTypes
  <2> QED
    BY <2>1, <2>2
<1> QED
  BY <1>1, <1>2, <1>3, <1>4, <1>5, ServiceAssumption DEF EntryType

\* A caller joins an entry that is in the table.
LEMMA SubmitHitTable ==
    ASSUME TableInv, CallShape, SlotInv, NEW c \in Clients, SubmitHit(c)
    PROVE  TableInv'
<1>1. PICK e \in Matching(NextItem(c)) :
          /\ entries' = [entries EXCEPT ![e].users = @ + 1]
          /\ lru' = IF entries[e].state = "READY" THEN PushFront(lru, e) ELSE lru
          /\ Submitted(c, e)
  BY DEF SubmitHit
<1>2. e \in Cells /\ entries[e] # NoEntry
  BY DEF Matching, FreeCells
<1>3. /\ pc[c] = "submit" /\ index[c] = 1
      /\ pc' = [pc EXCEPT ![c] = IF Len(handles[c]) + 1 = Len(items[c]) THEN "launch" ELSE "submit"]
      /\ handles' = [handles EXCEPT ![c] = Append(@, e)]
      /\ UNCHANGED <<queue, wave, index, bpc, readyEntries>>
  BY <1>1 DEF SubmitHit, Submitted, Goto, backendVars, CallShape
<1>4. /\ IsFiniteSet(References(e)) /\ entries[e].users = Cardinality(References(e))
      /\ Cardinality(References(e)) \in Nat
  BY <1>2, FS_CardinalityType DEF TableInv, Counted
<1>5. /\ entries' \in [Cells -> EntryType \cup {NoEntry}]
      /\ entries'[e] # NoEntry /\ entries'[e].users = entries[e].users + 1
      /\ entries'[e].key = entries[e].key /\ entries'[e].state = entries[e].state
      /\ \A f \in Cells \ {e} : entries'[f] = entries[f]
  <2>1. entries' = [entries EXCEPT ![e].users = entries[e].users + 1]
    BY <1>1
  <2>2. entries[e].users + 1 \in Nat
    BY <1>4
  <2> QED
    BY <1>2, <2>1, <2>2, SetUsers DEF TableInv
<1>6. /\ \A f \in Cells : References(f)' =
             IF f = e THEN References(f) \cup {<<c, Len(handles[c]) + 1>>} ELSE References(f)
      /\ \A f \in Cells : <<c, Len(handles[c]) + 1>> \notin References(f)
      /\ handles' \in [Clients -> Seq(Cells)]
  BY <1>2, <1>3, ReferencesAppend DEF TableInv
<1>7. WorkStays
  <2>1. \A f \in Cells : (entries'[f] # NoEntry /\ entries'[f].state = "PENDING") <=> Pending(f)
    BY <1>2, <1>5 DEF Pending
  <2>2. \A d \in Clients : /\ pc'[d] = "solo" <=> pc[d] = "solo"
                           /\ pc[d] = "solo" => handles'[d][1] = handles[d][1]
    BY <1>3 DEF SlotInv, SlotTypes, TableInv, TableTypes
  <2> QED
    BY <1>3, <2>1, <2>2 DEF WorkStays
<1>8. WorkInv'
  BY <1>7, WorkStaysPreserves DEF TableInv
<1>9. lru' \in Seq(Cells) /\ LruReady'
  <2>1. \A f \in Cells : Ready(f)' <=> Ready(f)
    BY <1>2, <1>5 DEF Ready
  <2>2. lru \in Seq(Cells) /\ Distinct(lru)
    BY DEF TableInv, TableTypes, LruReady
  <2>3. CASE entries[e].state = "READY"
    <3>1. e \in ToSet(lru)
      BY <1>2, <2>3 DEF TableInv, LruReady, Ready
    <3>2. /\ lru' \in Seq(Cells) /\ Distinct(lru') /\ ToSet(lru') = ToSet(lru)
          /\ Len(lru') = Len(lru)
      BY <1>1, <2>2, <2>3, <3>1, PushFrontLists DEF Lists
    <3> QED
      BY <1>3, <2>1, <3>2 DEF TableInv, LruReady
  <2>4. CASE entries[e].state # "READY"
    BY <1>1, <1>3, <2>1, <2>2, <2>4 DEF TableInv, LruReady, Distinct, ToSet
  <2> QED
    BY <2>3, <2>4
<1>10. TableTypes'
  BY <1>3, <1>5, <1>6, <1>9 DEF TableInv, TableTypes
<1>11. KeysUnique'
  BY <1>2, <1>5 DEF TableInv, KeysUnique
<1>12. Counted'
  <2> DEFINE x == <<c, Len(handles[c]) + 1>>
             before == References(e)
  <2>1. IsFiniteSet(before \cup {x}) /\ Cardinality(before \cup {x}) = Cardinality(before) + 1
    <3>1. IsFiniteSet(before) /\ x \notin before
      BY <1>2, <1>4, <1>6
    <3> HIDE DEF x, before
    <3> QED
      BY <3>1, FS_AddElement
  <2>2. \A f \in Cells : f = e => References(f)' = before \cup {x}
    BY <1>6
  <2>3. entries'[e].users = Cardinality(before) + 1 /\ Cardinality(before) \in Nat
    BY <1>4, <1>5
  <2> HIDE DEF x, before
  <2> SUFFICES ASSUME NEW f \in Cells
               PROVE  /\ entries'[f] = NoEntry => References(f)' = {}
                      /\ entries'[f] # NoEntry =>
                            /\ IsFiniteSet(References(f)')
                            /\ entries'[f].users = Cardinality(References(f)')
                            /\ entries'[f].state # "READY" => entries'[f].users > 0
    BY DEF Counted
  <2>4. CASE f = e
    <3>1. References(f)' = before \cup {x}
      BY <2>2, <2>4
    <3> QED
      BY <1>5, <2>1, <2>3, <2>4, <3>1
  <2>5. CASE f # e
    BY <1>5, <1>6, <2>5 DEF TableInv, Counted
  <2> QED
    BY <2>4, <2>5
<1> QED
  BY <1>8, <1>9, <1>10, <1>11, <1>12 DEF TableInv

\* A caller adds a pending entry for a new sequence.
LEMMA SubmitMissTable ==
    ASSUME TableInv, CallShape, SlotInv, NEW c \in Clients, SubmitMiss(c)
    PROVE  TableInv'
<1> DEFINE e == Lowest(FreeCells)
           k == NextItem(c)
           new == [key |-> k, users |-> 1, state |-> "PENDING"]
<1>1. /\ pc[c] = "submit" /\ index[c] = 1 /\ Len(handles[c]) < Len(items[c])
      /\ Matching(k) = {} /\ FreeCells # {}
      /\ entries' = [entries EXCEPT ![e] = new]
      /\ queue' = Append(queue, e)
      /\ pc' = [pc EXCEPT ![c] = IF Len(handles[c]) + 1 = Len(items[c]) THEN "launch" ELSE "submit"]
      /\ handles' = [handles EXCEPT ![c] = Append(@, e)]
      /\ UNCHANGED <<wave, index, bpc, readyEntries, lru>>
  BY DEF SubmitMiss, Submitted, Goto, backendVars, CallShape
<1>2. e \in Cells /\ entries[e] = NoEntry
  <2>1. FreeCells \in SUBSET Nat
    BY ServiceAssumption DEF FreeCells
  <2>2. e \in FreeCells
    BY <1>1, <2>1, LowestNat
  <2> QED
    BY <2>2 DEF FreeCells
<1>3. k \in Keys
  <2>1. items[c] \in Seq(Keys) /\ handles[c] \in Seq(Cells)
    BY DEF CallShape, TableInv, TableTypes
  <2> QED
    BY <1>1, <2>1 DEF NextItem
<1> HIDE DEF e, k
<1>4. /\ entries'[e] = new /\ new \in EntryType /\ new # NoEntry
      /\ \A f \in Cells \ {e} : entries'[f] = entries[f]
      /\ entries' \in [Cells -> EntryType \cup {NoEntry}]
  <2>1. new \in EntryType
    BY <1>3 DEF EntryType
  <2> QED
    BY <1>1, <1>2, <2>1, ServiceAssumption DEF TableInv, TableTypes
<1>5. /\ \A f \in Cells : References(f)' =
             IF f = e THEN References(f) \cup {<<c, Len(handles[c]) + 1>>} ELSE References(f)
      /\ handles' \in [Clients -> Seq(Cells)]
  BY <1>1, <1>2, ReferencesAppend DEF TableInv
<1>6. References(e) = {}
  BY <1>2 DEF TableInv, Counted
<1>7. ~Pending(e) /\ \A f \in Cells : Pending(f)' <=> Pending(f) \/ f = e
  BY <1>2, <1>4 DEF Pending
<1>8. /\ \A d \in Clients : pc[d] = "solo" => handles[d][1] \in Cells
      /\ ToSet(queue) \subseteq Cells
      /\ \A u \in Slots : ToSet(wave[u]) \subseteq Cells
  BY WorkCells DEF TableInv
<1>9. /\ e \notin ToSet(queue) /\ \A t \in Slots : e \notin ToSet(wave[t])
  BY <1>7 DEF TableInv, WorkInv, QueuePending, WavesPending
<1>10. queue' \in Seq(Cells) /\ Distinct(queue') /\ ToSet(queue') = ToSet(queue) \cup {e}
  BY <1>1, <1>2, <1>9, AppendLists DEF Lists, TableInv, TableTypes, WorkInv, QueuePending
<1>11. \A d \in Clients : /\ pc'[d] = "solo" <=> pc[d] = "solo"
                          /\ pc[d] = "solo" => handles'[d] = handles[d] /\ handles[d][1] # e
  BY <1>1, <1>7 DEF SlotInv, SlotTypes, TableInv, TableTypes, WorkInv, SolosPending
<1>12. QueuePending'
  <2>1. \A f \in ToSet(queue') : Pending(f)'
    BY <1>2, <1>7, <1>8, <1>10 DEF TableInv, WorkInv, QueuePending
  <2> QED
    BY <1>10, <2>1 DEF QueuePending
<1>13. WavesPending'
  <2> SUFFICES ASSUME NEW t \in Slots
               PROVE  /\ Distinct(wave[t])
                      /\ wave[t] # <<>> => bpc[t] \in {"scan", "exec"}
                      /\ \A f \in ToSet(wave[t]) :
                            /\ Pending(f)'
                            /\ f \notin ToSet(queue')
                            /\ \A u \in Slots : f \in ToSet(wave[u]) => u = t
    <3>1. wave' = wave /\ bpc' = bpc
      BY <1>1
    <3> QED
      BY <3>1 DEF WavesPending, Distinct, ToSet, Pending
  <2>1. \A f \in ToSet(wave[t]) : f \in Cells /\ f # e /\ f \notin ToSet(queue) /\ Pending(f)
    BY <1>8, <1>9 DEF TableInv, WorkInv, WavesPending
  <2>2. \A f \in ToSet(wave[t]) : Pending(f)' /\ f \notin ToSet(queue')
    BY <1>7, <1>10, <2>1
  <2> QED
    BY <2>2 DEF TableInv, WorkInv, WavesPending
<1>14. SolosPending'
  <2> SUFFICES ASSUME NEW d \in Clients, pc[d] = "solo"
               PROVE  /\ Pending(handles[d][1])'
                      /\ handles[d][1] \notin ToSet(queue')
                      /\ \A t \in Slots : handles[d][1] \notin ToSet(wave[t])
                      /\ \A b \in Clients :
                            pc[b] = "solo" /\ handles[b][1] = handles[d][1] => b = d
    BY <1>1, <1>11 DEF SolosPending, ToSet, Pending
  <2>1. Pending(handles[d][1]) /\ handles[d][1] \in Cells /\ handles[d][1] # e
    BY <1>8, <1>11 DEF TableInv, WorkInv, SolosPending
  <2>2. Pending(handles[d][1])'
    BY <1>4, <1>11, <2>1 DEF Pending
  <2> QED
    BY <1>10, <2>1, <2>2 DEF TableInv, WorkInv, SolosPending
<1>15. PendingHeld'
  <2> SUFFICES ASSUME NEW f \in Cells, Pending(f)'
               PROVE  \/ f \in ToSet(queue')
                      \/ \E t \in Slots : f \in ToSet(wave[t])
                      \/ \E d \in Clients : pc'[d] = "solo" /\ handles'[d][1] = f
    BY <1>1 DEF PendingHeld, ToSet
  <2>1. CASE f = e
    BY <1>10, <2>1
  <2>2. CASE f # e
    BY <1>7, <1>10, <1>11, <2>2 DEF TableInv, WorkInv, PendingHeld
  <2> QED
    BY <2>1, <2>2
<1>16. TableTypes'
  BY <1>1, <1>4, <1>5, <1>10 DEF TableInv, TableTypes
<1>17. LruReady'
  <2>1. \A f \in Cells : Ready(f)' <=> Ready(f)
    BY <1>2, <1>4 DEF Ready
  <2> QED
    BY <1>1, <2>1 DEF TableInv, LruReady, Distinct, ToSet
<1>18. KeysUnique'
  <2>1. \A f \in Cells \ {e} : entries[f] # NoEntry => entries[f].key # k
    BY <1>1 DEF Matching, FreeCells
  <2> QED
    BY <1>4, <2>1 DEF TableInv, KeysUnique
<1>19. Counted'
  <2> DEFINE x == <<c, Len(handles[c]) + 1>>
  <2>1. \A f \in Cells : f = e => References(f)' = {x}
    BY <1>5, <1>6
  <2>2. IsFiniteSet({x}) /\ Cardinality({x}) = 1
    <3> HIDE DEF x
    <3> QED
      BY FS_Singleton
  <2> HIDE DEF x
  <2> SUFFICES ASSUME NEW f \in Cells
               PROVE  /\ entries'[f] = NoEntry => References(f)' = {}
                      /\ entries'[f] # NoEntry =>
                            /\ IsFiniteSet(References(f)')
                            /\ entries'[f].users = Cardinality(References(f)')
                            /\ entries'[f].state # "READY" => entries'[f].users > 0
    BY DEF Counted
  <2>3. CASE f = e
    <3>1. References(f)' = {x}
      BY <2>1, <2>3
    <3> QED
      BY <1>4, <2>2, <2>3, <3>1
  <2>4. CASE f # e
    BY <1>4, <1>5, <2>4 DEF TableInv, Counted
  <2> QED
    BY <2>3, <2>4
<1> QED
  BY <1>12, <1>13, <1>14, <1>15, <1>16, <1>17, <1>18, <1>19 DEF TableInv, WorkInv

-----------------------------------------------------------------------------
(* Users leave, entries are freed: AwaitTake, Return, Evict, Destroy *)

\* Freeing a cell.
LEMMA FreeCell ==
    ASSUME TableTypes, NEW e \in Cells, entries' = [entries EXCEPT ![e] = NoEntry]
    PROVE  /\ entries' \in [Cells -> EntryType \cup {NoEntry}]
           /\ entries'[e] = NoEntry
           /\ \A f \in Cells \ {e} : entries'[f] = entries[f]
BY DEF TableTypes

\* The pending entries are not concerned when another one changes.
LEMMA PendingElsewhere ==
    ASSUME NEW e \in Cells, ~Pending(e),
           entries'[e] = NoEntry \/ entries'[e].state # "PENDING",
           \A f \in Cells \ {e} : entries'[f] = entries[f]
    PROVE  \A f \in Cells : (entries'[f] # NoEntry /\ entries'[f].state = "PENDING") <=> Pending(f)
BY DEF Pending

\* A caller takes the answer of one of its items.
LEMMA AwaitTakeTable ==
    ASSUME TableInv, CallShape, SlotInv, NEW c \in Clients, AwaitTake(c)
    PROVE  TableInv'
<1> DEFINE e == handles[c][index[c]]
           x == <<c, index[c]>>
           before == References(e)
<1>1. /\ pc[c] = "await" /\ entries[e].state # "PENDING"
      /\ ReleaseEntry(e)
      /\ index' = [index EXCEPT ![c] = @ + 1]
      /\ pc' = [pc EXCEPT ![c] = IF index[c] = Len(handles[c]) THEN "return" ELSE "await"]
      /\ UNCHANGED <<queue, handles, wave, bpc>>
  BY DEF AwaitTake, Goto, backendVars
<1>2. /\ \A f \in Cells : References(f)' =
             IF f = e THEN References(f) \ {x} ELSE References(f)
      /\ x \in before
      /\ e \in Cells
      /\ index' \in [Clients -> Nat \ {0}]
  BY <1>1, ReferencesTake DEF TableInv, CallShape
<1>3. /\ entries[e] # NoEntry
      /\ IsFiniteSet(before) /\ entries[e].users = Cardinality(before)
  <2>1. before # {}
    BY <1>2
  <2> QED
    BY <1>2, <2>1 DEF TableInv, Counted
<1>4. \A f \in Cells : f = e => References(f)' = before \ {x}
  BY <1>2
<1> HIDE DEF e, x, before
<1>5. /\ IsFiniteSet(before \ {x}) /\ Cardinality(before \ {x}) = Cardinality(before) - 1
      /\ Cardinality(before) \in Nat /\ Cardinality(before \ {x}) \in Nat
  BY <1>2, <1>3, FS_RemoveElement, FS_CardinalityType
<1>6. entries[e] \in EntryType /\ entries[e].state \in {"READY", "FAILED"}
  BY <1>1, <1>2, <1>3 DEF TableInv, TableTypes, EntryType
<1>7. ~Pending(e)
  BY <1>1 DEF Pending
<1>8. ASSUME entries' \in [Cells -> EntryType \cup {NoEntry}],
             lru' = lru, readyEntries' = readyEntries,
             entries'[e] = NoEntry \/ entries'[e].key = entries[e].key,
             IF entries'[e] = NoEntry THEN ~Ready(e) /\ before \ {x} = {}
             ELSE /\ entries'[e].state = entries[e].state
                  /\ entries'[e].users = Cardinality(before \ {x})
                  /\ entries[e].state = "READY" \/ entries'[e].users > 0,
             \A f \in Cells \ {e} : entries'[f] = entries[f]
      PROVE  TableInv'
  <2>1. WorkInv'
    <3>1. \A f \in Cells : (entries'[f] # NoEntry /\ entries'[f].state = "PENDING") <=> Pending(f)
      BY <1>1, <1>2, <1>7, <1>8, PendingElsewhere
    <3>2. \A d \in Clients : pc'[d] = "solo" <=> pc[d] = "solo"
      BY <1>1 DEF SlotInv, SlotTypes
    <3>3. WorkStays
      BY <1>1, <3>1, <3>2 DEF WorkStays
    <3> QED
      BY <3>3, WorkStaysPreserves DEF TableInv
  <2>2. TableTypes'
    BY <1>1, <1>2, <1>8 DEF TableInv, TableTypes
  <2>3. LruReady'
    <3>1. \A f \in Cells : Ready(f)' <=> Ready(f)
      BY <1>3, <1>8 DEF Ready
    <3> QED
      BY <1>8, <3>1 DEF TableInv, LruReady, Distinct, ToSet
  <2>4. KeysUnique'
    BY <1>3, <1>8 DEF TableInv, KeysUnique
  <2>5. Counted'
    <3> SUFFICES ASSUME NEW f \in Cells
                 PROVE  /\ entries'[f] = NoEntry => References(f)' = {}
                        /\ entries'[f] # NoEntry =>
                              /\ IsFiniteSet(References(f)')
                              /\ entries'[f].users = Cardinality(References(f)')
                              /\ entries'[f].state # "READY" => entries'[f].users > 0
      BY DEF Counted
    <3>1. CASE f = e
      <4>1. References(f)' = before \ {x}
        BY <1>4, <3>1
      <4> QED
        BY <1>5, <1>6, <1>8, <3>1, <4>1
    <3>2. CASE f # e
      BY <1>2, <1>8, <3>2 DEF TableInv, Counted
    <3> QED
      BY <3>1, <3>2
  <2> QED
    BY <2>1, <2>2, <2>3, <2>4, <2>5 DEF TableInv
<1>9. CASE entries[e].state = "FAILED" /\ entries[e].users = 1
  <2>1. /\ entries' = [entries EXCEPT ![e] = NoEntry]
        /\ lru' = Without(lru, e)
        /\ readyEntries' = IF e \in ToSet(lru) THEN readyEntries - 1 ELSE readyEntries
    BY <1>1, <1>9 DEF ReleaseEntry
  <2>2. ~Ready(e)
    BY <1>9 DEF Ready
  <2>3. e \notin ToSet(lru)
    BY <1>2, <2>2 DEF TableInv, LruReady
  <2>4. lru' = lru /\ readyEntries' = readyEntries
    BY <2>1, <2>3 DEF Without
  <2>5. before \ {x} = {}
    BY <1>3, <1>5, <1>9, FS_EmptySet
  <2>6. /\ entries' \in [Cells -> EntryType \cup {NoEntry}]
        /\ entries'[e] = NoEntry
        /\ \A f \in Cells \ {e} : entries'[f] = entries[f]
    BY <1>2, <2>1, FreeCell DEF TableInv
  <2> QED
    BY <1>8, <2>2, <2>4, <2>5, <2>6
<1>10. CASE ~(entries[e].state = "FAILED" /\ entries[e].users = 1)
  <2>1. /\ entries' = [entries EXCEPT ![e].users = entries[e].users - 1]
        /\ lru' = lru /\ readyEntries' = readyEntries
    BY <1>1, <1>10 DEF ReleaseEntry
  <2>2. entries[e].users - 1 = Cardinality(before \ {x}) /\ entries[e].users - 1 \in Nat
    BY <1>3, <1>5
  <2>3. /\ entries' \in [Cells -> EntryType \cup {NoEntry}]
        /\ entries'[e] # NoEntry /\ entries'[e].users = entries[e].users - 1
        /\ entries'[e].key = entries[e].key /\ entries'[e].state = entries[e].state
        /\ \A f \in Cells \ {e} : entries'[f] = entries[f]
    BY <1>2, <1>3, <2>1, <2>2, SetUsers DEF TableInv
  <2>4. entries[e].state = "READY" \/ entries'[e].users > 0
    BY <1>3, <1>5, <1>6, <1>10, <2>2, <2>3
  <2> QED
    BY <1>8, <2>1, <2>2, <2>3, <2>4
<1> QED
  BY <1>9, <1>10

\* A call that has taken all its answers returns.
LEMMA ReturnTable ==
    ASSUME TableInv, CallShape, SlotInv, NEW c \in Clients, Return(c)
    PROVE  TableInv'
<1>1. /\ pc[c] = "return" /\ index[c] = Len(handles[c]) + 1
      /\ handles' = [handles EXCEPT ![c] = <<>>]
      /\ index' = [index EXCEPT ![c] = 1]
      /\ pc' = [pc EXCEPT ![c] = "idle"]
      /\ UNCHANGED <<entries, lru, readyEntries, queue, wave, bpc>>
  BY DEF Return, Goto, tableVars, backendVars, CallShape
<1>2. handles'[c] = <<>> /\ index'[c] = 1 /\ handles[c] \in Seq(Cells)
  BY <1>1 DEF TableInv, TableTypes
<1>3. \A d \in Clients \ {c} : handles'[d] = handles[d] /\ index'[d] = index[d]
  BY <1>1 DEF TableInv, TableTypes
<1>4. TableTypes'
  BY <1>1 DEF TableInv, TableTypes
<1>5. WorkInv'
  <2>1. \A d \in Clients : /\ pc'[d] = "solo" <=> pc[d] = "solo"
                           /\ pc[d] = "solo" => handles'[d][1] = handles[d][1]
    BY <1>1, <1>3 DEF SlotInv, SlotTypes
  <2>2. WorkStays
    BY <1>1, <2>1 DEF WorkStays, Pending
  <2> QED
    BY <2>2, WorkStaysPreserves DEF TableInv
<1>6. LruReady'
  BY <1>1 DEF TableInv, LruReady, Distinct, ToSet, Ready
<1>7. KeysUnique'
  BY <1>1 DEF TableInv, KeysUnique
<1>8. ASSUME NEW f \in Cells
      PROVE  References(f)' = References(f)
  <2>1. ASSUME NEW x
        PROVE  x \in References(f)' <=>
                  \E d \in Clients : \E j \in index'[d] .. Len(handles'[d]) :
                      handles'[d][j] = f /\ x = <<d, j>>
    BY DEF References
  <2>2. \A j : j \notin index[c] .. Len(handles[c]) /\ j \notin index'[c] .. Len(handles'[c])
    BY <1>1, <1>2
  <2>3. \A x : x \in References(f)' <=> x \in References(f)
    BY <1>3, <2>1, <2>2, ReferenceIs
  <2> QED
    BY <2>3
<1>9. Counted'
  BY <1>1, <1>8 DEF TableInv, Counted
<1> QED
  BY <1>4, <1>5, <1>6, <1>7, <1>9 DEF TableInv

\* The cache gives up an entry that nobody uses.
LEMMA EvictTable ==
    ASSUME TableInv, CallShape, SlotInv, Evict
    PROVE  TableInv'
<1>1. PICK i \in Evictable :
          /\ entries' = [entries EXCEPT ![lru[i]] = NoEntry]
          /\ lru' = RemoveAt(lru, i)
          /\ readyEntries' = readyEntries - 1
  BY DEF Evict
<1> DEFINE e == lru[i]
<1>2. UNCHANGED <<queue, handles, index, wave, pc, bpc>>
  BY DEF Evict, clientVars, backendVars
<1>3. lru \in Seq(Cells) /\ Distinct(lru) /\ readyEntries = Len(lru)
  BY DEF TableInv, TableTypes, LruReady
<1>4. i \in 1 .. Len(lru) /\ entries[e].users = 0
  BY <1>3 DEF Evictable
<1>5. e \in Cells /\ e \in ToSet(lru)
  BY <1>3, <1>4 DEF ToSet
<1>6. Ready(e) /\ entries[e] # NoEntry
  BY <1>5 DEF TableInv, LruReady, Ready
<1>7. References(e) = {}
  <2>1. IsFiniteSet(References(e)) /\ Cardinality(References(e)) = 0
    BY <1>4, <1>5, <1>6 DEF TableInv, Counted
  <2> QED
    BY <2>1, FS_EmptySet
<1>8. Lists(Cells, lru', ToSet(lru) \ {e}) /\ Len(lru') = Len(lru) - 1
  BY <1>1, <1>3, <1>4, RemoveLists, RemoveAtShifts
<1> HIDE DEF e
<1>9. /\ entries' \in [Cells -> EntryType \cup {NoEntry}]
      /\ entries'[e] = NoEntry
      /\ \A f \in Cells \ {e} : entries'[f] = entries[f]
  BY <1>1, <1>5, FreeCell DEF TableInv, e
<1>10. WorkInv'
  <2>1. ~Pending(e)
    BY <1>6 DEF Ready, Pending
  <2>2. \A f \in Cells : (entries'[f] # NoEntry /\ entries'[f].state = "PENDING") <=> Pending(f)
    BY <1>5, <1>9, <2>1, PendingElsewhere
  <2>3. WorkStays
    BY <1>2, <2>2 DEF WorkStays
  <2> QED
    BY <2>3, WorkStaysPreserves DEF TableInv
<1>11. TableTypes'
  BY <1>2, <1>8, <1>9 DEF TableInv, TableTypes, Lists
<1>12. LruReady'
  <2>1. Distinct(lru') /\ ToSet(lru') = ToSet(lru) \ {e}
    BY <1>8 DEF Lists
  <2>2. \A f \in Cells : f \in ToSet(lru') <=> Ready(f)'
    BY <1>5, <1>9, <2>1 DEF TableInv, LruReady, Ready
  <2> QED
    BY <1>1, <1>3, <1>8, <2>1, <2>2 DEF LruReady
<1>13. KeysUnique'
  BY <1>5, <1>9 DEF TableInv, KeysUnique
<1>14. Counted'
  <2>1. \A f \in Cells : References(f)' = References(f)
    BY <1>2 DEF References
  <2>2. \A f \in Cells : f = e => References(f) = {}
    BY <1>7
  <2> QED
    BY <1>9, <2>1, <2>2 DEF TableInv, Counted
<1> QED
  BY <1>10, <1>11, <1>12, <1>13, <1>14 DEF TableInv

\* The table is destroyed after every thread has left it.
LEMMA DestroyTable ==
    ASSUME TableInv, CallShape, StopShape, SlotInv, Destroy
    PROVE  TableInv'
<1>1. /\ \A t \in Slots : bpc[t] = "exited"
      /\ \A c \in Clients : pc[c] = "idle"
      /\ entries' = [e \in Cells |-> NoEntry] /\ lru' = <<>> /\ readyEntries' = 0
      /\ UNCHANGED <<queue, handles, index, wave, pc, bpc>>
  BY DEF Destroy, AllExited, clientVars, backendVars
<1>2. \A c \in Clients : handles[c] = <<>> /\ index[c] = 1
  BY <1>1 DEF CallShape
<1>3. \A t \in Slots : wave[t] = <<>>
  BY <1>1 DEF TableInv, WorkInv, WavesPending
<1>4. queue = <<>>
  <2>1. \E t \in Slots : TRUE
    BY SlotsAssumption DEF Slots
  <2> QED
    BY <1>1, <2>1 DEF StopShape
<1>5. \A e \in Cells : entries'[e] = NoEntry
  BY <1>1
<1>6. \A e \in Cells : References(e)' = {}
  <2>1. \A c \in Clients : index'[c] .. Len(handles'[c]) = {}
    BY <1>1, <1>2
  <2> QED
    BY <2>1 DEF References
<1>7. TableTypes'
  BY <1>1 DEF TableInv, TableTypes
<1>8. WorkInv'
  <2>1. queue' = <<>> /\ \A t \in Slots : wave'[t] = <<>>
    BY <1>1, <1>3, <1>4
  <2>2. ToSet(<<>>) = {} /\ Distinct(<<>>)
    BY DEF ToSet, Distinct
  <2>3. QueuePending'
    BY <2>1 DEF QueuePending, ToSet, Distinct
  <2>4. WavesPending'
    BY <2>1 DEF WavesPending, ToSet, Distinct
  <2>5. SolosPending'
    BY <1>1 DEF SolosPending
  <2>6. PendingHeld'
    BY <1>5 DEF PendingHeld, Pending
  <2> QED
    BY <2>3, <2>4, <2>5, <2>6 DEF WorkInv
<1>9. LruReady'
  BY <1>1, <1>5 DEF LruReady, ToSet, Distinct, Ready
<1>10. Counted'
  BY <1>5, <1>6 DEF Counted
<1>11. KeysUnique'
  BY <1>5 DEF KeysUnique
<1> QED
  BY <1>7, <1>8, <1>9, <1>10, <1>11 DEF TableInv

-----------------------------------------------------------------------------
(* The remaining steps do not touch the table *)

\* The steps of a caller that only count, signal or wait.
LEMMA QuietClientTable ==
    ASSUME TableInv, CallShape, SlotInv, NEW c \in Clients,
           \/ \E call \in Calls : Arrive(c, call) \/ EmbedTokens(c, call)
           \/ NoTokens(c) \/ Tokenized(c) \/ LaunchSignal(c) \/ AwaitBlock(c)
    PROVE  TableInv'
<1>1. /\ UNCHANGED <<entries, lru, readyEntries, queue, handles, index, wave>>
      /\ \E where \in ClientPCs \ {"solo"} : pc' = [pc EXCEPT ![c] = where]
      /\ pc[c] # "solo"
  BY DEF Arrive, EmbedTokens, NoTokens, Tokenized, LaunchSignal, AwaitBlock, Goto,
         tableVars, backendVars, ClientPCs
<1>2. SameWork(bpc, bpc')
  <2>1. bpc \in [Slots -> BackendPCs]
    BY DEF SlotInv, SlotTypes
  <2>2. bpc' = bpc \/ bpc' = WakeAll(bpc) \/ SignalQueue(bpc)
    BY DEF Arrive, EmbedTokens, NoTokens, Tokenized, LaunchSignal, AwaitBlock, backendVars
  <2> QED
    BY <2>1, <2>2, SignalSameWork DEF SameWork
<1>3. \A d \in Clients : pc'[d] = "solo" <=> pc[d] = "solo"
  BY <1>1 DEF SlotInv, SlotTypes
<1>4. TableQuiet
  BY <1>1, <1>2, <1>3 DEF TableQuiet, SameWork
<1> QED
  BY <1>4, TableQuietPreserves

\* The steps of a backend thread outside the entries: waiting, collecting,
\* picking a slot (which clears a wave that is empty already) and passing over.
LEMMA QuietBackendTable ==
    ASSUME TableInv, CallShape, SlotInv, NEW t \in Slots,
           \/ QueueWait(t) \/ Exit(t) \/ StartCollect(t) \/ EndCollect(t) \/ StartWave(t)
           \/ ScanSkip(t) \/ CollectAgain(t)
    PROVE  TableInv'
<1>1. UNCHANGED <<entries, lru, readyEntries, queue, handles, index, pc>>
  BY DEF QueueWait, Exit, StartCollect, EndCollect, StartWave, ScanSkip, CollectAgain,
         tableVars, clientVars
<1>2. /\ bpc[t] \notin {"scan", "exec"} \/ bpc' = bpc
      /\ bpc' = bpc \/ \E where : bpc' = [bpc EXCEPT ![t] = where]
  BY DEF QueueWait, Exit, StartCollect, EndCollect, StartWave, ScanSkip, CollectAgain,
         BackendAt, BeginScan
<1>3. \A u \in Slots : bpc[u] \in {"scan", "exec"} => bpc'[u] \in {"scan", "exec"}
  BY <1>2 DEF SlotInv, SlotTypes
<1>4. wave' = wave \/ (wave' = [wave EXCEPT ![t] = <<>>] /\ bpc[t] \notin {"scan", "exec"})
  BY DEF QueueWait, Exit, StartCollect, EndCollect, StartWave, ScanSkip, CollectAgain, BeginScan
<1>5. wave' = wave
  <2>1. bpc[t] \notin {"scan", "exec"} => wave[t] = <<>>
    BY DEF TableInv, WorkInv, WavesPending
  <2> QED
    BY <1>4, <2>1 DEF TableInv, TableTypes
<1>6. TableQuiet
  BY <1>1, <1>3, <1>5 DEF TableQuiet
<1> QED
  BY <1>6, TableQuietPreserves

\* The end of a pruning, the start of the shutdown, and stuttering.
LEMMA QuietOtherTable ==
    ASSUME TableInv, CallShape, SlotInv, Pruned \/ Stop \/ Destroyed \/ UNCHANGED vars
    PROVE  TableInv'
<1>1. UNCHANGED <<entries, lru, readyEntries, queue, handles, index, wave, pc>>
  BY DEF Pruned, Stop, Destroyed, vars, tableVars, clientVars, backendVars
<1>2. bpc' = bpc \/ bpc' = WakeAll(bpc)
  BY DEF Pruned, Stop, Destroyed, vars, backendVars
<1>3. SameWork(bpc, bpc')
  BY <1>2, SignalSameWork DEF SameWork, SlotInv, SlotTypes
<1>4. TableQuiet
  BY <1>1, <1>3 DEF TableQuiet, SameWork
<1> QED
  BY <1>4, TableQuietPreserves

\* Every step keeps the table.
LEMMA TableStep ==
    ASSUME EntryInv, SlotInv, [Next]_vars
    PROVE  TableInv'
<1> USE DEF EntryInv
<1>1. ASSUME NEW c \in Clients, Client(c) PROVE TableInv'
  BY <1>1, QuietClientTable, SubmitHitTable, SubmitMissTable, LaunchSoloTable, SoloDoneTable,
     AwaitTakeTable, ReturnTable DEF Client
<1>2. ASSUME NEW t \in Slots, Backend(t) PROVE TableInv'
  BY <1>2, QuietBackendTable, ScanTakeTable, RunWaveTable, FinishWaveTable DEF Backend, Working
<1> QED
  BY <1>1, <1>2, EvictTable, DestroyTable, QuietOtherTable DEF Next

-----------------------------------------------------------------------------
(* The progress of calls, shutdown, and the plain variables *)

\* The progress of one call.
CallOf(c) ==
    /\ items[c] \in Seq(Keys)
    /\ pc[c] \in {"idle", "tokenize"} => handles[c] = <<>> /\ index[c] = 1
    /\ pc[c] = "tokenize" => items[c] # <<>>
    /\ pc[c] = "submit" => index[c] = 1 /\ Len(handles[c]) < Len(items[c])
    /\ pc[c] \in {"launch", "solo"} => index[c] = 1 /\ Len(handles[c]) > 0
    /\ pc[c] \in {"await", "doneWait"} => index[c] <= Len(handles[c])
    /\ pc[c] = "return" => index[c] = Len(handles[c]) + 1

\* A step of caller c advances c, and at most wakes the others.
LEMMA CallAdvances ==
    ASSUME CallShape, NEW c \in Clients,
           \E call \in Seq(Keys) : items' = [items EXCEPT ![c] = call],
           \A d \in Clients \ {c} :
               /\ handles'[d] = handles[d] /\ index'[d] = index[d]
               /\ pc'[d] = pc[d] \/ (pc[d] = "doneWait" /\ pc'[d] = "await"),
           CallOf(c)'
    PROVE  CallShape'
<1>1. items' \in [Clients -> Seq(Keys)] /\ \A d \in Clients \ {c} : items'[d] = items[d]
  BY DEF CallShape
<1>2. ASSUME NEW d \in Clients
      PROVE  CallOf(d)'
  <2>1. CASE d = c
    BY <2>1
  <2>2. CASE d # c
    BY <1>1, <2>2 DEF CallShape, CallOf
  <2> QED
    BY <2>1, <2>2
<1> QED
  BY <1>1, <1>2 DEF CallShape, CallOf

\* The calls themselves make progress.
LEMMA ClientShape ==
    ASSUME EntryInv, SlotInv, NEW c \in Clients, Client(c)
    PROVE  CallShape'
<1> USE DEF Goto, clientVars
<1>a. /\ CallShape
      /\ items[c] \in Seq(Keys) /\ handles[c] \in Seq(Cells) /\ index[c] \in Nat \ {0}
      /\ items \in [Clients -> Seq(Keys)] /\ handles \in [Clients -> Seq(Cells)]
      /\ index \in [Clients -> Nat \ {0}] /\ pc \in [Clients -> ClientPCs]
  BY DEF EntryInv, TableInv, TableTypes, CallShape, SlotInv, SlotTypes
<1>b. items = [items EXCEPT ![c] = items[c]]
  BY <1>a
<1>c. <<>> \in Seq(Keys) /\ \A call \in Calls : call \in Seq(Keys) /\ call # <<>>
  BY ServiceAssumption
<1>1. ASSUME NEW call \in Calls, Arrive(c, call) \/ EmbedTokens(c, call) PROVE CallShape'
  <2>1. CallOf(c)'
    BY <1>1, <1>a, <1>c DEF Arrive, EmbedTokens, CallOf, CallShape
  <2> QED
    BY <1>1, <1>a, <1>c, <2>1, CallAdvances DEF Arrive, EmbedTokens
<1>2. CASE NoTokens(c)
  <2>1. CallOf(c)'
    BY <1>2, <1>a, <1>c DEF NoTokens, CallOf, CallShape
  <2> QED
    BY <1>2, <1>a, <1>c, <2>1, CallAdvances DEF NoTokens
<1>3. CASE Tokenized(c)
  <2>1. CallOf(c)'
    BY <1>3, <1>a DEF Tokenized, CallOf, CallShape
  <2> QED
    BY <1>3, <1>a, <1>b, <2>1, CallAdvances DEF Tokenized
<1>4. CASE SubmitHit(c) \/ SubmitMiss(c)
  <2>1. PICK e \in Cells : Submitted(c, e) /\ pc[c] = "submit"
    <3>1. CASE SubmitHit(c)
      BY <3>1 DEF SubmitHit, Matching
    <3>2. CASE SubmitMiss(c)
      <4>1. FreeCells \in SUBSET Nat /\ FreeCells # {}
        BY <3>2, ServiceAssumption DEF FreeCells, SubmitMiss
      <4>2. Lowest(FreeCells) \in FreeCells
        BY <4>1, LowestNat
      <4>3. Lowest(FreeCells) \in Cells
        BY <4>2 DEF FreeCells
      <4> QED
        BY <3>2, <4>3 DEF SubmitMiss
    <3> QED
      BY <1>4, <3>1, <3>2
  <2>2. /\ handles' = [handles EXCEPT ![c] = Append(handles[c], e)]
        /\ pc' = [pc EXCEPT ![c] =
                    IF Len(handles[c]) + 1 = Len(items[c]) THEN "launch" ELSE "submit"]
        /\ UNCHANGED <<items, index>>
    BY <2>1 DEF Submitted
  <2>3. /\ handles'[c] = Append(handles[c], e)
        /\ pc'[c] = IF Len(handles[c]) + 1 = Len(items[c]) THEN "launch" ELSE "submit"
    BY <1>a, <2>2
  <2>4. Len(handles'[c]) = Len(handles[c]) + 1
    BY <1>a, <2>3
  <2>5. index[c] = 1 /\ Len(handles[c]) < Len(items[c])
    BY <1>a, <2>1 DEF CallShape
  <2>6. CallOf(c)'
    BY <1>a, <2>2, <2>3, <2>4, <2>5 DEF CallOf
  <2> QED
    BY <1>a, <1>b, <2>2, <2>6, CallAdvances
<1>5. CASE LaunchSolo(c) \/ LaunchSignal(c)
  <2>1. CallOf(c)'
    BY <1>5, <1>a DEF LaunchSolo, LaunchSignal, CallOf, CallShape
  <2> QED
    BY <1>5, <1>a, <1>b, <2>1, CallAdvances DEF LaunchSolo, LaunchSignal
<1>6. ASSUME NEW success \in BOOLEAN, SoloDone(c, success) PROVE CallShape'
  <2>1. /\ pc[c] = "solo" /\ UNCHANGED <<items, handles, index>>
        /\ pc' = [WakeCallers(pc, {handles[c][1]}) EXCEPT ![c] = "await"]
    BY <1>6 DEF SoloDone
  <2>2. /\ pc'[c] = "await"
        /\ \A d \in Clients \ {c} : pc'[d] = pc[d] \/ (pc[d] = "doneWait" /\ pc'[d] = "await")
    BY <1>a, <2>1 DEF WakeCallers
  <2>3. CallOf(c)'
    BY <1>a, <2>1, <2>2 DEF CallOf, CallShape
  <2> QED
    BY <1>a, <1>b, <2>1, <2>2, <2>3, CallAdvances
<1>7. CASE AwaitBlock(c)
  <2>1. CallOf(c)'
    BY <1>7, <1>a DEF AwaitBlock, CallOf, CallShape
  <2> QED
    BY <1>7, <1>a, <1>b, <2>1, CallAdvances DEF AwaitBlock
<1>8. CASE AwaitTake(c)
  <2>1. /\ pc[c] = "await" /\ UNCHANGED <<items, handles>>
        /\ index' = [index EXCEPT ![c] = index[c] + 1]
        /\ pc' = [pc EXCEPT ![c] = IF index[c] = Len(handles[c]) THEN "return" ELSE "await"]
    BY <1>8 DEF AwaitTake
  <2>2. CallOf(c)'
    BY <1>a, <2>1 DEF CallOf, CallShape
  <2> QED
    BY <1>a, <1>b, <2>1, <2>2, CallAdvances
<1>9. CASE Return(c)
  <2>1. CallOf(c)'
    BY <1>9, <1>a, <1>c DEF Return, CallOf, CallShape
  <2> QED
    BY <1>9, <1>a, <1>c, <2>1, CallAdvances DEF Return
<1> QED
  BY <1>1, <1>2, <1>3, <1>4, <1>5, <1>6, <1>7, <1>8, <1>9 DEF Client

\* Every step leaves every call within its list of items.
LEMMA CallStep ==
    ASSUME EntryInv, SlotInv, [Next]_vars
    PROVE  CallShape'
<1>a. CallShape /\ pc \in [Clients -> ClientPCs]
  BY DEF EntryInv, SlotInv, SlotTypes
<1>1. ASSUME NEW t \in Slots, Backend(t) PROVE CallShape'
  <2>1. UNCHANGED <<items, handles, index>>
    BY <1>1 DEF Backend, Working, QueueWait, Exit, StartCollect, EndCollect, StartWave,
                CollectAgain, ScanTake, ScanSkip, RunWave, FinishWave, clientVars
  <2>2. pc' = pc \/ pc' = WakeCallers(pc, ToSet(wave[t]))
    BY <1>1 DEF Backend, Working, QueueWait, Exit, StartCollect, EndCollect, StartWave,
                CollectAgain, ScanTake, ScanSkip, RunWave, FinishWave, clientVars
  <2>3. \A d \in Clients : pc'[d] = pc[d] \/ (pc[d] = "doneWait" /\ pc'[d] = "await")
    BY <2>2 DEF WakeCallers
  <2> QED
    BY <1>a, <2>1, <2>3 DEF CallShape
<1>2. ASSUME Evict \/ Pruned \/ Stop \/ Destroy \/ Destroyed \/ UNCHANGED vars PROVE CallShape'
  <2>1. UNCHANGED <<pc, items, handles, index>>
    BY <1>2 DEF Evict, Pruned, Stop, Destroy, Destroyed, vars, clientVars
  <2> QED
    BY <1>a, <2>1 DEF CallShape
<1> QED
  BY <1>1, <1>2, ClientShape DEF Next

\* Shutdown.
LEMMA StopStep ==
    ASSUME EntryInv, SlotInv, [Next]_vars
    PROVE  StopShape'
<1>a. StopShape /\ pc \in [Clients -> ClientPCs] /\ bpc \in [Slots -> BackendPCs]
  BY DEF EntryInv, SlotInv, SlotTypes
<1>b. \A p \in BackendPCs : Woken(p) = "exited" <=> p = "exited"
  BY DEF Woken, BackendPCs
<1>1. ASSUME NEW c \in Clients, Client(c)
      PROVE  /\ stopping' = stopping
             /\ \A t \in Slots : bpc'[t] = "exited" => bpc[t] = "exited"
             /\ queue' = queue \/ queue' = <<>> \/ ~stopping
             /\ ~stopping \/ \A d \in Clients : pc'[d] \notin {"tokenize", "submit", "launch"}
  <2>1. stopping' = stopping
    BY <1>1 DEF Client, Arrive, EmbedTokens, NoTokens, Tokenized, SubmitHit, SubmitMiss, Submitted,
                LaunchSolo, LaunchSignal, SoloDone, AwaitBlock, AwaitTake, Return
  <2>2. ASSUME NEW at \in [Slots -> BackendPCs], SignalQueue(at), NEW t \in Slots,
               bpc'[t] = "exited"
        PROVE  at[t] = "exited"
    BY <1>b, <2>2 DEF SignalQueue, Waiters
  <2>3. \A t \in Slots : /\ WakeAll(bpc)[t] = "exited" <=> bpc[t] = "exited"
                         /\ AfterRelease(bpc)[t] = "exited" <=> bpc[t] = "exited"
    BY <1>a, <1>b DEF WakeAll, AfterRelease
  <2>4. AfterRelease(bpc) \in [Slots -> BackendPCs]
    BY <1>a, SignalSameWork DEF SameWork
  <2>5. \/ bpc' = bpc \/ bpc' = WakeAll(bpc) \/ SignalQueue(bpc)
        \/ SignalQueue(AfterRelease(bpc))
    BY <1>1 DEF Client, Arrive, EmbedTokens, NoTokens, Tokenized, SubmitHit, SubmitMiss, Submitted,
                LaunchSolo, LaunchSignal, SoloDone, AwaitBlock, AwaitTake, Return, backendVars
  <2>6. \A t \in Slots : bpc'[t] = "exited" => bpc[t] = "exited"
    BY <1>a, <2>2, <2>3, <2>4, <2>5
  <2>7. ASSUME stopping
        PROVE  /\ queue' = queue
               /\ \A d \in Clients : pc'[d] \notin {"tokenize", "submit", "launch"}
    <3>1. \A d \in Clients : pc[d] \notin {"tokenize", "submit", "launch"}
      BY <1>a, <2>7 DEF StopShape
    <3>2. \/ \E success \in BOOLEAN : SoloDone(c, success)
          \/ AwaitBlock(c) \/ AwaitTake(c) \/ Return(c)
      BY <1>1, <2>7, <3>1 DEF Client, Arrive, EmbedTokens, NoTokens, Tokenized, SubmitHit,
                              SubmitMiss, LaunchSolo, LaunchSignal
    <3>3. queue' = queue
      BY <3>2 DEF SoloDone, AwaitBlock, AwaitTake, Return
    <3>4. \A d \in Clients : pc'[d] \in {pc[d], "idle", "await", "doneWait", "return"}
      BY <1>a, <3>2 DEF SoloDone, AwaitBlock, AwaitTake, Return, Goto, WakeCallers
    <3> QED
      BY <3>1, <3>3, <3>4
  <2> QED
    BY <2>1, <2>6, <2>7
<1>2. ASSUME NEW c \in Clients, Client(c) PROVE StopShape'
  BY <1>a, <1>1, <1>2 DEF StopShape
<1>3. ASSUME NEW t \in Slots, Backend(t) PROVE StopShape'
  <2>1. stopping' = stopping
    BY <1>3 DEF Backend, Working, QueueWait, Exit, StartCollect, EndCollect, StartWave,
                CollectAgain, ScanTake, ScanSkip, RunWave, FinishWave
  <2>2. \A d \in Clients : pc'[d] \in {pc[d], "await"}
    BY <1>a, <1>3 DEF Backend, Working, QueueWait, Exit, StartCollect, EndCollect, StartWave,
                CollectAgain, ScanTake, ScanSkip, RunWave, FinishWave, clientVars, WakeCallers
  <2>3. ASSUME NEW u \in Slots, bpc'[u] = "exited"
        PROVE  bpc[u] = "exited" \/ (stopping /\ queue = <<>> /\ queue' = <<>>)
    <3>1. CASE Exit(t)
      BY <3>1 DEF Exit
    <3>2. CASE \E success \in BOOLEAN : FinishWave(t, success)
      <4>1. bpc' = [AfterRelease(bpc) EXCEPT ![t] = "top"]
        BY <3>2 DEF FinishWave
      <4>2. AfterRelease(bpc)[u] = "exited" <=> bpc[u] = "exited"
        BY <1>a, <1>b DEF AfterRelease, WakeAll
      <4>3. AfterRelease(bpc) \in [Slots -> BackendPCs]
        BY <1>a, SignalSameWork DEF SameWork
      <4> QED
        BY <2>3, <4>1, <4>2, <4>3
    <3>3. CASE \E where \in {"top", "queueWait", "collectWait", "scan", "exec"} :
                  BackendAt(t, where)
      BY <1>a, <2>3, <3>3 DEF BackendAt
    <3>4. CASE bpc' = bpc
      BY <2>3, <3>4
    <3>5. CASE QueueWait(t) \/ StartCollect(t) \/ EndCollect(t) \/ StartWave(t) \/ CollectAgain(t)
               \/ RunWave(t)
      <4>1. \E where \in {"top", "queueWait", "collectWait", "scan", "exec"} : BackendAt(t, where)
        BY <3>5 DEF QueueWait, StartCollect, EndCollect, StartWave, CollectAgain, RunWave, BeginScan
      <4> QED
        BY <3>3, <4>1
    <3>6. CASE ScanTake(t) \/ ScanSkip(t)
      BY <3>4, <3>6 DEF ScanTake, ScanSkip
    <3> QED
      BY <1>3, <3>1, <3>2, <3>5, <3>6 DEF Backend, Working
  <2>4. queue = <<>> => queue' = <<>>
    <3>1. CASE ScanTake(t)
      <4>1. Len(Lens(queue)) = Len(queue) /\ position[t] \in Nat \ {0}
        BY DEF Lens, EntryInv, TableInv, TableTypes, PlainTypes
      <4>2. position[t] <= Len(queue)
        BY <3>1, <4>1 DEF ScanTake, Scanning, ScanContinues
      <4> QED
        BY <4>1, <4>2
    <3> QED
      BY <1>3, <3>1 DEF Backend, Working, QueueWait, Exit, StartCollect, EndCollect, StartWave,
                CollectAgain, ScanSkip, RunWave, FinishWave
  <2> QED
    BY <1>a, <2>1, <2>2, <2>3, <2>4 DEF StopShape
<1>4. CASE Stop
  <2>1. /\ stopping' = TRUE /\ queue' = queue /\ pc' = pc /\ bpc' = WakeAll(bpc)
        /\ \A c \in Clients : pc[c] \in {"idle", "solo", "await", "doneWait"}
    BY <1>4 DEF Stop, clientVars
  <2>2. \A t \in Slots : bpc'[t] = "exited" <=> bpc[t] = "exited"
    BY <1>a, <1>b, <2>1 DEF WakeAll
  <2> QED
    BY <1>a, <2>1, <2>2 DEF StopShape
<1>5. ASSUME Evict \/ Pruned \/ Destroy \/ Destroyed \/ UNCHANGED vars PROVE StopShape'
  <2>1. UNCHANGED <<pc, bpc, queue, stopping>>
    BY <1>5 DEF Evict, Pruned, Destroy, Destroyed, vars, clientVars, backendVars
  <2> QED
    BY <1>a, <2>1 DEF StopShape
<1> QED
  BY <1>2, <1>3, <1>4, <1>5 DEF Next

\* The plain variables keep their types.
LEMMA PlainStep ==
    ASSUME EntryInv, SlotInv, [Next]_vars
    PROVE  PlainTypes'
<1>a. PlainTypes /\ items \in [Clients -> Seq(Keys)]
  BY DEF EntryInv, CallShape
<1>b. \A c \in Clients : Len(items[c]) \in Int
  BY <1>a
<1>c. \A call \in Calls : Len(call) \in Int
  BY ServiceAssumption
<1>1. ASSUME NEW c \in Clients, Client(c) PROVE PlainTypes'
  <2>1. stopping' = stopping /\ position' = position
    BY <1>1 DEF Client, Arrive, EmbedTokens, NoTokens, Tokenized, SubmitHit, SubmitMiss, Submitted,
                LaunchSolo, LaunchSignal, SoloDone, AwaitBlock, AwaitTake, Return, backendVars
  <2>2. lock' \in {lock, c, Free}
    BY <1>1 DEF Client, Arrive, EmbedTokens, NoTokens, Tokenized, SubmitHit, SubmitMiss, Submitted,
                LaunchSolo, LaunchSignal, SoloDone, AwaitBlock, AwaitTake, Return
  <2>3. pruning' \in {pruning, TRUE}
    BY <1>1 DEF Client, Arrive, EmbedTokens, NoTokens, Tokenized, SubmitHit, SubmitMiss, Submitted,
                LaunchSolo, LaunchSignal, SoloDone, AwaitBlock, AwaitTake, Return, ReleaseEntry,
                Complete, tableVars
  <2>4. arriving' \in Int /\ active' \in Int /\ activePeak' \in Int
    BY <1>a, <1>b, <1>c, <1>1 DEF PlainTypes, NoteArrived, NoteActive, countVars,
                Client, Arrive, EmbedTokens, NoTokens, Tokenized, SubmitHit, SubmitMiss, Submitted,
                LaunchSolo, LaunchSignal, SoloDone, AwaitBlock, AwaitTake, Return
  <2>5. ok' = ok \/ \E b \in BOOLEAN : ok' = [ok EXCEPT ![c] = b]
    <3>1. CASE AwaitTake(c)
      <4> DEFINE b == ok[c] /\ entries[handles[c][index[c]]].state = "READY"
      <4>1. ok' = [ok EXCEPT ![c] = b]
        BY <3>1 DEF AwaitTake
      <4>2. b \in BOOLEAN
        OBVIOUS
      <4> HIDE DEF b
      <4> QED
        BY <4>1, <4>2
    <3> QED
      BY <1>1, <3>1 DEF Client, Arrive, EmbedTokens, NoTokens, Tokenized, SubmitHit, SubmitMiss,
                Submitted, LaunchSolo, LaunchSignal, SoloDone, AwaitBlock, Return
  <2> QED
    BY <1>a, <2>1, <2>2, <2>3, <2>4, <2>5 DEF PlainTypes
<1>2. ASSUME NEW t \in Slots, Backend(t) PROVE PlainTypes'
  <2>1. UNCHANGED <<arriving, active, stopping, ok>>
    BY <1>2 DEF Backend, Working, QueueWait, Exit, StartCollect, EndCollect, StartWave,
                CollectAgain, ScanTake, ScanSkip, RunWave, FinishWave, countVars, clientVars
  <2>2. /\ lock' \in {lock, t, Free} /\ pruning' \in {pruning, TRUE}
        /\ activePeak' \in {activePeak, active}
    BY <1>2 DEF Backend, Working, QueueWait, Exit, StartCollect, EndCollect, StartWave,
                CollectAgain, ScanTake, ScanSkip, RunWave, FinishWave, BeginScan, Complete,
                countVars, tableVars
  <2>3. \/ position' = position
        \/ position' = [position EXCEPT ![t] = 1]
        \/ position' = [position EXCEPT ![t] = @ + 1]
    BY <1>2 DEF Backend, Working, QueueWait, Exit, StartCollect, EndCollect, StartWave,
                CollectAgain, ScanTake, ScanSkip, RunWave, FinishWave, BeginScan
  <2>4. position' \in [Slots -> Nat \ {0}]
    BY <1>a, <2>3 DEF PlainTypes
  <2> QED
    BY <1>a, <2>1, <2>2, <2>4 DEF PlainTypes
<1>3. ASSUME Evict \/ Pruned \/ Stop \/ Destroy \/ Destroyed \/ UNCHANGED vars PROVE PlainTypes'
  <2>1. /\ UNCHANGED <<arriving, active, activePeak, lock, ok, position>>
        /\ pruning' \in {pruning, FALSE} /\ stopping' \in {stopping, TRUE}
    BY <1>3 DEF Evict, Pruned, Stop, Destroy, Destroyed, vars, countVars, clientVars, backendVars,
                tableVars
  <2> QED
    BY <1>a, <2>1 DEF PlainTypes
<1> QED
  BY <1>1, <1>2, <1>3 DEF Next

-----------------------------------------------------------------------------
(* Theorems *)

\* The invariant holds initially.
LEMMA EntryInit == Init => EntryInv
<1> SUFFICES ASSUME Init PROVE EntryInv
  OBVIOUS
<1>1. \A e \in Cells : entries[e] = NoEntry
  BY DEF Init
<1>2. /\ queue = <<>> /\ lru = <<>> /\ readyEntries = 0
      /\ \A t \in Slots : wave[t] = <<>> /\ bpc[t] = "top"
      /\ \A c \in Clients : pc[c] = "idle" /\ handles[c] = <<>> /\ index[c] = 1
  BY DEF Init
<1>3. TableTypes
  BY DEF Init, TableTypes
<1>4. WorkInv
  BY <1>1, <1>2 DEF WorkInv, QueuePending, WavesPending, SolosPending, PendingHeld, Pending,
                    ToSet, Distinct
<1>5. LruReady
  BY <1>1, <1>2 DEF LruReady, Ready, ToSet, Distinct
<1>6. Counted
  BY <1>1, <1>2 DEF Counted, References
<1>7. KeysUnique
  BY <1>1 DEF KeysUnique
<1>8. CallShape
  BY <1>2 DEF Init, CallShape
<1>9. StopShape
  BY <1>2 DEF Init, StopShape
<1>10. PlainTypes
  <2>1. ok \in [Clients -> BOOLEAN] /\ position \in [Slots -> Nat \ {0}]
    BY DEF Init
  <2>2. pruning \in BOOLEAN /\ stopping \in BOOLEAN
    BY DEF Init
  <2>3. arriving \in Int /\ active \in Int /\ activePeak \in Int
    BY DEF Init
  <2>4. lock \in Clients \cup Slots \cup {Free}
    BY DEF Init
  <2> QED
    BY <2>1, <2>2, <2>3, <2>4 DEF PlainTypes
<1> QED
  BY <1>3, <1>4, <1>5, <1>6, <1>7, <1>8, <1>9, <1>10 DEF EntryInv, TableInv

\* Every step keeps it, given the invariant of the slots.
LEMMA EntryStep == EntryInv /\ SlotInv /\ [Next]_vars => EntryInv'
<1> SUFFICES ASSUME EntryInv, SlotInv, [Next]_vars PROVE EntryInv'
  OBVIOUS
<1> QED
  BY TableStep, CallStep, StopStep, PlainStep DEF EntryInv

\* The inductive invariant of the entry table holds in every reachable state.
THEOREM EntryInvariance == Spec => []EntryInv
<1> QED
  BY EntryInit, EntryStep, SlotInvariance, PTL DEF Spec

\* Every variable has its type.
THEOREM TypesKept == Spec => []TypeOK
<1>1. EntryInv /\ SlotInv => TypeOK
  <2> SUFFICES ASSUME EntryInv, SlotInv PROVE TypeOK
    OBVIOUS
  <2>1. readyEntries \in Int
    BY DEF EntryInv, TableInv, TableTypes, LruReady
  <2>2. longMask \subseteq Slots
    BY DEF SlotInv, SlotTypes
  <2> QED
    BY <2>1, <2>2 DEF TypeOK, EntryInv, TableInv, TableTypes, CallShape, PlainTypes,
                      SlotInv, SlotTypes
<1> QED
  BY <1>1, EntryInvariance, SlotInvariance, PTL

\* Two entries never have the same token sequence: what is in flight is not
\* computed a second time.
THEOREM SingleFlight == Spec => []OneEntryPerKey
<1>1. EntryInv => OneEntryPerKey
  BY DEF EntryInv, TableInv, KeysUnique, OneEntryPerKey, Allocated, FreeCells
<1> QED
  BY <1>1, EntryInvariance, PTL

\* entry->users is the number of items that still have to release the entry.
THEOREM CountedUsers == Spec => []UsersCounted
<1>1. EntryInv => UsersCounted
  BY DEF EntryInv, TableInv, Counted, UsersCounted, Allocated, FreeCells
<1> QED
  BY <1>1, EntryInvariance, PTL

\* No queue, wave, LRU list or caller holds a freed entry.
THEOREM NothingDangles == Spec => []NoDanglingEntry
<1>1. ASSUME EntryInv PROVE NoDanglingEntry
  <2>1. /\ ToSet(queue) \subseteq Cells /\ ToSet(lru) \subseteq Cells
        /\ \A t \in Slots : ToSet(wave[t]) \subseteq Cells
    BY <1>1, WorkCells DEF EntryInv, TableInv
  <2>2. ToSet(queue) \cup ToSet(lru) \subseteq Allocated
    BY <1>1, <2>1 DEF EntryInv, TableInv, WorkInv, QueuePending, LruReady, Pending, Ready,
                      Allocated, FreeCells
  <2>3. \A t \in Slots : ToSet(wave[t]) \subseteq Allocated
    BY <1>1, <2>1 DEF EntryInv, TableInv, WorkInv, WavesPending, Pending, Allocated, FreeCells
  <2>4. ASSUME NEW c \in Clients, NEW i \in index[c] .. Len(handles[c])
        PROVE  handles[c][i] \in Allocated
    <3>1. handles[c] \in Seq(Cells) /\ i \in 1 .. Len(handles[c])
      BY <1>1, <2>4 DEF EntryInv, TableInv, TableTypes
    <3>2. handles[c][i] \in Cells
      BY <3>1
    <3>3. <<c, i>> \in References(handles[c][i])
      BY ReferenceMember
    <3> QED
      BY <1>1, <3>2, <3>3 DEF EntryInv, TableInv, Counted, Allocated, FreeCells
  <2> QED
    BY <2>2, <2>3, <2>4 DEF NoDanglingEntry
<1> QED
  BY <1>1, EntryInvariance, PTL

\* A failed entry is held by a caller: it leaves the table with its last user.
THEOREM FailuresLeave == Spec => []FailureNotCached
<1>1. EntryInv => FailureNotCached
  BY DEF EntryInv, TableInv, Counted, FailureNotCached, Allocated, FreeCells
<1> QED
  BY <1>1, EntryInvariance, PTL

\* Where the pending entries are.
LEMMA PlacesAre ==
    ASSUME NEW e, NEW x
    PROVE  x \in Places(e) <=>
               \/ \E i \in DOMAIN queue : queue[i] = e /\ x = <<"queue", 0, i>>
               \/ \E t \in Slots : \E i \in DOMAIN wave[t] : wave[t][i] = e /\ x = <<"wave", t, i>>
               \/ \E c \in Clients : pc[c] = "solo" /\ handles[c][1] = e /\ x = <<"solo", c, 1>>
<1>1. x \in QueuePlaces(e) <=> \E i \in DOMAIN queue : queue[i] = e /\ x = <<"queue", 0, i>>
  BY DEF QueuePlaces
<1>2. x \in WavePlaces(e) <=>
          \E t \in Slots : \E i \in DOMAIN wave[t] : wave[t][i] = e /\ x = <<"wave", t, i>>
  BY DEF WavePlaces
<1>3. x \in SoloPlaces(e) <=>
          \E c \in Clients : pc[c] = "solo" /\ handles[c][1] = e /\ x = <<"solo", c, 1>>
  BY DEF SoloPlaces, Soloing
<1> QED
  BY <1>1, <1>2, <1>3 DEF Places

\* A pending entry has no two places: lists are without repetition, and the
\* queue, the waves and the inline runs are disjoint.
LEMMA OnePlace ==
    ASSUME EntryInv, NEW e \in Cells, NEW x \in Places(e), NEW y \in Places(e)
    PROVE  x = y
<1>a. /\ Distinct(queue) /\ \A t \in Slots : Distinct(wave[t])
      /\ \A t \in Slots : e \in ToSet(wave[t]) =>
            e \notin ToSet(queue) /\ \A u \in Slots : e \in ToSet(wave[u]) => u = t
      /\ \A c \in Clients : pc[c] = "solo" /\ handles[c][1] = e =>
            /\ e \notin ToSet(queue)
            /\ \A t \in Slots : e \notin ToSet(wave[t])
            /\ \A d \in Clients : pc[d] = "solo" /\ handles[d][1] = e => d = c
  BY DEF EntryInv, TableInv, WorkInv, QueuePending, WavesPending, SolosPending
<1>b. /\ \A i \in DOMAIN queue : queue[i] = e => e \in ToSet(queue)
      /\ \A t \in Slots : \A i \in DOMAIN wave[t] : wave[t][i] = e => e \in ToSet(wave[t])
  BY DEF ToSet
<1>1. CASE e \in ToSet(queue)
  <2>1. PICK i \in DOMAIN queue : queue[i] = e /\ x = <<"queue", 0, i>>
    BY <1>1, <1>a, <1>b, PlacesAre
  <2>2. PICK j \in DOMAIN queue : queue[j] = e /\ y = <<"queue", 0, j>>
    BY <1>1, <1>a, <1>b, PlacesAre
  <2>3. i = j
    BY <1>a, <2>1, <2>2 DEF Distinct
  <2> QED
    BY <2>1, <2>2, <2>3
<1>2. ASSUME NEW t \in Slots, e \in ToSet(wave[t]) PROVE x = y
  <2>1. PICK i \in DOMAIN wave[t] : wave[t][i] = e /\ x = <<"wave", t, i>>
    BY <1>2, <1>a, <1>b, PlacesAre
  <2>2. PICK j \in DOMAIN wave[t] : wave[t][j] = e /\ y = <<"wave", t, j>>
    BY <1>2, <1>a, <1>b, PlacesAre
  <2>3. i = j
    BY <1>a, <2>1, <2>2 DEF Distinct
  <2> QED
    BY <2>1, <2>2, <2>3
<1>3. CASE e \notin ToSet(queue) /\ \A t \in Slots : e \notin ToSet(wave[t])
  <2>1. PICK c \in Clients : pc[c] = "solo" /\ handles[c][1] = e /\ x = <<"solo", c, 1>>
    BY <1>3, <1>b, PlacesAre
  <2>2. PICK d \in Clients : pc[d] = "solo" /\ handles[d][1] = e /\ y = <<"solo", d, 1>>
    BY <1>3, <1>b, PlacesAre
  <2> QED
    BY <1>a, <2>1, <2>2
<1> QED
  BY <1>1, <1>2, <1>3

\* A pending entry is queued, in one wave, or run inline by one caller: once,
\* and nothing that is answered is in any of these places.
THEOREM PlacedOnce == Spec => []PendingInOnePlace
<1>1. ASSUME EntryInv PROVE PendingInOnePlace
  <2> SUFFICES ASSUME NEW e \in Cells, entries[e] # NoEntry
               PROVE  Cardinality(Places(e)) = IF entries[e].state = "PENDING" THEN 1 ELSE 0
    BY DEF PendingInOnePlace, Allocated, FreeCells
  <2>1. CASE Pending(e)
    <3>1. PICK x : x \in Places(e)
      <4>1. \/ \E i \in DOMAIN queue : queue[i] = e
            \/ \E t \in Slots : \E i \in DOMAIN wave[t] : wave[t][i] = e
            \/ \E c \in Clients : pc[c] = "solo" /\ handles[c][1] = e
        BY <1>1, <2>1 DEF EntryInv, TableInv, WorkInv, PendingHeld, ToSet
      <4>2. ASSUME NEW i \in DOMAIN queue, queue[i] = e
            PROVE  <<"queue", 0, i>> \in Places(e)
        BY <4>2, PlacesAre
      <4>3. ASSUME NEW t \in Slots, NEW i \in DOMAIN wave[t], wave[t][i] = e
            PROVE  <<"wave", t, i>> \in Places(e)
        BY <4>3, PlacesAre
      <4>4. ASSUME NEW c \in Clients, pc[c] = "solo", handles[c][1] = e
            PROVE  <<"solo", c, 1>> \in Places(e)
        BY <4>4, PlacesAre
      <4> QED
        BY <4>1, <4>2, <4>3, <4>4
    <3>2. Places(e) = {x}
      BY <1>1, <3>1, OnePlace
    <3> QED
      BY <2>1, <3>2, FS_Singleton DEF Pending
  <2>2. CASE ~Pending(e)
    <3>1. /\ e \notin ToSet(queue) /\ \A t \in Slots : e \notin ToSet(wave[t])
          /\ \A c \in Clients : pc[c] = "solo" => handles[c][1] # e
      BY <1>1, <2>2 DEF EntryInv, TableInv, WorkInv, QueuePending, WavesPending, SolosPending
    <3>2. \A x : x \notin Places(e)
      BY <3>1, PlacesAre DEF ToSet
    <3>3. Places(e) = {}
      BY <3>2
    <3> QED
      BY <2>2, <3>3, FS_EmptySet DEF Pending
  <2> QED
    BY <2>1, <2>2
<1> QED
  BY <1>1, EntryInvariance, PTL

\* What a step may do to an entry that it does not free.
EntryKept(e) ==
    entries[e] # NoEntry /\ entries'[e] # NoEntry =>
        /\ entries'[e].key = entries[e].key
        /\ entries[e].state # "PENDING" => entries'[e].state = entries[e].state

\* A finished wave answers only what was pending.
LEMMA CompleteKeeps ==
    ASSUME TableTypes, NEW done, NEW success \in BOOLEAN, Complete(done, success),
           \A e \in ToSet(done) : Pending(e)
    PROVE  \A e \in Cells : EntryKept(e)
<1> SUFFICES ASSUME NEW e \in Cells, entries[e] # NoEntry
             PROVE  /\ entries'[e].key = entries[e].key
                    /\ entries[e].state # "PENDING" => entries'[e].state = entries[e].state
  BY DEF EntryKept
<1> DEFINE answer == IF success THEN "READY" ELSE "FAILED"
<1>1. entries'[e] = IF e \in ToSet(done) THEN [entries[e] EXCEPT !.state = answer] ELSE entries[e]
  BY DEF Complete
<1>2. entries[e] \in EntryType
  BY DEF TableTypes
<1> HIDE DEF answer
<1>3. CASE e \in ToSet(done)
  <2>1. entries'[e].key = entries[e].key
    BY <1>1, <1>2, <1>3 DEF EntryType
  <2> QED
    BY <1>3, <2>1 DEF Pending
<1>4. CASE e \notin ToSet(done)
  BY <1>1, <1>4
<1> QED
  BY <1>3, <1>4

\* No step changes the sequence or the answer of an entry.
LEMMA EntriesKept ==
    ASSUME EntryInv, [Next]_vars
    PROVE  \A e \in Cells : EntryKept(e)
<1> DEFINE A == \A e \in Cells : EntryKept(e)
<1>a. TableTypes /\ TableInv
  BY DEF EntryInv, TableInv
<1>1. ASSUME entries' = entries PROVE A
  BY <1>1 DEF EntryKept
<1>2. ASSUME NEW e \in Cells, entries[e] # NoEntry, NEW n,
             entries' = [entries EXCEPT ![e].users = n]
      PROVE  A
  <2>1. entries[e] \in EntryType /\ \A f \in Cells \ {e} : entries'[f] = entries[f]
    BY <1>a, <1>2 DEF TableTypes
  <2>2. entries'[e] = [entries[e] EXCEPT !.users = n]
    BY <1>a, <1>2 DEF TableTypes
  <2> QED
    BY <2>1, <2>2 DEF EntryKept, EntryType
<1>3. ASSUME NEW e, entries' = [entries EXCEPT ![e] = NoEntry] PROVE A
  BY <1>a, <1>3 DEF EntryKept, TableTypes
<1>4. ASSUME NEW c \in Clients, Client(c) PROVE A
  <2>1. CASE SubmitHit(c)
    <3>1. PICK e \in Matching(NextItem(c)) :
              entries' = [entries EXCEPT ![e].users = entries[e].users + 1]
      BY <2>1 DEF SubmitHit
    <3> QED
      BY <1>2, <3>1 DEF Matching, FreeCells
  <2>2. CASE SubmitMiss(c)
    <3>1. FreeCells \in SUBSET Nat /\ FreeCells # {}
      BY <2>2, ServiceAssumption DEF FreeCells, SubmitMiss
    <3>2. Lowest(FreeCells) \in FreeCells
      BY <3>1, LowestNat
    <3>3. \E new : entries' = [entries EXCEPT ![Lowest(FreeCells)] = new]
      BY <2>2 DEF SubmitMiss
    <3>4. \A f \in Cells : entries[f] # NoEntry => entries'[f] = entries[f]
      BY <1>a, <3>2, <3>3 DEF FreeCells, TableTypes
    <3> QED
      BY <3>4 DEF EntryKept
  <2>3. ASSUME NEW success \in BOOLEAN, SoloDone(c, success) PROVE A
    <3> DEFINE mine == handles[c][1]
    <3>1. Complete(<<mine>>, success) /\ pc[c] = "solo"
      BY <2>3 DEF SoloDone
    <3>2. Pending(mine)
      BY <1>a, <3>1 DEF TableInv, WorkInv, SolosPending
    <3> HIDE DEF mine
    <3>3. \A e \in ToSet(<<mine>>) : Pending(e)
      BY <3>2 DEF ToSet
    <3> QED
      BY <1>a, <3>1, <3>3, CompleteKeeps
  <2>4. CASE AwaitTake(c)
    <3> DEFINE e == handles[c][index[c]]
    <3>1. ReleaseEntry(e) /\ index[c] <= Len(handles[c])
      BY <2>4 DEF AwaitTake, EntryInv, CallShape
    <3>2. handles[c] \in Seq(Cells) /\ index[c] \in 1 .. Len(handles[c])
      BY <1>a, <3>1 DEF TableTypes
    <3>3. e \in Cells
      BY <3>2
    <3>4. <<c, index[c]>> \in References(e)
      BY <3>2, ReferenceMember
    <3>5. entries[e] # NoEntry
      BY <1>a, <3>3, <3>4 DEF TableInv, Counted
    <3> HIDE DEF e
    <3>6. \/ entries' = [entries EXCEPT ![e] = NoEntry]
          \/ entries' = [entries EXCEPT ![e].users = entries[e].users - 1]
      BY <3>1 DEF ReleaseEntry
    <3> QED
      BY <1>2, <1>3, <3>3, <3>5, <3>6
  <2>5. CASE \/ \E call \in Calls : Arrive(c, call) \/ EmbedTokens(c, call)
             \/ NoTokens(c) \/ Tokenized(c) \/ LaunchSolo(c) \/ LaunchSignal(c)
             \/ AwaitBlock(c) \/ Return(c)
    BY <1>1, <2>5 DEF Arrive, EmbedTokens, NoTokens, Tokenized, LaunchSolo, LaunchSignal,
                      AwaitBlock, Return, tableVars
  <2> QED
    BY <1>4, <2>1, <2>2, <2>3, <2>4, <2>5 DEF Client
<1>5. ASSUME NEW t \in Slots, Backend(t) PROVE A
  <2>1. ASSUME NEW success \in BOOLEAN, FinishWave(t, success) PROVE A
    <3>1. Complete(wave[t], success)
      BY <2>1 DEF FinishWave
    <3>2. \A e \in ToSet(wave[t]) : Pending(e)
      BY <1>a DEF TableInv, WorkInv, WavesPending
    <3> QED
      BY <1>a, <3>1, <3>2, CompleteKeeps
  <2>2. entries' = entries \/ \E success \in BOOLEAN : FinishWave(t, success)
    BY <1>5 DEF Backend, Working, QueueWait, Exit, StartCollect, EndCollect, StartWave,
                CollectAgain, ScanTake, ScanSkip, RunWave, tableVars
  <2> QED
    BY <1>1, <2>1, <2>2
<1>6. CASE Evict
  BY <1>3, <1>6 DEF Evict
<1>7. CASE Destroy
  BY <1>7 DEF Destroy, EntryKept
<1>8. CASE Pruned \/ Stop \/ Destroyed \/ UNCHANGED vars
  BY <1>1, <1>8 DEF Pruned, Stop, Destroyed, vars, tableVars
<1> QED
  BY <1>4, <1>5, <1>6, <1>7, <1>8 DEF Next

\* An entry keeps its sequence, and its answer once it has one.
THEOREM AnswersKept == Spec => AnsweredOnce
<1>1. EntryInv /\ [Next]_vars => [\A e \in Cells :
          entries[e] # NoEntry /\ entries'[e] # NoEntry =>
              /\ entries'[e].key = entries[e].key
              /\ entries[e].state # "PENDING" => entries'[e].state = entries[e].state]_vars
  BY EntriesKept DEF EntryKept
<1> QED
  BY <1>1, EntryInvariance, PTL DEF Spec, AnsweredOnce

-----------------------------------------------------------------------------
(* The exact cache *)

\* Beyond its capacity the cache holds only entries in use, unless it is just
\* being pruned.
CacheFull ==
    ~pruning /\ readyEntries > CacheEntries => \A e \in ToSet(lru) : entries[e].users > 0

\* prune_cache finds an entry to give up if there is one.
LEMMA EvictableExists ==
    ASSUME EntryInv, NEW i \in DOMAIN lru, entries[lru[i]].users = 0
    PROVE  Evictable # {}
<1>1. lru \in Seq(Cells)
  BY DEF EntryInv, TableInv, TableTypes
<1> DEFINE unused == {j \in DOMAIN lru : entries[lru[j]].users = 0}
           below == {Len(lru) - j : j \in unused}
<1>2. below \in SUBSET Nat /\ below # {}
  BY <1>1
<1>3. Lowest(below) \in below /\ \A n \in below : Lowest(below) <= n
  BY <1>2, LowestNat
<1>4. PICK k \in unused : \A n \in below : Len(lru) - k <= n
  BY <1>3
<1>5. \A j \in unused : Len(lru) - k <= Len(lru) - j
  BY <1>4
<1>6. \A j \in unused : j <= k
  BY <1>1, <1>5
<1> QED
  BY <1>6 DEF Evictable

\* Nothing but a pruning that finds no more to give up ends a pruning.
LEMMA CacheStep ==
    ASSUME EntryInv, EntryInv', CacheFull, [Next]_vars
    PROVE  CacheFull'
<1>a. /\ TableTypes /\ TableInv /\ ToSet(lru) \subseteq Cells
      /\ \A e \in Cells : e \in ToSet(lru) <=> Ready(e)
  BY WorkCells DEF EntryInv, TableInv, LruReady
<1>1. ASSUME UNCHANGED <<entries, lru, readyEntries, pruning>> PROVE CacheFull'
  BY <1>1 DEF CacheFull, ToSet
<1>2. ASSUME pruning' = TRUE PROVE CacheFull'
  BY <1>2 DEF CacheFull
<1>3. ASSUME NEW c \in Clients, Client(c) PROVE CacheFull'
  <2>1. CASE SubmitHit(c)
    <3>1. PICK e \in Matching(NextItem(c)) :
              /\ entries' = [entries EXCEPT ![e].users = entries[e].users + 1]
              /\ UNCHANGED <<readyEntries, pruning>>
      BY <2>1 DEF SubmitHit, Submitted
    <3>2. e \in Cells /\ entries[e] # NoEntry
      BY DEF Matching, FreeCells
    <3>3. entries[e] \in EntryType /\ entries[e].users \in Nat
      BY <1>a, <3>2 DEF TableTypes, EntryType
    <3>4. entries'[e] = [entries[e] EXCEPT !.users = entries[e].users + 1]
      BY <1>a, <3>1, <3>2 DEF TableTypes
    <3>5. entries'[e].users > 0 /\ entries'[e].state = entries[e].state
      BY <3>3, <3>4 DEF EntryType
    <3>6. \A f \in Cells \ {e} : entries'[f] = entries[f]
      BY <1>a, <3>1 DEF TableTypes
    <3>7. ToSet(lru') \subseteq Cells /\ \A f \in Cells : f \in ToSet(lru') => Ready(f)'
      BY MembersAreCells DEF EntryInv, TableInv, TableTypes, LruReady
    <3>8. \A f \in ToSet(lru') : f = e \/ f \in ToSet(lru)
      BY <1>a, <3>6, <3>7 DEF Ready
    <3> QED
      BY <1>a, <3>1, <3>5, <3>6, <3>7, <3>8 DEF CacheFull
  <2>2. CASE SubmitMiss(c)
    <3>1. UNCHANGED <<lru, readyEntries, pruning>>
      BY <2>2 DEF SubmitMiss, Submitted
    <3>2. FreeCells \in SUBSET Nat /\ FreeCells # {}
      BY <2>2, ServiceAssumption DEF FreeCells, SubmitMiss
    <3>3. Lowest(FreeCells) \in FreeCells
      BY <3>2, LowestNat
    <3>4. \E new : entries' = [entries EXCEPT ![Lowest(FreeCells)] = new]
      BY <2>2 DEF SubmitMiss
    <3>5. \A f \in ToSet(lru) : entries'[f] = entries[f]
      BY <1>a, <3>3, <3>4 DEF TableTypes, Ready, FreeCells
    <3>6. ToSet(lru') = ToSet(lru)
      BY <3>1
    <3> QED
      BY <3>1, <3>5, <3>6 DEF CacheFull
  <2>3. CASE \E success \in BOOLEAN : SoloDone(c, success)
    BY <1>2, <2>3 DEF SoloDone, Complete
  <2>4. CASE AwaitTake(c)
    <3> DEFINE e == handles[c][index[c]]
    <3>1. ReleaseEntry(e)
      BY <2>4 DEF AwaitTake
    <3>2. CASE entries[e].state = "FAILED" /\ entries[e].users = 1
      <4>1. /\ entries' = [entries EXCEPT ![e] = NoEntry] /\ pruning' = pruning
            /\ lru' = Without(lru, e)
            /\ readyEntries' = IF e \in ToSet(lru) THEN readyEntries - 1 ELSE readyEntries
        BY <3>1, <3>2 DEF ReleaseEntry
      <4>2. e \notin ToSet(lru)
        BY <1>a, <3>2 DEF Ready
      <4>3. lru' = lru /\ readyEntries' = readyEntries
        BY <4>1, <4>2 DEF Without
      <4>4. \A f \in ToSet(lru) : entries'[f] = entries[f]
        BY <1>a, <4>1, <4>2 DEF TableTypes
      <4>5. ToSet(lru') = ToSet(lru)
        BY <4>3
      <4> QED
        BY <4>1, <4>3, <4>4, <4>5 DEF CacheFull
    <3>3. CASE ~(entries[e].state = "FAILED" /\ entries[e].users = 1)
      BY <1>2, <3>1, <3>3 DEF ReleaseEntry
    <3> QED
      BY <3>2, <3>3
  <2>5. CASE \/ \E call \in Calls : Arrive(c, call) \/ EmbedTokens(c, call)
             \/ NoTokens(c) \/ Tokenized(c) \/ LaunchSolo(c) \/ LaunchSignal(c)
             \/ AwaitBlock(c) \/ Return(c)
    BY <1>1, <2>5 DEF Arrive, EmbedTokens, NoTokens, Tokenized, LaunchSolo, LaunchSignal,
                      AwaitBlock, Return, tableVars
  <2> QED
    BY <1>3, <2>1, <2>2, <2>3, <2>4, <2>5 DEF Client
<1>4. ASSUME NEW t \in Slots, Backend(t) PROVE CacheFull'
  <2>1. pruning' = TRUE \/ UNCHANGED <<entries, lru, readyEntries, pruning>>
    BY <1>4 DEF Backend, Working, QueueWait, Exit, StartCollect, EndCollect, StartWave,
                CollectAgain, ScanTake, ScanSkip, RunWave, FinishWave, Complete, tableVars
  <2> QED
    BY <1>1, <1>2, <2>1
<1>5. CASE Pruned
  <2>1. UNCHANGED <<entries, lru, readyEntries>> /\ (readyEntries > CacheEntries => Evictable = {})
    BY <1>5 DEF Pruned
  <2>2. ASSUME readyEntries > CacheEntries, NEW e \in ToSet(lru)
        PROVE  entries[e].users > 0
    <3>1. PICK i \in DOMAIN lru : lru[i] = e
      BY DEF ToSet
    <3>2. entries[e].users # 0
      BY <2>1, <2>2, <3>1, EvictableExists
    <3>3. entries[e] \in EntryType
      BY <1>a DEF TableTypes, Ready
    <3> QED
      BY <3>2, <3>3 DEF EntryType
  <2> QED
    BY <2>1, <2>2 DEF CacheFull, ToSet
<1>6. CASE Evict
  BY <1>6 DEF Evict, CacheFull
<1>7. CASE Destroy
  BY <1>7, ServiceAssumption DEF Destroy, CacheFull
<1>8. CASE Stop \/ Destroyed \/ UNCHANGED vars
  BY <1>1, <1>8 DEF Stop, Destroyed, vars, tableVars
<1> QED
  BY <1>3, <1>4, <1>5, <1>6, <1>7, <1>8 DEF Next

\* The LRU list holds the ready entries, each once and counted, and beyond the
\* capacity only entries in use.
THEOREM BoundedCache == Spec => []CacheBounded
<1>1. Init => CacheFull
  BY ServiceAssumption DEF Init, CacheFull
<1>2. EntryInv /\ EntryInv' /\ CacheFull /\ [Next]_vars => CacheFull'
  BY CacheStep
<1>3. ASSUME EntryInv, CacheFull PROVE CacheBounded
  <2>1. lru \in Seq(Cells) /\ Distinct(lru) /\ readyEntries = Len(lru)
    BY <1>3 DEF EntryInv, TableInv, TableTypes, LruReady
  <2>2. ToSet(lru) = {e \in Allocated : entries[e].state = "READY"}
    <3>1. ToSet(lru) \subseteq Cells
      BY <2>1, MembersAreCells
    <3> QED
      BY <1>3, <3>1 DEF EntryInv, TableInv, LruReady, Ready, Allocated, FreeCells
  <2>3. Len(lru) = Cardinality(ToSet(lru))
    <3>1. lru \in Bijection(1 .. Len(lru), ToSet(lru))
      BY <2>1 DEF Bijection, Injection, Surjection, IsInjective, ToSet, Distinct
    <3>2. IsFiniteSet(1 .. Len(lru)) /\ Cardinality(1 .. Len(lru)) = Len(lru)
      <4>1. Len(lru) \in Nat
        BY <2>1
      <4> QED
        BY <4>1, PlacesCounted
    <3> QED
      BY <3>1, <3>2, FS_Surjection DEF Bijection
  <2> QED
    BY <1>3, <2>1, <2>2, <2>3 DEF CacheBounded, CacheFull
<1> QED
  BY <1>1, <1>2, <1>3, EntryInvariance, PTL DEF Spec

-----------------------------------------------------------------------------
(* Waves: the inductive invariant *)

\* Pruning is done by a thread that holds the mutex and scans no queue.
PruneAlone == pruning => lock # Free /\ \A t \in Slots : bpc[t] # "scan"

LenAt(i) == TokensOf[entries[queue[i]].key]

\* The work queued in front of position i.
WorkBefore(i) == Total(Lens(SubSeq(queue, 1, i - 1)))

\* A request the scan of thread t has yet to reach, which will join.
Promised(t) ==
    /\ \E i \in position[t] .. Len(queue) : Member(class[t], LenAt(i), WorkBefore(i))
    /\ class[t] \in {"FIFO", "LOOKAHEAD"} => position[t] = 1

\* A wave is a single request, or within the budget without an oversized one.
Within(t) ==
    /\ Len(wave[t]) \in 1 .. MaxBatchRequests
    /\ Len(wave[t]) > 1 => /\ Total(TakenLens(t)) <= WaveBudget(slot[t])
                           /\ \A i \in DOMAIN wave[t] : TakenLens(t)[i] <= MaxBatchSequenceTokens

\* What an overflow wave leaves in front of it.
LeavesHead(t) ==
    /\ IdleGroups(slotMask) = {}
    /\ wave[t] # <<>> => InBacklog(WorkBefore(position[t]))

ScanOf(t) ==
    /\ IF wave[t] = <<>> THEN Promised(t) ELSE Within(t)
    /\ position[t] <= Len(queue) + 1
    /\ class[t] = "OVERFLOW" => LeavesHead(t)

WaveInv ==
    /\ PruneAlone
    /\ \A t \in Slots : bpc[t] = "scan" => ScanOf(t)
    /\ \A t \in Slots : bpc[t] = "exec" => Within(t)

-----------------------------------------------------------------------------
(* The rules, for one state *)

\* The work that the next waves of the devices absorb is a number.
LEMMA BacklogInt == MaxBatchTokens * Groups \in Int
<1> DEFINE below == {31 - g : g \in DeviceGroups}
<1>1. DeviceSlots # {} /\ \A s \in DeviceSlots : SlotGroup[s] \in 0 .. 31
  BY SlotsAssumption DEF DeviceSlots
<1>2. DeviceGroups \subseteq 0 .. 31 /\ DeviceGroups # {}
  BY <1>1 DEF DeviceGroups
<1>3. below \in SUBSET Nat /\ below # {}
  <2>1. \A g \in 0 .. 31 : 31 - g \in Nat
    OBVIOUS
  <2> QED
    BY <1>2, <2>1
<1>4. PICK g \in DeviceGroups : \A h \in DeviceGroups : 31 - g <= 31 - h
  <2> DEFINE l == Lowest(below)
  <2>1. l \in below /\ \A n \in below : l <= n
    <3> HIDE DEF below
    <3> QED
      BY <1>3, LowestNat
  <2> QED
    BY <2>1
<1>5. g \in DeviceGroups /\ \A h \in DeviceGroups : h <= g
  BY <1>2, <1>4
<1>6. Groups \in Int
  <2> DEFINE last == CHOOSE h \in DeviceGroups : \A k \in DeviceGroups : k <= h
  <2>1. last \in DeviceGroups
    BY <1>5
  <2>2. last \in 0 .. 31
    BY <1>2, <2>1
  <2> HIDE DEF last
  <2>3. 1 + last \in Int
    BY <2>2
  <2> QED
    BY <2>3 DEF Groups, last
<1>7. MaxBatchTokens \in Int
  BY BudgetAssumption
<1> QED
  BY <1>6, <1>7

\* What the pick of a wave promises about the queue: a short request for a
\* short wave; for an overflow wave a request behind the backlog, and that no
\* device is idle.
LEMMA PickedMember ==
    ASSUME NEW lens, NEW busy, NEW long, CanStartWave(lens, busy, long)
    PROVE  LET p == PickSlot(lens, busy, long)
           IN  /\ lens # <<>>
               /\ p.wave \in {"ANY", "SHORT", "OVERFLOW"}
               /\ p.wave = "SHORT" => QueueHasShort(lens)
               /\ p.wave = "OVERFLOW" => QueueHasOverflow(lens) /\ IdleGroups(busy) = {}
<1> DEFINE p == PickSlot(lens, busy, long)
           idle == IdleGroups(busy)
           open == OpenGroups(lens, busy, long)
           overflow == OverflowSlots \ busy
<1>1. p.wave # "NONE" /\ lens # <<>>
  BY DEF CanStartWave, PickSlot, NoWave
<1>2. open # {} /\ BypassMode => QueueHasShort(lens)
  BY DEF OpenGroups
<1>3. CASE idle # {}
  <2>1. p.wave = "ANY"
    BY <1>1, <1>3 DEF PickSlot
  <2> QED
    BY <1>1, <2>1
<1>4. CASE idle = {} /\ open # {}
  <2>1. p.wave = "ANY" \/ (p.wave = "SHORT" /\ BypassMode)
    BY <1>1, <1>4 DEF PickSlot
  <2> QED
    BY <1>1, <1>2, <1>4, <2>1
<1>5. CASE idle = {} /\ open = {}
  <2>1. p.wave = "OVERFLOW" /\ QueueHasOverflow(lens)
    BY <1>1, <1>5 DEF PickSlot, NoWave
  <2> QED
    BY <1>1, <1>5, <2>1
<1> QED
  BY <1>3, <1>4, <1>5

\* Cells whose sequences are known.
Known(s) == s \in Seq(Cells) /\ \A e \in ToSet(s) : entries[e] \in EntryType

\* The lengths of such a list.
LEMMA LensOfList ==
    ASSUME NEW s, Known(s)
    PROVE  /\ Lens(s) \in Seq(Nat) /\ Len(Lens(s)) = Len(s)
           /\ \A i \in 1 .. Len(s) : /\ Lens(s)[i] = TokensOf[entries[s[i]].key]
                                     /\ Lens(s)[i] \in Nat
<1>1. s \in Seq(Cells) /\ Len(s) \in Nat /\ DOMAIN s = 1 .. Len(s)
  BY DEF Known
<1>2. \A i \in 1 .. Len(s) : entries[s[i]] \in EntryType
  BY <1>1 DEF Known, ToSet
<1>3. \A i \in 1 .. Len(s) : entries[s[i]].key \in Keys
  BY <1>2 DEF EntryType
<1>4. \A i \in 1 .. Len(s) : TokensOf[entries[s[i]].key] \in Nat
  <2>1. \A k \in Keys : TokensOf[k] \in Nat
    BY ServiceAssumption
  <2> QED
    BY <1>3, <2>1
<1>5. Lens(s) = [i \in 1 .. Len(s) |-> TokensOf[entries[s[i]].key]]
  BY <1>1 DEF Lens
<1> QED
  BY <1>1, <1>4, <1>5

\* The lengths of its first requests.
LEMMA LensOfPrefix ==
    ASSUME NEW s, Known(s), NEW i \in 0 .. Len(s)
    PROVE  Lens(SubSeq(s, 1, i)) = SubSeq(Lens(s), 1, i)
<1>1. s \in Seq(Cells) /\ Len(s) \in Nat /\ DOMAIN s = 1 .. Len(s)
  BY DEF Known
<1>2. Lens(s) \in Seq(Nat) /\ Len(Lens(s)) = Len(s)
  BY LensOfList
<1>3. SubSeq(s, 1, i) \in Seq(Cells) /\ DOMAIN SubSeq(s, 1, i) = 1 .. i
  BY <1>1
<1>4. \A j \in 1 .. i : SubSeq(s, 1, i)[j] = s[j] /\ j \in 1 .. Len(s)
  BY <1>1
<1>5. Lens(SubSeq(s, 1, i)) = [j \in 1 .. i |-> TokensOf[entries[s[j]].key]]
  BY <1>3, <1>4 DEF Lens
<1>6. /\ SubSeq(Lens(s), 1, i) \in Seq(Nat) /\ DOMAIN SubSeq(Lens(s), 1, i) = 1 .. i
      /\ \A j \in 1 .. i : SubSeq(Lens(s), 1, i)[j] = TokensOf[entries[s[j]].key]
  <2>1. \A j \in 1 .. Len(s) : Lens(s)[j] = TokensOf[entries[s[j]].key]
    BY LensOfList
  <2>2. PICK r \in Seq(Nat) : r = Lens(s) /\ Len(r) = Len(s)
    BY <1>2
  <2>3. SubSeq(r, 1, i) \in Seq(Nat) /\ DOMAIN SubSeq(r, 1, i) = 1 .. i
    BY <2>2
  <2>4. \A j \in 1 .. i : SubSeq(r, 1, i)[j] = r[j]
    BY <2>2
  <2> QED
    BY <1>4, <2>1, <2>2, <2>3, <2>4
<1> QED
  BY <1>5, <1>6

\* The lengths after one more request.
LEMMA LensOfAppend ==
    ASSUME NEW s \in Seq(Cells), NEW e
    PROVE  Lens(Append(s, e)) = Append(Lens(s), TokensOf[entries[e].key])
<1> DEFINE n == Len(s)
           v == TokensOf[entries[e].key]
<1>1. n \in Nat /\ DOMAIN s = 1 .. n
  OBVIOUS
<1>2. /\ DOMAIN Append(s, e) = 1 .. n + 1
      /\ \A i \in 1 .. n : Append(s, e)[i] = s[i]
      /\ Append(s, e)[n + 1] = e
  OBVIOUS
<1> HIDE DEF n
<1>3. Lens(s) = [i \in 1 .. n |-> TokensOf[entries[s[i]].key]]
  BY <1>1 DEF Lens
<1>4. Lens(Append(s, e)) = [i \in 1 .. n + 1 |-> IF i = n + 1 THEN v ELSE Lens(s)[i]]
  BY <1>1, <1>2, <1>3 DEF Lens
<1>5. Append(Lens(s), v) = [i \in 1 .. n + 1 |-> IF i = n + 1 THEN v ELSE Lens(s)[i]]
  BY <1>1, <1>3
<1> QED
  BY <1>4, <1>5

\* The work in front of a position is a number, and grows with the position.
LEMMA WorkGrows ==
    ASSUME Known(queue), NEW i \in 1 .. Len(queue) + 1
    PROVE  /\ WorkBefore(i) \in Nat
           /\ WorkBefore(i) <= Total(Lens(queue))
           /\ Total(Lens(queue)) \in Nat
           /\ i <= Len(queue) => WorkBefore(i) <= WorkBefore(i + 1)
<1>1. PICK n \in Nat : n = Len(queue)
  BY DEF Known
<1>2. PICK s \in Seq(Nat) : s = Lens(queue) /\ Len(s) = n
  BY <1>1, LensOfList
<1>3. ASSUME NEW j \in 1 .. n + 1
      PROVE  WorkBefore(j) = FoldLeft(+, 0, SubSeq(s, 1, j - 1)) /\ j - 1 \in 0 .. n
  <2>1. j - 1 \in 0 .. n
    OBVIOUS
  <2>2. Lens(SubSeq(queue, 1, j - 1)) = SubSeq(s, 1, j - 1)
    BY <1>1, <1>2, <2>1, LensOfPrefix
  <2> QED
    BY <2>1, <2>2 DEF WorkBefore, Total
<1>4. /\ SubSeq(s, 1, i - 1) \in Seq(Nat) /\ i - 1 \in 0 .. n
      /\ i \in Nat
  BY <1>1, <1>2
<1>5. FoldLeft(+, 0, s) \in Nat /\ FoldLeft(+, 0, SubSeq(s, 1, i - 1)) \in Nat
  BY <1>4, FoldNat
<1>6. FoldLeft(+, 0, SubSeq(s, 1, i - 1)) <= FoldLeft(+, 0, s)
  <2>1. i - 1 \in i - 1 .. n
    BY <1>4
  <2> QED
    BY <1>2, <1>4, <2>1, FoldPrefix
<1>7. ASSUME i <= Len(queue)
      PROVE  FoldLeft(+, 0, SubSeq(s, 1, i - 1)) <= WorkBefore(i + 1)
  <2>1. i + 1 \in 1 .. n + 1 /\ (i + 1) - 1 = i /\ i \in i - 1 .. n
    BY <1>1, <1>4, <1>7
  <2>2. WorkBefore(i + 1) = FoldLeft(+, 0, SubSeq(s, 1, i))
    BY <1>3, <2>1
  <2> QED
    BY <1>2, <1>4, <2>1, <2>2, FoldPrefix
<1>8. WorkBefore(i) = FoldLeft(+, 0, SubSeq(s, 1, i - 1))
  BY <1>1, <1>3
<1> QED
  BY <1>2, <1>5, <1>6, <1>7, <1>8 DEF Total

-----------------------------------------------------------------------------
(* Steps *)

\* The requests of the queue and of the waves have sequences.
LEMMA WorkKnown ==
    ASSUME EntryInv
    PROVE  /\ Known(queue) /\ \A e \in ToSet(queue) : e \in Cells /\ Pending(e)
           /\ \A t \in Slots : /\ Known(wave[t])
                               /\ \A e \in ToSet(wave[t]) : e \in Cells /\ Pending(e)
<1>1. TableTypes /\ QueuePending /\ WavesPending
  BY DEF EntryInv, TableInv, WorkInv
<1>2. ASSUME NEW s \in Seq(Cells), \A e \in ToSet(s) : Pending(e)
      PROVE  Known(s) /\ \A e \in ToSet(s) : e \in Cells /\ Pending(e)
  <2>1. ToSet(s) \subseteq Cells
    BY MembersAreCells
  <2>2. \A e \in ToSet(s) : entries[e] \in EntryType
    BY <1>1, <1>2, <2>1 DEF TableTypes, Pending
  <2> QED
    BY <1>2, <2>1, <2>2 DEF Known
<1>3. queue \in Seq(Cells) /\ \A t \in Slots : wave[t] \in Seq(Cells)
  BY <1>1 DEF TableTypes
<1>4. Known(queue) /\ \A e \in ToSet(queue) : e \in Cells /\ Pending(e)
  BY <1>1, <1>2, <1>3 DEF QueuePending
<1>5. ASSUME NEW t \in Slots
      PROVE  Known(wave[t]) /\ \A e \in ToSet(wave[t]) : e \in Cells /\ Pending(e)
  BY <1>1, <1>2, <1>3 DEF WavesPending
<1> QED
  BY <1>4, <1>5

\* A thread whose wave and slot stay keeps the wave within the budget.
LEMMA WithinStays ==
    ASSUME EntryInv, EntryInv', [Next]_vars, NEW t \in Slots,
           wave'[t] = wave[t], slot'[t] = slot[t], Within(t)
    PROVE  Within(t)'
<1>1. \A e \in ToSet(wave[t]) : e \in Cells /\ Pending(e)
  BY WorkKnown
<1>2. \A e \in ToSet(wave[t]) : Pending(e)'
  <2>1. WavesPending'
    BY DEF EntryInv, TableInv, WorkInv
  <2> QED
    BY <2>1 DEF WavesPending, Pending, ToSet
<1>3. \A e \in ToSet(wave[t]) : entries'[e].key = entries[e].key
  <2>1. \A e \in Cells : EntryKept(e)
    BY EntriesKept
  <2> QED
    BY <1>1, <1>2, <2>1 DEF EntryKept, Pending
<1>4. \A i \in DOMAIN wave[t] : entries'[wave[t][i]].key = entries[wave[t][i]].key
  BY <1>3 DEF ToSet
<1>5. TakenLens(t)' = TakenLens(t)
  BY <1>4 DEF TakenLens, Lens
<1>6. WaveBudget(slot[t])' = WaveBudget(slot[t])
  BY DEF WaveBudget
<1> QED
  BY <1>5, <1>6 DEF Within

\* A step after which no thread scans, and no thread executes another wave.
LEMMA QuietWaves ==
    ASSUME EntryInv, EntryInv', WaveInv, [Next]_vars,
           \A u \in Slots : bpc'[u] # "scan",
           \A u \in Slots : bpc'[u] = "exec" =>
               bpc[u] = "exec" /\ wave'[u] = wave[u] /\ slot'[u] = slot[u],
           pruning' => lock' # Free
    PROVE  WaveInv'
<1>1. \A u \in Slots : bpc'[u] = "exec" => Within(u)'
  BY WithinStays DEF WaveInv
<1> QED
  BY <1>1 DEF WaveInv, PruneAlone

\* A step of the only thread that scans, which takes no mutex and prunes nothing.
LEMMA ScanWaves ==
    ASSUME EntryInv, EntryInv', WaveInv, [Next]_vars, NEW t \in Slots,
           ~pruning', \A u \in Slots \ {t} : bpc'[u] # "scan",
           \A u \in Slots \ {t} : bpc'[u] = bpc[u] /\ wave'[u] = wave[u] /\ slot'[u] = slot[u],
           bpc'[t] = "scan" => ScanOf(t)',
           bpc'[t] = "exec" => Within(t)'
    PROVE  WaveInv'
<1>1. \A u \in Slots \ {t} : bpc'[u] = "exec" => Within(u)'
  BY WithinStays DEF WaveInv
<1> QED
  BY <1>1 DEF WaveInv, PruneAlone

\* A scan begins: the pick has promised a member.
LEMMA ScanBegins ==
    ASSUME EntryInv, SlotInv, NEW t \in Slots, CanStart, BeginScan(t),
           UNCHANGED <<entries, queue, slotMask>>
    PROVE  ScanOf(t)'
<1> DEFINE lens == Lens(queue)
           head == Lens(queue)[1]
<1>1. /\ wave' = [wave EXCEPT ![t] = <<>>]
      /\ position' = [position EXCEPT ![t] = 1]
      /\ class' = [class EXCEPT ![t] = WaveClass(Pick.wave, head, On("lookahead"))]
  BY DEF BeginScan
<1>2. /\ wave'[t] = <<>> /\ position'[t] = 1
      /\ class'[t] = WaveClass(Pick.wave, head, On("lookahead"))
  BY <1>1 DEF EntryInv, TableInv, TableTypes, PlainTypes, SlotInv, SlotTypes
<1>3. /\ Known(queue) /\ queue \in Seq(Cells) /\ Len(queue) \in Nat
      /\ lens \in Seq(Nat) /\ Len(lens) = Len(queue) /\ DOMAIN lens = 1 .. Len(queue)
  <2>1. Known(queue)
    BY WorkKnown
  <2> QED
    BY <2>1, LensOfList DEF Known
<1>4. /\ \A i \in 1 .. Len(queue) : LenAt(i)' = lens[i]
      /\ \A i \in 1 .. Len(queue) : WorkBefore(i)' = Total(SubSeq(lens, 1, i - 1))
  <2>1. \A i \in 1 .. Len(queue) : LenAt(i)' = LenAt(i) /\ LenAt(i) = lens[i]
    BY <1>3, LensOfList DEF LenAt
  <2>2. ASSUME NEW i \in 1 .. Len(queue)
        PROVE  WorkBefore(i)' = Total(SubSeq(lens, 1, i - 1))
    <3>1. i - 1 \in 0 .. Len(queue)
      BY <1>3
    <3>2. WorkBefore(i)' = WorkBefore(i)
      BY DEF WorkBefore, Lens
    <3>3. Lens(SubSeq(queue, 1, i - 1)) = SubSeq(lens, 1, i - 1)
      BY <1>3, <3>1, LensOfPrefix
    <3> QED
      BY <3>2, <3>3 DEF WorkBefore
  <2> QED
    BY <2>1, <2>2
<1>5. PICK p : p = Pick
  OBVIOUS
<1>6. /\ lens # <<>> /\ p.wave \in {"ANY", "SHORT", "OVERFLOW"}
      /\ p.wave = "SHORT" => QueueHasShort(lens)
      /\ p.wave = "OVERFLOW" => QueueHasOverflow(lens) /\ IdleGroups(slotMask) = {}
  <2> HIDE DEF lens
  <2>1. CanStartWave(lens, slotMask, longMask) /\ p = PickSlot(lens, slotMask, longMask)
    BY <1>5 DEF CanStart, Pick, lens
  <2> QED
    BY <2>1, PickedMember
<1>7. 1 \in 1 .. Len(queue) /\ head = lens[1]
  <2> HIDE DEF lens
  <2>1. Len(lens) # 0
    BY <1>3, <1>6
  <2> QED
    BY <1>3, <2>1 DEF lens
<1> HIDE DEF lens, head
<1> DEFINE cl == class'[t]
<1>8. /\ cl = "OVERFLOW" => p.wave = "OVERFLOW"
      /\ cl = "SHORT" => p.wave = "SHORT" \/ IsShort(lens[1])
      /\ cl = "LONG" => ~IsShort(lens[1])
  BY <1>2, <1>5, <1>6, <1>7 DEF WaveClass
<1> HIDE DEF cl
<1>9. \E i \in 1 .. Len(queue) : Member(cl, lens[i], Total(SubSeq(lens, 1, i - 1)))
  <2>1. CASE cl = "OVERFLOW"
    BY <1>3, <1>6, <1>8, <2>1 DEF QueueHasOverflow, Member
  <2>2. CASE cl = "SHORT"
    BY <1>3, <1>6, <1>7, <1>8, <2>2 DEF QueueHasShort, Member
  <2>3. CASE cl = "LONG"
    BY <1>7, <1>8, <2>3 DEF Member
  <2>4. CASE cl \notin {"OVERFLOW", "SHORT", "LONG"}
    BY <1>7, <2>4 DEF Member
  <2> QED
    BY <2>1, <2>2, <2>3, <2>4
<1>10. Promised(t)'
  <2>1. \E i \in 1 .. Len(queue) : Member(cl, LenAt(i)', WorkBefore(i)')
    BY <1>4, <1>9
  <2> QED
    BY <1>2, <2>1 DEF Promised, Member, cl
<1>11. cl = "OVERFLOW" => LeavesHead(t)'
  BY <1>2, <1>6, <1>8 DEF LeavesHead
<1> QED
  BY <1>2, <1>3, <1>10, <1>11 DEF ScanOf, cl

\* What a scan that goes on reads.
LEMMA ScanReads ==
    ASSUME EntryInv, NEW t \in Slots, Scanning(t)
    PROVE  /\ Known(queue) /\ queue \in Seq(Cells) /\ Len(queue) \in Nat
           /\ position[t] \in 1 .. Len(queue)
           /\ queue[position[t]] \in Cells /\ LenAt(position[t]) \in Nat
           /\ wave[t] \in Seq(Cells) /\ Len(wave[t]) \in Nat
           /\ TakenLens(t) \in Seq(Nat) /\ Len(TakenLens(t)) = Len(wave[t])
           /\ Len(wave[t]) < MaxBatchRequests
           /\ class[t] = "FIFO" => position[t] = 1
           /\ WorkBefore(position[t]) \in Nat /\ Total(TakenLens(t)) \in Nat
           /\ Ahead(t) = Total(TakenLens(t)) + WorkBefore(position[t])
           /\ wave[t] = <<>> => Total(TakenLens(t)) = 0
<1> DEFINE p == position[t]
<1>1. Known(queue) /\ Known(wave[t])
  BY WorkKnown
<1>2. /\ queue \in Seq(Cells) /\ Len(queue) \in Nat
      /\ wave[t] \in Seq(Cells) /\ Len(wave[t]) \in Nat
  BY <1>1 DEF Known
<1>3. /\ Lens(queue) \in Seq(Nat) /\ Len(Lens(queue)) = Len(queue)
      /\ \A i \in 1 .. Len(queue) : LenAt(i) \in Nat
  BY <1>1, LensOfList DEF LenAt
<1>4. TakenLens(t) \in Seq(Nat) /\ Len(TakenLens(t)) = Len(wave[t])
  BY <1>1, LensOfList DEF TakenLens
<1>5. /\ p <= Len(Lens(queue)) /\ Len(TakenLens(t)) < MaxBatchRequests
      /\ class[t] = "FIFO" => p = 1
  BY DEF Scanning, ScanContinues
<1>6. p \in Nat \ {0}
  BY DEF EntryInv, PlainTypes
<1> HIDE DEF p
<1>7. p \in 1 .. Len(queue)
  BY <1>2, <1>3, <1>5, <1>6
<1>8. queue[p] \in Cells /\ LenAt(p) \in Nat
  BY <1>2, <1>3, <1>7
<1>9. WorkBefore(p) \in Nat
  <2>1. p \in 1 .. Len(queue) + 1
    BY <1>2, <1>7
  <2> QED
    BY <1>1, <2>1, WorkGrows
<1>10. Total(TakenLens(t)) \in Nat
  BY <1>4, FoldNat DEF Total
<1>11. Ahead(t) = Total(TakenLens(t)) + WorkBefore(p)
  BY DEF Ahead, WorkBefore, p
<1>12. ASSUME wave[t] = <<>> PROVE Total(TakenLens(t)) = 0
  <2>1. Len(TakenLens(t)) = 0
    BY <1>4, <1>12
  <2>2. Total(TakenLens(t)) = SumOver(TakenLens(t), 1 .. 0)
    BY <1>4, <2>1, FoldIsSum DEF Total
  <2>3. 1 .. 0 = {} /\ IsFiniteSet({})
    BY FS_EmptySet
  <2> QED
    BY <2>2, <2>3, SumStep
<1> QED
  BY <1>1, <1>2, <1>4, <1>5, <1>7, <1>8, <1>9, <1>10, <1>11, <1>12 DEF p

\* The request under the scan joins the wave, which stays within the budget.
LEMMA ScanTakes ==
    ASSUME EntryInv, SlotInv, NEW t \in Slots, ScanOf(t), ScanTake(t)
    PROVE  ScanOf(t)'
<1> DEFINE p == position[t]
           taken == TakenLens(t)
           n == LenAt(p)
<1>1. /\ Scanning(t) /\ Joins(t)
      /\ wave' = [wave EXCEPT ![t] = Append(wave[t], queue[p])]
      /\ queue' = RemoveAt(queue, p)
      /\ UNCHANGED <<entries, slotMask, slot, class, position>>
  BY DEF ScanTake, tableVars, slotVars
<1>2. /\ Known(queue) /\ queue \in Seq(Cells) /\ Len(queue) \in Nat
      /\ p \in 1 .. Len(queue)
      /\ queue[p] \in Cells /\ n \in Nat
      /\ wave[t] \in Seq(Cells) /\ Len(wave[t]) \in Nat
      /\ taken \in Seq(Nat) /\ Len(taken) = Len(wave[t])
      /\ Len(wave[t]) < MaxBatchRequests
      /\ WorkBefore(p) \in Nat /\ Total(taken) \in Nat
      /\ Ahead(t) = Total(taken) + WorkBefore(p)
      /\ wave[t] = <<>> => Total(taken) = 0
  BY <1>1, ScanReads
<1>3. Member(class[t], n, Ahead(t)) /\ Fits(taken, n, WaveBudget(slot[t]))
  BY <1>1 DEF Joins, LenAt
<1>4. /\ wave'[t] = Append(wave[t], queue[p]) /\ position'[t] = p
      /\ slot'[t] = slot[t] /\ class'[t] = class[t]
  BY <1>1 DEF EntryInv, TableInv, TableTypes
<1>5. TakenLens(t)' = Append(taken, n)
  <2>1. Lens(Append(wave[t], queue[p])) = Append(taken, n)
    BY <1>2, LensOfAppend DEF TakenLens, LenAt
  <2>2. TakenLens(t)' = Lens(Append(wave[t], queue[p]))
    BY <1>1, <1>4 DEF TakenLens, Lens
  <2> QED
    BY <2>1, <2>2
<1>6. Len(wave'[t]) = Len(wave[t]) + 1 /\ wave'[t] # <<>>
  <2>1. PICK w \in Seq(Cells), e \in Cells : w = wave[t] /\ e = queue[p]
    BY <1>2
  <2>2. Len(Append(w, e)) = Len(w) + 1 /\ Append(w, e) \in Seq(Cells) /\ Len(w) \in Nat
    OBVIOUS
  <2>3. Append(w, e) # <<>>
    BY ONLY <2>2
  <2> QED
    BY <1>4, <2>1, <2>2, <2>3
<1>7. MaxBatchRequests \in Nat
  BY BudgetAssumption
<1>8. WaveBudget(slot[t])' = WaveBudget(slot[t])
  BY <1>4 DEF WaveBudget
<1>9. PICK b : b = WaveBudget(slot[t])
  OBVIOUS
<1> HIDE DEF p, taken, n
<1>10. Total(Append(taken, n)) = Total(taken) + n
  BY <1>2, FoldAppend DEF Total
<1>11. ASSUME Len(wave'[t]) > 1
       PROVE  /\ Total(taken) + n <= b
              /\ \A i \in 1 .. Len(taken) + 1 : Append(taken, n)[i] <= MaxBatchSequenceTokens
  <2>1. Len(taken) > 0 /\ taken # <<>> /\ wave[t] # <<>>
    BY <1>2, <1>6, <1>11
  <2>2. taken[1] <= MaxBatchSequenceTokens /\ n <= MaxBatchSequenceTokens /\ Total(taken) + n <= b
    BY <1>3, <1>9, <2>1 DEF Fits
  <2>3. ASSUME NEW i \in 1 .. Len(taken)
        PROVE  taken[i] <= MaxBatchSequenceTokens
    <3>1. CASE i = 1
      BY <2>2, <3>1
    <3>2. CASE i # 1
      <4>1. Len(wave[t]) > 1 /\ i \in DOMAIN wave[t]
        BY <1>2, <2>3, <3>2
      <4>2. Within(t)
        BY <2>1 DEF ScanOf
      <4> QED
        BY <4>1, <4>2 DEF Within, taken
    <3> QED
      BY <3>1, <3>2
  <2>4. \A i \in 1 .. Len(taken) : Append(taken, n)[i] = taken[i]
    BY <1>2
  <2>5. Append(taken, n)[Len(taken) + 1] = n
    BY <1>2
  <2>6. \A i \in 1 .. Len(taken) + 1 : i \in 1 .. Len(taken) \/ i = Len(taken) + 1
    BY <1>2
  <2>7. \A i \in 1 .. Len(taken) + 1 : Append(taken, n)[i] <= MaxBatchSequenceTokens
    BY <2>2, <2>3, <2>4, <2>5, <2>6
  <2> QED
    BY <2>2, <2>7
<1>12. Within(t)'
  <2>1. DOMAIN wave'[t] = 1 .. Len(taken) + 1
    BY <1>2, <1>4
  <2>2. Len(wave'[t]) \in 1 .. MaxBatchRequests
    BY <1>2, <1>6, <1>7
  <2>3. Len(wave'[t]) > 1 => /\ Total(TakenLens(t)') <= b
                             /\ \A i \in DOMAIN wave'[t] :
                                   TakenLens(t)'[i] <= MaxBatchSequenceTokens
    BY <1>5, <1>10, <1>11, <2>1
  <2> QED
    BY <1>8, <1>9, <2>2, <2>3 DEF Within
<1>13. /\ queue' \in Seq(Cells) /\ Len(queue') = Len(queue) - 1
       /\ \A j \in 1 .. p - 1 : queue'[j] = queue[j]
  <2>1. /\ RemoveAt(queue, p) \in Seq(Cells) /\ Len(RemoveAt(queue, p)) = Len(queue) - 1
        /\ \A j \in 1 .. Len(queue) - 1 :
              RemoveAt(queue, p)[j] = IF j < p THEN queue[j] ELSE queue[j + 1]
    BY <1>2, RemoveAtShifts
  <2>2. \A j \in 1 .. p - 1 : j \in 1 .. Len(queue) - 1 /\ j < p
    BY <1>2
  <2>3. queue' = RemoveAt(queue, p)
    BY <1>1 DEF p
  <2> QED
    BY <2>1, <2>2, <2>3
<1>14. position'[t] <= Len(queue') + 1
  BY <1>2, <1>4, <1>13
<1>15. ASSUME class'[t] = "OVERFLOW" PROVE LeavesHead(t)'
  <2>1. LeavesHead(t) /\ class[t] = "OVERFLOW"
    BY <1>4, <1>15 DEF ScanOf
  <2>2. InBacklog(WorkBefore(p))
    <3>1. CASE wave[t] = <<>>
      <4>1. Ahead(t) = WorkBefore(p)
        BY <1>2, <3>1
      <4> QED
        BY <1>3, <2>1, <4>1 DEF Member
    <3>2. CASE wave[t] # <<>>
      BY <2>1, <3>2 DEF LeavesHead, p
    <3> QED
      BY <3>1, <3>2
  <2>3. SubSeq(queue', 1, p - 1) = SubSeq(queue, 1, p - 1)
    <3>1. PICK m \in Nat : p = m + 1 /\ m <= Len(queue) /\ m <= Len(queue')
      <4>1. p - 1 \in Nat /\ p = (p - 1) + 1 /\ p - 1 <= Len(queue) /\ p - 1 <= Len(queue) - 1
        BY <1>2
      <4> QED
        BY <1>13, <4>1
    <3>2. p - 1 = m
      BY <3>1
    <3>3. PICK r \in Seq(Cells) : r = queue'
      BY <1>13
    <3>4. \A j \in 1 .. m : r[j] = queue[j]
      BY <1>13, <3>2, <3>3
    <3>5. SubSeq(r, 1, m) = SubSeq(queue, 1, m)
      <4>1. SubSeq(r, 1, m) = [j \in 1 .. m |-> r[j]]
        BY <3>1, <3>3
      <4>2. SubSeq(queue, 1, m) = [j \in 1 .. m |-> queue[j]]
        BY <1>2, <3>1
      <4> QED
        BY <3>4, <4>1, <4>2
    <3> QED
      BY <3>2, <3>3, <3>5
  <2>4. WorkBefore(position[t])' = WorkBefore(p)
    <3>1. position'[t] = p
      BY <1>4
    <3> QED
      BY <1>1, <2>3, <3>1 DEF WorkBefore, Lens
  <2>5. IdleGroups(slotMask') = {}
    BY <1>1, <2>1 DEF LeavesHead
  <2>6. InBacklog(WorkBefore(position[t])')
    BY <2>2, <2>4
  <2> QED
    BY <2>5, <2>6 DEF LeavesHead, InBacklog
<1> QED
  BY <1>6, <1>12, <1>14, <1>15 DEF ScanOf

\* The request under the scan is passed over: it is not the one promised.
LEMMA ScanSkips ==
    ASSUME EntryInv, SlotInv, NEW t \in Slots, ScanOf(t), ScanSkip(t)
    PROVE  ScanOf(t)'
<1> DEFINE p == position[t]
           n == LenAt(p)
<1>1. /\ Scanning(t) /\ ~Joins(t)
      /\ position' = [position EXCEPT ![t] = p + 1]
      /\ UNCHANGED <<entries, queue, wave, slotMask, slot, class>>
  BY DEF ScanSkip, tableVars, slotVars
<1>2. /\ Known(queue) /\ Len(queue) \in Nat
      /\ p \in 1 .. Len(queue) /\ n \in Nat
      /\ TakenLens(t) \in Seq(Nat) /\ Len(TakenLens(t)) = Len(wave[t])
      /\ WorkBefore(p) \in Nat /\ Ahead(t) = Total(TakenLens(t)) + WorkBefore(p)
      /\ wave[t] = <<>> => Total(TakenLens(t)) = 0
  BY <1>1, ScanReads
<1>3. position'[t] = p + 1
  BY <1>1 DEF EntryInv, PlainTypes
<1>4. /\ \A i \in 1 .. Len(queue) : LenAt(i)' = LenAt(i)
      /\ \A i \in 1 .. Len(queue) + 1 : WorkBefore(i)' = WorkBefore(i)
  BY <1>1 DEF LenAt, WorkBefore, Lens
<1> HIDE DEF p, n
<1>5. ASSUME wave[t] = <<>> PROVE Promised(t)'
  <2>1. Ahead(t) = WorkBefore(p)
    BY <1>2, <1>5
  <2>2. Fits(TakenLens(t), n, WaveBudget(slot[t]))
    <3>1. TakenLens(t) = <<>>
      BY <1>2, <1>5
    <3> QED
      BY <3>1 DEF Fits
  <2>3. ~Member(class[t], n, WorkBefore(p))
    BY <1>1, <2>1, <2>2 DEF Joins, n, p, LenAt
  <2>4. Promised(t)
    BY <1>5 DEF ScanOf
  <2>5. PICK i \in p .. Len(queue) : Member(class[t], LenAt(i), WorkBefore(i))
    BY <2>4 DEF Promised, p
  <2>6. i # p
    BY <2>3, <2>5 DEF n
  <2>7. i \in p + 1 .. Len(queue) /\ i \in 1 .. Len(queue) /\ i \in 1 .. Len(queue) + 1
    BY <1>2, <2>5, <2>6
  <2>8. class[t] \notin {"FIFO", "LOOKAHEAD"}
    <3>1. class[t] \in Classes
      BY DEF SlotInv, SlotTypes
    <3> QED
      BY <2>3, <3>1 DEF Member, Classes
  <2>9. LenAt(i)' = LenAt(i) /\ WorkBefore(i)' = WorkBefore(i)
    BY <1>4, <2>7
  <2>10. Member(class[t], LenAt(i)', WorkBefore(i)')
    BY <2>5, <2>9
  <2>11. \E j \in position'[t] .. Len(queue') : Member(class'[t], LenAt(j)', WorkBefore(j)')
    BY <1>1, <1>3, <2>7, <2>10
  <2>12. class'[t] \notin {"FIFO", "LOOKAHEAD"}
    BY <1>1, <2>8
  <2> QED
    BY <2>11, <2>12 DEF Promised, Member, InBacklog
<1>6. ASSUME wave[t] # <<>> PROVE Within(t)'
  <2>1. Within(t)
    BY <1>6 DEF ScanOf
  <2>2. TakenLens(t)' = TakenLens(t) /\ WaveBudget(slot[t])' = WaveBudget(slot[t])
    BY <1>1 DEF TakenLens, Lens, WaveBudget
  <2> QED
    BY <1>1, <2>1, <2>2 DEF Within
<1>7. position'[t] <= Len(queue') + 1
  BY <1>1, <1>2, <1>3
<1>8. ASSUME class'[t] = "OVERFLOW" PROVE LeavesHead(t)'
  <2>1. LeavesHead(t)
    BY <1>1, <1>8 DEF ScanOf
  <2>2. ASSUME wave[t] # <<>> PROVE InBacklog(WorkBefore(position[t])')
    <3>1. InBacklog(WorkBefore(p))
      BY <2>1, <2>2 DEF LeavesHead, p
    <3>2. p \in 1 .. Len(queue) + 1 /\ p + 1 \in 1 .. Len(queue) + 1 /\ p <= Len(queue)
      BY <1>2
    <3>3. WorkBefore(p) <= WorkBefore(p + 1) /\ WorkBefore(p) \in Nat /\ WorkBefore(p + 1) \in Nat
      BY <1>2, <3>2, WorkGrows
    <3>4. MaxBatchTokens * Groups \in Int
      BY BacklogInt
    <3>5. InBacklog(WorkBefore(p + 1))
      BY <3>1, <3>3, <3>4 DEF InBacklog
    <3>6. WorkBefore(position[t])' = WorkBefore(p + 1)
      <4>1. PICK q : q = p + 1
        OBVIOUS
      <4>2. position'[t] = q
        BY <1>3, <4>1
      <4>3. queue' = queue /\ entries' = entries
        BY <1>1
      <4>4. WorkBefore(position[t])' = WorkBefore(q)
        BY ONLY <4>2, <4>3 DEF WorkBefore, Lens
      <4> QED
        BY <4>1, <4>4
    <3> QED
      BY <3>5, <3>6
  <2> QED
    BY <1>1, <2>1, <2>2 DEF LeavesHead, InBacklog
<1> QED
  BY <1>1, <1>5, <1>6, <1>7, <1>8 DEF ScanOf

\* The scan ends: the wave is put in order and executed, or there is none.
LEMMA RunsWave ==
    ASSUME EntryInv, EntryInv', SlotInv, WaveInv, [Next]_vars, NEW t \in Slots, RunWave(t)
    PROVE  WaveInv'
<1>1. /\ bpc[t] = "scan" /\ ~pruning' /\ lock' = Free
      /\ \A u \in Slots \ {t} : bpc[u] # "scan"
      /\ slot' = slot /\ entries' = entries
  BY NoScanner DEF RunWave, Holds, tableVars
<1>2. bpc \in [Slots -> BackendPCs] /\ wave \in [Slots -> Seq(Cells)]
  BY DEF SlotInv, SlotTypes, EntryInv, TableInv, TableTypes
<1>3. CASE wave[t] = <<>>
  <2>1. bpc' = [bpc EXCEPT ![t] = "top"] /\ wave' = wave
    BY <1>3 DEF RunWave, BackendAt
  <2>2. \A u \in Slots : /\ bpc'[u] # "scan"
                         /\ bpc'[u] = "exec" => bpc[u] = "exec"
    BY <1>1, <1>2, <2>1
  <2> QED
    BY <1>1, <2>1, <2>2, QuietWaves
<1>4. CASE wave[t] # <<>>
  <2>1. bpc' = [bpc EXCEPT ![t] = "exec"]
    BY <1>4 DEF RunWave, BackendAt
  <2>2. PICK w \in Arrangements(wave[t]) : wave' = [wave EXCEPT ![t] = w]
    BY <1>4 DEF RunWave
  <2>3. wave'[t] = w /\ \A u \in Slots \ {t} : wave'[u] = wave[u] /\ bpc'[u] = bpc[u]
    BY <1>2, <2>1, <2>2
  <2>4. bpc'[t] = "exec"
    BY <1>2, <2>1
  <2>5. Within(t)
    BY <1>1, <1>4 DEF WaveInv, ScanOf
  <2>6. WaveBudget(slot[t])' = WaveBudget(slot[t])
    BY <1>1 DEF WaveBudget
  <2>7. TakenLens(t)' = Lens(w)
    BY <1>1, <2>3 DEF TakenLens, Lens
  <2>8. Within(t)'
    <3>1. CASE ~On("sort")
      <4>1. w = wave[t]
        BY <2>2, <3>1 DEF Arrangements
      <4>2. TakenLens(t)' = TakenLens(t) /\ wave'[t] = wave[t]
        BY <2>3, <2>7, <4>1 DEF TakenLens
      <4> QED
        BY <2>5, <2>6, <4>2 DEF Within
    <3>2. CASE On("sort")
      <4>1. PICK n \in Nat : n = Len(wave[t]) /\ DOMAIN wave[t] = 1 .. n
        BY <1>2
      <4>2. PICK p \in Bijection(1 .. n, 1 .. n) : w = [i \in 1 .. n |-> wave[t][p[i]]]
        BY <2>2, <3>2, <4>1 DEF Arrangements
      <4>3. \A i \in 1 .. n : p[i] \in 1 .. n
        BY DEF Bijection, Injection
      <4>4. Known(wave[t])
        BY WorkKnown
      <4>5. /\ TakenLens(t) \in Seq(Nat) /\ Len(TakenLens(t)) = n
            /\ \A i \in 1 .. n : TakenLens(t)[i] = TokensOf[entries[wave[t][i]].key]
        BY <4>1, <4>4, LensOfList DEF TakenLens
      <4>6. PICK s \in Seq(Nat) : s = TakenLens(t) /\ Len(s) = n
        BY <4>5
      <4>7. \A i \in 1 .. n : s[i] \in Nat
        BY <4>6
      <4>8. Lens(w) = [i \in 1 .. n |-> s[p[i]]]
        <5>1. DOMAIN w = 1 .. n /\ \A i \in 1 .. n : w[i] = wave[t][p[i]]
          BY <4>2
        <5>2. \A i \in 1 .. n : TokensOf[entries[w[i]].key] = s[p[i]]
          BY <4>3, <4>5, <4>6, <5>1
        <5> QED
          BY <5>1, <5>2 DEF Lens
      <4>9. PICK r \in Seq(Nat) : r = Lens(w) /\ Len(r) = n
        <5>1. [i \in 1 .. n |-> s[p[i]]] \in Seq(Nat)
          BY <4>3, <4>7
        <5>2. Len([i \in 1 .. n |-> s[p[i]]]) = n
          OBVIOUS
        <5> QED
          BY <4>8, <5>1, <5>2
      <4>10. \A i \in 1 .. n : r[i] = s[p[i]]
        BY <4>8, <4>9
      <4>11. FoldLeft(+, 0, r) = FoldLeft(+, 0, s)
        BY ONLY <4>2, <4>6, <4>9, <4>10, FoldPermuted
      <4>12. Len(w) = n /\ DOMAIN w = 1 .. n
        BY <4>2
      <4>13. Total(TakenLens(t)') = Total(TakenLens(t))
        BY <2>7, <4>6, <4>9, <4>11 DEF Total
      <4>14. Len(wave'[t]) = Len(wave[t]) /\ DOMAIN wave'[t] = 1 .. n
        BY <2>3, <4>1, <4>12
      <4>15. \A i \in 1 .. n : TakenLens(t)'[i] = TakenLens(t)[p[i]]
        BY <2>7, <4>6, <4>9, <4>10
      <4>16. ASSUME Len(wave[t]) > 1
             PROVE  \A i \in 1 .. n : TakenLens(t)'[i] <= MaxBatchSequenceTokens
        <5>1. \A i \in 1 .. n : TakenLens(t)[i] <= MaxBatchSequenceTokens
          BY <2>5, <4>1, <4>16 DEF Within
        <5> QED
          BY <4>3, <4>15, <5>1
      <4> QED
        BY <2>5, <2>6, <4>13, <4>14, <4>16 DEF Within
    <3> QED
      BY <3>1, <3>2
  <2>9. \A u \in Slots \ {t} : bpc'[u] # "scan"
    BY <1>1, <2>3
  <2> QED
    BY <1>1, <2>3, <2>4, <2>8, <2>9, ScanWaves
<1> QED
  BY <1>3, <1>4

\* A caller moves no wave, no slot of a thread and no scan.
LEMMA ClientQuiet ==
    ASSUME SlotInv, PruneAlone, NEW c \in Clients, Client(c)
    PROVE  /\ \A u \in Slots : bpc[u] # "scan"
           /\ SameWork(bpc, bpc')
           /\ UNCHANGED <<wave, slot>>
           /\ pruning' => lock' # Free
<1> USE DEF Holds, MayLock, backendVars, tableVars
<1>a. c # Free
  BY ServiceAssumption
<1>b. bpc \in [Slots -> BackendPCs]
  BY DEF SlotInv, SlotTypes
<1>c. lock \in {Free, c} => \A u \in Slots : bpc[u] # "scan"
  BY NoScanner
<1>d. pruning => lock # Free
  BY DEF PruneAlone
<1>e. bpc' = bpc => SameWork(bpc, bpc')
  BY <1>b DEF SameWork
<1>1. ASSUME NEW call \in Calls, Arrive(c, call) \/ EmbedTokens(c, call)
      PROVE  /\ lock \in {Free, c} /\ SameWork(bpc, bpc') /\ UNCHANGED <<wave, slot>>
             /\ pruning' => lock' # Free
  BY <1>a, <1>d, <1>e, <1>1 DEF Arrive, EmbedTokens
<1>2. CASE NoTokens(c)
  <2>1. SameWork(bpc, bpc')
    BY <1>b, <1>2, SignalSameWork DEF NoTokens
  <2> QED
    BY <1>c, <1>d, <1>2, <2>1 DEF NoTokens
<1>3. CASE Tokenized(c)
  BY <1>a, <1>c, <1>e, <1>3 DEF Tokenized
<1>4. CASE SubmitHit(c)
  BY <1>c, <1>e, <1>4 DEF SubmitHit, Submitted
<1>5. CASE SubmitMiss(c)
  BY <1>c, <1>e, <1>5 DEF SubmitMiss, Submitted
<1>6. CASE LaunchSolo(c)
  BY <1>c, <1>e, <1>6 DEF LaunchSolo
<1>7. CASE LaunchSignal(c)
  <2>1. SameWork(bpc, bpc')
    BY <1>b, <1>7, SignalSameWork DEF LaunchSignal
  <2> QED
    BY <1>c, <1>7, <2>1 DEF LaunchSignal
<1>8. ASSUME NEW success \in BOOLEAN, SoloDone(c, success)
      PROVE  /\ lock \in {Free, c} /\ SameWork(bpc, bpc') /\ UNCHANGED <<wave, slot>>
             /\ pruning' => lock' # Free
  <2>1. SameWork(bpc, AfterRelease(bpc))
    BY <1>b, SignalSameWork
  <2>2. AfterRelease(bpc) \in [Slots -> BackendPCs]
    BY <2>1 DEF SameWork
  <2>3. SameWork(AfterRelease(bpc), bpc')
    BY <1>8, <2>2, SignalSameWork DEF SoloDone
  <2>4. SameWork(bpc, bpc')
    BY <2>1, <2>3 DEF SameWork
  <2> QED
    BY <1>a, <1>8, <2>4 DEF SoloDone
<1>9. CASE AwaitBlock(c)
  BY <1>c, <1>e, <1>9 DEF AwaitBlock
<1>10. CASE AwaitTake(c)
  BY <1>a, <1>c, <1>e, <1>10 DEF AwaitTake
<1>11. CASE Return(c)
  BY <1>c, <1>e, <1>11 DEF Return
<1> QED
  BY <1>c, <1>1, <1>2, <1>3, <1>4, <1>5, <1>6, <1>7, <1>8, <1>9, <1>10, <1>11 DEF Client

\* The steps of a backend thread.
LEMMA BackendWaves ==
    ASSUME EntryInv, EntryInv', SlotInv, WaveInv, [Next]_vars, NEW t \in Slots, Backend(t)
    PROVE  WaveInv'
<1> USE DEF BackendAt, tableVars, slotVars
<1>a. /\ bpc \in [Slots -> BackendPCs] /\ wave \in [Slots -> Seq(Cells)]
      /\ slot \in [Slots -> Slots]
  BY DEF SlotInv, SlotTypes, EntryInv, TableInv, TableTypes
<1>b. MayLock(t) \/ Holds(t) \/ lock = Free =>
          ~pruning /\ \A u \in Slots \ {t} : bpc[u] # "scan"
  BY NoScanner DEF MayLock, Holds, WaveInv, PruneAlone
<1>c. \A u \in Slots : bpc[u] = "scan" => ScanOf(u)
  BY DEF WaveInv
\* The thread neither scans nor executes afterwards.
<1>d. ASSUME MayLock(t) \/ lock = Free, NEW where \in BackendPCs \ {"exec", "scan"},
             bpc' = [bpc EXCEPT ![t] = where], wave' = wave, pruning' = pruning,
             \A u \in Slots \ {t} : slot'[u] = slot[u]
      PROVE  WaveInv'
  <2>1. /\ ~pruning' /\ bpc'[t] = where
        /\ \A u \in Slots \ {t} : bpc'[u] = bpc[u] /\ bpc[u] # "scan"
    BY <1>a, <1>b, <1>d
  <2> QED
    BY <1>d, <2>1, ScanWaves
\* The thread starts a scan.
<1>e. ASSUME MayLock(t) \/ lock = Free, CanStart, BeginScan(t),
             UNCHANGED <<entries, queue, slotMask, pruning>>
      PROVE  WaveInv'
  <2>1. /\ ~pruning' /\ bpc'[t] = "scan"
        /\ \A u \in Slots \ {t} : /\ bpc'[u] = bpc[u] /\ bpc[u] # "scan"
                                  /\ wave'[u] = wave[u] /\ slot'[u] = slot[u]
    BY <1>a, <1>b, <1>e DEF BeginScan
  <2>2. ScanOf(t)'
    BY <1>e, ScanBegins
  <2> QED
    BY <2>1, <2>2, ScanWaves
\* The scan goes on.
<1>f. ASSUME Holds(t), bpc[t] = "scan", UNCHANGED <<bpc, slot, pruning>>,
             \A u \in Slots \ {t} : wave'[u] = wave[u], ScanOf(t)'
      PROVE  WaveInv'
  BY <1>b, <1>f, ScanWaves
<1>1. CASE QueueWait(t)
  BY <1>1, <1>d DEF QueueWait, BackendPCs
<1>2. CASE Exit(t)
  BY <1>2, <1>d DEF Exit, BackendPCs
<1>3. CASE StartCollect(t)
  <2>1. \A u \in Slots \ {t} : slot'[u] = slot[u]
    BY <1>a, <1>3 DEF StartCollect
  <2> QED
    BY <1>3, <1>d, <2>1 DEF StartCollect, BackendPCs
<1>4. CASE StartWave(t)
  BY <1>4, <1>e DEF StartWave
<1>5. CASE CollectAgain(t)
  BY <1>5, <1>d DEF CollectAgain, BackendPCs
<1>6. CASE EndCollect(t)
  <2>1. CASE CanStart
    BY <1>6, <2>1, <1>e DEF EndCollect
  <2>2. CASE ~CanStart
    BY <1>6, <2>2, <1>d DEF EndCollect, BackendPCs
  <2> QED
    BY <2>1, <2>2
<1>7. CASE ScanTake(t)
  <2>1. bpc[t] = "scan" /\ ScanOf(t)'
    BY <1>7, <1>c, ScanTakes DEF ScanTake
  <2>2. \A u \in Slots \ {t} : wave'[u] = wave[u]
    BY <1>a, <1>7 DEF ScanTake
  <2> QED
    BY <1>7, <1>f, <2>1, <2>2 DEF ScanTake
<1>8. CASE ScanSkip(t)
  <2>1. bpc[t] = "scan" /\ ScanOf(t)'
    BY <1>8, <1>c, ScanSkips DEF ScanSkip
  <2> QED
    BY <1>8, <1>f, <2>1 DEF ScanSkip
<1>9. CASE RunWave(t)
  BY <1>9, RunsWave
<1>10. ASSUME NEW success \in BOOLEAN, FinishWave(t, success) PROVE WaveInv'
  <2>1. /\ lock = Free /\ bpc[t] = "exec" /\ lock' = t /\ slot' = slot
        /\ bpc' = [AfterRelease(bpc) EXCEPT ![t] = "top"]
        /\ wave' = [wave EXCEPT ![t] = <<>>]
    BY <1>10 DEF FinishWave
  <2>2. SameWork(bpc, AfterRelease(bpc))
    BY <1>a, SignalSameWork
  <2>3. bpc'[t] = "top" /\ \A u \in Slots \ {t} : bpc'[u] = AfterRelease(bpc)[u]
    BY <2>1, <2>2 DEF SameWork
  <2>4. \A u \in Slots : bpc'[u] # "scan"
    BY <1>b, <2>1, <2>2, <2>3 DEF SameWork
  <2>5. \A u \in Slots : bpc'[u] = "exec" =>
            bpc[u] = "exec" /\ wave'[u] = wave[u] /\ slot'[u] = slot[u]
    BY <1>a, <2>1, <2>2, <2>3 DEF SameWork
  <2>6. lock' # Free
    BY <2>1, ServiceAssumption
  <2> QED
    BY <2>4, <2>5, <2>6, QuietWaves
<1> QED
  BY <1>1, <1>2, <1>3, <1>4, <1>5, <1>6, <1>7, <1>8, <1>9, <1>10 DEF Backend, Working

\* The steps of prune_cache, of ei_inference_service_free, and stuttering.
LEMMA OtherWaves ==
    ASSUME EntryInv, EntryInv', SlotInv, WaveInv, [Next]_vars,
           Evict \/ Pruned \/ Stop \/ Destroy \/ Destroyed \/ UNCHANGED vars
    PROVE  WaveInv'
<1>a. bpc \in [Slots -> BackendPCs]
  BY DEF SlotInv, SlotTypes
<1>b. ASSUME \A u \in Slots : bpc[u] # "scan", SameWork(bpc, bpc'), UNCHANGED <<wave, slot>>,
             pruning' => lock' # Free
      PROVE  WaveInv'
  <2>1. /\ \A u \in Slots : bpc'[u] # "scan"
        /\ \A u \in Slots : bpc'[u] = "exec" =>
               bpc[u] = "exec" /\ wave'[u] = wave[u] /\ slot'[u] = slot[u]
    BY <1>b DEF SameWork
  <2> QED
    BY <1>b, <2>1, QuietWaves
<1>c. bpc' = bpc => SameWork(bpc, bpc')
  BY <1>a DEF SameWork
<1>1. CASE Stop
  <2>1. SameWork(bpc, bpc') /\ \A u \in Slots : bpc[u] # "scan"
    BY <1>a, <1>1, NoScanner, SignalSameWork DEF Stop
  <2> QED
    BY <1>1, <1>b, <2>1 DEF Stop, tableVars, WaveInv, PruneAlone
<1>2. CASE Evict
  BY <1>2, <1>b, <1>c DEF Evict, backendVars, WaveInv, PruneAlone
<1>3. CASE Pruned
  BY <1>3, <1>b, <1>c DEF Pruned, backendVars, WaveInv, PruneAlone
<1>4. CASE Destroy
  BY <1>4, <1>b, <1>c DEF Destroy, AllExited, backendVars, WaveInv, PruneAlone
<1>5. CASE Destroyed \/ UNCHANGED vars
  <2>1. UNCHANGED vars
    BY <1>5 DEF Destroyed
  <2>2. UNCHANGED <<entries, queue, pruning, lock, slotMask, bpc, wave, slot, class, position>>
    BY <2>1 DEF vars, tableVars, slotVars, backendVars
  <2>3. CASE \A u \in Slots : bpc[u] # "scan"
    BY <1>b, <1>c, <2>2, <2>3 DEF WaveInv, PruneAlone
  <2>4. CASE \E u \in Slots : bpc[u] = "scan"
    <3>1. PICK t \in Slots : bpc[t] = "scan"
      BY <2>4
    <3>2. \A u \in Slots \ {t} : bpc[u] # "scan"
      BY <3>1 DEF SlotInv, ScanHoldsLock
    <3>3. ScanOf(t)'
      <4>1. ScanOf(t)
        BY <3>1 DEF WaveInv
      <4>2. \A i : LenAt(i)' = LenAt(i) /\ WorkBefore(i)' = WorkBefore(i)
        BY <2>2 DEF LenAt, WorkBefore, Lens
      <4>3. TakenLens(t)' = TakenLens(t) /\ WaveBudget(slot[t])' = WaveBudget(slot[t])
        BY <2>2 DEF TakenLens, Lens, WaveBudget
      <4>4. Within(t)' <=> Within(t)
        BY <2>2, <4>3 DEF Within
      <4>5. Promised(t)' <=> Promised(t)
        BY <2>2, <4>2 DEF Promised, Member, InBacklog
      <4>6. LeavesHead(t)' <=> LeavesHead(t)
        BY <2>2 DEF LeavesHead, WorkBefore, Lens, InBacklog
      <4> QED
        BY <2>2, <4>1, <4>4, <4>5, <4>6 DEF ScanOf
    <3>4. ~pruning'
      BY <2>2, <3>1 DEF WaveInv, PruneAlone
    <3> QED
      BY <2>2, <3>1, <3>2, <3>3, <3>4, ScanWaves
  <2> QED
    BY <2>3, <2>4
<1> QED
  BY <1>1, <1>2, <1>3, <1>4, <1>5

-----------------------------------------------------------------------------
(* Theorems about waves *)

\* No wave is under way at the start.
LEMMA WaveInit == Init => WaveInv
BY DEF Init, WaveInv, PruneAlone

\* Every step keeps the waves in order.
LEMMA WaveStep ==
    ASSUME EntryInv, EntryInv', SlotInv, WaveInv, [Next]_vars
    PROVE  WaveInv'
<1>1. ASSUME NEW c \in Clients, Client(c) PROVE WaveInv'
  <2>1. /\ \A u \in Slots : bpc[u] # "scan"
        /\ SameWork(bpc, bpc') /\ UNCHANGED <<wave, slot>> /\ (pruning' => lock' # Free)
    BY <1>1, ClientQuiet DEF WaveInv
  <2>2. /\ \A u \in Slots : bpc'[u] # "scan"
        /\ \A u \in Slots : bpc'[u] = "exec" =>
               bpc[u] = "exec" /\ wave'[u] = wave[u] /\ slot'[u] = slot[u]
    BY <2>1 DEF SameWork
  <2> QED
    BY <2>1, <2>2, QuietWaves
<1>2. ASSUME NEW t \in Slots, Backend(t) PROVE WaveInv'
  BY <1>2, BackendWaves
<1>3. ASSUME Evict \/ Pruned \/ Stop \/ Destroy \/ Destroyed \/ UNCHANGED vars PROVE WaveInv'
  BY <1>3, OtherWaves
<1> QED
  BY <1>1, <1>2, <1>3 DEF Next

\* The inductive invariant of the waves holds in every reachable state.
THEOREM WaveInvariance == Spec => []WaveInv
<1>1. EntryInv /\ EntryInv' /\ SlotInv /\ WaveInv /\ [Next]_vars => WaveInv'
  BY WaveStep
<1> QED
  BY <1>1, WaveInit, EntryInvariance, SlotInvariance, PTL DEF Spec

\* A slot is only picked when the queue has a member for its wave: a scan that is
\* over has one, and no backend thread spins on an empty wave.
THEOREM PromiseKept == Spec => []PickPromisesMember
<1>1. ASSUME EntryInv, SlotInv, WaveInv PROVE PickPromisesMember
  <2> SUFFICES ASSUME NEW t \in Slots, bpc[t] = "scan", wave[t] = <<>>
               PROVE  Scanning(t)
    BY DEF PickPromisesMember
  <2>1. Promised(t)
    BY <1>1 DEF WaveInv, ScanOf
  <2>2. PICK i \in position[t] .. Len(queue) : TRUE
    BY <2>1 DEF Promised
  <2>3. Len(Lens(queue)) = Len(queue) /\ Len(queue) \in Nat
    BY <1>1, WorkKnown, LensOfList DEF Known
  <2>4. position[t] \in Nat
    BY <1>1 DEF EntryInv, PlainTypes
  <2>5. position[t] <= Len(Lens(queue))
    BY <2>2, <2>3, <2>4
  <2>6. TakenLens(t) = <<>> /\ Len(TakenLens(t)) = 0
    BY DEF TakenLens, Lens
  <2>7. 0 < MaxBatchRequests /\ LookaheadScan \in Nat /\ 0 < LookaheadScan
    BY BudgetAssumption DEF LookaheadScan
  <2>8. class[t] \in {"FIFO", "LOOKAHEAD"} => position[t] = 1
    BY <2>1 DEF Promised
  <2> QED
    BY <2>5, <2>6, <2>7, <2>8 DEF Scanning, ScanContinues
<1> QED
  BY <1>1, WaveInvariance, EntryInvariance, SlotInvariance, PTL

\* A wave in execution is a single request, or it stays within the budget of its
\* slot, in number and in tokens, and has no oversized request.
THEOREM BudgetKept == Spec => []WaveWithinBudget
<1>1. ASSUME EntryInv, WaveInv PROVE WaveWithinBudget
  <2> SUFFICES ASSUME NEW t \in Executing
               PROVE  LET lens == TakenLens(t)
                      IN  /\ Len(lens) \in 1 .. MaxBatchRequests
                          /\ Len(lens) > 1 =>
                                 /\ Total(lens) <= WaveBudget(slot[t])
                                 /\ \A i \in DOMAIN lens : lens[i] <= MaxBatchSequenceTokens
    BY DEF WaveWithinBudget
  <2>1. t \in Slots /\ Within(t)
    BY <1>1 DEF Executing, WaveInv
  <2>2. /\ TakenLens(t) \in Seq(Nat) /\ Len(TakenLens(t)) = Len(wave[t])
        /\ wave[t] \in Seq(Cells)
    BY <1>1, <2>1, WorkKnown, LensOfList DEF TakenLens, Known
  <2>3. DOMAIN TakenLens(t) = DOMAIN wave[t]
    BY <2>2
  <2> QED
    BY <2>1, <2>2, <2>3 DEF Within
<1> QED
  BY <1>1, WaveInvariance, EntryInvariance, PTL

\* Only the end of a scan puts a thread to execution.
LEMMA ScanEnds ==
    ASSUME SlotInv, PruneAlone, [Next]_vars, NEW t \in Slots, bpc[t] = "scan", bpc'[t] = "exec"
    PROVE  RunWave(t)
<1>a. bpc \in [Slots -> BackendPCs]
  BY DEF SlotInv, SlotTypes
<1>1. ASSUME NEW c \in Clients, Client(c) PROVE FALSE
  BY <1>1, ClientQuiet
<1>2. ASSUME NEW u \in Slots, Backend(u) PROVE RunWave(t)
  <2>1. u # t => FALSE
    <3> SUFFICES ASSUME u # t PROVE FALSE
      OBVIOUS
    <3>1. ~MayLock(u) /\ ~Holds(u) /\ lock # Free
      BY NoScanner
    <3> QED
      BY <1>2, <3>1 DEF Backend, Working, QueueWait, Exit, StartCollect, EndCollect, StartWave,
                        ScanTake, ScanSkip, RunWave, FinishWave, CollectAgain
  <2>2. u = t
    BY <2>1
  <2> QED
    BY <1>a, <1>2, <2>2 DEF Backend, Working, QueueWait, Exit, StartCollect, EndCollect,
          StartWave, ScanTake, ScanSkip, FinishWave, CollectAgain, BeginScan, BackendAt
<1>3. ASSUME Evict \/ Pruned \/ Stop \/ Destroy \/ Destroyed \/ UNCHANGED vars PROVE FALSE
  <2>1. bpc' = bpc \/ Stop
    BY <1>3 DEF Evict, Pruned, Destroy, Destroyed, vars, backendVars
  <2>2. Stop => SameWork(bpc, bpc')
    BY <1>a, SignalSameWork DEF Stop
  <2> QED
    BY <2>1, <2>2 DEF SameWork
<1> QED
  BY <1>1, <1>2, <1>3 DEF Next

\* An overflow wave starts only while every device is busy, and it leaves in the
\* queue at least the work that the next waves of the devices absorb.
THEOREM HeadLeft == Spec => OverflowLeavesHead
<1>1. ASSUME EntryInv, SlotInv, WaveInv, PickPromisesMember, [Next]_vars,
             NEW t \in Slots, bpc[t] = "scan", bpc'[t] = "exec", class[t] = "OVERFLOW"
      PROVE  /\ IdleGroups(slotMask) = {}
             /\ Total(Lens(queue)) >= MaxBatchTokens * Groups
  <2>1. RunWave(t)
    BY <1>1, ScanEnds DEF WaveInv
  <2>2. wave[t] # <<>>
    BY <1>1, <2>1 DEF RunWave, PickPromisesMember
  <2>3. ScanOf(t)
    BY <1>1 DEF WaveInv
  <2>4. IdleGroups(slotMask) = {} /\ InBacklog(WorkBefore(position[t]))
    BY <1>1, <2>2, <2>3 DEF ScanOf, LeavesHead
  <2>5. position[t] \in 1 .. Len(queue) + 1
    <3>1. position[t] \in Nat \ {0} /\ position[t] <= Len(queue) + 1 /\ queue \in Seq(Cells)
      BY <1>1, <2>3 DEF ScanOf, EntryInv, PlainTypes, TableInv, TableTypes
    <3>2. Len(queue) \in Nat
      BY <3>1
    <3> QED
      BY <3>1, <3>2
  <2>6. /\ WorkBefore(position[t]) \in Nat /\ Total(Lens(queue)) \in Nat
        /\ WorkBefore(position[t]) <= Total(Lens(queue))
    BY <1>1, <2>5, WorkKnown, WorkGrows
  <2>7. MaxBatchTokens * Groups \in Int
    BY BacklogInt
  <2> QED
    BY <2>4, <2>6, <2>7 DEF InBacklog
<1>2. EntryInv /\ SlotInv /\ WaveInv /\ PickPromisesMember /\ [Next]_vars =>
        [\A t \in Slots :
            bpc[t] = "scan" /\ bpc'[t] = "exec" /\ class[t] = "OVERFLOW" =>
                /\ IdleGroups(slotMask) = {}
                /\ Total(Lens(queue)) >= MaxBatchTokens * Groups]_vars
  BY <1>1
<1> QED
  BY <1>2, WaveInvariance, EntryInvariance, SlotInvariance, PromiseKept, PTL
  DEF Spec, OverflowLeavesHead

-----------------------------------------------------------------------------
(* The counts of calls in progress *)

\* SumLen, of any lists.
ListSum(its, C) ==
    MapThenFoldSet(+, 0, LAMBDA c : Len(its[c]), LAMBDA S : CHOOSE c \in S : TRUE, C)

Lengths(its) == [c \in Clients |-> Len(its[c])]

\* It is the sum of the lengths, in whatever order they are taken.
LEMMA ListsSummed ==
    ASSUME NEW its, NEW S \in SUBSET Clients, IsFiniteSet(S)
    PROVE  ListSum(its, S) = SumOver(Lengths(its), S)
<1> DEFINE Solves(g) ==
        g = [s \in SUBSET S |->
                IF s = {} THEN 0
                ELSE Len(its[CHOOSE c \in s : TRUE]) + g[s \ {CHOOSE c \in s : TRUE}]]
<1>1. \A g : Solves(g) <=> Sums(Lengths(its), S, g)
  <2>1. \A s \in SUBSET S :
            s # {} => Lengths(its)[Chosen(s)] = Len(its[CHOOSE c \in s : TRUE])
    BY ChosenIn DEF Lengths, Chosen
  <2> QED
    BY <2>1 DEF Sums, Chosen
<1>2. PICK g : g = CHOOSE h : Solves(h)
  OBVIOUS
<1>3. ListSum(its, S) = g[S]
  BY <1>2 DEF ListSum, MapThenFoldSet
<1> HIDE DEF Solves
<1>4. Solves(g)
  BY <1>1, <1>2, SumsExist
<1> QED
  BY <1>1, <1>3, <1>4, SumIsUnique

\* What call c has in the sum over S.
Share(its, S, c) == IF c \in S THEN Len(its[c]) ELSE 0

\* The sets S and T of calls, and their items, differ in call c only.
OneCallApart(S, T, c, its, new) ==
    /\ S \in SUBSET Clients /\ T \in SUBSET Clients /\ c \in Clients /\ T \ {c} = S \ {c}
    /\ its \in [Clients -> Seq(Keys)] /\ new \in [Clients -> Seq(Keys)]
    /\ \A d \in Clients \ {c} : new[d] = its[d]

\* The sum over a set of calls, when one call joins it, leaves it or changes.
LEMMA OneCallChanges ==
    ASSUME NEW S, IsFiniteSet(S), NEW T, NEW c, NEW its, NEW new, OneCallApart(S, T, c, its, new)
    PROVE  /\ IsFiniteSet(T)
           /\ SumOver(Lengths(its), S) \in Nat
           /\ SumOver(Lengths(new), T) =
                  (SumOver(Lengths(its), S) - Share(its, S, c)) + Share(new, T, c)
<1> USE DEF OneCallApart
<1> DEFINE R == S \ {c}
<1>1. \A d \in Clients : Len(its[d]) \in Nat /\ Len(new[d]) \in Nat
  OBVIOUS
<1>2. /\ \A d \in Clients : Lengths(its)[d] = Len(its[d]) /\ Lengths(its)[d] \in Nat
      /\ \A d \in Clients : Lengths(new)[d] = Len(new[d]) /\ Lengths(new)[d] \in Nat
  BY <1>1 DEF Lengths
<1>3. IsFiniteSet(R) /\ R \in SUBSET Clients
  BY FS_Subset
<1>4. T = R \/ T = R \cup {c}
  OBVIOUS
<1>5. IsFiniteSet(T)
  <2>1. PICK A : A = R /\ IsFiniteSet(A)
    BY <1>3
  <2>2. IsFiniteSet(A \cup {c})
    BY <2>1, FS_AddElement
  <2> QED
    BY <1>4, <2>1, <2>2
<1>6. PICK f, h : f = Lengths(its) /\ h = Lengths(new)
  OBVIOUS
<1>7. /\ \A d \in Clients : f[d] = Len(its[d]) /\ f[d] \in Nat
      /\ \A d \in Clients : h[d] = Len(new[d]) /\ h[d] \in Nat
      /\ \A d \in R : h[d] = f[d]
  BY <1>2, <1>6
<1>8. SumOver(f, R) \in Nat /\ SumOver(f, S) \in Nat /\ SumOver(h, R) = SumOver(f, R)
  BY <1>3, <1>7, SumNat, SumSame
<1>9. SumOver(f, S) = SumOver(f, R) + (IF c \in S THEN Len(its[c]) ELSE 0)
  <2>1. CASE c \in S
    <3>1. \A d \in S : f[d] \in Nat
      BY <1>7
    <3>0. IsFiniteSet(S)
      OBVIOUS
    <3>2. SumOver(f, S) = SumOver(f, S \ {c}) + f[c]
      BY ONLY <2>1, <3>0, <3>1, SumAdd
    <3> QED
      BY <1>7, <2>1, <3>2
  <2>2. CASE c \notin S
    <3>1. R = S
      BY <2>2
    <3>2. PICK v \in Nat : v = SumOver(f, R) /\ v = SumOver(f, S)
      BY <1>8, <3>1
    <3> QED
      BY <2>2, <3>2
  <2> QED
    BY <2>1, <2>2
<1>11. SumOver(h, T) = SumOver(f, R) + (IF c \in T THEN Len(new[c]) ELSE 0)
  <2>1. CASE c \in T
    <3>1. (\A d \in T : h[d] \in Nat) /\ T \ {c} = R
      BY <1>7
    <3>2. SumOver(h, T) = SumOver(h, T \ {c}) + h[c]
      BY ONLY <1>5, <2>1, <3>1, SumAdd
    <3> QED
      BY <1>7, <1>8, <2>1, <3>1, <3>2
  <2>2. CASE c \notin T
    <3>1. R = T
      BY <2>2
    <3>2. PICK v \in Nat : v = SumOver(f, R) /\ v = SumOver(h, T)
      BY <1>8, <3>1
    <3> QED
      BY <2>2, <3>2
  <2> QED
    BY <2>1, <2>2
<1> HIDE DEF R
<1>10. /\ (IF c \in S THEN Len(its[c]) ELSE 0) \in Nat
       /\ (IF c \in T THEN Len(new[c]) ELSE 0) \in Nat
  BY <1>1
<1> QED
  BY <1>5, <1>6, <1>8, <1>9, <1>11, <1>10 DEF Share

\* The calls that tokenize, and the calls that have their tokens.
Tokenizing == {c \in Clients : pc[c] = "tokenize"}
Underway == {c \in Clients : pc[c] \notin {"idle", "tokenize"}}

\* Only finitely many calls are in progress, and the counts are theirs.
CountInv ==
    /\ IsFiniteSet(Tokenizing) /\ IsFiniteSet(Underway)
    /\ arriving = SumOver(Lengths(items), Tokenizing)
    /\ active = SumOver(Lengths(items), Underway)

\* A step that starts, tokenizes and ends no call.
LEMMA CountsStayed ==
    ASSUME CountInv, UNCHANGED <<items, arriving, active>>,
           \A d \in Clients : /\ pc'[d] = "tokenize" <=> pc[d] = "tokenize"
                              /\ pc'[d] = "idle" <=> pc[d] = "idle"
    PROVE  CountInv'
<1>1. Tokenizing' = Tokenizing /\ Underway' = Underway
  BY DEF Tokenizing, Underway
<1>2. Lengths(items)' = Lengths(items)
  BY DEF Lengths
<1> QED
  BY <1>1, <1>2 DEF CountInv

\* A step that moves one call from one stage to another.
LEMMA CountsMove ==
    ASSUME CountInv, CallShape, SlotInv, NEW c \in Clients,
           NEW where \in ClientPCs, pc' = [pc EXCEPT ![c] = where],
           NEW call \in Seq(Keys), items' = [items EXCEPT ![c] = call],
           arriving' = (arriving - (IF pc[c] = "tokenize" THEN Len(items[c]) ELSE 0))
                          + (IF where = "tokenize" THEN Len(call) ELSE 0),
           active' = (active - (IF pc[c] \notin {"idle", "tokenize"} THEN Len(items[c]) ELSE 0))
                        + (IF where \notin {"idle", "tokenize"} THEN Len(call) ELSE 0)
    PROVE  CountInv'
<1>1. /\ items \in [Clients -> Seq(Keys)] /\ items' \in [Clients -> Seq(Keys)]
      /\ items'[c] = call /\ \A d \in Clients \ {c} : items'[d] = items[d]
  BY DEF CallShape
<1>2. pc'[c] = where /\ \A d \in Clients \ {c} : pc'[d] = pc[d]
  BY DEF SlotInv, SlotTypes
<1>3. Tokenizing' \ {c} = Tokenizing \ {c} /\ Underway' \ {c} = Underway \ {c}
  BY <1>2 DEF Tokenizing, Underway
<1>4. /\ c \in Tokenizing <=> pc[c] = "tokenize"
      /\ c \in Tokenizing' <=> where = "tokenize"
      /\ c \in Underway <=> pc[c] \notin {"idle", "tokenize"}
      /\ c \in Underway' <=> where \notin {"idle", "tokenize"}
  BY <1>2 DEF Tokenizing, Underway
<1>5. /\ Tokenizing \in SUBSET Clients /\ Tokenizing' \in SUBSET Clients
      /\ Underway \in SUBSET Clients /\ Underway' \in SUBSET Clients
  BY DEF Tokenizing, Underway
<1>6. PICK S, R, T, U, its, new : /\ S = Tokenizing /\ R = Underway /\ its = items
                                  /\ T = Tokenizing' /\ U = Underway' /\ new = items'
  OBVIOUS
<1>7. /\ SumOver(Lengths(new), T) =
            (SumOver(Lengths(its), S) - Share(its, S, c)) + Share(new, T, c)
      /\ IsFiniteSet(T)
  <2>1. OneCallApart(S, T, c, its, new)
    BY <1>1, <1>3, <1>5, <1>6 DEF OneCallApart
  <2>2. IsFiniteSet(S)
    BY <1>6 DEF CountInv
  <2> QED
    BY ONLY <2>1, <2>2, OneCallChanges
<1>8. /\ SumOver(Lengths(new), U) =
            (SumOver(Lengths(its), R) - Share(its, R, c)) + Share(new, U, c)
      /\ IsFiniteSet(U)
  <2>1. OneCallApart(R, U, c, its, new)
    BY <1>1, <1>3, <1>5, <1>6 DEF OneCallApart
  <2>2. IsFiniteSet(R)
    BY <1>6 DEF CountInv
  <2> QED
    BY ONLY <2>1, <2>2, OneCallChanges
<1>9. arriving' = SumOver(Lengths(new), T)
  BY <1>1, <1>4, <1>6, <1>7 DEF CountInv, Share
<1>10. active' = SumOver(Lengths(new), U)
  BY <1>1, <1>4, <1>6, <1>8 DEF CountInv, Share
<1>11. Lengths(items)' = Lengths(new)
  BY <1>6 DEF Lengths
<1> QED
  BY <1>6, <1>7, <1>8, <1>9, <1>10, <1>11 DEF CountInv

\* Every step keeps the counts.
LEMMA CountStep ==
    ASSUME EntryInv, SlotInv, CountInv, [Next]_vars
    PROVE  CountInv'
<1> USE DEF Goto, NoteActive, NoteArrived
<1>a. /\ CallShape /\ pc \in [Clients -> ClientPCs] /\ items \in [Clients -> Seq(Keys)]
      /\ arriving \in Int /\ active \in Int
  BY DEF EntryInv, CallShape, SlotInv, SlotTypes, PlainTypes
<1>b. ASSUME UNCHANGED <<items, pc, arriving, active>> PROVE CountInv'
  BY <1>b, CountsStayed
<1>c. ASSUME NEW done, NEW at \in [Clients -> ClientPCs]
      PROVE  \A d \in Clients : /\ WakeCallers(at, done)[d] = "tokenize" <=> at[d] = "tokenize"
                                /\ WakeCallers(at, done)[d] = "idle" <=> at[d] = "idle"
  BY DEF WakeCallers
<1>1. ASSUME NEW c \in Clients, Client(c) PROVE CountInv'
  <2>0. /\ items[c] \in Seq(Keys) /\ Len(items[c]) \in Nat
        /\ items = [items EXCEPT ![c] = items[c]]
    BY <1>a
  <2>1. ASSUME NEW call \in Calls, Arrive(c, call) PROVE CountInv'
    <3>1. /\ pc[c] = "idle" /\ pc' = [pc EXCEPT ![c] = "tokenize"]
          /\ items' = [items EXCEPT ![c] = call] /\ arriving' = arriving + Len(call)
          /\ active' = active
      BY <2>1 DEF Arrive
    <3>2. call \in Seq(Keys) /\ Len(call) \in Nat
      BY ServiceAssumption
    <3>3. "tokenize" \in ClientPCs
      BY DEF ClientPCs
    <3>4. /\ arriving' = (arriving - 0) + Len(call)
          /\ active' = (active - 0) + 0
      BY <1>a, <3>1, <3>2
    <3> QED
      BY <1>a, <3>1, <3>2, <3>3, <3>4, CountsMove
  <2>2. ASSUME NEW call \in Calls, EmbedTokens(c, call) PROVE CountInv'
    <3>1. /\ pc[c] = "idle" /\ pc' = [pc EXCEPT ![c] = "submit"]
          /\ items' = [items EXCEPT ![c] = call] /\ arriving' = arriving
          /\ active' = active + 1 /\ Len(call) = 1
      BY <2>2 DEF EmbedTokens
    <3>2. call \in Seq(Keys)
      BY ServiceAssumption
    <3>3. "submit" \in ClientPCs
      BY DEF ClientPCs
    <3>4. /\ arriving' = (arriving - 0) + 0
          /\ active' = (active - 0) + Len(call)
      BY <1>a, <3>1
    <3> QED
      BY <1>a, <3>1, <3>2, <3>3, <3>4, CountsMove
  <2>3. CASE NoTokens(c)
    <3>1. /\ pc[c] = "tokenize" /\ pc' = [pc EXCEPT ![c] = "idle"]
          /\ items' = [items EXCEPT ![c] = <<>>] /\ arriving' = arriving - Len(items[c])
          /\ active' = active
      BY <2>3 DEF NoTokens
    <3>2. <<>> \in Seq(Keys) /\ "idle" \in ClientPCs
      BY DEF ClientPCs
    <3>3. /\ arriving' = (arriving - Len(items[c])) + 0
          /\ active' = (active - 0) + 0
      BY <1>a, <2>0, <3>1
    <3> QED
      BY <1>a, <3>1, <3>2, <3>3, CountsMove
  <2>4. CASE Tokenized(c)
    <3>1. /\ pc[c] = "tokenize" /\ pc' = [pc EXCEPT ![c] = "submit"]
          /\ items' = items /\ arriving' = arriving - Len(items[c])
          /\ active' = active + Len(items[c])
      BY <2>4 DEF Tokenized
    <3>2. "submit" \in ClientPCs /\ items' = [items EXCEPT ![c] = items[c]]
      BY <2>0, <3>1 DEF ClientPCs
    <3>3. /\ arriving' = (arriving - Len(items[c])) + 0
          /\ active' = (active - 0) + Len(items[c])
      BY <1>a, <2>0, <3>1
    <3> QED
      BY <1>a, <2>0, <3>1, <3>2, <3>3, CountsMove
\* The call goes on.
  <2>5. ASSUME pc[c] \notin {"idle", "tokenize"}, UNCHANGED <<items, arriving, active>>,
               NEW where \in ClientPCs \ {"idle", "tokenize"}, pc' = [pc EXCEPT ![c] = where]
        PROVE  CountInv'
    <3>1. \A d \in Clients : /\ pc'[d] = "tokenize" <=> pc[d] = "tokenize"
                             /\ pc'[d] = "idle" <=> pc[d] = "idle"
      BY <1>a, <2>5
    <3> QED
      BY <2>5, <3>1, CountsStayed
  <2>6. CASE SubmitHit(c) \/ SubmitMiss(c)
    <3>1. PICK e : Submitted(c, e)
      BY <2>6 DEF SubmitHit, SubmitMiss
    <3>2. /\ pc[c] = "submit" /\ UNCHANGED <<items, arriving, active>>
          /\ \/ pc' = [pc EXCEPT ![c] = "launch"]
             \/ pc' = [pc EXCEPT ![c] = "submit"]
      BY <2>6, <3>1 DEF SubmitHit, SubmitMiss, Submitted, countVars
    <3> QED
      BY <2>5, <3>2 DEF ClientPCs
  <2>7. CASE LaunchSolo(c)
    BY <2>5, <2>7 DEF LaunchSolo, countVars, ClientPCs
  <2>8. CASE LaunchSignal(c)
    BY <2>5, <2>8 DEF LaunchSignal, countVars, ClientPCs
  <2>9. ASSUME NEW success \in BOOLEAN, SoloDone(c, success) PROVE CountInv'
    <3> DEFINE woken == WakeCallers(pc, {handles[c][1]})
    <3>1. /\ pc[c] = "solo" /\ UNCHANGED <<items, arriving, active>>
          /\ pc' = [woken EXCEPT ![c] = "await"]
      BY <2>9 DEF SoloDone
    <3>2. woken \in [Clients -> ClientPCs]
      BY <1>a, WakeCallersSameSolo
    <3>3. \A d \in Clients : /\ woken[d] = "tokenize" <=> pc[d] = "tokenize"
                             /\ woken[d] = "idle" <=> pc[d] = "idle"
      BY <1>a, <1>c
    <3> HIDE DEF woken
    <3>4. \A d \in Clients : /\ pc'[d] = "tokenize" <=> pc[d] = "tokenize"
                             /\ pc'[d] = "idle" <=> pc[d] = "idle"
      BY <3>1, <3>2, <3>3
    <3> QED
      BY <3>1, <3>4, CountsStayed
  <2>10. CASE AwaitBlock(c)
    BY <2>5, <2>10 DEF AwaitBlock, countVars, ClientPCs
  <2>11. CASE AwaitTake(c)
    <3>1. /\ pc[c] = "await" /\ UNCHANGED <<items, arriving, active>>
          /\ \/ pc' = [pc EXCEPT ![c] = "return"]
             \/ pc' = [pc EXCEPT ![c] = "await"]
      BY <2>11 DEF AwaitTake, countVars
    <3> QED
      BY <2>5, <3>1 DEF ClientPCs
  <2>12. CASE Return(c)
    <3>1. /\ pc[c] = "return" /\ pc' = [pc EXCEPT ![c] = "idle"]
          /\ items' = [items EXCEPT ![c] = <<>>] /\ arriving' = arriving
          /\ active' = active - Len(items[c])
      BY <2>12 DEF Return
    <3>2. <<>> \in Seq(Keys) /\ "idle" \in ClientPCs
      BY DEF ClientPCs
    <3>3. /\ arriving' = (arriving - 0) + 0
          /\ active' = (active - Len(items[c])) + 0
      BY <1>a, <2>0, <3>1
    <3> QED
      BY <1>a, <3>1, <3>2, <3>3, CountsMove
  <2> QED
    BY <1>1, <2>1, <2>2, <2>3, <2>4, <2>6, <2>7, <2>8, <2>9, <2>10, <2>11, <2>12 DEF Client
<1>2. ASSUME NEW t \in Slots, Backend(t) PROVE CountInv'
  <2>1. ASSUME NEW success \in BOOLEAN, FinishWave(t, success) PROVE CountInv'
    <3>1. pc' = WakeCallers(pc, ToSet(wave[t])) /\ UNCHANGED <<items, arriving, active>>
      BY <2>1 DEF FinishWave
    <3>2. \A d \in Clients : /\ pc'[d] = "tokenize" <=> pc[d] = "tokenize"
                             /\ pc'[d] = "idle" <=> pc[d] = "idle"
      BY <1>a, <1>c, <3>1
    <3> QED
      BY <3>1, <3>2, CountsStayed
  <2>2. \/ UNCHANGED <<items, pc, arriving, active>>
        \/ \E success \in BOOLEAN : FinishWave(t, success)
    BY <1>2 DEF Backend, Working, QueueWait, Exit, StartCollect, EndCollect, StartWave,
                CollectAgain, ScanTake, ScanSkip, RunWave, countVars, clientVars
  <2> QED
    BY <1>b, <2>1, <2>2
<1>3. CASE Evict \/ Pruned \/ Stop \/ Destroy \/ Destroyed \/ UNCHANGED vars
  BY <1>b, <1>3 DEF Evict, Pruned, Stop, Destroy, Destroyed, vars, countVars, clientVars
<1> QED
  BY <1>1, <1>2, <1>3 DEF Next

\* The arrival and activity counts that collectors wait on are those of the calls
\* in progress: none leaks, so no later wave waits for a caller that is gone.
THEOREM BalancedCounts == Spec => []CountsBalanced
<1>1. Init => CountInv
  <2> SUFFICES ASSUME Init PROVE CountInv
    OBVIOUS
  <2>1. Tokenizing = {} /\ Underway = {} /\ arriving = 0 /\ active = 0
    BY DEF Init, Tokenizing, Underway
  <2>2. IsFiniteSet({}) /\ SumOver(Lengths(items), {}) = 0
    BY FS_EmptySet, SumStep
  <2> QED
    BY <2>1, <2>2 DEF CountInv
<1>2. EntryInv /\ SlotInv /\ CountInv /\ [Next]_vars => CountInv'
  BY CountStep
<1>3. CountInv => CountsBalanced
  <2> SUFFICES ASSUME CountInv PROVE CountsBalanced
    OBVIOUS
  <2>1. \A C : SumLen(C) = ListSum(items, C)
    BY DEF SumLen, ListSum
  <2>2. Tokenizing \in SUBSET Clients /\ Underway \in SUBSET Clients
    BY DEF Tokenizing, Underway
  <2>3. arriving = SumLen(Tokenizing) /\ active = SumLen(Underway)
    BY <2>1, <2>2, ListsSummed DEF CountInv
  <2> QED
    BY <2>3 DEF CountsBalanced, Tokenizing, Underway
<1> QED
  BY <1>1, <1>2, <1>3, EntryInvariance, SlotInvariance, PTL DEF Spec

-----------------------------------------------------------------------------
(* The order of eviction *)

\* Only an eviction frees an answer, while the service is up.
LEMMA FreesReady ==
    ASSUME EntryInv, [Next]_vars, ~AllExited, NEW e \in Cells, Ready(e), entries'[e] = NoEntry
    PROVE  Evict
<1>a. /\ TableTypes /\ TableInv /\ entries \in [Cells -> EntryType \cup {NoEntry}]
      /\ entries[e] # NoEntry /\ entries[e].state = "READY" /\ entries[e] \in EntryType
  BY DEF EntryInv, TableInv, TableTypes, Ready
<1>b. entries'[e] # entries[e]
  BY <1>a
<1>c. ASSUME NEW f, NEW n \in Nat, entries' = [entries EXCEPT ![f].users = n] PROVE FALSE
  <2>1. e = f
    BY <1>a, <1>b, <1>c
  <2>2. PICK old \in EntryType : old = entries[e]
    BY <1>a
  <2>3. [old EXCEPT !.users = n] \in EntryType
    BY DEF EntryType
  <2>4. [old EXCEPT !.users = n] = NoEntry
    BY <1>a, <1>c, <2>1, <2>2
  <2> QED
    BY <2>3, <2>4, ServiceAssumption
<1>d. ASSUME NEW done, NEW success \in BOOLEAN, Complete(done, success),
             \A f \in ToSet(done) : Pending(f)
      PROVE  FALSE
  <2>1. e \notin ToSet(done)
    BY <1>a, <1>d DEF Pending
  <2> QED
    BY <1>b, <1>d, <2>1 DEF Complete
<1>1. ASSUME NEW c \in Clients, Client(c) PROVE FALSE
  <2>1. CASE SubmitHit(c)
    <3>1. PICK f \in Matching(NextItem(c)) :
              entries' = [entries EXCEPT ![f].users = entries[f].users + 1]
      BY <2>1 DEF SubmitHit
    <3>2. entries[f] \in EntryType
      BY <1>a DEF Matching, FreeCells
    <3>3. entries[f].users + 1 \in Nat
      BY <3>2 DEF EntryType
    <3> QED
      BY <1>c, <3>1, <3>3
  <2>2. CASE SubmitMiss(c)
    <3>1. FreeCells \in SUBSET Nat /\ FreeCells # {}
      BY <2>2, ServiceAssumption DEF FreeCells, SubmitMiss
    <3>2. Lowest(FreeCells) \in FreeCells
      BY <3>1, LowestNat
    <3>3. \E new : entries' = [entries EXCEPT ![Lowest(FreeCells)] = new]
      BY <2>2 DEF SubmitMiss
    <3> QED
      BY <1>a, <1>b, <3>2, <3>3 DEF FreeCells
  <2>3. ASSUME NEW success \in BOOLEAN, SoloDone(c, success) PROVE FALSE
    <3> DEFINE mine == handles[c][1]
    <3>1. Complete(<<mine>>, success) /\ pc[c] = "solo"
      BY <2>3 DEF SoloDone
    <3>2. Pending(mine)
      BY <1>a, <3>1 DEF TableInv, WorkInv, SolosPending
    <3> HIDE DEF mine
    <3>3. \A f \in ToSet(<<mine>>) : Pending(f)
      BY <3>2 DEF ToSet
    <3> QED
      BY <1>d, <3>1, <3>3
  <2>4. CASE AwaitTake(c)
    <3> DEFINE f == handles[c][index[c]]
    <3>1. ReleaseEntry(f) /\ index[c] <= Len(handles[c])
      BY <2>4 DEF AwaitTake, EntryInv, CallShape
    <3>2. handles[c] \in Seq(Cells) /\ index[c] \in 1 .. Len(handles[c])
      BY <1>a, <3>1 DEF TableTypes
    <3>3. f \in Cells /\ <<c, index[c]>> \in References(f)
      BY <3>2, ReferenceMember
    <3> HIDE DEF f
    <3>4. /\ entries[f] # NoEntry /\ IsFiniteSet(References(f))
          /\ entries[f].users = Cardinality(References(f))
      BY <1>a, <3>3 DEF TableInv, Counted
    <3>5. Cardinality(References(f)) \in Nat /\ Cardinality(References(f)) # 0
      BY <3>3, <3>4, FS_CardinalityType, FS_EmptySet
    <3>6. CASE entries[f].state = "FAILED" /\ entries[f].users = 1
      <4>1. entries' = [entries EXCEPT ![f] = NoEntry]
        BY <3>1, <3>6 DEF ReleaseEntry
      <4> QED
        BY <1>a, <1>b, <3>6, <4>1
    <3>7. CASE ~(entries[f].state = "FAILED" /\ entries[f].users = 1)
      <4>1. entries' = [entries EXCEPT ![f].users = entries[f].users - 1]
        BY <3>1, <3>7 DEF ReleaseEntry
      <4>2. entries[f].users - 1 \in Nat
        BY <3>4, <3>5
      <4> QED
        BY <1>c, <4>1, <4>2
    <3> QED
      BY <3>6, <3>7
  <2>5. CASE \/ \E call \in Calls : Arrive(c, call) \/ EmbedTokens(c, call)
             \/ NoTokens(c) \/ Tokenized(c) \/ LaunchSolo(c) \/ LaunchSignal(c)
             \/ AwaitBlock(c) \/ Return(c)
    BY <1>b, <2>5 DEF Arrive, EmbedTokens, NoTokens, Tokenized, LaunchSolo, LaunchSignal,
                      AwaitBlock, Return, tableVars
  <2> QED
    BY <1>1, <2>1, <2>2, <2>3, <2>4, <2>5 DEF Client
<1>2. ASSUME NEW t \in Slots, Backend(t) PROVE FALSE
  <2>1. ASSUME NEW success \in BOOLEAN, FinishWave(t, success) PROVE FALSE
    <3>1. Complete(wave[t], success)
      BY <2>1 DEF FinishWave
    <3>2. \A f \in ToSet(wave[t]) : Pending(f)
      BY <1>a DEF TableInv, WorkInv, WavesPending
    <3> QED
      BY <1>d, <3>1, <3>2
  <2>2. entries' = entries \/ \E success \in BOOLEAN : FinishWave(t, success)
    BY <1>2 DEF Backend, Working, QueueWait, Exit, StartCollect, EndCollect, StartWave,
                CollectAgain, ScanTake, ScanSkip, RunWave, tableVars
  <2> QED
    BY <1>b, <2>1, <2>2
<1>3. CASE Destroy
  BY <1>3 DEF Destroy
<1>4. CASE Pruned \/ Stop \/ Destroyed \/ UNCHANGED vars
  BY <1>b, <1>4 DEF Pruned, Stop, Destroyed, vars, tableVars
<1> QED
  BY <1>1, <1>2, <1>3, <1>4 DEF Next

\* An eviction takes the least recently used of the entries nobody uses.
LEMMA EvictsLast ==
    ASSUME EntryInv, Evict
    PROVE  EvictsLeastRecentlyUsed
<1>1. PICK i \in Evictable : lru' = RemoveAt(lru, i)
  BY DEF Evict
<1>2. TableInv /\ lru \in Seq(Cells) /\ Distinct(lru) /\ Len(lru) \in Nat
  BY DEF EntryInv, TableInv, TableTypes, LruReady
<1>3. /\ i \in 1 .. Len(lru) /\ entries[lru[i]].users = 0
      /\ \A j \in 1 .. Len(lru) : entries[lru[j]].users = 0 => j <= i
  BY <1>2 DEF Evictable
<1> DEFINE at(e) == CHOOSE j \in DOMAIN lru : lru[j] = e
<1>4. \A j \in 1 .. Len(lru) : at(lru[j]) = j
  BY <1>2 DEF Distinct
<1>5. ToSet(lru') = ToSet(lru) \ {lru[i]}
  BY <1>1, <1>2, <1>3, RemoveLists DEF Lists
<1>6. References(lru[i]) = {}
  <2>1. lru[i] \in Cells /\ lru[i] \in ToSet(lru)
    BY <1>2, <1>3 DEF ToSet
  <2>2. Ready(lru[i])
    BY <1>2, <2>1 DEF TableInv, LruReady
  <2>3. IsFiniteSet(References(lru[i])) /\ Cardinality(References(lru[i])) = 0
    BY <1>2, <1>3, <2>1, <2>2 DEF TableInv, Counted, Ready
  <2> QED
    BY <2>3, FS_EmptySet
<1>7. ASSUME NEW f \in ToSet(lru), f \in ToSet(lru'), entries[f].users = 0
      PROVE  at(f) < at(lru[i])
  <2>1. PICK j \in 1 .. Len(lru) : f = lru[j]
    BY <1>2 DEF ToSet
  <2>2. j # i /\ j <= i
    BY <1>3, <1>5, <1>7, <2>1
  <2>3. at(f) = j /\ at(lru[i]) = i
    BY <1>3, <1>4, <2>1
  <2> HIDE DEF at
  <2> QED
    BY <1>3, <2>2, <2>3
<1> QED
  BY <1>5, <1>6, <1>7 DEF EvictsLeastRecentlyUsed

\* The cache forgets in order: what leaves the list was used by nobody, and less
\* recently than every unused entry that stays.
THEOREM ForgetsInOrder == Spec => EvictionOrder
<1>1. ASSUME EntryInv, EntryInv', [Next]_vars, ~AllExited
      PROVE  EvictsLeastRecentlyUsed
  <2>1. CASE ToSet(lru) \subseteq ToSet(lru')
    BY <2>1 DEF EvictsLeastRecentlyUsed
  <2>2. ASSUME NEW e \in ToSet(lru), e \notin ToSet(lru') PROVE Evict
    <3>1. e \in Cells /\ Ready(e)
      BY <1>1, MembersAreCells DEF EntryInv, TableInv, TableTypes, LruReady
    <3>2. ~Ready(e)'
      <4>1. LruReady'
        BY <1>1 DEF EntryInv, TableInv
      <4> QED
        BY <2>2, <3>1, <4>1 DEF LruReady, Ready, ToSet
    <3>3. EntryKept(e)
      BY <1>1, <3>1, EntriesKept
    <3>4. entries'[e] = NoEntry
      BY <3>1, <3>2, <3>3 DEF Ready, EntryKept
    <3> QED
      BY <1>1, <3>1, <3>4, FreesReady
  <2>3. Evict => EvictsLeastRecentlyUsed
    BY <1>1, EvictsLast
  <2> QED
    BY <2>1, <2>2, <2>3
<1>2. EntryInv /\ EntryInv' /\ [Next]_vars => [~AllExited => EvictsLeastRecentlyUsed]_vars
  BY <1>1
<1> QED
  BY <1>2, EntryInvariance, PTL DEF Spec, EvictionOrder

-----------------------------------------------------------------------------
(* The promise of the service *)

\* What a caller holds: the entries of its own items, in their order.
HandlesOf(c) ==
    /\ Len(handles[c]) <= Len(items[c])
    /\ Phase[c] \in {"waiting", "answered"} => Len(handles[c]) = Len(items[c])
    /\ \A i \in index[c] .. Len(handles[c]) : entries[handles[c][i]].key = items[c][i]

HandlesInv == \A c \in Clients : HandlesOf(c)

\* An item that still has to take its answer holds an entry.
HandlesAllocated ==
    \A c \in Clients : \A i \in index[c] .. Len(handles[c]) :
        /\ i \in 1 .. Len(handles[c])
        /\ handles[c][i] \in Cells
        /\ entries[handles[c][i]] # NoEntry

\* An outstanding item is a reference, so its entry is not freed.
LEMMA HandleAllocated == EntryInv => HandlesAllocated
<1> SUFFICES ASSUME EntryInv, NEW c \in Clients, NEW i \in index[c] .. Len(handles[c])
             PROVE  /\ i \in 1 .. Len(handles[c])
                    /\ handles[c][i] \in Cells
                    /\ entries[handles[c][i]] # NoEntry
  BY DEF HandlesAllocated
<1>1. handles[c] \in Seq(Cells) /\ i \in 1 .. Len(handles[c])
  BY DEF EntryInv, TableInv, TableTypes
<1>2. handles[c][i] \in Cells
  BY <1>1
<1>3. <<c, i>> \in References(handles[c][i])
  BY ReferenceMember
<1> QED
  BY <1>1, <1>2, <1>3 DEF EntryInv, TableInv, Counted

\* A caller whose items and handles stay, and that at most takes an answer, keeps
\* the entries of its own items.
LEMMA HandlesStay ==
    ASSUME EntryInv, EntryInv', [Next]_vars, NEW c \in Clients, HandlesOf(c),
           items'[c] = items[c], handles'[c] = handles[c],
           index'[c] \in {index[c], index[c] + 1},
           Phase'[c] \in {"waiting", "answered"} => Phase[c] \in {"waiting", "answered"}
    PROVE  HandlesOf(c)'
<1>1. index[c] \in Nat
  BY DEF EntryInv, TableInv, TableTypes
<1>2. ASSUME NEW i \in index'[c] .. Len(handles'[c])
      PROVE  entries'[handles'[c][i]].key = items'[c][i]
  <2>1. i \in index[c] .. Len(handles[c])
    BY <1>1
  <2>2. handles[c][i] \in Cells /\ entries[handles[c][i]] # NoEntry
    BY <2>1, HandleAllocated DEF HandlesAllocated
  <2>3. HandlesAllocated'
    BY HandleAllocated, PTL
  <2>4. entries'[handles[c][i]] # NoEntry
    BY <1>2, <2>3 DEF HandlesAllocated
  <2>5. entries'[handles[c][i]].key = entries[handles[c][i]].key
    BY <2>2, <2>4, EntriesKept DEF EntryKept
  <2> QED
    BY <2>1, <2>5 DEF HandlesOf
<1> QED
  BY <1>2 DEF HandlesOf

\* One program counter moves; a broadcast on entries moves nobody the promise sees.
LEMMA PhaseMoves ==
    ASSUME pc \in [Clients -> ClientPCs], NEW c \in Clients, NEW p,
           pc' = [pc EXCEPT ![c] = p]
    PROVE  Phase' = [Phase EXCEPT ![c] = PhaseOf(p)]
<1>1. ASSUME NEW d \in Clients PROVE pc'[d] = IF d = c THEN p ELSE pc[d]
  OBVIOUS
<1> QED
  BY <1>1 DEF Phase

\* Launching, waiting and running inline are one phase to the promise.
LEMMA PhaseStays ==
    ASSUME \A d \in Clients :
               pc'[d] = pc[d] \/ (pc[d] \in {"launch", "solo", "await", "doneWait"}
                                  /\ pc'[d] \in {"launch", "solo", "await", "doneWait"})
    PROVE  Phase' = Phase
<1>1. ASSUME NEW d \in Clients PROVE PhaseOf(pc'[d]) = PhaseOf(pc[d])
  <2>1. CASE pc'[d] = pc[d]
    BY <2>1
  <2>2. CASE /\ pc[d] \in {"launch", "solo", "await", "doneWait"}
             /\ pc'[d] \in {"launch", "solo", "await", "doneWait"}
    <3>1. PhaseOf(pc[d]) = "waiting"
      BY <2>2 DEF PhaseOf
    <3>2. PhaseOf(pc'[d]) = "waiting"
      BY <2>2 DEF PhaseOf
    <3> QED
      BY <3>1, <3>2
  <2> QED
    BY <2>1, <2>2
<1> QED
  BY <1>1 DEF Phase

\* A step that changes the handles of one caller changes its count only.
LEMMA JoinedMoves ==
    ASSUME TableTypes, NEW c \in Clients, NEW h, handles' = [handles EXCEPT ![c] = h]
    PROVE  Joined' = [Joined EXCEPT ![c] = Len(h)]
<1>1. ASSUME NEW d \in Clients PROVE handles'[d] = IF d = c THEN h ELSE handles[d]
  BY DEF TableTypes
<1>2. ASSUME NEW d \in Clients
      PROVE  Len(handles'[d]) = IF d = c THEN Len(h) ELSE Len(handles[d])
  BY <1>1
<1> QED
  BY <1>2, Zenon DEF Joined

\* What the actions of caller c leave to the others.
LEMMA OthersStay ==
    ASSUME EntryInv, SlotInv, NEW c \in Clients, Client(c), NEW d \in Clients, d # c
    PROVE  /\ items'[d] = items[d] /\ handles'[d] = handles[d] /\ index'[d] = index[d]
           /\ Phase'[d] = Phase[d]
<1> USE DEF Goto, clientVars
<1>1. /\ items \in [Clients -> Seq(Keys)] /\ handles \in [Clients -> Seq(Cells)]
      /\ index \in [Clients -> Nat \ {0}] /\ pc \in [Clients -> ClientPCs]
  BY DEF EntryInv, TableInv, TableTypes, CallShape, SlotInv, SlotTypes
<1>2. /\ items'[d] = items[d] /\ handles'[d] = handles[d] /\ index'[d] = index[d]
      /\ pc'[d] = pc[d] \/ (pc[d] = "doneWait" /\ pc'[d] = "await")
  <2>1. CASE SubmitHit(c) \/ SubmitMiss(c)
    <3>1. PICK e : Submitted(c, e)
      BY <2>1 DEF SubmitHit, SubmitMiss
    <3> QED
      BY <1>1, <3>1 DEF Submitted
  <2>2. CASE \E success \in BOOLEAN : SoloDone(c, success)
    <3>1. /\ UNCHANGED <<items, handles, index>>
          /\ pc' = [WakeCallers(pc, {handles[c][1]}) EXCEPT ![c] = "await"]
      BY <2>2 DEF SoloDone
    <3> QED
      BY <1>1, <3>1 DEF WakeCallers
  <2>3. CASE (\E call \in Calls : Arrive(c, call) \/ EmbedTokens(c, call))
             \/ NoTokens(c) \/ Tokenized(c)
    BY <1>1, <2>3 DEF Arrive, EmbedTokens, NoTokens, Tokenized
  <2>4. CASE LaunchSolo(c) \/ LaunchSignal(c) \/ AwaitBlock(c) \/ AwaitTake(c) \/ Return(c)
    BY <1>1, <2>4 DEF LaunchSolo, LaunchSignal, AwaitBlock, AwaitTake, Return
  <2> QED
    BY <2>1, <2>2, <2>3, <2>4 DEF Client
<1>3. PhaseOf("doneWait") = PhaseOf("await")
  BY DEF PhaseOf
<1> QED
  BY <1>2, <1>3 DEF Phase

\* The steps of the threads and of the service leave the callers where they are.
LEMMA CallersStay ==
    ASSUME SlotInv, \/ \E t \in Slots : Backend(t)
                    \/ Evict \/ Pruned \/ Stop \/ Destroy \/ Destroyed \/ UNCHANGED vars
    PROVE  UNCHANGED <<items, handles, index, ok, Phase, Joined>>
<1>1. ASSUME NEW t \in Slots, Backend(t)
      PROVE  UNCHANGED <<items, handles, index, ok>> /\ Phase' = Phase
  <2>1. UNCHANGED <<items, handles, index, ok>>
    BY <1>1 DEF Backend, Working, QueueWait, Exit, StartCollect, EndCollect, StartWave,
                CollectAgain, ScanTake, ScanSkip, RunWave, FinishWave, clientVars
  <2>2. pc' = pc \/ pc' = WakeCallers(pc, ToSet(wave[t]))
    BY <1>1 DEF Backend, Working, QueueWait, Exit, StartCollect, EndCollect, StartWave,
                CollectAgain, ScanTake, ScanSkip, RunWave, FinishWave, clientVars
  <2>3. \A d \in Clients : pc'[d] = pc[d] \/ (pc[d] = "doneWait" /\ pc'[d] = "await")
    BY <2>2 DEF WakeCallers
  <2>4. \A d \in Clients :
            pc'[d] = pc[d] \/ (pc[d] \in {"launch", "solo", "await", "doneWait"}
                               /\ pc'[d] \in {"launch", "solo", "await", "doneWait"})
    BY <2>3
  <2>5. Phase' = Phase
    BY <2>4, PhaseStays, Zenon
  <2> QED
    BY <2>1, <2>5
<1>2. ASSUME Evict \/ Pruned \/ Stop \/ Destroy \/ Destroyed \/ UNCHANGED vars
      PROVE  UNCHANGED <<items, handles, index, ok>> /\ Phase' = Phase
  <2>1. UNCHANGED <<pc, items, handles, index, ok>>
    BY <1>2 DEF Evict, Pruned, Stop, Destroy, Destroyed, vars, clientVars
  <2>2. Phase' = Phase
    BY <2>1, PhaseStays
  <2> QED
    BY <2>1, <2>2
<1>3. UNCHANGED <<items, handles, index, ok>> /\ Phase' = Phase
  BY <1>1, <1>2
<1> QED
  BY <1>3 DEF Joined

\* A submission, whether it hits or misses, joins an entry of its sequence.
LEMMA SubmitsItem ==
    ASSUME TableInv, CallShape, NEW c \in Clients, SubmitHit(c) \/ SubmitMiss(c)
    PROVE  \E e \in Cells : /\ Submitted(c, e) /\ pc[c] = "submit"
                            /\ entries'[e] # NoEntry /\ entries'[e].key = NextItem(c)
<1>1. CASE SubmitHit(c)
  <2>1. PICK e \in Matching(NextItem(c)) :
            /\ entries' = [entries EXCEPT ![e].users = entries[e].users + 1]
            /\ Submitted(c, e) /\ pc[c] = "submit"
    BY <1>1 DEF SubmitHit
  <2>2. e \in Cells /\ entries[e] \in EntryType /\ entries[e].key = NextItem(c)
    BY <2>1 DEF Matching, FreeCells, TableInv, TableTypes
  <2>3. entries'[e] = [entries[e] EXCEPT !.users = entries[e].users + 1]
    BY <2>1, <2>2 DEF TableInv, TableTypes
  <2>4. entries'[e] \in EntryType /\ entries'[e].key = NextItem(c)
    BY <2>2, <2>3 DEF EntryType
  <2> QED
    BY <2>1, <2>2, <2>4, ServiceAssumption
<1>2. CASE SubmitMiss(c)
  <2> DEFINE e == Lowest(FreeCells)
             new == [key |-> NextItem(c), users |-> 1, state |-> "PENDING"]
  <2>1. /\ pc[c] = "submit" /\ FreeCells # {} /\ Submitted(c, e)
        /\ entries' = [entries EXCEPT ![e] = new]
    BY <1>2 DEF SubmitMiss
  <2>2. e \in Cells
    <3>1. FreeCells \in SUBSET Nat
      BY ServiceAssumption DEF FreeCells
    <3>2. e \in FreeCells
      BY <2>1, <3>1, LowestNat
    <3> QED
      BY <3>2 DEF FreeCells
  <2>3. new \in EntryType /\ new.key = NextItem(c)
    <3>1. items[c] \in Seq(Keys) /\ handles[c] \in Seq(Cells) /\ Len(handles[c]) < Len(items[c])
      BY <2>1 DEF CallShape, TableInv, TableTypes
    <3>2. NextItem(c) \in Keys
      BY <3>1 DEF NextItem
    <3> QED
      BY <3>2 DEF EntryType
  <2> HIDE DEF e, new
  <2>4. entries'[e] = new
    BY <2>1, <2>2 DEF TableInv, TableTypes
  <2> QED
    BY <2>1, <2>2, <2>3, <2>4, ServiceAssumption
<1> QED
  BY <1>1, <1>2

\* No step takes the entry of its own item from a caller.
LEMMA HandlesStep ==
    ASSUME EntryInv, EntryInv', SlotInv, HandlesInv, [Next]_vars
    PROVE  HandlesInv'
<1> USE DEF Goto, clientVars
<1>a. /\ CallShape
      /\ items \in [Clients -> Seq(Keys)] /\ handles \in [Clients -> Seq(Cells)]
      /\ index \in [Clients -> Nat \ {0}] /\ pc \in [Clients -> ClientPCs]
  BY DEF EntryInv, TableInv, TableTypes, CallShape, SlotInv, SlotTypes
<1>1. ASSUME UNCHANGED <<items, handles, index, Phase>> PROVE HandlesInv'
  BY <1>1, HandlesStay DEF HandlesInv
<1>2. ASSUME NEW c \in Clients, Client(c) PROVE HandlesInv'
  <2>a. HandlesOf(c)
    BY DEF HandlesInv
  <2>1. ASSUME NEW d \in Clients, d # c PROVE HandlesOf(d)'
    BY <1>2, <2>1, OthersStay, HandlesStay DEF HandlesInv
  <2>2. ASSUME handles'[c] = <<>>, items'[c] \in Seq(Keys), index'[c] = 1,
               Phase'[c] \in {"idle", "asked", "joining"}
        PROVE  HandlesOf(c)'
    BY <2>2 DEF HandlesOf
  <2>3. ASSUME (\E call \in Calls : Arrive(c, call) \/ EmbedTokens(c, call))
               \/ NoTokens(c) \/ Tokenized(c)
        PROVE  HandlesOf(c)'
    <3>1. PICK p \in {"idle", "tokenize", "submit"} : pc' = [pc EXCEPT ![c] = p]
      BY <2>3 DEF Arrive, EmbedTokens, NoTokens, Tokenized
    <3>2. Phase'[c] = PhaseOf(p)
      BY <1>a, <3>1 DEF Phase
    <3>3. handles[c] = <<>> /\ index[c] = 1 /\ UNCHANGED <<handles, index>>
      BY <1>a, <2>3 DEF Arrive, EmbedTokens, NoTokens, Tokenized, CallShape
    <3>4. items' \in [Clients -> Seq(Keys)]
      BY DEF EntryInv, CallShape
    <3>5. Phase'[c] \in {"idle", "asked", "joining"}
      BY <3>1, <3>2 DEF PhaseOf
    <3>6. items'[c] \in Seq(Keys) /\ handles'[c] = <<>> /\ index'[c] = 1
      BY <3>3, <3>4
    <3> QED
      BY <2>2, <3>5, <3>6
  <2>4. ASSUME SubmitHit(c) \/ SubmitMiss(c) PROVE HandlesOf(c)'
    <3>1. PICK e \in Cells : Submitted(c, e) /\ pc[c] = "submit"
                             /\ entries'[e] # NoEntry /\ entries'[e].key = NextItem(c)
      BY <2>4, SubmitsItem DEF EntryInv
    <3> DEFINE n == Len(handles[c])
    <3>2. n \in Nat /\ n < Len(items[c]) /\ index[c] = 1
      BY <1>a, <3>1 DEF CallShape
    <3>3. handles'[c] = Append(handles[c], e) /\ UNCHANGED <<items, index>>
          /\ pc' = [pc EXCEPT ![c] = IF n + 1 = Len(items[c]) THEN "launch" ELSE "submit"]
      BY <1>a, <3>1 DEF Submitted
    <3>4. /\ Len(handles'[c]) = n + 1 /\ handles'[c][n + 1] = e
          /\ \A i \in 1 .. n : handles'[c][i] = handles[c][i]
      BY <1>a, <3>3
    <3>5. Phase'[c] \in {"waiting", "answered"} => n + 1 = Len(items[c])
      BY <1>a, <3>3 DEF Phase, PhaseOf
    <3>6. ASSUME NEW i \in 1 .. n PROVE entries'[handles[c][i]].key = items[c][i]
      <4>1. handles[c][i] \in Cells /\ entries[handles[c][i]] # NoEntry
            /\ entries[handles[c][i]].key = items[c][i]
        BY <2>a, <3>2, <3>6, HandleAllocated DEF HandlesAllocated, HandlesOf
      <4>2. HandlesAllocated'
        BY HandleAllocated, PTL
      <4>3. entries'[handles'[c][i]] # NoEntry
        BY <3>2, <3>3, <3>4, <3>6, <4>2 DEF HandlesAllocated
      <4>4. entries'[handles[c][i]].key = entries[handles[c][i]].key
        BY <3>4, <3>6, <4>1, <4>3, EntriesKept DEF EntryKept
      <4> QED
        BY <4>1, <4>4
    <3>7. \A i \in 1 .. n + 1 : entries'[handles'[c][i]].key = items[c][i]
      <4>1. ASSUME NEW i \in 1 .. n + 1 PROVE entries'[handles'[c][i]].key = items[c][i]
        <5>1. CASE i = n + 1
          BY <3>1, <3>4, <5>1 DEF NextItem
        <5>2. CASE i # n + 1
          <6>1. i \in 1 .. n
            BY <3>2, <5>2
          <6> QED
            BY <3>4, <3>6, <6>1
        <5> QED
          BY <5>1, <5>2
      <4> QED
        BY <4>1
    <3> HIDE DEF n
    <3> QED
      BY <3>2, <3>3, <3>4, <3>5, <3>7 DEF HandlesOf
  <2>5. ASSUME LaunchSolo(c) \/ LaunchSignal(c) \/ AwaitBlock(c)
               \/ (\E success \in BOOLEAN : SoloDone(c, success))
        PROVE  HandlesOf(c)'
    <3>1. UNCHANGED <<items, handles, index>> /\ pc[c] \in {"launch", "solo", "await"}
      BY <2>5 DEF LaunchSolo, LaunchSignal, AwaitBlock, SoloDone
    <3>2. Phase[c] = "waiting"
      BY <3>1 DEF Phase, PhaseOf
    <3>3. items'[c] = items[c] /\ handles'[c] = handles[c] /\ index'[c] \in {index[c], index[c] + 1}
      BY <3>1
    <3> QED
      BY <2>a, <3>2, <3>3, HandlesStay
  <2>6. ASSUME AwaitTake(c) PROVE HandlesOf(c)'
    <3>1. /\ UNCHANGED <<items, handles>> /\ pc[c] = "await"
          /\ index' = [index EXCEPT ![c] = index[c] + 1]
      BY <2>6 DEF AwaitTake
    <3>2. Phase[c] = "waiting" /\ index'[c] = index[c] + 1
      BY <1>a, <3>1 DEF Phase, PhaseOf
    <3>3. items'[c] = items[c] /\ handles'[c] = handles[c] /\ index'[c] \in {index[c], index[c] + 1}
      BY <3>1, <3>2
    <3> QED
      BY <2>a, <3>2, <3>3, HandlesStay
  <2>7. ASSUME Return(c) PROVE HandlesOf(c)'
    <3>1. /\ items' = [items EXCEPT ![c] = <<>>] /\ handles' = [handles EXCEPT ![c] = <<>>]
          /\ index' = [index EXCEPT ![c] = 1] /\ pc' = [pc EXCEPT ![c] = "idle"]
      BY <2>7 DEF Return
    <3>2. pc'[c] = "idle" /\ items'[c] = <<>> /\ handles'[c] = <<>> /\ index'[c] = 1
      BY <1>a, <3>1
    <3>3. Phase'[c] = "idle" /\ items'[c] \in Seq(Keys)
      BY <3>2 DEF Phase, PhaseOf
    <3> QED
      BY <2>2, <3>2, <3>3
  <2>8. HandlesOf(c)'
    BY <1>2, <2>3, <2>4, <2>5, <2>6, <2>7 DEF Client
  <2> QED
    BY <2>1, <2>8 DEF HandlesInv
<1>3. CASE \/ \E t \in Slots : Backend(t)
           \/ Evict \/ Pruned \/ Stop \/ Destroy \/ Destroyed \/ UNCHANGED vars
  BY <1>1, <1>3, CallersStay
<1> QED
  BY <1>2, <1>3 DEF Next

\* The shared answers, read off the table.
Answers == {"NONE", "PENDING", "READY", "FAILED"}

TableAnswers ==
    /\ Answer \in [Keys -> Answers]
    /\ \A e \in Cells : entries[e] # NoEntry =>
           /\ entries[e].key \in Keys
           /\ entries[e].state \in {"PENDING", "READY", "FAILED"}
           /\ Answer[entries[e].key] = entries[e].state
    /\ \A k \in Keys : (\A e \in Cells : entries[e] # NoEntry => entries[e].key # k) =>
           Answer[k] = "NONE"

\* Since keys are unique, each allocated entry is the answer of its sequence.
LEMMA AnswersOfTable == TableInv => TableAnswers
<1> SUFFICES ASSUME TableInv PROVE TableAnswers
  OBVIOUS
<1> DEFINE the(k) == CHOOSE e \in Matching(k) : TRUE
<1>1. \A k : \A e : e \in Matching(k) <=> e \in Cells /\ entries[e] # NoEntry /\ entries[e].key = k
  BY DEF Matching, FreeCells
<1>2. ASSUME NEW k \in Keys, Matching(k) = {} PROVE Answer[k] = "NONE"
  BY <1>2 DEF Answer
<1>3. ASSUME NEW k \in Keys, Matching(k) # {} PROVE Answer[k] = entries[the(k)].state
  BY <1>3 DEF Answer
<1>4. \A k : Matching(k) # {} => the(k) \in Matching(k)
  OBVIOUS
<1> HIDE DEF the
<1>5. ASSUME NEW e \in Cells, entries[e] # NoEntry
      PROVE  /\ entries[e].key \in Keys
             /\ entries[e].state \in {"PENDING", "READY", "FAILED"}
             /\ Answer[entries[e].key] = entries[e].state
  <2>1. entries[e] \in EntryType
    BY <1>5 DEF TableInv, TableTypes
  <2>2. entries[e].key \in Keys /\ entries[e].state \in {"PENDING", "READY", "FAILED"}
    BY <2>1 DEF EntryType
  <2>3. e \in Matching(entries[e].key)
    BY <1>1, <1>5
  <2>4. the(entries[e].key) \in Matching(entries[e].key)
    BY <1>4, <2>3
  <2>5. the(entries[e].key) = e
    BY <1>1, <1>5, <2>4 DEF TableInv, KeysUnique
  <2> QED
    BY <1>3, <2>2, <2>3, <2>5
<1>6. ASSUME NEW k \in Keys, \A e \in Cells : entries[e] # NoEntry => entries[e].key # k
      PROVE  Answer[k] = "NONE"
  BY <1>1, <1>2, <1>6
<1>7. ASSUME NEW k \in Keys PROVE Answer[k] \in Answers
  <2>1. CASE Matching(k) = {}
    BY <1>2, <2>1 DEF Answers
  <2>2. CASE Matching(k) # {}
    <3>1. the(k) \in Cells /\ entries[the(k)] # NoEntry
      BY <1>1, <1>4, <2>2
    <3> QED
      BY <1>3, <1>5, <2>2, <3>1 DEF Answers
  <2> QED
    BY <2>1, <2>2
<1>8. Answer \in [Keys -> Answers]
  BY <1>7 DEF Answer
<1> QED
  BY <1>5, <1>6, <1>8 DEF TableAnswers

\* The answer of a sequence whose entry keeps its state.
LEMMA AnswerKept ==
    ASSUME TableInv, TableInv', NEW k \in Keys,
           \A e \in Cells : entries[e] # NoEntry /\ entries[e].key = k =>
               entries'[e] # NoEntry /\ entries'[e].key = k /\ entries'[e].state = entries[e].state,
           \A e \in Cells : entries'[e] # NoEntry /\ entries'[e].key = k =>
               entries[e] # NoEntry /\ entries[e].key = k
    PROVE  Answer'[k] = Answer[k]
<1>1. TableAnswers
  BY AnswersOfTable
<1>2. TableAnswers'
  BY AnswersOfTable, PTL
<1>3. CASE \E e \in Cells : entries[e] # NoEntry /\ entries[e].key = k
  <2>1. PICK e \in Cells : entries[e] # NoEntry /\ entries[e].key = k
    BY <1>3
  <2>2. entries'[e] # NoEntry /\ entries'[e].key = k /\ entries'[e].state = entries[e].state
    BY <2>1
  <2>3. Answer[k] = entries[e].state
    BY <1>1, <2>1 DEF TableAnswers
  <2>4. Answer'[k] = entries'[e].state
    BY <1>2, <2>2 DEF TableAnswers
  <2> QED
    BY <2>2, <2>3, <2>4
<1>4. CASE \A e \in Cells : entries[e] # NoEntry => entries[e].key # k
  <2>1. \A e \in Cells : entries'[e] # NoEntry => entries'[e].key # k
    BY <1>4
  <2> QED
    BY <1>1, <1>2, <1>4, <2>1 DEF TableAnswers
<1> QED
  BY <1>3, <1>4

\* Entries that keep sequence and state, whatever becomes of their users.
LEMMA AnswersStay ==
    ASSUME TableInv, TableInv',
           \A e \in Cells : (entries'[e] = NoEntry <=> entries[e] = NoEntry),
           \A e \in Cells : entries[e] # NoEntry =>
               entries'[e].key = entries[e].key /\ entries'[e].state = entries[e].state
    PROVE  Answer' = Answer
<1>1. \A k \in Keys : Answer'[k] = Answer[k]
  BY AnswerKept
<1>2. TableAnswers
  BY AnswersOfTable
<1>3. TableAnswers'
  BY AnswersOfTable, PTL
<1> QED
  BY <1>1, <1>2, <1>3 DEF TableAnswers

\* An entry that leaves the table, and one that enters it.
LEMMA AnswerWithdrawn ==
    ASSUME TableInv, TableInv', NEW e \in Cells, entries[e] # NoEntry,
           entries' = [entries EXCEPT ![e] = NoEntry]
    PROVE  Answer' = [Answer EXCEPT ![entries[e].key] = "NONE"]
<1> DEFINE k == entries[e].key
<1>1. TableAnswers
  BY AnswersOfTable
<1>2. TableAnswers'
  BY AnswersOfTable, PTL
<1>3. \A f \in Cells : entries'[f] = IF f = e THEN NoEntry ELSE entries[f]
  BY DEF TableInv, TableTypes
<1>4. k \in Keys /\ \A f \in Cells : entries[f] # NoEntry /\ entries[f].key = k => f = e
  BY <1>1 DEF TableAnswers, TableInv, KeysUnique
<1> HIDE DEF k
<1>5. Answer'[k] = "NONE"
  BY <1>2, <1>3, <1>4 DEF TableAnswers
<1>6. ASSUME NEW j \in Keys, j # k PROVE Answer'[j] = Answer[j]
  <2>1. \A f \in Cells : entries[f] # NoEntry /\ entries[f].key = j => f # e
    BY <1>6 DEF k
  <2> QED
    BY <1>3, <2>1, AnswerKept
<1>7. Answer' = [Answer EXCEPT ![k] = "NONE"]
  BY <1>1, <1>2, <1>4, <1>5, <1>6 DEF TableAnswers
<1> QED
  BY <1>7 DEF k

\* A new entry, of a sequence that had none, changes the answer of that sequence only.
LEMMA AnswerStarted ==
    ASSUME TableInv, TableInv', NEW e \in Cells, entries[e] = NoEntry, NEW new \in EntryType,
           entries' = [entries EXCEPT ![e] = new],
           \A f \in Cells : entries[f] # NoEntry => entries[f].key # new.key
    PROVE  /\ Answer[new.key] = "NONE"
           /\ Answer' = [Answer EXCEPT ![new.key] = new.state]
<1> DEFINE k == new.key
<1>1. TableAnswers
  BY AnswersOfTable
<1>2. TableAnswers'
  BY AnswersOfTable, PTL
<1>3. \A f \in Cells : entries'[f] = IF f = e THEN new ELSE entries[f]
  BY DEF TableInv, TableTypes
<1>4. k \in Keys /\ new # NoEntry
  BY ServiceAssumption DEF EntryType
<1>5. Answer[k] = "NONE"
  BY <1>1, <1>4 DEF TableAnswers
<1>6. Answer'[k] = new.state
  <2>1. entries'[e] = new
    BY <1>3
  <2> QED
    BY <1>2, <1>4, <2>1 DEF TableAnswers
<1>7. ASSUME NEW j \in Keys, j # k PROVE Answer'[j] = Answer[j]
  BY <1>3, <1>7, AnswerKept
<1> HIDE DEF k
<1>8. Answer' = [Answer EXCEPT ![k] = new.state]
  BY <1>1, <1>2, <1>4, <1>6, <1>7 DEF TableAnswers
<1> QED
  BY <1>5, <1>8 DEF k

\* Only the number of users of an entry changes.
LEMMA UsersInvisible ==
    ASSUME TableInv, TableInv', NEW e \in Cells, entries[e] # NoEntry, NEW n \in Nat,
           entries' = [entries EXCEPT ![e].users = n]
    PROVE  Answer' = Answer
<1>1. /\ entries'[e] # NoEntry
      /\ entries'[e].key = entries[e].key /\ entries'[e].state = entries[e].state
      /\ \A f \in Cells \ {e} : entries'[f] = entries[f]
  BY SetUsers DEF TableInv
<1> QED
  BY <1>1, AnswersStay

\* A step that leaves the entries alone changes no answer.
LEMMA SameEntries ==
    ASSUME TableInv, TableInv', entries' = entries
    PROVE  Answer' = Answer
BY AnswersStay

\* A finished wave is one execution of the sequences of its members.
LEMMA AnswersCompleted ==
    ASSUME TableInv, TableInv', NEW done \in Seq(Cells), NEW success \in BOOLEAN,
           Complete(done, success), \A e \in ToSet(done) : Pending(e),
           UNCHANGED <<stopping, items, index, ok, Phase, Joined>>
    PROVE  Promise!Next
<1> DEFINE keys == {entries[e].key : e \in ToSet(done)}
           outcome == IF success THEN "READY" ELSE "FAILED"
<1>1. TableAnswers
  BY AnswersOfTable
<1>2. TableAnswers'
  BY AnswersOfTable, PTL
<1>3. ToSet(done) \subseteq Cells
  BY MembersAreCells
<1>4. \A e \in Cells : entries'[e] = IF e \in ToSet(done) THEN [entries[e] EXCEPT !.state = outcome]
                                     ELSE entries[e]
  BY DEF Complete
<1>5. ASSUME NEW e \in ToSet(done)
      PROVE  /\ e \in Cells /\ entries[e] # NoEntry /\ entries[e].key \in Keys
             /\ Answer[entries[e].key] = "PENDING"
             /\ entries'[e] # NoEntry /\ entries'[e].key = entries[e].key
             /\ entries'[e].state = outcome
  <2>1. e \in Cells /\ entries[e] # NoEntry /\ entries[e].state = "PENDING"
    BY <1>3 DEF Pending
  <2>2. entries[e] \in EntryType
    BY <2>1 DEF TableInv, TableTypes
  <2>3. entries'[e] = [entries[e] EXCEPT !.state = outcome]
    BY <1>4, <2>1
  <2>4. outcome \in {"PENDING", "READY", "FAILED"}
    OBVIOUS
  <2> HIDE DEF outcome
  <2>5. entries'[e] \in EntryType /\ entries'[e].key = entries[e].key /\ entries'[e].state = outcome
    BY <2>2, <2>3, <2>4 DEF EntryType
  <2> QED
    BY <1>1, <2>1, <2>5, ServiceAssumption DEF TableAnswers
<1> HIDE DEF outcome
<1>6. keys \subseteq Keys /\ \A k \in keys : Answer[k] = "PENDING"
  BY <1>5
<1>7. ASSUME NEW k \in keys PROVE Answer'[k] = outcome
  <2>1. PICK e \in ToSet(done) : k = entries[e].key
    BY <1>7
  <2> QED
    BY <1>2, <1>5, <2>1 DEF TableAnswers
<1>8. ASSUME NEW k \in Keys, k \notin keys PROVE Answer'[k] = Answer[k]
  <2>1. \A e \in ToSet(done) : entries[e].key # k
    BY <1>8
  <2>2. \A e \in Cells : entries[e] # NoEntry /\ entries[e].key = k =>
            entries'[e] # NoEntry /\ entries'[e].key = k /\ entries'[e].state = entries[e].state
    BY <1>4, <2>1
  <2>3. \A e \in Cells : entries'[e] # NoEntry /\ entries'[e].key = k =>
            entries[e] # NoEntry /\ entries[e].key = k
    BY <1>4, <1>5, <2>1
  <2> QED
    BY <2>2, <2>3, AnswerKept
<1> HIDE DEF keys
<1>9. Answer' = [k \in Keys |-> IF k \in keys THEN outcome ELSE Answer[k]]
  BY <1>2, <1>6, <1>7, <1>8 DEF TableAnswers
<1>10. Promise!Execute(keys, success)
  BY <1>6, <1>9 DEF Promise!Execute, Promise!callVars, outcome
<1> QED
  BY <1>6, <1>10 DEF Promise!Next

\* The items that hold the answer of a sequence are those that hold its entry.
LEMMA HoldersHoldEntry ==
    ASSUME EntryInv, HandlesInv, NEW e \in Cells, entries[e] # NoEntry
    PROVE  Promise!Holders(entries[e].key) = References(e)
<1> DEFINE k == entries[e].key
           ofKey(c) == {i \in index[c] .. Joined[c] : items[c][i] = k}
           ofEntry(c) == {i \in index[c] .. Len(handles[c]) : handles[c][i] = e}
<1>1. ASSUME NEW c \in Clients PROVE ofKey(c) = ofEntry(c)
  <2>1. Joined[c] = Len(handles[c])
    BY DEF Joined
  <2>2. ASSUME NEW i \in index[c] .. Len(handles[c])
        PROVE  items[c][i] = k <=> handles[c][i] = e
    <3>1. handles[c][i] \in Cells /\ entries[handles[c][i]] # NoEntry
      BY HandleAllocated DEF HandlesAllocated
    <3>2. entries[handles[c][i]].key = items[c][i]
      BY DEF HandlesInv, HandlesOf
    <3> QED
      BY <3>1, <3>2 DEF EntryInv, TableInv, KeysUnique
  <2> QED
    BY <2>1, <2>2
<1>2. Promise!Holders(k) = UNION {{c} \X ofKey(c) : c \in Clients}
  BY DEF Promise!Holders
<1>3. References(e) = UNION {{<<c, i>> : i \in ofEntry(c)} : c \in Clients}
  BY DEF References
<1> HIDE DEF k, ofKey, ofEntry
<1>4. \A c \in Clients : {c} \X ofKey(c) = {<<c, i>> : i \in ofEntry(c)}
  BY <1>1
<1>5. Promise!Holders(k) = References(e)
  BY <1>2, <1>3, <1>4
<1> QED
  BY <1>5 DEF k

\* A step inside the service that no caller can tell from no step.
LEMMA Unseen ==
    ASSUME TableInv, TableInv', entries' = entries,
           UNCHANGED <<stopping, items, index, ok, Phase, Joined>>
    PROVE  UNCHANGED Promise!vars
<1>1. Answer' = Answer
  BY SameEntries
<1> QED
  BY <1>1 DEF Promise!vars, Promise!callVars

\* A call begins, or is refused.
LEMMA CallBegins ==
    ASSUME EntryInv, EntryInv', SlotInv, NEW c \in Clients,
           \/ \E call \in Calls : Arrive(c, call) \/ EmbedTokens(c, call)
           \/ NoTokens(c) \/ Tokenized(c)
    PROVE  Promise!Next
<1> USE DEF Goto, clientVars, tableVars
<1>a. pc \in [Clients -> ClientPCs] /\ TableInv /\ TableInv'
  BY DEF SlotInv, SlotTypes, EntryInv
<1>1. entries' = entries /\ handles' = handles /\ index' = index /\ stopping' = stopping
  BY DEF Arrive, EmbedTokens, NoTokens, Tokenized
<1>2. Answer' = Answer /\ Joined' = Joined
  BY <1>a, <1>1, SameEntries DEF Joined
<1>3. ASSUME NEW call \in Calls, Arrive(c, call) PROVE Promise!Next
  <2>1. /\ pc[c] = "idle" /\ ~stopping /\ items' = [items EXCEPT ![c] = call]
        /\ pc' = [pc EXCEPT ![c] = "tokenize"] /\ ok' = ok
    BY <1>3 DEF Arrive
  <2>2. Phase' = [Phase EXCEPT ![c] = PhaseOf("tokenize")]
    BY <1>a, <2>1, PhaseMoves
  <2>3. Phase[c] = "idle" /\ Phase' = [Phase EXCEPT ![c] = "asked"]
    BY <2>1, <2>2 DEF Phase, PhaseOf
  <2>4. Promise!Ask(c, call)
    BY <1>1, <1>2, <2>1, <2>3 DEF Promise!Ask, Promise!Enter
  <2> QED
    BY <2>4 DEF Promise!Next, Promise!Call
<1>4. ASSUME NEW call \in Calls, EmbedTokens(c, call) PROVE Promise!Next
  <2>1. /\ pc[c] = "idle" /\ ~stopping /\ Len(call) = 1
        /\ items' = [items EXCEPT ![c] = call]
        /\ pc' = [pc EXCEPT ![c] = "submit"] /\ ok' = [ok EXCEPT ![c] = TRUE]
    BY <1>4 DEF EmbedTokens
  <2>2. Phase' = [Phase EXCEPT ![c] = PhaseOf("submit")]
    BY <1>a, <2>1, PhaseMoves
  <2>3. Phase[c] = "idle" /\ Phase' = [Phase EXCEPT ![c] = "joining"]
    BY <2>1, <2>2 DEF Phase, PhaseOf
  <2>4. Promise!AskTokens(c, call)
    BY <1>1, <1>2, <2>1, <2>3 DEF Promise!AskTokens, Promise!Enter
  <2> QED
    BY <2>4 DEF Promise!Next, Promise!Call
<1>5. CASE NoTokens(c)
  <2>1. /\ pc[c] = "tokenize" /\ items' = [items EXCEPT ![c] = <<>>]
        /\ pc' = [pc EXCEPT ![c] = "idle"] /\ ok' = [ok EXCEPT ![c] = FALSE]
    BY <1>5 DEF NoTokens
  <2>2. Phase' = [Phase EXCEPT ![c] = PhaseOf("idle")]
    BY <1>a, <2>1, PhaseMoves
  <2>3. Phase[c] = "asked" /\ Phase' = [Phase EXCEPT ![c] = "idle"]
    BY <2>1, <2>2 DEF Phase, PhaseOf
  <2>4. Promise!Refuse(c)
    BY <1>1, <1>2, <2>1, <2>3 DEF Promise!Refuse, Promise!Enter
  <2> QED
    BY <2>4 DEF Promise!Next, Promise!Call
<1>6. CASE Tokenized(c)
  <2>1. /\ pc[c] = "tokenize" /\ items' = items
        /\ pc' = [pc EXCEPT ![c] = "submit"] /\ ok' = [ok EXCEPT ![c] = TRUE]
    BY <1>6 DEF Tokenized
  <2>2. Phase' = [Phase EXCEPT ![c] = PhaseOf("submit")]
    BY <1>a, <2>1, PhaseMoves
  <2>3. Phase[c] = "asked" /\ Phase' = [Phase EXCEPT ![c] = "joining"]
    BY <2>1, <2>2 DEF Phase, PhaseOf
  <2>4. Promise!Begin(c)
    BY <1>1, <1>2, <2>1, <2>3 DEF Promise!Begin, Promise!Enter
  <2> QED
    BY <2>4 DEF Promise!Next, Promise!Call
<1> QED
  BY <1>3, <1>4, <1>5, <1>6

\* An item joins the answer of its sequence.
LEMMA ItemJoins ==
    ASSUME EntryInv, EntryInv', SlotInv, NEW c \in Clients, SubmitHit(c) \/ SubmitMiss(c)
    PROVE  Promise!Next
<1>a. /\ pc \in [Clients -> ClientPCs] /\ TableInv /\ TableInv' /\ TableTypes
      /\ handles[c] \in Seq(Cells) /\ items[c] \in Seq(Keys)
  BY DEF SlotInv, SlotTypes, EntryInv, TableInv, TableTypes, CallShape
<1>1. PICK e \in Cells : Submitted(c, e) /\ pc[c] = "submit"
  BY SubmitsItem DEF EntryInv
<1> DEFINE n == Len(handles[c])
           k == NextItem(c)
<1>2. /\ UNCHANGED <<stopping, items, index, ok>>
      /\ handles' = [handles EXCEPT ![c] = Append(handles[c], e)]
      /\ pc' = [pc EXCEPT ![c] = IF n + 1 = Len(items[c]) THEN "launch" ELSE "submit"]
  BY <1>1 DEF Submitted, Goto
<1>3. Joined[c] = n /\ Joined' = [Joined EXCEPT ![c] = Joined[c] + 1]
  <2>1. Joined' = [Joined EXCEPT ![c] = Len(Append(handles[c], e))]
    BY <1>a, <1>2, JoinedMoves
  <2>2. Len(Append(handles[c], e)) = n + 1
    BY <1>a
  <2>3. Joined[c] = n
    BY DEF Joined
  <2> QED
    BY <2>1, <2>2, <2>3
<1>4. /\ Phase[c] = "joining"
      /\ Phase' = [Phase EXCEPT ![c] = IF Joined[c] + 1 = Len(items[c]) THEN "waiting"
                                       ELSE "joining"]
  <2>1. Phase' = [Phase EXCEPT ![c] =
                    PhaseOf(IF n + 1 = Len(items[c]) THEN "launch" ELSE "submit")]
    BY <1>a, <1>2, PhaseMoves
  <2>2. PhaseOf(IF n + 1 = Len(items[c]) THEN "launch" ELSE "submit")
            = IF n + 1 = Len(items[c]) THEN "waiting" ELSE "joining"
    BY DEF PhaseOf
  <2>3. Phase[c] = "joining"
    BY <1>1 DEF Phase, PhaseOf
  <2> QED
    BY <1>3, <2>1, <2>2, <2>3
<1>5. k = items[c][Joined[c] + 1] /\ k \in Keys
  <2>1. n < Len(items[c]) /\ n \in Nat
    BY <1>a, <1>1 DEF EntryInv, CallShape
  <2> QED
    BY <1>a, <1>3, <2>1 DEF NextItem
<1>6. Answer' = [Answer EXCEPT ![k] = IF Answer[k] = "NONE" THEN "PENDING" ELSE Answer[k]]
  <2>a. TableAnswers
    BY <1>a, AnswersOfTable
  <2>1. CASE SubmitHit(c)
    <3>1. PICK f \in Matching(k) : entries' = [entries EXCEPT ![f].users = entries[f].users + 1]
      BY <2>1 DEF SubmitHit
    <3>2. f \in Cells /\ entries[f] # NoEntry /\ entries[f].key = k
      BY <3>1 DEF Matching, FreeCells
    <3>3. entries[f].users + 1 \in Nat
      <4>1. entries[f] \in EntryType
        BY <1>a, <3>2 DEF TableTypes
      <4> QED
        BY <4>1 DEF EntryType
    <3>4. Answer' = Answer
      BY <1>a, <3>1, <3>2, <3>3, UsersInvisible
    <3>5. Answer[k] # "NONE"
      BY <2>a, <3>2 DEF TableAnswers
    <3> QED
      BY <1>5, <2>a, <3>4, <3>5 DEF TableAnswers
  <2>2. CASE SubmitMiss(c)
    <3> DEFINE f == Lowest(FreeCells)
               new == [key |-> k, users |-> 1, state |-> "PENDING"]
    <3>1. Matching(k) = {} /\ FreeCells # {} /\ entries' = [entries EXCEPT ![f] = new]
      BY <2>2 DEF SubmitMiss
    <3>2. f \in Cells /\ entries[f] = NoEntry
      <4>1. FreeCells \in SUBSET Nat
        BY ServiceAssumption DEF FreeCells
      <4>2. f \in FreeCells
        BY <3>1, <4>1, LowestNat
      <4> QED
        BY <4>2 DEF FreeCells
    <3>3. new \in EntryType /\ new.key = k /\ new.state = "PENDING"
      BY <1>5 DEF EntryType
    <3>4. \A g \in Cells : entries[g] # NoEntry => entries[g].key # new.key
      BY <3>1, <3>3 DEF Matching, FreeCells
    <3> HIDE DEF f, new, k
    <3>5. /\ Answer[new.key] = "NONE"
          /\ Answer' = [Answer EXCEPT ![new.key] = new.state]
      BY <1>a, <3>1, <3>2, <3>3, <3>4, AnswerStarted
    <3> QED
      BY <3>3, <3>5
  <2> QED
    BY <2>1, <2>2
<1> HIDE DEF n, k
<1>7. Promise!Join(c)
  BY <1>2, <1>3, <1>4, <1>5, <1>6 DEF Promise!Join, Promise!Enter
<1> QED
  BY <1>7 DEF Promise!Next, Promise!Call

\* A call takes its next answer; a failure is withdrawn exactly by its last holder.
LEMMA AnswerTaken ==
    ASSUME EntryInv, EntryInv', SlotInv, HandlesInv, NEW c \in Clients, AwaitTake(c)
    PROVE  Promise!Next
<1>a. /\ pc \in [Clients -> ClientPCs] /\ TableInv /\ TableInv' /\ TableTypes
      /\ handles[c] \in Seq(Cells) /\ items[c] \in Seq(Keys) /\ index[c] \in Nat \ {0}
  BY DEF SlotInv, SlotTypes, EntryInv, TableInv, TableTypes, CallShape
<1> DEFINE e == handles[c][index[c]]
           k == items[c][index[c]]
           x == <<c, index[c]>>
<1>1. /\ pc[c] = "await" /\ entries[e].state # "PENDING"
      /\ ok' = [ok EXCEPT ![c] = ok[c] /\ entries[e].state = "READY"]
      /\ ReleaseEntry(e)
      /\ index' = [index EXCEPT ![c] = index[c] + 1]
      /\ pc' = [pc EXCEPT ![c] = IF index[c] = Len(handles[c]) THEN "return" ELSE "await"]
      /\ UNCHANGED <<stopping, items, handles>>
  BY DEF AwaitTake, Goto
<1>2. Phase[c] = "waiting" /\ Len(handles[c]) = Len(items[c])
  <2>1. Phase[c] = "waiting"
    BY <1>1 DEF Phase, PhaseOf
  <2> QED
    BY <2>1 DEF HandlesInv, HandlesOf
<1>3. Phase' = [Phase EXCEPT ![c] = IF index[c] = Len(items[c]) THEN "answered" ELSE "waiting"]
  <2>1. Phase' = [Phase EXCEPT ![c] =
                    PhaseOf(IF index[c] = Len(handles[c]) THEN "return" ELSE "await")]
    BY <1>a, <1>1, PhaseMoves
  <2>2. PhaseOf(IF index[c] = Len(handles[c]) THEN "return" ELSE "await")
            = IF index[c] = Len(items[c]) THEN "answered" ELSE "waiting"
    BY <1>2 DEF PhaseOf
  <2> QED
    BY <2>1, <2>2
<1>4. Joined' = Joined
  BY <1>1 DEF Joined
<1>5. /\ e \in Cells /\ entries[e] # NoEntry /\ entries[e].key = k
      /\ x \in References(e)
  <2>1. index[c] \in index[c] .. Len(handles[c])
    BY <1>a, <1>1 DEF EntryInv, CallShape
  <2>2. e \in Cells /\ entries[e] # NoEntry
    BY <2>1, HandleAllocated DEF HandlesAllocated
  <2>3. entries[e].key = k
    BY <2>1 DEF HandlesInv, HandlesOf
  <2>4. x \in References(e)
    BY <2>1, ReferenceMember
  <2> QED
    BY <2>2, <2>3, <2>4
<1> HIDE DEF e, k, x
<1>6. /\ IsFiniteSet(References(e)) /\ entries[e].users = Cardinality(References(e))
      /\ Cardinality(References(e)) \in Nat /\ Cardinality(References(e)) # 0
  <2>1. IsFiniteSet(References(e)) /\ entries[e].users = Cardinality(References(e))
    BY <1>a, <1>5 DEF TableInv, Counted
  <2> QED
    BY <1>5, <2>1, FS_CardinalityType, FS_EmptySet
<1>7. Promise!Holders(k) = References(e)
  BY <1>5, HoldersHoldEntry
<1>8. entries[e].users = 1 <=> Promise!Holders(k) = {x}
  <2>1. ASSUME entries[e].users = 1 PROVE References(e) = {x}
    <3>1. PICK y : References(e) = {y}
      BY <1>6, <2>1, FS_Singleton
    <3> QED
      BY <1>5, <3>1
  <2>2. ASSUME References(e) = {x} PROVE entries[e].users = 1
    BY <1>6, <2>2, FS_Singleton
  <2> QED
    BY <1>7, <2>1, <2>2
<1>9. TableAnswers
  BY <1>a, AnswersOfTable
<1>10. k \in Keys /\ Answer[k] = entries[e].state /\ Answer[k] \in {"READY", "FAILED"}
  BY <1>1, <1>5, <1>9 DEF TableAnswers
<1>11. Answer' = IF Answer[k] = "FAILED" /\ Promise!Holders(k) = {x}
                 THEN [Answer EXCEPT ![k] = "NONE"] ELSE Answer
  <2>1. CASE entries[e].state = "FAILED" /\ entries[e].users = 1
    <3>1. entries' = [entries EXCEPT ![e] = NoEntry]
      BY <1>1, <2>1 DEF ReleaseEntry
    <3>2. Answer' = [Answer EXCEPT ![entries[e].key] = "NONE"]
      BY <1>a, <1>5, <3>1, AnswerWithdrawn
    <3> QED
      BY <1>5, <1>8, <1>10, <2>1, <3>2
  <2>2. CASE ~(entries[e].state = "FAILED" /\ entries[e].users = 1)
    <3>1. entries' = [entries EXCEPT ![e].users = entries[e].users - 1]
      BY <1>1, <2>2 DEF ReleaseEntry
    <3>2. entries[e].users - 1 \in Nat
      BY <1>6
    <3>3. Answer' = Answer
      BY <1>a, <1>5, <3>1, <3>2, UsersInvisible
    <3> QED
      BY <1>8, <1>10, <2>2, <3>3
  <2> QED
    BY <2>1, <2>2
<1>12. Promise!Take(c)
  BY <1>1, <1>2, <1>3, <1>4, <1>10, <1>11 DEF Promise!Take, Promise!Enter, k, x
<1> QED
  BY <1>12 DEF Promise!Next, Promise!Call

\* The call returns to its caller.
LEMMA CallReturns ==
    ASSUME EntryInv, EntryInv', SlotInv, NEW c \in Clients, Return(c)
    PROVE  Promise!Next
<1>a. pc \in [Clients -> ClientPCs] /\ TableInv /\ TableInv' /\ TableTypes
  BY DEF SlotInv, SlotTypes, EntryInv, TableInv
<1>1. /\ pc[c] = "return" /\ UNCHANGED <<entries, stopping, ok>>
      /\ items' = [items EXCEPT ![c] = <<>>] /\ handles' = [handles EXCEPT ![c] = <<>>]
      /\ index' = [index EXCEPT ![c] = 1] /\ pc' = [pc EXCEPT ![c] = "idle"]
  BY DEF Return, Goto, tableVars
<1>2. Answer' = Answer
  BY <1>a, <1>1, SameEntries
<1>3. Phase' = [Phase EXCEPT ![c] = PhaseOf("idle")]
  BY <1>a, <1>1, PhaseMoves
<1>4. Phase[c] = "answered" /\ Phase' = [Phase EXCEPT ![c] = "idle"]
  BY <1>1, <1>3 DEF Phase, PhaseOf
<1>5. Joined' = [Joined EXCEPT ![c] = 0]
  <2>1. Joined' = [Joined EXCEPT ![c] = Len(<<>>)]
    BY <1>a, <1>1, JoinedMoves
  <2> QED
    BY <2>1
<1>6. Promise!Return(c)
  BY <1>1, <1>2, <1>4, <1>5 DEF Promise!Return, Promise!Enter
<1> QED
  BY <1>6 DEF Promise!Next, Promise!Call

\* What a caller does without its answers being concerned, and its inline wave.
LEMMA CallerWaits ==
    ASSUME EntryInv, EntryInv', SlotInv, NEW c \in Clients,
           \/ LaunchSolo(c) \/ LaunchSignal(c) \/ AwaitBlock(c)
           \/ \E success \in BOOLEAN : SoloDone(c, success)
    PROVE  [Promise!Next]_(Promise!vars)
<1>a. pc \in [Clients -> ClientPCs] /\ TableInv /\ TableInv' /\ TableTypes /\ CallShape
  BY DEF SlotInv, SlotTypes, EntryInv, TableInv
<1>1. UNCHANGED <<stopping, items, index, ok, handles>>
  BY DEF LaunchSolo, LaunchSignal, AwaitBlock, SoloDone
<1>2. Joined' = Joined
  BY <1>1 DEF Joined
<1>3. Phase' = Phase
  <2>1. \A d \in Clients :
            pc'[d] = pc[d] \/ (pc[d] \in {"launch", "solo", "await", "doneWait"}
                               /\ pc'[d] \in {"launch", "solo", "await", "doneWait"})
    BY <1>a DEF LaunchSolo, LaunchSignal, AwaitBlock, SoloDone, Goto, WakeCallers
  <2> QED
    BY <2>1, PhaseStays, Zenon
<1>4. CASE LaunchSolo(c) \/ LaunchSignal(c) \/ AwaitBlock(c)
  <2>1. entries' = entries
    BY <1>4 DEF LaunchSolo, LaunchSignal, AwaitBlock, tableVars
  <2> QED
    BY <1>a, <1>1, <1>2, <1>3, <2>1, Unseen
<1>5. CASE \E success \in BOOLEAN : SoloDone(c, success)
  <2> DEFINE mine == handles[c][1]
             done == <<mine>>
  <2>1. PICK success \in BOOLEAN : Complete(done, success) /\ pc[c] = "solo"
    BY <1>5 DEF SoloDone
  <2>2. mine \in Cells /\ Pending(mine)
    BY <1>a, <2>1, WorkCells DEF TableInv, WorkInv, SolosPending
  <2> HIDE DEF mine
  <2>3. done \in Seq(Cells) /\ \A e \in ToSet(done) : Pending(e)
    BY <2>2 DEF ToSet
  <2> HIDE DEF done
  <2> QED
    BY <1>a, <1>1, <1>2, <1>3, <2>1, <2>3, AnswersCompleted
<1> QED
  BY <1>4, <1>5

\* The threads of the service: a finished wave is an execution, the rest is unseen.
LEMMA ThreadsUnseen ==
    ASSUME EntryInv, EntryInv', SlotInv, NEW t \in Slots, Backend(t)
    PROVE  [Promise!Next]_(Promise!vars)
<1>a. TableInv /\ TableInv' /\ UNCHANGED <<items, handles, index, ok, Phase, Joined>>
  BY CallersStay DEF EntryInv
<1>1. stopping' = stopping
  BY DEF Backend, Working, QueueWait, Exit, StartCollect, EndCollect, StartWave,
         CollectAgain, ScanTake, ScanSkip, RunWave, FinishWave
<1>2. CASE \E success \in BOOLEAN : FinishWave(t, success)
  <2>1. PICK success \in BOOLEAN : Complete(wave[t], success)
    BY <1>2 DEF FinishWave
  <2>2. wave[t] \in Seq(Cells) /\ \A e \in ToSet(wave[t]) : Pending(e)
    BY <1>a DEF TableInv, TableTypes, WorkInv, WavesPending
  <2> QED
    BY <1>a, <1>1, <2>1, <2>2, AnswersCompleted
<1>3. CASE entries' = entries
  BY <1>a, <1>1, <1>3, Unseen
<1>4. entries' = entries \/ \E success \in BOOLEAN : FinishWave(t, success)
  BY DEF Backend, Working, QueueWait, Exit, StartCollect, EndCollect, StartWave,
         CollectAgain, ScanTake, ScanSkip, RunWave, tableVars
<1> QED
  BY <1>2, <1>3, <1>4

\* Eviction, shutdown and the end of the table.
LEMMA ServiceForgets ==
    ASSUME EntryInv, EntryInv', SlotInv, HandlesInv,
           Evict \/ Pruned \/ Stop \/ Destroy \/ Destroyed \/ UNCHANGED vars
    PROVE  [Promise!Next]_(Promise!vars)
<1>a. /\ TableInv /\ TableInv' /\ UNCHANGED <<items, handles, index, ok, Phase, Joined>>
  BY CallersStay DEF EntryInv
<1>b. TableAnswers
  BY <1>a, AnswersOfTable
<1>1. CASE Evict
  <2>1. PICK i \in Evictable : entries' = [entries EXCEPT ![lru[i]] = NoEntry]
    BY <1>1 DEF Evict
  <2> DEFINE e == lru[i]
  <2>2. lru \in Seq(Cells) /\ i \in 1 .. Len(lru) /\ entries[e].users = 0
    BY <1>a, <2>1 DEF TableInv, TableTypes, Evictable
  <2>3. e \in Cells /\ e \in ToSet(lru)
    BY <2>2 DEF ToSet
  <2>4. entries[e] # NoEntry /\ entries[e].state = "READY"
    BY <1>a, <2>3 DEF TableInv, LruReady, Ready
  <2> HIDE DEF e
  <2>5. References(e) = {}
    <3>1. IsFiniteSet(References(e)) /\ Cardinality(References(e)) = 0
      BY <1>a, <2>2, <2>3, <2>4 DEF TableInv, Counted
    <3> QED
      BY <3>1, FS_EmptySet
  <2>6. Promise!Holders(entries[e].key) = {}
    BY <2>3, <2>4, <2>5, HoldersHoldEntry
  <2>7. entries[e].key \in Keys /\ Answer[entries[e].key] = "READY"
    BY <1>b, <2>3, <2>4 DEF TableAnswers
  <2>8. Answer' = [Answer EXCEPT ![entries[e].key] = "NONE"]
    BY <1>a, <2>1, <2>3, <2>4, AnswerWithdrawn DEF e
  <2>9. stopping' = stopping
    BY <1>1 DEF Evict
  <2>10. Promise!Forget(entries[e].key)
    BY <1>a, <2>6, <2>7, <2>8, <2>9 DEF Promise!Forget, Promise!callVars
  <2> QED
    BY <2>7, <2>10 DEF Promise!Next
<1>2. CASE Stop
  <2>1. /\ ~stopping /\ stopping' = TRUE /\ entries' = entries
        /\ \A c \in Clients : pc[c] \in {"idle", "solo", "await", "doneWait"}
    BY <1>2 DEF Stop, tableVars
  <2>2. \A c \in Clients : Phase[c] \in {"idle", "waiting"}
    BY <2>1 DEF Phase, PhaseOf
  <2>3. Answer' = Answer
    BY <1>a, <2>1, SameEntries
  <2>4. Promise!Close
    BY <1>a, <2>1, <2>2, <2>3 DEF Promise!Close, Promise!callVars
  <2> QED
    BY <2>4 DEF Promise!Next
<1>3. CASE Destroy
  <2>1. /\ AllExited /\ \A c \in Clients : pc[c] = "idle"
        /\ entries' = [e \in Cells |-> NoEntry] /\ stopping' = stopping
    BY <1>3 DEF Destroy
  <2>2. stopping
    <3>1. \E t \in Slots : TRUE
      BY SlotsAssumption DEF Slots
    <3> QED
      BY <2>1, <3>1 DEF AllExited, EntryInv, StopShape
  <2>3. \A c \in Clients : Phase[c] = "idle"
    BY <2>1 DEF Phase, PhaseOf
  <2>4. TableAnswers'
    BY <1>a, AnswersOfTable, PTL
  <2>5. \A k \in Keys : Answer'[k] = "NONE"
    BY <2>1, <2>4 DEF TableAnswers
  <2>6. Answer' = [k \in Keys |-> "NONE"]
    BY <2>4, <2>5 DEF TableAnswers
  <2>7. Promise!Discard
    BY <1>a, <2>1, <2>2, <2>3, <2>6 DEF Promise!Discard, Promise!callVars
  <2> QED
    BY <2>7 DEF Promise!Next
<1>4. CASE Pruned \/ Destroyed \/ UNCHANGED vars
  <2>1. entries' = entries /\ stopping' = stopping
    BY <1>4 DEF Pruned, Destroyed, vars, tableVars
  <2> QED
    BY <1>a, <2>1, Unseen
<1> QED
  BY <1>1, <1>2, <1>3, <1>4

\* Initially nothing is answered and nobody has asked.
LEMMA PromiseStarts == Init => HandlesInv /\ Promise!Init
<1> SUFFICES ASSUME Init PROVE HandlesInv /\ Promise!Init
  OBVIOUS
<1>1. TableAnswers
  BY EntryInit, AnswersOfTable DEF EntryInv
<1>2. \A k \in Keys : Answer[k] = "NONE"
  BY <1>1 DEF Init, TableAnswers
<1>3. Answer = [k \in Keys |-> "NONE"]
  BY <1>1, <1>2 DEF TableAnswers
<1>4. Phase = [c \in Clients |-> "idle"] /\ Joined = [c \in Clients |-> 0]
  BY DEF Init, Phase, PhaseOf, Joined
<1>5. Promise!Init
  BY <1>3, <1>4 DEF Init, Promise!Init
<1>6. HandlesInv
  BY <1>4 DEF Init, HandlesInv, HandlesOf
<1> QED
  BY <1>5, <1>6

\* Every step of the service is a step of the promise or unseen by it.
LEMMA PromiseSteps ==
    ASSUME EntryInv, EntryInv', SlotInv, HandlesInv, [Next]_vars
    PROVE  [Promise!Next]_(Promise!vars)
<1>1. ASSUME NEW c \in Clients, Client(c) PROVE [Promise!Next]_(Promise!vars)
  BY <1>1, CallBegins, ItemJoins, CallerWaits, AnswerTaken, CallReturns DEF Client
<1>2. ASSUME NEW t \in Slots, Backend(t) PROVE [Promise!Next]_(Promise!vars)
  BY <1>2, ThreadsUnseen
<1> QED
  BY <1>1, <1>2, ServiceForgets DEF Next

\* An item that joined an entry keeps holding the entry of its own sequence.
THEOREM HandlesInvariance == Spec => []HandlesInv
<1>1. Init => HandlesInv
  BY PromiseStarts
<1>2. EntryInv /\ EntryInv' /\ SlotInv /\ HandlesInv /\ [Next]_vars => HandlesInv'
  BY HandlesStep
<1> QED
  BY <1>1, <1>2, EntryInvariance, SlotInvariance, PTL DEF Spec

\* The embedding service, with its queue, waves, executors, inline runs, entry table,
\* eviction and shutdown, is no more than shared answers, for any number of callers,
\* slots, sequences and cells (inference_service.c 345-371, 702-727, 990-1093).
THEOREM ServiceSharesAnswers == Spec => ImplementsSharedAnswers
<1>1. Init => Promise!Init
  BY PromiseStarts
<1>2. EntryInv /\ EntryInv' /\ SlotInv /\ HandlesInv /\ [Next]_vars
        => [Promise!Next]_(Promise!vars)
  BY PromiseSteps
<1> QED
  BY <1>1, <1>2, EntryInvariance, SlotInvariance, HandlesInvariance, PTL
     DEF Spec, ImplementsSharedAnswers, Promise!Spec

=============================================================================
