------------------------------ MODULE WavePolicy ------------------------------
(***************************************************************************)
(* The scheduling rules of src/src/inference_service.c that are pure       *)
(* functions of the queue and of the busy slots: which executor slot the   *)
(* next wave runs on, which queued requests may join it, and when a wave   *)
(* under collection is complete.                                           *)
(*                                                                         *)
(* A queue is seen here as the sequence of the token counts of its         *)
(* requests, oldest first; `busy' is the set of slots in slot_mask and     *)
(* `long' the set of slots in long_mask.                                   *)
(***************************************************************************)
EXTENDS Integers, FiniteSets, Sequences, SequencesExt

CONSTANTS
    PipelineSlots,              \* config.pipeline_slots (1 when unset)
    SlotGroup,                  \* config.slot_group: the device of each slot
    OverflowSlots,              \* slots with config.slot_overflow set
    SlotMaxBatchTokens,         \* config.slot_max_batch_tokens, 0 when uncapped
    MaxBatchTokens,
    MaxBatchRequests,
    MaxBatchSequenceTokens,
    ShortBypassTokens,
    OverflowMaxSequenceTokens,
    ContextLimit                \* context_limit(): the longest request

Slots == 0 .. PipelineSlots - 1

\* Checked by ei_inference_service_create and by the argument parser.
ASSUME SlotsAssumption ==
    /\ PipelineSlots \in 1 .. 32
    /\ SlotGroup \in [Slots -> 0 .. 31]
    /\ OverflowSlots \subseteq Slots
    /\ OverflowSlots # Slots

ASSUME BudgetAssumption ==
    /\ SlotMaxBatchTokens \in [Slots -> Nat]
    /\ {MaxBatchTokens, MaxBatchRequests, MaxBatchSequenceTokens, ContextLimit} \subseteq Nat \ {0}
    /\ {ShortBypassTokens, OverflowMaxSequenceTokens} \subseteq Nat
    /\ MaxBatchSequenceTokens <= ContextLimit

DeviceSlots == Slots \ OverflowSlots

DeviceGroups == {SlotGroup[s] : s \in DeviceSlots}

\* service->groups: one more than the largest device number.
Groups == 1 + CHOOSE g \in DeviceGroups : \A h \in DeviceGroups : h <= g

GroupSlots(g) == {s \in DeviceSlots : SlotGroup[s] = g}

Lowest(S) == CHOOSE s \in S : \A r \in S : s <= r

BypassMode == ShortBypassTokens > 0 /\ PipelineSlots > 1

IsShort(n) == n <= ShortBypassTokens

OverflowEligible(n) == n <= OverflowMaxSequenceTokens

Total(lens) == FoldLeft(+, 0, lens)

\* Requests behind the work that the next wave of every device absorbs.
InBacklog(ahead) == ahead >= MaxBatchTokens * Groups

QueueHasShort(lens) == \E i \in DOMAIN lens : IsShort(lens[i])

\* Mutant: a request counts itself among the work in front of it.
QueueReachesBacklog(lens) ==
    \E i \in DOMAIN lens : InBacklog(Total(SubSeq(lens, 1, i))) /\ OverflowEligible(lens[i])

QueueHasOverflow(lens) ==
    \E i \in DOMAIN lens : /\ InBacklog(Total(SubSeq(lens, 1, i - 1)))
                           /\ OverflowEligible(lens[i])

-----------------------------------------------------------------------------
(* pick_slot_locked *)

FreeSlots(g, busy) == GroupSlots(g) \ busy
BusySlots(g, busy) == GroupSlots(g) \cap busy

IdleGroups(busy) == {g \in DeviceGroups : GroupSlots(g) \cap busy = {}}

\* Devices with a free slot that may start a wave although they run one.
OpenGroups(lens, busy, long) ==
    {g \in DeviceGroups :
        /\ FreeSlots(g, busy) # {}
        /\ BypassMode => QueueHasShort(lens) /\ BusySlots(g, busy) \subseteq long}

LeastLoaded(G, busy) ==
    LET load(g) == Cardinality(BusySlots(g, busy))
    IN  CHOOSE g \in G : \A h \in G : \/ load(g) < load(h)
                                      \/ load(g) = load(h) /\ g <= h

NoWave == [wave |-> "NONE", slot |-> 0]

\* Mutant: a device with a free slot takes the next wave also in bypass mode.
PickSlotUnlaned(lens, busy, long) ==
    LET free == {g \in DeviceGroups : FreeSlots(g, busy) # {}}
    IN  IF lens = <<>> \/ free = {} THEN NoWave
        ELSE [wave |-> "ANY", slot |-> Lowest(FreeSlots(LeastLoaded(free, busy), busy))]

PickSlot(lens, busy, long) ==
    LET open == OpenGroups(lens, busy, long)
        overflow == OverflowSlots \ busy
    IN  IF lens = <<>> THEN NoWave
        ELSE IF IdleGroups(busy) # {}
        THEN [wave |-> "ANY", slot |-> Lowest(GroupSlots(Lowest(IdleGroups(busy))))]
        ELSE IF open # {} /\ BypassMode
        THEN [wave |-> "SHORT", slot |-> Lowest(FreeSlots(Lowest(open), busy))]
        ELSE IF open # {}
        THEN [wave |-> "ANY", slot |-> Lowest(FreeSlots(LeastLoaded(open, busy), busy))]
        ELSE IF overflow # {} /\ QueueHasOverflow(lens)
        THEN [wave |-> "OVERFLOW", slot |-> Lowest(overflow)]
        ELSE NoWave

CanStartWave(lens, busy, long) == PickSlot(lens, busy, long).wave # "NONE"

WaveBudget(slot) ==
    IF SlotMaxBatchTokens[slot] # 0 THEN SlotMaxBatchTokens[slot] ELSE MaxBatchTokens

-----------------------------------------------------------------------------
(* Filling a wave. The classes are the four ways backend_main fills one:    *)
(* take_class_locked for SHORT, LONG and OVERFLOW waves, the queue prefix   *)
(* (FIFO) or the lookahead scan for the waves of an unclassed service.      *)

WaveClass(wave, head, lookahead) ==
    CASE wave = "OVERFLOW" -> "OVERFLOW"
      [] wave = "SHORT" -> "SHORT"
      [] wave = "ANY" /\ BypassMode -> IF IsShort(head) THEN "SHORT" ELSE "LONG"
      [] OTHER -> IF lookahead THEN "LOOKAHEAD" ELSE "FIFO"

\* Mutant: overflow waves take from the head of the queue.
MemberAnywhere(class, n, ahead) ==
    CASE class = "OVERFLOW" -> OverflowEligible(n)
      [] class = "SHORT" -> IsShort(n)
      [] class = "LONG" -> ~IsShort(n)
      [] OTHER -> TRUE

\* `ahead' is the work that was queued in front of the request.
Member(class, n, ahead) ==
    CASE class = "OVERFLOW" -> InBacklog(ahead) /\ OverflowEligible(n)
      [] class = "SHORT" -> IsShort(n)
      [] class = "LONG" -> ~IsShort(n)
      [] OTHER -> TRUE

\* Mutant: the budget is tested before the request is added.
FitsBefore(taken, n, budget) ==
    taken # <<>> => /\ taken[1] <= MaxBatchSequenceTokens
                    /\ n <= MaxBatchSequenceTokens
                    /\ Total(taken) <= budget

\* An oversized request (above the packing cutoff) runs alone.
Fits(taken, n, budget) ==
    taken # <<>> => /\ taken[1] <= MaxBatchSequenceTokens
                    /\ n <= MaxBatchSequenceTokens
                    /\ Total(taken) + n <= budget

LookaheadScan == 8 * MaxBatchRequests

\* The scan goes on at queue position pos, with pos - 1 requests passed over.
ScanContinues(class, lens, pos, taken) ==
    /\ pos <= Len(lens)
    /\ Len(taken) < MaxBatchRequests
    /\ taken # <<>> => taken[1] <= MaxBatchSequenceTokens
    /\ class = "FIFO" => pos = 1
    /\ class = "LOOKAHEAD" => Len(taken) + pos - 2 < LookaheadScan

-----------------------------------------------------------------------------
(* batch_collection_ready: a wave under collection needs no further wait.   *)

PrefixFull(lens, budget) ==
    \E i \in 1 .. Len(lens) :
        LET tokens == Total(SubSeq(lens, 1, i))
        IN  \/ i > 1 /\ (lens[i] > MaxBatchSequenceTokens \/ tokens > budget)
            \/ i = MaxBatchRequests
            \/ tokens = budget

LookaheadFull(lens, budget) ==
    LET step(acc, n) ==
            IF acc.full \/ n > MaxBatchSequenceTokens \/ acc.tokens + n > budget THEN acc
            ELSE [requests |-> acc.requests + 1,
                  tokens |-> acc.tokens + n,
                  full |-> \/ acc.requests + 1 = MaxBatchRequests
                           \/ acc.tokens + n = budget]
        scanned == SubSeq(lens, 2, IF Len(lens) <= LookaheadScan THEN Len(lens)
                                                               ELSE LookaheadScan + 1)
    IN  FoldLeft(step, [requests |-> 1, tokens |-> lens[1], full |-> FALSE], scanned).full

\* `expected' is expected_wave() when EI_BATCH_WAVE is on, 0 otherwise.
CollectionReady(lens, budget, expected, lookahead) ==
    /\ lens # <<>>
    /\ \/ budget < MaxBatchTokens /\ Total(lens) >= budget
       \/ lens[1] > MaxBatchSequenceTokens
       \/ expected > 0 /\ Len(lens) >= expected
       \/ IF lookahead THEN LookaheadFull(lens, budget) ELSE PrefixFull(lens, budget)

=============================================================================
