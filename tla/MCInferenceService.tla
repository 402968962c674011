-------------------------- MODULE MCInferenceService --------------------------
(***************************************************************************)
(* Small instances of InferenceService for TLC.  Five sequences: k1 and k2  *)
(* are short, the others long where a service tells them apart. Each run    *)
(* chooses the executor layout, the calls and the switches.                 *)
(***************************************************************************)
EXTENDS InferenceService

CONSTANTS a, b, k1, k2, k3, k4, k5

MCTokens == [k \in Keys |-> CASE k \in {k1, k2} -> 1 [] k \in {k3, k5} -> 2 [] OTHER -> 3]

\* Executor layouts.
OneDevice == [s \in Slots |-> 0]
DevicePerSlot == [s \in Slots |-> s]
Uncapped == [s \in Slots |-> 0]
NoOverflow == {}
LastOverflows == {PipelineSlots - 1}
OverflowCap == [s \in Slots |-> IF s \in OverflowSlots THEN 3 ELSE 0]

\* Calls: single sequences, batches, a sequence repeated within a batch, a batch for two
\* lanes.
CacheCalls == {<<k1>>, <<k2, k3>>, <<k1, k1>>}
LaneCalls == {<<k1, k3>>}
PairCalls == {<<k1>>, <<k2, k3>>}
BacklogCalls == {<<k5>>, <<k4, k2, k1, k3>>}

Callers == Permutations(Clients)

=============================================================================
