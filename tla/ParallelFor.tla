------------------------------ MODULE ParallelFor ------------------------------
(***************************************************************************)
(* What ei_parallel_for (src/src/parallel.h) and the tokenization of a     *)
(* batch (src/src/inference_service.c) promise their caller: between the   *)
(* call and its return every index from 0 to count - 1 is executed exactly *)
(* once, in ranges, and nothing is executed outside a call.                *)
(***************************************************************************)
EXTENDS Integers

CONSTANT Sizes      \* the numbers of indices a call may have

VARIABLES
    phase,          \* "idle", "running" or "closed" (the pool is destroyed)
    runs            \* how often each index of the last call was executed

vars == <<phase, runs>>

Init == phase = "idle" /\ runs = [i \in {} |-> 0]

Call ==
    /\ phase = "idle"
    /\ \E n \in Sizes : runs' = [i \in 0 .. n - 1 |-> 0]
    /\ phase' = "running"

\* Some thread has executed function(context, first, last + 1).
Execute ==
    /\ phase = "running"
    /\ \E first, last \in DOMAIN runs :
          /\ first <= last
          /\ \A i \in first .. last : runs[i] = 0
          /\ runs' = [i \in DOMAIN runs |-> IF i \in first .. last THEN 1 ELSE runs[i]]
    /\ UNCHANGED phase

Return ==
    /\ phase = "running"
    /\ \A i \in DOMAIN runs : runs[i] = 1
    /\ phase' = "idle"
    /\ UNCHANGED runs

Close ==
    /\ phase = "idle"
    /\ phase' = "closed"
    /\ UNCHANGED runs

Next == Call \/ Execute \/ Return \/ Close

Spec == Init /\ [][Next]_vars

=============================================================================
