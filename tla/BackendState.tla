----------------------------- MODULE BackendState -----------------------------
(***************************************************************************)
(* What the backends have in common: a handle serves one call at a time, and *)
(* keeps its workspace, and what it recorded for the shapes it saw, from one *)
(* call to the next.                                                        *)
(***************************************************************************)
EXTENDS ForwardGraph, SequencesExt

CONSTANTS
    Shapes,             \* lengths of the sequences of a call
    ContextLength,      \* of the model: the longest sequence
    FirstCapacity,      \* rows of the first workspace (16)
    None, Failed        \* no executable, no answer yet; a refused call

ASSUME ShapesAreLengths == Shapes \subseteq Seq(Nat)

VARIABLES
    opts,       \* the backend, its options, and the bounds of the instance: calls, failures
    mem,        \* the buffers of the workspace
    space,      \* the parts of the workspace: their capacities, the calls that allocated them
    graphs,     \* what was recorded for the shapes seen before
    phase,      \* of the present call
    stage,      \* the next layer of the forward pass, 0 for the embedding
    calls,      \* so far, the present one included
    lens,       \* of the present call
    run,        \* the arguments of the kernels that run, and the workspace they use
    answer,     \* to the last call
    failures    \* so far

vars == <<opts, mem, space, graphs, phase, stage, calls, lens, run, answer, failures>>

Released == [capacity |-> 0, made |-> 0]

\* Buffers double from a first size.
GrowCapacity(first, current, required) ==
    LET base == IF current = 0 THEN first ELSE current
        sizes == {base * 2 ^ i : i \in 0 .. required}
    IN  Min({c \in sizes : c >= required})

\* A part of the workspace that is too small is allocated again.
Ensured(part, required) ==
    IF required > part.capacity
    THEN [capacity |-> GrowCapacity(FirstCapacity, part.capacity, required), made |-> calls + 1]
    ELSE part

\* The addresses of the workspace: which calls allocated its parts.
Addresses == [p \in DOMAIN space |-> space[p].made]

\* token_ids_valid, for every sequence.
Valid(ls) == \A s \in DOMAIN ls : ls[s] \in 1 .. ContextLength

Begin(ls) ==
    /\ phase = "idle" /\ calls < opts.calls /\ Valid(ls)
    /\ calls' = calls + 1
    /\ lens' = ls

\* An operation of the device fails, and the call with it.
Refuse ==
    /\ failures < opts.failures
    /\ failures' = failures + 1
    /\ phase' = "idle"
    /\ answer' = Failed

Respond ==
    /\ phase' = "idle"
    /\ answer' = [s \in 1 .. Len(lens) |-> At(mem, "result", s - 1)]

\* What one call after another copies to the device.
Copied(m, copies) == FoldLeft(LAMBDA memory, c : Write(memory, c[1], c[2]), m, copies)

=============================================================================
