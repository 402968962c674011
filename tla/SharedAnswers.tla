---------------------------- MODULE SharedAnswers ----------------------------
(***************************************************************************)
(* What the embedding service (src/src/inference_service.h) promises its   *)
(* callers, without the queue, the waves, the executors, the entry table   *)
(* and the mutex: there is one answer per token sequence, shared by all    *)
(* the items that ask for it.                                              *)
(*                                                                         *)
(*  - Only an item that finds no answer starts an execution of its         *)
(*    sequence; while it runs, everybody else joins it.                    *)
(*  - A call joins the answers of all its items before it takes one, takes *)
(*    them in its order, and succeeds exactly if each of them was READY    *)
(*    when it was taken.                                                   *)
(*  - An answer is not withdrawn while an item still has to take it.  A    *)
(*    failure goes with the last of these items, so the next call tries    *)
(*    again; a success is kept, for as long as the service likes.          *)
(***************************************************************************)
EXTENDS Integers, Sequences

CONSTANTS
    Clients,        \* threads that call the embed functions
    Keys,           \* token sequences
    Calls           \* the key sequences a call may carry

VARIABLES
    answer,         \* of each sequence: "NONE", "PENDING", "READY" or "FAILED"
    closed,         \* ei_inference_service_free was called
    \* callers: "idle", "asked", "joining", "waiting" or "answered"
    phase, items,
    joined,         \* the number of items that have joined an answer
    index,          \* the item whose answer is taken next
    ok

callVars == <<phase, items, joined, index, ok>>
vars == <<answer, closed, callVars>>

Init ==
    /\ answer = [k \in Keys |-> "NONE"]
    /\ closed = FALSE
    /\ phase = [c \in Clients |-> "idle"]
    /\ items = [c \in Clients |-> <<>>]
    /\ joined = [c \in Clients |-> 0]
    /\ index = [c \in Clients |-> 1]
    /\ ok = [c \in Clients |-> TRUE]

\* The items that still have to take the answer of a sequence.
Holders(k) ==
    UNION {{c} \X {i \in index[c] .. joined[c] : items[c][i] = k} : c \in Clients}

Enter(c, where) == phase' = [phase EXCEPT ![c] = where]

\* A call with texts; they are tokenized first.
Ask(c, call) ==
    /\ phase[c] = "idle" /\ ~closed
    /\ items' = [items EXCEPT ![c] = call]
    /\ Enter(c, "asked")
    /\ UNCHANGED <<answer, closed, joined, index, ok>>

\* A text had no tokens: the call fails and has asked for nothing.
Refuse(c) ==
    /\ phase[c] = "asked"
    /\ items' = [items EXCEPT ![c] = <<>>]
    /\ ok' = [ok EXCEPT ![c] = FALSE]
    /\ Enter(c, "idle")
    /\ UNCHANGED <<answer, closed, joined, index>>

Begin(c) ==
    /\ phase[c] = "asked"
    /\ ok' = [ok EXCEPT ![c] = TRUE]
    /\ Enter(c, "joining")
    /\ UNCHANGED <<answer, closed, items, joined, index>>

\* A call with one sequence that needs no tokenizer.
AskTokens(c, call) ==
    /\ phase[c] = "idle" /\ ~closed
    /\ Len(call) = 1
    /\ items' = [items EXCEPT ![c] = call]
    /\ ok' = [ok EXCEPT ![c] = TRUE]
    /\ Enter(c, "joining")
    /\ UNCHANGED <<answer, closed, joined, index>>

\* The next item joins the answer of its sequence, whatever state that is in;
\* without one it starts an execution.
Join(c) ==
    /\ phase[c] = "joining"
    /\ answer' = [answer EXCEPT ![items[c][joined[c] + 1]] = IF @ = "NONE" THEN "PENDING" ELSE @]
    /\ joined' = [joined EXCEPT ![c] = @ + 1]
    /\ Enter(c, IF joined[c] + 1 = Len(items[c]) THEN "waiting" ELSE "joining")
    /\ UNCHANGED <<closed, items, index, ok>>

\* Some of the pending sequences are executed together: with one outcome.
Execute(done, success) ==
    /\ \A k \in done : answer[k] = "PENDING"
    /\ answer' = [k \in Keys |-> IF k \in done THEN IF success THEN "READY" ELSE "FAILED"
                                 ELSE answer[k]]
    /\ UNCHANGED <<closed, callVars>>

\* The call takes the next answer; the last holder of a failure withdraws it.
Take(c) ==
    LET k == items[c][index[c]]
    IN  /\ phase[c] = "waiting"
        /\ answer[k] \in {"READY", "FAILED"}
        /\ ok' = [ok EXCEPT ![c] = @ /\ answer[k] = "READY"]
        /\ answer' = IF answer[k] = "FAILED" /\ Holders(k) = {<<c, index[c]>>}
                     THEN [answer EXCEPT ![k] = "NONE"] ELSE answer
        /\ index' = [index EXCEPT ![c] = @ + 1]
        /\ Enter(c, IF index[c] = Len(items[c]) THEN "answered" ELSE "waiting")
        /\ UNCHANGED <<closed, items, joined>>

Return(c) ==
    /\ phase[c] = "answered"
    /\ items' = [items EXCEPT ![c] = <<>>]
    /\ joined' = [joined EXCEPT ![c] = 0]
    /\ index' = [index EXCEPT ![c] = 1]
    /\ Enter(c, "idle")
    /\ UNCHANGED <<answer, closed, ok>>

\* The cache gives up an answer that no item is waiting for.
Forget(k) ==
    /\ answer[k] = "READY" /\ Holders(k) = {}
    /\ answer' = [answer EXCEPT ![k] = "NONE"]
    /\ UNCHANGED <<closed, callVars>>

\* The service may be freed while calls wait, not while they still ask.
Close ==
    /\ ~closed
    /\ \A c \in Clients : phase[c] \in {"idle", "waiting"}
    /\ closed' = TRUE
    /\ UNCHANGED <<answer, callVars>>

Discard ==
    /\ closed /\ \A c \in Clients : phase[c] = "idle"
    /\ answer' = [k \in Keys |-> "NONE"]
    /\ UNCHANGED <<closed, callVars>>

Call(c) ==
    \/ \E call \in Calls : Ask(c, call) \/ AskTokens(c, call)
    \/ Refuse(c) \/ Begin(c) \/ Join(c) \/ Take(c) \/ Return(c)

Next ==
    \/ \E c \in Clients : Call(c)
    \/ \E done \in SUBSET Keys, success \in BOOLEAN : Execute(done, success)
    \/ \E k \in Keys : Forget(k)
    \/ Close \/ Discard

Spec == Init /\ [][Next]_vars

=============================================================================
