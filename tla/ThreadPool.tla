------------------------------- MODULE ThreadPool -------------------------------
(***************************************************************************)
(* The CPU thread pool of src/src/parallel.c: one thread at a time calls   *)
(* ei_parallel_for, some of the pool's workers join it, and all of them    *)
(* draw ranges of indices from a shared counter.                           *)
(*                                                                         *)
(* The pool has two modes, chosen when it is created.  Workers wait on a   *)
(* condition variable for their `assigned' flag, or (spin mode) poll a     *)
(* ticket, the generation and the number of participants of the last call, *)
(* and park on the condition variable when none comes.                     *)
(*                                                                         *)
(* A critical section of pool->mutex is one step, except that the atomic   *)
(* variables, read without the mutex, may be seen between the two stores   *)
(* of ei_thread_pool_destroy.  The steps of run_jobs are those of its      *)
(* atomic operations; executing the function is a step of its own.         *)
(***************************************************************************)
EXTENDS Integers, FiniteSets

CONSTANTS
    WorkerCount,        \* pool->worker_count
    Requests,           \* records [count, grain], the arguments of a call
    Limits,             \* arguments of ei_thread_pool_set_cap
    Generations,        \* the generation is the upper 32 bits of the ticket: 2^32
    MaxCalls            \* bound of the exploration

ASSUME PoolAssumption ==
    /\ WorkerCount \in Nat
    /\ Requests \subseteq [count : Nat \ {0}, grain : Int]
    /\ Limits \subseteq Int
    /\ Generations \in Nat \ {0}
    /\ MaxCalls \in 0 .. Generations - 2

Workers == 0 .. WorkerCount - 1
Caller == -1
Threads == Workers \cup {Caller}

VARIABLES
    spin,               \* pool->spin_ns > 0
    stop, cap, next, count, grain, active, pending, ticket,
    assigned, sleeping, \* per worker
    pc,                 \* of every thread; "sleep" is waiting on the worker's start
    seen, now,          \* the workers' last generation, and the ticket just read
    range,              \* the indices a thread draws, with the call they belong to
    request, calls,     \* the arguments of the current call, the number of calls
    runs                \* how often each index of the last call was executed

jobVars == <<count, grain, pending, active, next>>
waitVars == <<assigned, sleeping, seen, now>>
vars == <<spin, stop, cap, ticket, jobVars, waitVars, pc, range, request, calls, runs>>

Least(a, b) == IF a <= b THEN a ELSE b
Most(a, b) == IF a >= b THEN a ELSE b

NoJobs == [begin |-> 0, end |-> 0, call |-> 0]

Init ==
    /\ spin \in BOOLEAN
    /\ stop = FALSE /\ cap = WorkerCount + 1
    /\ next = 0 /\ count = 0 /\ grain = 0 /\ active = 0 /\ pending = 0
    /\ ticket = [generation |-> 0, helpers |-> 0]
    /\ assigned = [w \in Workers |-> FALSE] /\ sleeping = [w \in Workers |-> FALSE]
    /\ pc = [p \in Threads |-> IF p = Caller THEN "idle" ELSE IF spin THEN "poll" ELSE "top"]
    /\ seen = [w \in Workers |-> 0] /\ now = [w \in Workers |-> ticket]
    /\ range = [p \in Threads |-> NoJobs]
    /\ request = [count |-> 0, grain |-> 0] /\ calls = 0
    /\ runs = [i \in {} |-> 0]

Goto(p, where) == pc' = [pc EXCEPT ![p] = where]

\* pthread_cond_signal(&start) of the workers W, from the counters `at'.
Signalled(at, W) ==
    [p \in Threads |-> IF p \in W /\ at[p] = "sleep" THEN "wake" ELSE at[p]]

\* ei_thread_pool_destroy holds the mutex between its stores.
MutexFree == pc[Caller] # "closing"

-----------------------------------------------------------------------------
(* The caller: ei_parallel_for *)

Grain == Most(request.grain, 1)

Jobs == (request.count + Grain - 1) \div Grain

\* Mutant: the cap is not applied.
UncappedHelpers == Least(Jobs - 1, WorkerCount)

\* The workers that join the call, from the first one on.
Helpers == Least(Least(Jobs - 1, WorkerCount), Most(cap - 1, 0))

\* A call; a small one, or one on a pool without workers, needs no other thread.
Begin(r) ==
    /\ pc[Caller] = "idle" /\ calls < MaxCalls
    /\ request' = r
    /\ calls' = calls + 1
    /\ runs' = [i \in 0 .. r.count - 1 |-> 0]
    /\ IF WorkerCount = 0 \/ r.count <= r.grain
       THEN /\ range' = [range EXCEPT ![Caller] = [begin |-> 0, end |-> r.count, call |-> calls']]
            /\ Goto(Caller, "inline")
       ELSE Goto(Caller, "prepare") /\ UNCHANGED range
    /\ UNCHANGED <<spin, stop, cap, ticket, jobVars, waitVars>>

\* Spin mode: what the workers of the call will read.
Prepare ==
    /\ pc[Caller] = "prepare" /\ spin
    /\ count' = request.count /\ grain' = Grain
    /\ next' = 0 /\ pending' = Helpers
    /\ Goto(Caller, "publish")
    /\ UNCHANGED <<spin, stop, cap, ticket, active, waitVars, range, request, calls, runs>>

NextGeneration == (ticket.generation + 1) % Generations

\* Spin mode: the ticket, and a signal to the participants that are parked.
Publish ==
    /\ pc[Caller] = "publish"
    /\ ticket' = [generation |-> NextGeneration, helpers |-> Helpers]
    /\ pc' = [Signalled(pc, {w \in Workers : w < Helpers /\ sleeping[w]})
                 EXCEPT ![Caller] = "fetch"]
    /\ UNCHANGED <<spin, stop, cap, jobVars, waitVars, range, request, calls, runs>>

\* Condition variable mode: the job and the flags of its workers.
Assign ==
    /\ pc[Caller] = "prepare" /\ ~spin
    /\ count' = request.count /\ grain' = Grain
    /\ active' = Helpers /\ next' = 0
    /\ assigned' = [w \in Workers |-> assigned[w] \/ w < Helpers]
    /\ pc' = [Signalled(pc, {w \in Workers : w < Helpers}) EXCEPT ![Caller] = "fetch"]
    /\ UNCHANGED <<spin, stop, cap, pending, ticket, sleeping, seen, now, range, request,
                   calls, runs>>

\* Mutant: the caller returns when the counter is used up.
ReturnEarly ==
    /\ pc[Caller] = "wait"
    /\ Goto(Caller, "idle")
    /\ UNCHANGED <<spin, stop, cap, ticket, jobVars, waitVars, range, request, calls, runs>>

\* The caller has drawn the last range and leaves when the helpers have.
Return ==
    /\ pc[Caller] = "wait"
    /\ IF spin THEN pending = 0 ELSE active = 0
    /\ Goto(Caller, "idle")
    /\ UNCHANGED <<spin, stop, cap, ticket, jobVars, waitVars, range, request, calls, runs>>

\* pthread_cond_wait(&pool->done)
WaitDone ==
    /\ pc[Caller] = "wait" /\ ~spin /\ active # 0
    /\ Goto(Caller, "doneWait")
    /\ UNCHANGED <<spin, stop, cap, ticket, jobVars, waitVars, range, request, calls, runs>>

-----------------------------------------------------------------------------
(* run_jobs, by the caller and the workers that joined *)

Fetch(p) ==
    /\ pc[p] = "fetch"
    /\ range' = [range EXCEPT ![p] = [begin |-> next, end |-> next, call |-> calls]]
    /\ next' = next + grain
    /\ Goto(p, "check")
    /\ UNCHANGED <<spin, stop, cap, ticket, count, grain, pending, active, waitVars, request,
                   calls, runs>>

\* Mutant: the index behind the last one is drawn as well.
Exhausted(begin) == begin > count

Finished(begin) == begin >= count

Check(p) ==
    /\ pc[p] = "check"
    /\ IF Finished(range[p].begin)
       THEN Goto(p, IF p = Caller THEN "wait" ELSE "leave") /\ UNCHANGED range
       ELSE /\ range' = [range EXCEPT ![p].end = Least(range[p].begin + grain, count)]
            /\ Goto(p, "function")
    /\ UNCHANGED <<spin, stop, cap, ticket, jobVars, waitVars, request, calls, runs>>

\* function(context, begin, end), also when the caller runs it alone.
Function(p) ==
    /\ pc[p] \in {"function", "inline"}
    /\ runs' = [i \in DOMAIN runs |->
                   IF i \in range[p].begin .. range[p].end - 1 THEN runs[i] + 1 ELSE runs[i]]
    /\ Goto(p, IF pc[p] = "inline" THEN "returnInline" ELSE "fetch")
    /\ UNCHANGED <<spin, stop, cap, ticket, jobVars, waitVars, range, request, calls>>

ReturnInline ==
    /\ pc[Caller] = "returnInline"
    /\ Goto(Caller, "idle")
    /\ UNCHANGED <<spin, stop, cap, ticket, jobVars, waitVars, range, request, calls, runs>>

-----------------------------------------------------------------------------
(* worker_main, condition variable mode *)

\* The top of the loop, with the mutex, from the counters `at'.
NextAssignment(w, at) ==
    /\ pc' = [at EXCEPT ![w] =
                 IF stop THEN "exited" ELSE IF assigned[w] THEN "fetch" ELSE "sleep"]
    /\ assigned' = [assigned EXCEPT ![w] = @ /\ stop]

Top(w) ==
    /\ pc[w] \in {"top", "wake"} /\ ~spin /\ MutexFree
    /\ NextAssignment(w, pc)
    /\ UNCHANGED <<spin, stop, cap, ticket, jobVars, sleeping, seen, now, range, request,
                   calls, runs>>

\* Out of run_jobs: the last worker wakes the caller.
Leave(w) ==
    /\ pc[w] = "leave" /\ ~spin /\ MutexFree
    /\ active' = active - 1
    /\ NextAssignment(w, IF active = 1 /\ pc[Caller] = "doneWait"
                         THEN [pc EXCEPT ![Caller] = "wait"] ELSE pc)
    /\ UNCHANGED <<spin, stop, cap, ticket, count, grain, pending, next, sleeping, seen, now,
                   range, request, calls, runs>>

-----------------------------------------------------------------------------
(* spin_worker_main *)

NewTicket(w) == ticket.generation # seen[w]

Poll(w) ==
    /\ pc[w] = "poll" /\ NewTicket(w)
    /\ now' = [now EXCEPT ![w] = ticket]
    /\ Goto(w, "join")
    /\ UNCHANGED <<spin, stop, cap, ticket, jobVars, assigned, sleeping, seen, range, request,
                   calls, runs>>

\* The deadline passes and the last look at the ticket showed the old one.
GiveUp(w) ==
    /\ pc[w] = "poll" /\ ~NewTicket(w)
    /\ Goto(w, "park")
    /\ UNCHANGED <<spin, stop, cap, ticket, jobVars, waitVars, range, request, calls, runs>>

\* Mutant: the ticket is not looked at again under the mutex.
ParkBlindly(w) ==
    /\ pc[w] \in {"park", "wake"} /\ spin /\ MutexFree
    /\ IF pc[w] = "park"
       THEN /\ sleeping' = [sleeping EXCEPT ![w] = TRUE]
            /\ Goto(w, "sleep")
            /\ UNCHANGED now
       ELSE /\ sleeping' = [sleeping EXCEPT ![w] = FALSE]
            /\ now' = [now EXCEPT ![w] = ticket]
            /\ Goto(w, IF stop THEN "exited" ELSE "join")
    /\ UNCHANGED <<spin, stop, cap, ticket, jobVars, assigned, seen, range, request, calls, runs>>

\* With the mutex: wait on start, also after a signal, until there is a ticket.
Park(w) ==
    /\ pc[w] \in {"park", "wake"} /\ spin /\ MutexFree
    /\ IF ~stop /\ ~NewTicket(w)
       THEN /\ sleeping' = [sleeping EXCEPT ![w] = TRUE]
            /\ Goto(w, "sleep")
            /\ UNCHANGED now
       ELSE /\ sleeping' = [sleeping EXCEPT ![w] = FALSE]
            /\ now' = [now EXCEPT ![w] = ticket]
            /\ Goto(w, IF stop THEN "exited" ELSE "join")
    /\ UNCHANGED <<spin, stop, cap, ticket, jobVars, assigned, seen, range, request, calls, runs>>

\* Mutant: the worker does not look at stop.
JoinStopped(w) ==
    /\ pc[w] = "join"
    /\ seen' = [seen EXCEPT ![w] = now[w].generation]
    /\ Goto(w, IF w < now[w].helpers THEN "fetch" ELSE "poll")
    /\ UNCHANGED <<spin, stop, cap, ticket, jobVars, assigned, sleeping, now, range, request,
                   calls, runs>>

\* A new ticket: the end, a call to join, or a call of fewer workers.
Join(w) ==
    /\ pc[w] = "join"
    /\ seen' = [seen EXCEPT ![w] = now[w].generation]
    /\ Goto(w, IF stop THEN "exited" ELSE IF w < now[w].helpers THEN "fetch" ELSE "poll")
    /\ UNCHANGED <<spin, stop, cap, ticket, jobVars, assigned, sleeping, now, range, request,
                   calls, runs>>

LeaveSpin(w) ==
    /\ pc[w] = "leave" /\ spin
    /\ pending' = pending - 1
    /\ Goto(w, "poll")
    /\ UNCHANGED <<spin, stop, cap, ticket, count, grain, active, next, waitVars, range,
                   request, calls, runs>>

-----------------------------------------------------------------------------
(* Between calls: ei_thread_pool_set_cap and ei_thread_pool_destroy *)

SetCap(threads) ==
    /\ pc[Caller] = "idle"
    /\ cap' = IF threads \in 1 .. WorkerCount + 1 THEN threads ELSE WorkerCount + 1
    /\ UNCHANGED <<spin, stop, ticket, jobVars, waitVars, pc, range, request, calls, runs>>

Destroy ==
    /\ pc[Caller] = "idle"
    /\ stop' = TRUE
    /\ Goto(Caller, "closing")
    /\ UNCHANGED <<spin, cap, ticket, jobVars, waitVars, range, request, calls, runs>>

\* Mutant: only the participants of the last call are signalled.
WakeParticipants ==
    /\ pc[Caller] = "closing"
    /\ ticket' = [ticket EXCEPT !.generation = NextGeneration]
    /\ assigned' = [w \in Workers |-> TRUE]
    /\ pc' = [Signalled(pc, {w \in Workers : w < ticket.helpers}) EXCEPT ![Caller] = "joining"]
    /\ UNCHANGED <<spin, stop, cap, jobVars, sleeping, seen, now, range, request, calls, runs>>

\* A ticket without a call, and a signal to every worker.
WakeForStop ==
    /\ pc[Caller] = "closing"
    /\ ticket' = [ticket EXCEPT !.generation = NextGeneration]
    /\ assigned' = [w \in Workers |-> TRUE]
    /\ pc' = [Signalled(pc, Workers) EXCEPT ![Caller] = "joining"]
    /\ UNCHANGED <<spin, stop, cap, jobVars, sleeping, seen, now, range, request, calls, runs>>

JoinWorkers ==
    /\ pc[Caller] = "joining"
    /\ \A w \in Workers : pc[w] = "exited"
    /\ Goto(Caller, "destroyed")
    /\ UNCHANGED <<spin, stop, cap, ticket, jobVars, waitVars, range, request, calls, runs>>

Destroyed == pc[Caller] = "destroyed" /\ UNCHANGED vars

\* What a call does once it is made; an idle caller need not do anything.
Calling ==
    \/ Prepare \/ Publish \/ Assign \/ Return \/ WaitDone \/ ReturnInline
    \/ Fetch(Caller) \/ Check(Caller) \/ Function(Caller)
    \/ WakeForStop \/ JoinWorkers

Working(w) ==
    \/ Fetch(w) \/ Check(w) \/ Function(w)
    \/ Top(w) \/ Leave(w)
    \/ Poll(w) \/ Park(w) \/ Join(w) \/ LeaveSpin(w)

Next ==
    \/ \E r \in Requests : Begin(r)
    \/ Calling
    \/ \E w \in Workers : Working(w) \/ GiveUp(w)
    \/ \E threads \in Limits : SetCap(threads)
    \/ Destroy \/ Destroyed

Spec == Init /\ [][Next]_vars

\* Every thread runs on while it can.  A worker need not give up polling.
FairSpec == Spec /\ WF_vars(Calling) /\ \A w \in Workers : WF_vars(Working(w))

-----------------------------------------------------------------------------
(* Properties *)

InJobs(p) == pc[p] \in {"fetch", "check", "function"}

InCall == pc[Caller] \notin {"idle", "closing", "joining", "destroyed"}

PCs == {"idle", "inline", "returnInline", "prepare", "publish", "wait", "doneWait", "closing",
        "joining", "destroyed", "fetch", "check", "function", "leave", "top", "sleep", "wake",
        "poll", "park", "join", "exited"}

\* The type of every variable; in particular no counter of helpers is negative.
TypeOK ==
    /\ spin \in BOOLEAN /\ stop \in BOOLEAN /\ cap \in 1 .. WorkerCount + 1
    /\ {next, count, grain} \subseteq Nat /\ {active, pending} \subseteq 0 .. WorkerCount
    /\ ticket \in [generation : 0 .. Generations - 1, helpers : 0 .. WorkerCount]
    /\ assigned \in [Workers -> BOOLEAN] /\ sleeping \in [Workers -> BOOLEAN]
    /\ pc \in [Threads -> PCs]
    /\ seen \in [Workers -> 0 .. Generations - 1]
    /\ now \in [Workers -> [generation : 0 .. Generations - 1, helpers : 0 .. WorkerCount]]
    /\ range \in [Threads -> [begin : Nat, end : Nat, call : 0 .. MaxCalls]]
    /\ request \in [count : Nat, grain : Int] /\ calls \in 0 .. MaxCalls

\* No thread executes the function of a call that has returned: its context is
\* on the stack of the caller.
FunctionsInCall ==
    \A p \in Threads : pc[p] = "function" => InCall /\ range[p].call = calls

\* parallel.h: at most cap threads, the caller included, join a call.
CapRespected == Cardinality({p \in Threads : InJobs(p)}) <= cap

\* Each thread of a call overshoots the end of the indices once: the counter
\* stays below 2^31 if count plus one grain per thread and one more does.
CounterBounded ==
    InCall /\ pc[Caller] \notin {"inline", "returnInline", "prepare", "publish"} =>
        next <= (Jobs + Helpers + 1) * grain

\* Every call returns, and so does ei_thread_pool_destroy: every worker exits,
\* wherever it waits.
CallsEnd ==
    /\ InCall ~> ~InCall
    /\ stop ~> pc[Caller] = "destroyed"

\* Every index of a call is executed exactly once before the call returns, and
\* nothing is executed afterwards.
Sizes == {r.count : r \in Requests}

Promise == INSTANCE ParallelFor WITH
    phase <- IF InCall THEN "running" ELSE IF pc[Caller] = "idle" THEN "idle" ELSE "closed"

ImplementsParallelFor == Promise!Spec

=============================================================================
