--------------------------- MODULE ThreadPoolProofs ---------------------------
(***************************************************************************)
(* ThreadPool implements ParallelFor for every number of workers, every    *)
(* request and every cap: each index of a call is executed exactly once    *)
(* before the call returns and nothing is executed afterwards.             *)
(*                                                                         *)
(* The inductive invariant adds four parts to the types.  Places: where    *)
(* the threads of a mode may be.  Tickets: a worker that has read an old   *)
(* ticket was no helper of it.  Owed: the counter the caller waits for is  *)
(* the number of workers that still have to leave the call.  Shared: an    *)
(* index below the counter was executed once or is held by one thread.     *)
(***************************************************************************)
EXTENDS ThreadPool, FiniteSetTheorems, TLAPS

CallerPCs == {"idle", "inline", "returnInline", "prepare", "publish", "fetch", "check",
              "function", "wait", "doneWait", "closing", "joining", "destroyed"}
JobPCs == {"fetch", "check", "function", "leave"}

\* The job is visible to the workers.
Published == pc[Caller] \in {"fetch", "check", "function", "wait", "doneWait"}

AtWork(w) == pc[w] \in JobPCs

\* Each thread is at a place of its mode, and workers leave for ever only after stop.
Places ==
    /\ pc[Caller] \in CallerPCs
    /\ \A w \in Workers :
          pc[w] \in JobPCs \cup {"sleep", "wake", "exited"}
                           \cup IF spin THEN {"poll", "park", "join"} ELSE {"top"}
    /\ stop <=> pc[Caller] \in {"closing", "joining", "destroyed"}
    /\ \A w \in Workers : pc[w] = "exited" => stop
    /\ pc[Caller] = "publish" => spin

\* Generations do not wrap, and a worker about to join has read the present ticket,
\* or an earlier one that did not ask for it.
Tickets ==
    /\ ticket.generation <= calls + (IF stop THEN 1 ELSE 0)
    /\ pc[Caller] \in {"prepare", "publish"} => ticket.generation < calls
    /\ pc[Caller] = "closing" => ticket.generation <= calls
    /\ \A w \in Workers : seen[w] <= ticket.generation
    /\ \A w \in Workers : pc[w] = "join" =>
          /\ seen[w] < now[w].generation /\ now[w].generation <= ticket.generation
          /\ now[w].generation = ticket.generation => now[w].helpers = ticket.helpers
          /\ now[w].generation # ticket.generation => stop \/ w >= now[w].helpers

\* The workers that have to leave before the call may return.
Owes(w) ==
    AtWork(w) \/ IF spin THEN w < ticket.helpers /\ seen[w] # ticket.generation ELSE assigned[w]
Owing == {w \in Workers : Owes(w)}

Owed ==
    /\ Published =>
          /\ Cardinality(Owing) = IF spin THEN pending ELSE active
          /\ \A w \in Owing : w < Helpers
          /\ spin => ticket.helpers = Helpers
    /\ pc[Caller] = "publish" => pending = Helpers
    /\ ~Published /\ ~stop => Owing = {}
    /\ \A w \in Workers : AtWork(w) =>
          /\ ~stop
          /\ IF spin THEN seen[w] = ticket.generation ELSE ~assigned[w]

\* The indices a thread has drawn from the counter, and not executed.
Holds(p, i) ==
    /\ pc[p] \in {"check", "function"}
    /\ range[p].begin <= i /\ i < range[p].begin + grain

Shared ==
    /\ InCall => /\ request.count > 0
                 /\ DOMAIN runs = 0 .. request.count - 1
    /\ pc[Caller] \in {"inline", "prepare", "publish"} => \A i \in DOMAIN runs : runs[i] = 0
    /\ pc[Caller] = "returnInline" => \A i \in DOMAIN runs : runs[i] = 1
    /\ pc[Caller] = "inline" => range[Caller].begin = 0 /\ range[Caller].end = request.count
                                /\ range[Caller].call = calls
    /\ Published \/ pc[Caller] = "publish" => count = request.count /\ grain = Grain
    /\ pc[Caller] = "publish" => next = 0
    /\ \A p \in Threads : pc[p] \in {"check", "function"} =>
          /\ range[p].begin + grain <= next
          /\ range[p].call = calls
          /\ pc[p] = "function" => range[p].begin < count
                                   /\ range[p].end = Least(range[p].begin + grain, count)
    /\ \A p, q \in Threads :
          pc[p] \in {"check", "function"} /\ pc[q] \in {"check", "function"} /\ p # q =>
              \/ range[p].begin + grain <= range[q].begin
              \/ range[q].begin + grain <= range[p].begin
    /\ Published => \A i \in DOMAIN runs :
          runs[i] = IF i < next /\ ~(\E p \in Threads : Holds(p, i)) THEN 1 ELSE 0
    /\ \A p \in Threads : pc[p] \in {"leave", "wait", "doneWait"} => next >= count

PoolInv == TypeOK /\ Places /\ Tickets /\ Owed /\ Shared

\* The number of helpers of a call that is not executed alone.
LEMMA HelpersRange ==
    ASSUME TypeOK, request.count > 0
    PROVE  Helpers \in 0 .. WorkerCount /\ Grain \in Nat \ {0}
<1>1. /\ request.count \in Nat /\ request.grain \in Int /\ cap \in 1 .. WorkerCount + 1
      /\ WorkerCount \in Nat
  BY PoolAssumption DEF TypeOK
<1>2. Grain \in Nat \ {0}
  BY <1>1 DEF Grain, Most
<1>3. Jobs \in Nat \ {0}
  <2>1. \A a, b \in Nat : b > 0 /\ a >= b => a \div b \in Nat \ {0}
    OBVIOUS
  <2> QED
    BY <1>1, <1>2, <2>1 DEF Jobs
<1> QED
  BY <1>1, <1>2, <1>3 DEF Helpers, Least, Most

\* The caller is no worker.
LEMMA CallerIsNoWorker == Caller \notin Workers
BY PoolAssumption DEF Workers, Caller

\* Nobody works between calls.
LEMMA NoneAtWork ==
    ASSUME PoolInv, ~Published
    PROVE  \A w \in Workers : ~AtWork(w)
<1> SUFFICES ASSUME NEW w \in Workers, AtWork(w) PROVE FALSE
  OBVIOUS
<1>1. ~stop
  BY DEF PoolInv, Owed
<1>2. w \in Owing
  BY DEF Owing, Owes
<1> QED
  BY <1>1, <1>2 DEF PoolInv, Owed

\* A step that changes no worker's duty, and neither counters nor tickets.
DutiesStay ==
    /\ UNCHANGED <<spin, stop, ticket, pending, active, request, cap, seen, assigned>>
    /\ \A w \in Workers : AtWork(w)' <=> AtWork(w)

\* Such a step keeps the set of workers that owe something.
LEMMA OwingStays ==
    ASSUME DutiesStay
    PROVE  Owing' = Owing
<1>1. \A w \in Workers : Owes(w)' <=> Owes(w)
  BY DEF DutiesStay, Owes
<1>2. Workers' = Workers
  OBVIOUS
<1> QED
  BY <1>1 DEF Owing

\* ... and, if it neither publishes a call nor ends one, the counters of the workers.
LEMMA OwedStays ==
    ASSUME PoolInv, DutiesStay, Published' <=> Published,
           pc'[Caller] = "publish" => pc[Caller] = "publish"
    PROVE  Owed'
<1>1. Owing' = Owing
  BY OwingStays
<1>2. Helpers' = Helpers
  BY DEF DutiesStay, Helpers, Jobs, Grain
<1>3. Cardinality(Owing') = Cardinality(Owing)
  BY <1>1
<1>4. (\A w \in Workers : AtWork(w) =>
          /\ ~stop
          /\ IF spin THEN seen[w] = ticket.generation ELSE ~assigned[w])'
  BY DEF PoolInv, Owed, DutiesStay
<1>5. (Published =>
          /\ Cardinality(Owing) = IF spin THEN pending ELSE active
          /\ \A w \in Owing : w < Helpers
          /\ spin => ticket.helpers = Helpers)'
  BY <1>1, <1>2, <1>3 DEF PoolInv, Owed, DutiesStay
<1> QED
  BY <1>1, <1>2, <1>4, <1>5 DEF PoolInv, Owed, DutiesStay

\* A call starts with no index executed and with nobody at work.
LEMMA BeginKeeps ==
    ASSUME PoolInv, NEW r \in Requests, Begin(r)
    PROVE  PoolInv'
<1> USE PoolAssumption DEF PoolInv, Goto, vars, jobVars, waitVars
<1>0. /\ r \in [count : Nat \ {0}, grain : Int]
      /\ pc[Caller] = "idle" /\ calls' = calls + 1 /\ calls' \in 0 .. MaxCalls
      /\ Caller \in Threads
  BY DEF Begin, TypeOK, Threads
<1>t. /\ range \in [Threads -> [begin : Nat, end : Nat, call : 0 .. MaxCalls]]
      /\ pc \in [Threads -> PCs]
  BY DEF TypeOK
<1>a. /\ range' \in [Threads -> [begin : Nat, end : Nat, call : 0 .. MaxCalls]]
      /\ pc' \in [Threads -> PCs]
      /\ pc'[Caller] \in {"inline", "prepare"}
      /\ pc'[Caller] = "inline" => /\ range'[Caller].begin = 0 /\ range'[Caller].end = r.count
                                    /\ range'[Caller].call = calls'
  <2>1. CASE WorkerCount = 0 \/ r.count <= r.grain
    <3>1. /\ range' = [range EXCEPT ![Caller] = [begin |-> 0, end |-> r.count, call |-> calls']]
          /\ pc' = [pc EXCEPT ![Caller] = "inline"]
      BY <2>1 DEF Begin
    <3> QED
      BY <3>1, <1>t, <1>0 DEF PCs
  <2>2. CASE ~(WorkerCount = 0 \/ r.count <= r.grain)
    <3>1. range' = range /\ pc' = [pc EXCEPT ![Caller] = "prepare"]
      BY <2>2 DEF Begin
    <3> QED
      BY <3>1, <1>t, <1>0 DEF PCs
  <2> QED
    BY <2>1, <2>2
<1>1. TypeOK'
  BY <1>0, <1>a DEF TypeOK, Begin
<1>c. ~Published /\ ~Published' /\ ~stop
  BY <1>0 DEF Begin, Published, Places, TypeOK
<1>d. \A w \in Workers : pc'[w] = pc[w]
  BY CallerIsNoWorker, <1>0 DEF Begin, TypeOK, Threads
<1>2. Places'
  BY <1>c, <1>d, <1>0, CallerIsNoWorker DEF TypeOK, Places, CallerPCs, Begin
<1>3. Tickets'
  <2>1. ticket.generation \in Nat /\ calls \in Nat
    BY DEF TypeOK
  <2> QED
    BY <2>1, <1>0, <1>a, <1>c, <1>d DEF Tickets, Begin
<1>4. Owed'
  <2>1. \A w \in Workers : ~AtWork(w)'
    BY NoneAtWork, <1>c, <1>d DEF AtWork
  <2>2. Owing' = Owing
    <3>1. \A w \in Workers : Owes(w)' <=> Owes(w)
      BY <2>1, NoneAtWork, <1>c DEF Owes, Begin
    <3> QED
      BY <3>1 DEF Owing
  <2> QED
    BY <2>1, <2>2, <1>0, <1>a, <1>c DEF Begin, Owed
<1>5. Shared'
  <2>1. \A p \in Threads : pc'[p] \notin {"check", "function", "leave", "wait", "doneWait"}
    BY NoneAtWork, <1>0, <1>c, <1>d DEF AtWork, JobPCs, Begin, TypeOK, Threads, Places
  <2> QED
    BY <2>1, <1>0, <1>a, <1>c DEF Begin, Shared, InCall
<1> QED
  BY <1>1, <1>2, <1>3, <1>4, <1>5

\* A thread that draws indices, executes them or leaves belongs to a published call.
LEMMA WorkIsPublished ==
    ASSUME PoolInv, NEW p \in Threads,
           pc[p] \in {"fetch", "check", "function", "leave", "wait", "doneWait"}
    PROVE  Published
<1>1. CASE p = Caller
  BY <1>1 DEF PoolInv, Places, CallerPCs, Published
<1>2. CASE p \in Workers
  <2>1. pc[p] \notin {"wait", "doneWait"}
    BY <1>2 DEF PoolInv, Places, JobPCs
  <2> QED
    BY <1>2, <2>1, NoneAtWork DEF AtWork, JobPCs
<1> QED
  BY <1>1, <1>2 DEF Threads

\* Between calls no thread holds indices or has seen the end of them.
LEMMA NobodyDraws ==
    ASSUME PoolInv, ~Published
    PROVE  \A p \in Threads :
              pc[p] \notin {"fetch", "check", "function", "leave", "wait", "doneWait"}
BY WorkIsPublished

\* Spin mode: the fields of the job are stored before the ticket is.
LEMMA PrepareKeeps ==
    ASSUME PoolInv, Prepare
    PROVE  PoolInv'
<1> USE DEF PoolInv
<1>0. /\ pc[Caller] = "prepare" /\ spin /\ ~stop /\ pc' = [pc EXCEPT ![Caller] = "publish"]
      /\ Caller \in Threads /\ pc \in [Threads -> PCs]
      /\ ~Published
  BY DEF Prepare, Goto, Published, TypeOK, Threads, Places
<1>1. /\ pc'[Caller] = "publish" /\ ~Published' /\ ~Published
      /\ \A w \in Workers : pc'[w] = pc[w]
  BY <1>0, CallerIsNoWorker DEF Published, Threads
<1>2. request.count > 0 /\ Helpers \in 0 .. WorkerCount /\ Grain \in Nat \ {0}
  BY <1>0, HelpersRange DEF Shared, InCall
<1>3. TypeOK'
  <2>1. pc' \in [Threads -> PCs]
    BY <1>0 DEF PCs
  <2>2. {next', count', grain'} \subseteq Nat /\ {active', pending'} \subseteq 0 .. WorkerCount
    BY <1>2 DEF Prepare, TypeOK
  <2> QED
    BY <2>1, <2>2 DEF TypeOK, Prepare, waitVars
<1>4. Places'
  BY <1>0, <1>1 DEF Places, CallerPCs, Prepare
<1>5. Tickets'
  BY <1>0, <1>1 DEF Tickets, Prepare, waitVars
<1>6. Owed'
  <2>1. Owing' = Owing
    <3>1. \A w \in Workers : Owes(w)' <=> Owes(w)
      BY <1>1 DEF Owes, AtWork, Prepare, waitVars
    <3> QED
      BY <3>1 DEF Owing
  <2>2. Helpers' = Helpers
    BY DEF Helpers, Jobs, Grain, Prepare
  <2> QED
    BY <2>1, <2>2, <1>0, <1>1 DEF Prepare, waitVars, Owed, AtWork
<1>7. Shared'
  <2>1. \A p \in Threads : pc'[p] \notin {"check", "function", "leave", "wait", "doneWait"}
    BY NobodyDraws, <1>0, <1>1
  <2>2. Grain' = Grain
    BY DEF Prepare, Grain
  <2> QED
    BY <2>1, <2>2, <1>0, <1>1 DEF Prepare, Shared, InCall
<1> QED
  BY <1>3, <1>4, <1>5, <1>6, <1>7

\* The workers a signal wakes.
LEMMA SignalledPlaces ==
    ASSUME NEW at \in [Threads -> PCs], NEW W, W \subseteq Workers
    PROVE  /\ Signalled(at, W) \in [Threads -> PCs]
           /\ Signalled(at, W)[Caller] = at[Caller]
           /\ \A w \in Workers : \/ Signalled(at, W)[w] = at[w]
                                 \/ at[w] = "sleep" /\ Signalled(at, W)[w] = "wake"
BY CallerIsNoWorker DEF Signalled, PCs, Threads

\* No worker has left for the new ticket, and the first ones owe.
LEMMA PublishKeeps ==
    ASSUME PoolInv, Publish
    PROVE  PoolInv'
<1> USE DEF PoolInv
<1>0. /\ pc[Caller] = "publish" /\ spin /\ ~stop /\ ~Published
      /\ Caller \in Threads /\ pc \in [Threads -> PCs]
  BY DEF Publish, Published, TypeOK, Threads, Places
<1>2. request.count > 0 /\ Helpers \in 0 .. WorkerCount /\ Grain \in Nat \ {0}
  BY <1>0, HelpersRange DEF Shared, InCall
<1>1. /\ pc' \in [Threads -> PCs]
      /\ pc'[Caller] = "fetch" /\ Published'
      /\ \A w \in Workers : \/ pc'[w] = pc[w]
                            \/ pc[w] = "sleep" /\ pc'[w] = "wake"
  <2> DEFINE W == {w \in Workers : w < Helpers /\ sleeping[w]}
  <2>1. pc' = [Signalled(pc, W) EXCEPT ![Caller] = "fetch"]
    BY DEF Publish
  <2>2. W \subseteq Workers
    OBVIOUS
  <2> HIDE DEF W
  <2> QED
    BY <2>1, <2>2, <1>0, SignalledPlaces, CallerIsNoWorker DEF PCs, Published, Threads
<1>a. \A w \in Workers : ~AtWork(w) /\ ~AtWork(w)'
  BY <1>0, <1>1, NoneAtWork DEF AtWork, JobPCs
<1>3. /\ ticket'.generation = ticket.generation + 1
      /\ ticket' \in [generation : 0 .. Generations - 1, helpers : 0 .. WorkerCount]
      /\ ticket'.helpers = Helpers
  <2>1. /\ ticket.generation < calls /\ calls <= Generations - 2
        /\ ticket.generation \in Nat /\ calls \in Nat /\ Generations \in Nat
    BY <1>0, PoolAssumption DEF Tickets, TypeOK
  <2>2. NextGeneration = ticket.generation + 1
    BY <2>1 DEF NextGeneration
  <2> QED
    BY <2>1, <2>2, <1>2 DEF Publish
<1>4. TypeOK'
  BY <1>1, <1>3 DEF TypeOK, Publish, waitVars, jobVars
<1>5. Places'
  BY <1>0, <1>1 DEF Places, CallerPCs, Publish
<1>6. Tickets'
  <2>1. /\ ticket.generation \in Nat /\ calls \in Nat
        /\ \A w \in Workers : seen[w] \in Nat /\ now[w].generation \in Nat /\ w \in Int
    BY DEF TypeOK, Workers
  <2>2. ASSUME NEW w \in Workers, pc'[w] = "join"
        PROVE  /\ seen[w] < now[w].generation /\ now[w].generation < ticket'.generation
               /\ w >= now[w].helpers
    <3>1. pc[w] = "join"
      BY <2>2, <1>1
    <3>2. ~(w < ticket.helpers /\ seen[w] # ticket.generation)
      BY <1>0 DEF Owed, Owing, Owes
    <3> QED
      BY <3>1, <3>2, <2>1, <1>0, <1>3 DEF Tickets, TypeOK
  <2>3. now' = now /\ seen' = seen /\ stop' = stop /\ calls' = calls
    BY DEF Publish, waitVars
  <2> QED
    BY <2>1, <2>2, <2>3, <1>0, <1>1, <1>3 DEF Tickets
<1>7. Owed'
  <2>1. Owing' = 0 .. Helpers - 1
    <3>1. \A w \in Workers : Owes(w)' <=> w < Helpers
      <4> TAKE w \in Workers
      <4>1. seen'[w] # ticket'.generation
        BY <1>3 DEF Tickets, TypeOK, Publish, waitVars
      <4> QED
        BY <4>1, <1>a, <1>3, <1>0 DEF Owes, Publish
    <3>2. Helpers <= WorkerCount /\ WorkerCount \in Nat /\ Helpers \in Nat
      BY <1>2, PoolAssumption
    <3> QED
      BY <3>1, <3>2 DEF Owing, Workers
  <2>2. Cardinality(0 .. Helpers - 1) = Helpers
    BY <1>2, PoolAssumption, FS_Interval
  <2>3. Helpers' = Helpers /\ pending' = pending /\ spin' = spin
    BY DEF Helpers, Jobs, Grain, Publish, jobVars
  <2>4. pending = Helpers
    BY <1>0 DEF Owed
  <2> QED
    BY <2>1, <2>2, <2>3, <2>4, <1>0, <1>1, <1>2, <1>3, <1>a DEF Owed
<1>8. Shared'
  <2>1. \A p \in Threads : pc'[p] \notin {"check", "function", "leave", "wait", "doneWait"}
    BY NobodyDraws, <1>0, <1>1 DEF Threads
  <2>2. Grain' = Grain
    BY DEF Publish, Grain
  <2>3. UNCHANGED <<request, runs, count, grain, next>>
    BY DEF Publish, jobVars
  <2>4. \A i \in DOMAIN runs : ~(i < next)
    BY <1>0 DEF Shared, InCall
  <2> QED
    BY <2>1, <2>2, <2>3, <2>4, <1>0, <1>1 DEF Shared, InCall, Holds
<1> QED
  BY <1>4, <1>5, <1>6, <1>7, <1>8

\* The same with the flags of the workers.
LEMMA AssignKeeps ==
    ASSUME PoolInv, Assign
    PROVE  PoolInv'
<1> USE DEF PoolInv
<1>0. /\ pc[Caller] = "prepare" /\ ~spin /\ ~stop /\ ~Published
      /\ Caller \in Threads /\ pc \in [Threads -> PCs]
  BY DEF Assign, Published, TypeOK, Threads, Places
<1>1. /\ pc' \in [Threads -> PCs]
      /\ pc'[Caller] = "fetch" /\ Published'
      /\ \A w \in Workers : \/ pc'[w] = pc[w]
                            \/ pc[w] = "sleep" /\ pc'[w] = "wake"
  <2> DEFINE W == {w \in Workers : w < Helpers}
  <2>1. pc' = [Signalled(pc, W) EXCEPT ![Caller] = "fetch"]
    BY DEF Assign
  <2>2. W \subseteq Workers
    OBVIOUS
  <2> HIDE DEF W
  <2> QED
    BY <2>1, <2>2, <1>0, SignalledPlaces, CallerIsNoWorker DEF PCs, Published, Threads
<1>2. request.count > 0 /\ Helpers \in 0 .. WorkerCount /\ Grain \in Nat \ {0}
  BY <1>0, HelpersRange DEF Shared, InCall
<1>a. \A w \in Workers : ~AtWork(w) /\ ~AtWork(w)' /\ ~assigned[w]
  <2>1. Owing = {}
    BY <1>0 DEF Owed
  <2> QED
    BY <1>0, <1>1, <2>1, NoneAtWork DEF AtWork, JobPCs, Owing, Owes
<1>3. assigned' = [w \in Workers |-> w < Helpers] /\ assigned' \in [Workers -> BOOLEAN]
  BY <1>a DEF Assign
<1>4. TypeOK'
  <2>1. {next', count', grain'} \subseteq Nat /\ {active', pending'} \subseteq 0 .. WorkerCount
    BY <1>2 DEF Assign, TypeOK
  <2> QED
    BY <1>1, <1>3, <2>1 DEF TypeOK, Assign
<1>5. Places'
  BY <1>0, <1>1 DEF Places, CallerPCs, Assign
<1>6. Tickets'
  BY <1>0, <1>1 DEF Tickets, Assign
<1>7. Owed'
  <2>1. Owing' = 0 .. Helpers - 1
    <3>1. \A w \in Workers : Owes(w)' <=> w < Helpers
      BY <1>a, <1>3, <1>0 DEF Owes, Assign
    <3>2. Helpers <= WorkerCount /\ WorkerCount \in Nat /\ Helpers \in Nat
      BY <1>2, PoolAssumption
    <3> QED
      BY <3>1, <3>2 DEF Owing, Workers
  <2>2. Cardinality(0 .. Helpers - 1) = Helpers
    BY <1>2, PoolAssumption, FS_Interval
  <2>3. Helpers' = Helpers /\ active' = Helpers /\ spin' = spin /\ stop' = stop
    BY DEF Helpers, Jobs, Grain, Assign
  <2> QED
    BY <2>1, <2>2, <2>3, <1>0, <1>1, <1>2, <1>a DEF Owed
<1>8. Shared'
  <2>1. \A p \in Threads : pc'[p] \notin {"check", "function", "leave", "wait", "doneWait"}
    BY NobodyDraws, <1>0, <1>1 DEF Threads
  <2>2. Grain' = Grain
    BY DEF Assign, Grain
  <2>3. /\ UNCHANGED <<request, runs, range, calls>>
        /\ count' = request.count /\ grain' = Grain /\ next' = 0
    BY DEF Assign
  <2> QED
    BY <2>1, <2>2, <2>3, <1>0, <1>1 DEF Shared, InCall, Holds
<1> QED
  BY <1>4, <1>5, <1>6, <1>7, <1>8

\* The counter is zero when no worker owes anything.
LEMMA NothingOwed ==
    ASSUME PoolInv, Published, IF spin THEN pending = 0 ELSE active = 0
    PROVE  Owing = {}
<1>1. IsFiniteSet(Owing)
  <2>1. IsFiniteSet(Workers)
    BY PoolAssumption, FS_Interval DEF Workers
  <2> QED
    BY <2>1, FS_Subset DEF Owing
<1>2. Cardinality(Owing) = 0
  BY DEF PoolInv, Owed
<1> QED
  BY <1>1, <1>2, FS_EmptySet

\* All workers have left, so that every index was executed.
LEMMA AllExecuted ==
    ASSUME PoolInv, Return
    PROVE  /\ Owing = {}
           /\ \A i \in DOMAIN runs : runs[i] = 1
<1>1. pc[Caller] = "wait" /\ Published /\ Caller \in Threads
  BY DEF Return, Published, Threads
<1>2. Owing = {}
  BY <1>1, NothingOwed DEF Return
<1>3. \A p \in Threads : pc[p] \notin {"check", "function"}
  <2>1. \A w \in Workers : ~AtWork(w)
    BY <1>2 DEF Owing, Owes
  <2> QED
    BY <1>1, <2>1 DEF AtWork, JobPCs, Threads
<1>4. /\ next >= count /\ count = request.count /\ DOMAIN runs = 0 .. request.count - 1
      /\ next \in Nat /\ count \in Nat
      /\ \A i \in DOMAIN runs :
            runs[i] = IF i < next /\ ~(\E p \in Threads : Holds(p, i)) THEN 1 ELSE 0
  BY <1>1 DEF PoolInv, TypeOK, Shared, InCall
<1>5. \A i \in DOMAIN runs : i < next
  BY <1>4
<1> QED
  BY <1>2, <1>3, <1>4, <1>5 DEF Holds

\* The call returns when the counter says that nobody owes it anything.
LEMMA ReturnKeeps ==
    ASSUME PoolInv, Return
    PROVE  PoolInv'
<1> USE DEF PoolInv
<1>0. /\ pc[Caller] = "wait" /\ ~stop /\ Caller \in Threads
      /\ pc \in [Threads -> PCs] /\ pc' = [pc EXCEPT ![Caller] = "idle"]
  BY DEF Return, Goto, Published, TypeOK, Threads, Places
<1>1. /\ pc' \in [Threads -> PCs] /\ pc'[Caller] = "idle" /\ ~Published'
      /\ \A w \in Workers : pc'[w] = pc[w]
  BY <1>0, CallerIsNoWorker DEF PCs, Published, Threads
<1>2. Owing = {} /\ Owing' = {}
  <2>1. \A w \in Workers : Owes(w)' <=> Owes(w)
    BY <1>1 DEF Owes, AtWork, Return, waitVars
  <2> QED
    BY AllExecuted, <2>1 DEF Owing
<1>3. TypeOK'
  BY <1>1 DEF TypeOK, Return, jobVars, waitVars
<1>4. Places'
  BY <1>0, <1>1 DEF Places, CallerPCs, Return
<1>5. Tickets'
  BY <1>0, <1>1 DEF Tickets, Return, waitVars
<1>6. Owed'
  <2>1. \A w \in Workers : ~AtWork(w)'
    BY <1>2 DEF Owing, Owes
  <2> QED
    BY <1>0, <1>1, <1>2, <2>1 DEF Owed
<1>7. Shared'
  <2>1. \A p \in Threads : pc'[p] \notin {"check", "function", "leave", "wait", "doneWait"}
    <3>1. \A w \in Workers : ~AtWork(w) /\ pc[w] \notin {"wait", "doneWait"}
      BY <1>2 DEF Owing, Owes, Places, JobPCs
    <3> QED
      BY <3>1, <1>1 DEF AtWork, JobPCs, Threads
  <2> QED
    BY <2>1, <1>0, <1>1 DEF Shared, InCall, Return
<1> QED
  BY <1>3, <1>4, <1>5, <1>6, <1>7

\* Steps that leave the indices alone.
IndicesStay ==
    /\ UNCHANGED <<next, count, grain, range, request, calls, runs>>
    /\ \A p \in Threads : \A at \in {"check", "function"} : pc'[p] = at <=> pc[p] = at
    /\ \A p \in Threads : pc'[p] \in {"leave", "wait", "doneWait"} =>
                             pc[p] \in {"leave", "wait", "doneWait"}
    /\ (InCall' => InCall) /\ (Published' => Published)
    /\ \A at \in {"inline", "prepare", "publish", "returnInline"} :
          pc'[Caller] = at => pc[Caller] = at

\* Such a step keeps what is known of the indices.
LEMMA SharedStays ==
    ASSUME PoolInv, IndicesStay
    PROVE  Shared'
<1> USE DEF PoolInv
<1>1. Caller \in Threads /\ Grain' = Grain
  BY DEF Threads, Grain, IndicesStay
<1>2. \A p \in Threads : \A i \in DOMAIN runs : Holds(p, i)' <=> Holds(p, i)
  BY DEF IndicesStay, Holds
<1> QED
  BY <1>1, <1>2 DEF IndicesStay, Shared

\* Waiting for the last worker of the call changes no duty.
LEMMA WaitDoneKeeps ==
    ASSUME PoolInv, WaitDone
    PROVE  PoolInv'
<1> USE DEF PoolInv
<1>0. /\ pc[Caller] = "wait" /\ Caller \in Threads
      /\ pc \in [Threads -> PCs] /\ pc' = [pc EXCEPT ![Caller] = "doneWait"]
  BY DEF WaitDone, Goto, TypeOK, Threads
<1>1. /\ pc' \in [Threads -> PCs] /\ pc'[Caller] = "doneWait" /\ Published /\ Published'
      /\ InCall /\ InCall'
      /\ \A w \in Workers : pc'[w] = pc[w]
  BY <1>0, CallerIsNoWorker DEF PCs, Published, Threads, InCall
<1>2. TypeOK'
  BY <1>1 DEF TypeOK, WaitDone, jobVars, waitVars
<1>3. Places'
  BY <1>0, <1>1 DEF Places, CallerPCs, WaitDone
<1>4. Tickets'
  BY <1>0, <1>1 DEF Tickets, WaitDone, waitVars
<1>5. Owed'
  <2>1. DutiesStay
    BY <1>1 DEF DutiesStay, AtWork, WaitDone, waitVars, jobVars
  <2> QED
    BY <2>1, <1>1, OwedStays
<1>6. Shared'
  <2>1. IndicesStay
    BY <1>0, <1>1 DEF IndicesStay, WaitDone, jobVars, Threads
  <2> QED
    BY <2>1, SharedStays
<1> QED
  BY <1>2, <1>3, <1>4, <1>5, <1>6

\* A step of one thread between two places at work, which draws or executes indices.
WorksOn(p, from, to) ==
    /\ pc[p] = from /\ pc' = [pc EXCEPT ![p] = to]
    /\ UNCHANGED <<spin, stop, cap, ticket, pending, active, waitVars, request, calls>>

\* ... keeps the places, the tickets and the duties.
LEMMA WorkPlaces ==
    ASSUME PoolInv, NEW p \in Threads, NEW from, NEW to, WorksOn(p, from, to),
           from \in {"fetch", "check", "function"},
           to \in {"fetch", "check", "function"} \/ to = IF p = Caller THEN "wait" ELSE "leave"
    PROVE  /\ pc' \in [Threads -> PCs] /\ pc'[p] = to
           /\ \A q \in Threads \ {p} : pc'[q] = pc[q]
           /\ Published /\ Published' /\ InCall /\ InCall' /\ ~stop
           /\ Places' /\ Tickets' /\ Owed'
<1> USE DEF PoolInv
<1>1. /\ pc \in [Threads -> PCs] /\ to \in PCs /\ Caller \in Threads
      /\ Published /\ InCall
  BY WorkIsPublished DEF WorksOn, TypeOK, PCs, Threads, Published, InCall
<1>2. /\ pc' \in [Threads -> PCs] /\ pc'[p] = to
      /\ \A q \in Threads \ {p} : pc'[q] = pc[q]
  BY <1>1 DEF WorksOn
<1>3. Published' /\ InCall' /\ ~stop
  BY <1>1, <1>2 DEF Published, InCall, Places
<1>4. \A w \in Workers : w \in Threads /\ w # Caller
  BY CallerIsNoWorker DEF Threads
<1>5. \A w \in Workers : /\ AtWork(w)' <=> AtWork(w)
                         /\ ~AtWork(w) => pc'[w] = pc[w]
  BY <1>2, <1>4 DEF AtWork, JobPCs, WorksOn
<1>6. UNCHANGED <<spin, stop, seen, now, ticket, calls>>
  BY DEF WorksOn, waitVars
<1>7. Places'
  <2>1. pc'[Caller] \in {"fetch", "check", "function", "wait", "doneWait"}
    BY <1>3 DEF Published
  <2> QED
    BY <1>3, <1>5, <1>6, <2>1 DEF Places, CallerPCs, AtWork, JobPCs
<1>8. Tickets'
  <2>1. \A w \in Workers : pc'[w] = "join" => pc[w] = "join"
    BY <1>5 DEF AtWork, JobPCs
  <2>2. pc'[Caller] \notin {"prepare", "publish", "closing"}
    BY <1>3 DEF Published
  <2> QED
    BY <1>6, <2>1, <2>2 DEF Tickets
<1>9. Owed'
  <2>1. DutiesStay
    BY <1>5 DEF DutiesStay, WorksOn, waitVars
  <2>2. pc'[Caller] # "publish"
    BY <1>3 DEF Published
  <2> QED
    BY <2>1, <2>2, <1>1, <1>3, OwedStays
<1> QED
  BY <1>1, <1>2, <1>3, <1>7, <1>8, <1>9

\* The counter moves behind the indices that are drawn.
LEMMA FetchKeeps ==
    ASSUME PoolInv, NEW p \in Threads, Fetch(p)
    PROVE  PoolInv'
<1> USE DEF PoolInv
<1>1. WorksOn(p, "fetch", "check")
  BY DEF WorksOn, Fetch, Goto
<1>2. /\ pc' \in [Threads -> PCs] /\ pc'[p] = "check"
      /\ \A q \in Threads \ {p} : pc'[q] = pc[q]
      /\ Published /\ Published' /\ InCall /\ InCall' /\ ~stop
      /\ Places' /\ Tickets' /\ Owed'
  BY <1>1, WorkPlaces
<1>3. /\ next \in Nat /\ grain \in Nat \ {0} /\ grain = Grain
      /\ range \in [Threads -> [begin : Nat, end : Nat, call : 0 .. MaxCalls]]
      /\ calls \in 0 .. MaxCalls /\ count \in Nat
      /\ pc[p] = "fetch" /\ Caller \in Threads
  BY <1>2, HelpersRange DEF TypeOK, Shared, Threads, Fetch
<1>4. /\ range' \in [Threads -> [begin : Nat, end : Nat, call : 0 .. MaxCalls]]
      /\ range'[p].begin = next /\ range'[p].call = calls
      /\ \A q \in Threads \ {p} : range'[q] = range[q]
      /\ next' = next + grain
  BY <1>3 DEF Fetch
<1>5. TypeOK'
  BY <1>2, <1>3, <1>4 DEF TypeOK, Fetch, waitVars
<1>6. UNCHANGED <<count, grain, request, calls, runs>> /\ Grain' = Grain
  BY DEF Fetch, Grain
<1>7. Shared'
  <2>1. \A q \in Threads : q # p => range[q].begin \in Nat /\ range'[q].begin \in Nat
    BY <1>3, <1>4
  <2>2. \A q \in Threads : pc'[q] \in {"check", "function"} =>
          /\ range'[q].begin + grain <= next'
          /\ range'[q].call = calls
          /\ pc'[q] = "function" => range'[q].begin < count
                                   /\ range'[q].end = Least(range'[q].begin + grain, count)
    <3> TAKE q \in Threads
    <3>1. CASE q = p
      BY <3>1, <1>2, <1>3, <1>4
    <3>2. CASE q # p
      <4>1. pc[q] \in {"check", "function"} =>
          /\ range[q].begin + grain <= next
          /\ range[q].call = calls
          /\ pc[q] = "function" => range[q].begin < count
                                  /\ range[q].end = Least(range[q].begin + grain, count)
        BY DEF Shared
      <4>2. range'[q] = range[q] /\ pc'[q] = pc[q] /\ range[q].begin \in Nat
        BY <3>2, <2>1, <1>2, <1>4
      <4> QED
        BY <4>1, <4>2, <1>3, <1>4
    <3> QED
      BY <3>1, <3>2
  <2>3. \A q, o \in Threads :
          pc'[q] \in {"check", "function"} /\ pc'[o] \in {"check", "function"} /\ q # o =>
              \/ range'[q].begin + grain <= range'[o].begin
              \/ range'[o].begin + grain <= range'[q].begin
    <3>1. \A q \in Threads \ {p} : pc'[q] \in {"check", "function"} =>
             range'[q].begin + grain <= range'[p].begin
      BY <1>2, <1>4 DEF Shared
    <3> QED
      BY <3>1, <1>2, <1>4 DEF Shared
  <2>4. \A i \in DOMAIN runs :
          runs[i] = IF i < next' /\ ~(\E q \in Threads : Holds(q, i)') THEN 1 ELSE 0
    <3> TAKE i \in DOMAIN runs
    <3>1. i \in Int /\ runs[i] = IF i < next /\ ~(\E q \in Threads : Holds(q, i)) THEN 1 ELSE 0
      BY <1>2 DEF Shared, TypeOK
    <3>2. Holds(p, i)' <=> next <= i /\ i < next + grain
      BY <1>2, <1>4, <1>6 DEF Holds
    <3>3. \A q \in Threads \ {p} : Holds(q, i)' <=> Holds(q, i)
      BY <1>2, <1>4, <1>6 DEF Holds
    <3>4. ~Holds(p, i)
      BY <1>3 DEF Holds
    <3> QED
      BY <3>1, <3>2, <3>3, <3>4, <1>3, <1>4
  <2>5. \A q \in Threads : pc'[q] \in {"leave", "wait", "doneWait"} => next' >= count
    <3>1. \A q \in Threads : pc'[q] \in {"leave", "wait", "doneWait"} =>
             pc[q] \in {"leave", "wait", "doneWait"}
      BY <1>2
    <3>2. \A q \in Threads : pc[q] \in {"leave", "wait", "doneWait"} => next >= count
      BY DEF Shared
    <3>3. next >= count => next' >= count
      BY <1>3, <1>4
    <3> QED
      BY <3>1, <3>2, <3>3
  <2>6. pc'[Caller] \in {"fetch", "check", "function", "wait", "doneWait"}
    BY <1>2 DEF Published
  <2> QED
    BY <2>2, <2>3, <2>4, <2>5, <2>6, <1>2, <1>6 DEF Shared
<1> QED
  BY <1>2, <1>5, <1>7

\* The end of the indices is seen only when none is left, else the range is cut there.
LEMMA CheckKeeps ==
    ASSUME PoolInv, NEW p \in Threads, Check(p)
    PROVE  PoolInv'
<1> USE DEF PoolInv
<1>0. /\ pc[p] = "check" /\ Caller \in Threads /\ Published
      /\ UNCHANGED <<next, count, grain, request, calls, runs>> /\ Grain' = Grain
  BY WorkIsPublished DEF Check, jobVars, Threads, Grain
<1>1. /\ next \in Nat /\ count \in Nat /\ grain \in Nat \ {0} /\ grain = Grain
      /\ range \in [Threads -> [begin : Nat, end : Nat, call : 0 .. MaxCalls]]
      /\ InCall
  BY <1>0, HelpersRange DEF TypeOK, Shared, InCall, Published
<1>2. CASE Finished(range[p].begin)
  <2> DEFINE to == IF p = Caller THEN "wait" ELSE "leave"
  <2>1. WorksOn(p, "check", to) /\ range' = range
    BY <1>2 DEF WorksOn, Check, Goto, jobVars
  <2>2. /\ pc' \in [Threads -> PCs] /\ pc'[p] = to
        /\ \A q \in Threads \ {p} : pc'[q] = pc[q]
        /\ Published /\ Published' /\ InCall /\ InCall' /\ ~stop
        /\ Places' /\ Tickets' /\ Owed'
    BY <2>1, WorkPlaces
  <2>3. TypeOK'
    BY <2>1, <2>2 DEF TypeOK, Check, waitVars, jobVars
  <2>4. next >= count
    BY <1>0, <1>1, <1>2 DEF Shared, Finished
  <2>5. Shared'
    <3>1. \A i \in DOMAIN runs : \A q \in Threads : Holds(q, i)' <=> Holds(q, i)
      <4> TAKE i \in DOMAIN runs
      <4> TAKE q \in Threads
      <4>1. i \in Int /\ i < count
        BY <1>0, <1>1 DEF Shared, TypeOK
      <4>2. CASE q = p
        BY <4>1, <4>2, <1>0, <1>1, <1>2, <2>1, <2>2 DEF Holds, Finished
      <4>3. CASE q # p
        BY <4>3, <2>1, <2>2, <1>0 DEF Holds
      <4> QED
        BY <4>2, <4>3
    <3>2. pc'[Caller] \in {"fetch", "check", "function", "wait", "doneWait"}
      BY <2>2 DEF Published
    <3>3. \A q \in Threads : pc'[q] \in {"check", "function"} => pc'[q] = pc[q]
      BY <2>2
    <3> QED
      BY <3>1, <3>2, <3>3, <2>1, <2>2, <2>4, <1>0 DEF Shared
  <2> QED
    BY <2>2, <2>3, <2>5
<1>3. CASE ~Finished(range[p].begin)
  <2>1. WorksOn(p, "check", "function")
    BY <1>3 DEF WorksOn, Check, Goto, jobVars
  <2>2. /\ pc' \in [Threads -> PCs] /\ pc'[p] = "function"
        /\ \A q \in Threads \ {p} : pc'[q] = pc[q]
        /\ Published /\ Published' /\ InCall /\ InCall' /\ ~stop
        /\ Places' /\ Tickets' /\ Owed'
    BY <2>1, WorkPlaces
  <2>3. /\ range' \in [Threads -> [begin : Nat, end : Nat, call : 0 .. MaxCalls]]
        /\ range'[p].end = Least(range[p].begin + grain, count)
        /\ \A q \in Threads : /\ range'[q].begin = range[q].begin
                              /\ range'[q].call = range[q].call
                              /\ q # p => range'[q].end = range[q].end
    BY <1>1, <1>3 DEF Check, Least
  <2>4. TypeOK'
    BY <2>2, <2>3 DEF TypeOK, Check, waitVars, jobVars
  <2>5. Shared'
    <3>1. \A i \in DOMAIN runs : \A q \in Threads : Holds(q, i)' <=> Holds(q, i)
      BY <2>2, <2>3, <1>0 DEF Holds
    <3>2. pc'[Caller] \in {"fetch", "check", "function", "wait", "doneWait"}
      BY <2>2 DEF Published
    <3>3. range[p].begin < count
      BY <1>1, <1>3 DEF Finished
    <3>4. \A q \in Threads :
             /\ pc'[q] \in {"check", "function"} <=> pc[q] \in {"check", "function"}
             /\ q # p => pc'[q] = pc[q]
      BY <2>2, <1>0
    <3>5. \A q \in Threads : pc'[q] \in {"check", "function"} =>
          /\ range'[q].begin + grain <= next
          /\ range'[q].call = calls
          /\ pc'[q] = "function" => range'[q].begin < count
                                   /\ range'[q].end = Least(range'[q].begin + grain, count)
      BY <2>3, <3>3, <3>4 DEF Shared
    <3>6. \A q, o \in Threads :
          pc'[q] \in {"check", "function"} /\ pc'[o] \in {"check", "function"} /\ q # o =>
              \/ range'[q].begin + grain <= range'[o].begin
              \/ range'[o].begin + grain <= range'[q].begin
      BY <2>3, <3>4 DEF Shared
    <3>7. \A q \in Threads : pc'[q] \in {"leave", "wait", "doneWait"} => next >= count
      BY <2>2, <3>4 DEF Shared
    <3> QED
      BY <3>1, <3>2, <3>5, <3>6, <3>7, <2>2, <1>0 DEF Shared
  <2> QED
    BY <2>2, <2>4, <2>5
<1> QED
  BY <1>2, <1>3

\* What a thread executes has not been executed, and nobody else has it.
LEMMA HeldOnce ==
    ASSUME PoolInv, NEW p \in Threads, pc[p] = "function", NEW i \in DOMAIN runs
    PROVE  /\ i \in range[p].begin .. range[p].end - 1 <=> Holds(p, i)
           /\ Holds(p, i) => /\ i < next /\ runs[i] = 0
                             /\ \A q \in Threads \ {p} : ~Holds(q, i)
<1> USE DEF PoolInv
<1>1. /\ next \in Nat /\ count \in Nat /\ grain \in Nat \ {0} /\ Published /\ InCall
      /\ \A q \in Threads : range[q].begin \in Nat /\ range[q].end \in Nat
      /\ count = request.count
  BY WorkIsPublished, HelpersRange DEF TypeOK, Shared, InCall, Published
<1>2. i \in 0 .. count - 1
  BY <1>1 DEF Shared
<1>3. /\ range[p].begin + grain <= next
      /\ range[p].end = Least(range[p].begin + grain, count)
  BY DEF Shared
<1>4. i \in range[p].begin .. range[p].end - 1 <=> Holds(p, i)
  BY <1>1, <1>2, <1>3 DEF Holds, Least
<1>5. ASSUME Holds(p, i)
      PROVE  /\ i < next /\ runs[i] = 0
             /\ \A q \in Threads \ {p} : ~Holds(q, i)
  <2>1. i < next
    BY <1>5, <1>1, <1>2, <1>3 DEF Holds
  <2>2. runs[i] = 0
    BY <1>5, <1>1 DEF Shared
  <2>3. ASSUME NEW q \in Threads \ {p}, Holds(q, i)
        PROVE  FALSE
    <3>1. \/ range[p].begin + grain <= range[q].begin
          \/ range[q].begin + grain <= range[p].begin
      BY <2>3 DEF Shared, Holds
    <3> QED
      BY <3>1, <2>3, <1>5, <1>1, <1>2 DEF Holds
  <2> QED
    BY <2>1, <2>2, <2>3
<1> QED
  BY <1>4, <1>5

\* The caller executes all indices itself, or a thread those it holds.
LEMMA FunctionKeeps ==
    ASSUME PoolInv, NEW p \in Threads, Function(p)
    PROVE  PoolInv'
<1> USE DEF PoolInv
<1>0. /\ UNCHANGED <<next, count, grain, request, calls, range>> /\ Grain' = Grain
      /\ Caller \in Threads /\ DOMAIN runs' = DOMAIN runs
      /\ \A i \in DOMAIN runs :
            runs'[i] = IF i \in range[p].begin .. range[p].end - 1 THEN runs[i] + 1 ELSE runs[i]
  BY DEF Function, jobVars, Threads, Grain
<1>1. CASE pc[p] = "function"
  <2>1. WorksOn(p, "function", "fetch")
    BY <1>1 DEF WorksOn, Function, Goto, jobVars
  <2>2. /\ pc' \in [Threads -> PCs] /\ pc'[p] = "fetch"
        /\ \A q \in Threads \ {p} : pc'[q] = pc[q]
        /\ Published /\ Published' /\ InCall /\ InCall' /\ ~stop
        /\ Places' /\ Tickets' /\ Owed'
    BY <2>1, WorkPlaces
  <2>3. TypeOK'
    BY <2>2 DEF TypeOK, Function, waitVars, jobVars
  <2>4. Shared'
    <3>1. \A i \in DOMAIN runs :
             runs'[i] = IF i < next /\ ~(\E q \in Threads : Holds(q, i)') THEN 1 ELSE 0
      <4> TAKE i \in DOMAIN runs
      <4>1. ~Holds(p, i)'
        BY <2>2 DEF Holds
      <4>2. \A q \in Threads \ {p} : Holds(q, i)' <=> Holds(q, i)
        BY <2>2, <1>0 DEF Holds
      <4>3. runs[i] = IF i < next /\ ~(\E q \in Threads : Holds(q, i)) THEN 1 ELSE 0
        BY <2>2 DEF Shared
      <4>4. CASE Holds(p, i)
        BY <4>1, <4>2, <4>4, HeldOnce, <1>0, <1>1
      <4>5. CASE ~Holds(p, i)
        <5>1. runs'[i] = runs[i]
          BY <4>5, HeldOnce, <1>0, <1>1
        <5> QED
          BY <5>1, <4>1, <4>2, <4>3, <4>5
      <4> QED
        BY <4>4, <4>5
    <3>2. pc'[Caller] \in {"fetch", "check", "function", "wait", "doneWait"}
      BY <2>2 DEF Published
    <3>3. \A q \in Threads : pc'[q] \in {"check", "function", "leave", "wait", "doneWait"}
                                => q # p /\ pc'[q] = pc[q]
      BY <2>2
    <3> QED
      BY <3>1, <3>2, <3>3, <2>2, <1>0 DEF Shared
  <2> QED
    BY <2>2, <2>3, <2>4
<1>2. CASE pc[p] = "inline"
  <2>1. p = Caller
    BY <1>2 DEF Places, JobPCs, Threads
  <2>2. /\ pc \in [Threads -> PCs] /\ pc' = [pc EXCEPT ![Caller] = "returnInline"]
    BY <1>2, <2>1 DEF Function, Goto, TypeOK
  <2>3. /\ pc' \in [Threads -> PCs] /\ pc'[Caller] = "returnInline"
        /\ \A w \in Workers : pc'[w] = pc[w]
        /\ ~Published /\ ~Published' /\ InCall /\ InCall' /\ ~stop
    BY <2>1, <2>2, <1>0, <1>2, CallerIsNoWorker DEF PCs, Threads, Published, InCall, Places
  <2>4. TypeOK'
    BY <2>3 DEF TypeOK, Function, waitVars, jobVars
  <2>5. Places'
    BY <2>3 DEF Places, CallerPCs, Function
  <2>6. Tickets'
    BY <2>3 DEF Tickets, Function, waitVars
  <2>7. Owed'
    <3>1. DutiesStay
      BY <2>3 DEF DutiesStay, AtWork, Function, waitVars, jobVars
    <3> QED
      BY <3>1, <2>3, OwedStays
  <2>8. Shared'
    <3>1. \A q \in Threads : pc'[q] \notin {"check", "function", "leave", "wait", "doneWait"}
      BY NobodyDraws, <2>3 DEF Threads
    <3>2. \A i \in DOMAIN runs : runs'[i] = 1
      <4> TAKE i \in DOMAIN runs
      <4>1. /\ request.count \in Nat /\ DOMAIN runs = 0 .. request.count - 1 /\ runs[i] = 0
            /\ range[Caller].begin = 0 /\ range[Caller].end = request.count
        BY <1>2, <2>1, <2>3 DEF Shared, TypeOK
      <4> QED
        BY <4>1, <2>1, <1>0
    <3> QED
      BY <3>1, <3>2, <2>3, <1>0 DEF Shared
  <2> QED
    BY <2>4, <2>5, <2>6, <2>7, <2>8
<1> QED
  BY <1>1, <1>2 DEF Function

\* A call the caller has executed alone returns.
LEMMA ReturnInlineKeeps ==
    ASSUME PoolInv, ReturnInline
    PROVE  PoolInv'
<1> USE DEF PoolInv
<1>1. /\ pc' \in [Threads -> PCs] /\ pc[Caller] = "returnInline" /\ pc'[Caller] = "idle"
      /\ \A w \in Workers : pc'[w] = pc[w]
      /\ ~Published /\ ~Published' /\ InCall /\ ~InCall' /\ ~stop /\ Caller \in Threads
  BY CallerIsNoWorker
     DEF ReturnInline, Goto, TypeOK, PCs, Threads, Published, InCall, Places
<1>2. TypeOK'
  BY <1>1 DEF TypeOK, ReturnInline, waitVars, jobVars
<1>3. Places'
  BY <1>1 DEF Places, CallerPCs, ReturnInline
<1>4. Tickets'
  BY <1>1 DEF Tickets, ReturnInline, waitVars
<1>5. Owed'
  <2>1. DutiesStay
    BY <1>1 DEF DutiesStay, AtWork, ReturnInline, waitVars, jobVars
  <2> QED
    BY <2>1, <1>1, OwedStays
<1>6. Shared'
  <2>1. IndicesStay
    BY <1>1 DEF IndicesStay, ReturnInline, jobVars, Threads
  <2> QED
    BY <2>1, SharedStays
<1> QED
  BY <1>2, <1>3, <1>4, <1>5, <1>6

\* A worker goes from one place outside of the job to another one, or to the job.
LEMMA WorkerGoes ==
    ASSUME PoolInv, NEW w \in Workers, NEW to \in PCs, pc' = [pc EXCEPT ![w] = to]
    PROVE  /\ w \in Threads /\ w # Caller /\ Caller \in Threads
           /\ pc' \in [Threads -> PCs] /\ pc'[w] = to
           /\ \A q \in Threads \ {w} : pc'[q] = pc[q]
           /\ \A v \in Workers \ {w} : pc'[v] = pc[v]
           /\ pc'[Caller] = pc[Caller]
           /\ Published' <=> Published
           /\ InCall' <=> InCall
<1>1. w \in Threads /\ w # Caller /\ Caller \in Threads /\ pc \in [Threads -> PCs]
  BY CallerIsNoWorker DEF PoolInv, TypeOK, Threads
<1>2. /\ pc' \in [Threads -> PCs] /\ pc'[w] = to
      /\ \A q \in Threads \ {w} : pc'[q] = pc[q]
  BY <1>1
<1>3. pc'[Caller] = pc[Caller]
  BY <1>1, <1>2
<1> QED
  BY <1>1, <1>2, <1>3 DEF Published, InCall, Threads

\* ... keeps what is known of the indices.
LEMMA WorkerShared ==
    ASSUME PoolInv, NEW w \in Workers, NEW to \in PCs, pc' = [pc EXCEPT ![w] = to],
           pc[w] \notin {"check", "function"},
           to \notin {"check", "function", "leave", "wait", "doneWait"},
           UNCHANGED <<next, count, grain, range, request, calls, runs>>
    PROVE  Shared'
<1>1. IndicesStay
  BY WorkerGoes DEF IndicesStay
<1> QED
  BY <1>1, SharedStays

\* A worker takes its assignment: it owed the flag, now it owes its work.
LEMMA TopKeeps ==
    ASSUME PoolInv, NEW w \in Workers, Top(w)
    PROVE  PoolInv'
<1> USE DEF PoolInv
<1> DEFINE to == IF stop THEN "exited" ELSE IF assigned[w] THEN "fetch" ELSE "sleep"
<1>1. /\ pc' = [pc EXCEPT ![w] = to] /\ to \in PCs /\ ~spin
      /\ to \in {"exited", "fetch", "sleep"} /\ pc[w] \in {"top", "wake"}
      /\ UNCHANGED <<spin, stop, cap, ticket, jobVars, sleeping, seen, now, range, request,
                   calls, runs>>
  BY DEF Top, NextAssignment, PCs
<1>2. /\ w \in Threads /\ w # Caller /\ Caller \in Threads
      /\ pc' \in [Threads -> PCs] /\ pc'[w] = to
      /\ \A v \in Workers \ {w} : pc'[v] = pc[v]
      /\ pc'[Caller] = pc[Caller]
      /\ Published' <=> Published
      /\ InCall' <=> InCall
  BY <1>1, WorkerGoes
<1>3. /\ assigned' \in [Workers -> BOOLEAN]
      /\ assigned'[w] <=> assigned[w] /\ stop
      /\ \A v \in Workers \ {w} : assigned'[v] = assigned[v]
  BY DEF Top, NextAssignment, TypeOK
<1>4. TypeOK'
  BY <1>1, <1>2, <1>3 DEF TypeOK, jobVars
<1>5. Places'
  BY <1>1, <1>2 DEF Places, JobPCs
<1>6. Tickets'
  BY <1>1, <1>2 DEF Tickets
<1>7. Owed'
  <2>1. ~AtWork(w) /\ ~(to = "fetch" /\ stop) /\ \A v \in Workers \ {w} : AtWork(v)' <=> AtWork(v)
    BY <1>1, <1>2 DEF AtWork, JobPCs
  <2>2. AtWork(w)' <=> ~stop /\ assigned[w]
    BY <1>2 DEF AtWork, JobPCs
  <2>3. \A v \in Workers : AtWork(v)' => ~stop /\ ~assigned'[v]
    BY <2>1, <2>2, <1>1, <1>3 DEF Owed
  <2>4. ~stop => Owing' = Owing
    <3>1. ~stop => \A v \in Workers : Owes(v)' <=> Owes(v)
      BY <2>1, <2>2, <1>1, <1>3 DEF Owes
    <3> QED
      BY <3>1 DEF Owing
  <2>5. Published => ~stop
    BY DEF Published, Places
  <2>6. Helpers' = Helpers
    BY <1>1 DEF Helpers, Jobs, Grain
  <2>7. ~stop => Cardinality(Owing') = Cardinality(Owing)
    BY <2>4
  <2> QED
    BY <2>3, <2>4, <2>5, <2>6, <2>7, <1>1, <1>2 DEF Owed, jobVars
<1>8. Shared'
  BY <1>1, <1>2, WorkerShared DEF jobVars
<1> QED
  BY <1>4, <1>5, <1>6, <1>7, <1>8

\* One worker less owes its work.
LEMMA OneLeaves ==
    ASSUME PoolInv, NEW w \in Workers, pc[w] = "leave", Owing' = Owing \ {w}
    PROVE  /\ Published /\ ~stop
           /\ IF spin THEN pending \in 1 .. WorkerCount ELSE active \in 1 .. WorkerCount
           /\ Cardinality(Owing') = (IF spin THEN pending ELSE active) - 1
<1> USE DEF PoolInv
<1>1. Published /\ ~stop /\ w \in Owing
  BY WorkIsPublished DEF Threads, Owing, Owes, AtWork, JobPCs, Owed
<1>2. IsFiniteSet(Owing)
  <2>1. IsFiniteSet(Workers)
    BY PoolAssumption, FS_Interval DEF Workers
  <2> QED
    BY <2>1, FS_Subset DEF Owing
<1>3. Cardinality(Owing) = IF spin THEN pending ELSE active
  BY <1>1 DEF Owed
<1>4. Cardinality(Owing \ {w}) = Cardinality(Owing) - 1
  BY <1>1, <1>2, FS_RemoveElement
<1>5. IsFiniteSet(Owing \ {w})
  BY <1>2, FS_Subset
<1>6. Cardinality(Owing \ {w}) \in Nat
  BY <1>5, FS_CardinalityType
<1> QED
  BY <1>1, <1>3, <1>4, <1>6, PoolAssumption DEF TypeOK

\* Condition variable mode: the last worker to leave wakes the caller.
LEMMA LeaveKeeps ==
    ASSUME PoolInv, NEW w \in Workers, Leave(w)
    PROVE  PoolInv'
<1> USE DEF PoolInv
<1>0. /\ pc[w] = "leave" /\ ~spin /\ active' = active - 1
      /\ UNCHANGED <<spin, stop, cap, ticket, count, grain, pending, next, sleeping, seen, now,
                   range, request, calls, runs>>
      /\ w \in Threads /\ w # Caller /\ Caller \in Threads /\ pc \in [Threads -> PCs]
      /\ assigned \in [Workers -> BOOLEAN]
  BY CallerIsNoWorker DEF Leave, Threads, TypeOK
<1>1. ~stop /\ ~assigned[w] /\ Published
  BY <1>0, WorkIsPublished DEF Owed, AtWork, JobPCs
<1>2. assigned' = assigned
  BY <1>0, <1>1 DEF Leave, NextAssignment
<1>5. /\ pc' \in [Threads -> PCs] /\ pc'[w] = "sleep"
      /\ \A v \in Workers \ {w} : pc'[v] = pc[v]
      /\ \/ pc'[Caller] = pc[Caller]
         \/ pc[Caller] = "doneWait" /\ pc'[Caller] = "wait"
  <2>1. CASE active = 1 /\ pc[Caller] = "doneWait"
    <3>1. pc' = [[pc EXCEPT ![Caller] = "wait"] EXCEPT ![w] = "sleep"]
      BY <2>1, <1>0, <1>1 DEF Leave, NextAssignment
    <3> QED
      BY <3>1, <2>1, <1>0, CallerIsNoWorker DEF PCs, Threads
  <2>2. CASE ~(active = 1 /\ pc[Caller] = "doneWait")
    <3>1. pc' = [pc EXCEPT ![w] = "sleep"]
      BY <2>2, <1>0, <1>1 DEF Leave, NextAssignment
    <3> QED
      BY <3>1, <1>0, CallerIsNoWorker DEF PCs, Threads
  <2> QED
    BY <2>1, <2>2
<1>6. Published' /\ InCall /\ InCall'
  BY <1>1, <1>5 DEF Published, InCall
<1>7. Owing' = Owing \ {w}
  <2>1. \A v \in Workers : Owes(v)' <=> v # w /\ Owes(v)
    BY <1>0, <1>1, <1>2, <1>5 DEF Owes, AtWork, JobPCs
  <2> QED
    BY <2>1 DEF Owing
<1>8. active' \in 0 .. WorkerCount /\ Cardinality(Owing') = active'
  <2>1. active \in 1 .. WorkerCount /\ Cardinality(Owing') = active - 1
    BY <1>0, <1>7, OneLeaves
  <2> QED
    BY <2>1, <1>0, PoolAssumption
<1>9. TypeOK'
  BY <1>0, <1>2, <1>5, <1>8 DEF TypeOK
<1>10. Places'
  BY <1>0, <1>1, <1>5, <1>6 DEF Places, CallerPCs, Published
<1>11. Tickets'
  BY <1>0, <1>5 DEF Tickets
<1>12. Owed'
  <2>1. Helpers' = Helpers
    BY <1>0 DEF Helpers, Jobs, Grain
  <2>2. \A v \in Workers : AtWork(v)' => AtWork(v)
    BY <1>5 DEF AtWork, JobPCs
  <2>3. pc'[Caller] # "publish"
    BY <1>6 DEF Published
  <2> QED
    BY <2>1, <2>2, <2>3, <1>0, <1>1, <1>2, <1>6, <1>7, <1>8 DEF Owed
<1>13. Shared'
  <2>1. IndicesStay
    BY <1>0, <1>1, <1>5, <1>6 DEF IndicesStay, Threads
  <2> QED
    BY <2>1, SharedStays
<1> QED
  BY <1>9, <1>10, <1>11, <1>12, <1>13

\* Spin mode: a worker leaves and polls again.
LEMMA LeaveSpinKeeps ==
    ASSUME PoolInv, NEW w \in Workers, LeaveSpin(w)
    PROVE  PoolInv'
<1> USE DEF PoolInv
<1>0. /\ pc[w] = "leave" /\ spin /\ pending' = pending - 1
      /\ pc' = [pc EXCEPT ![w] = "poll"] /\ "poll" \in PCs
      /\ UNCHANGED <<spin, stop, cap, ticket, count, grain, active, next, waitVars, range,
                   request, calls, runs>>
  BY DEF LeaveSpin, Goto, PCs
<1>1. /\ w \in Threads /\ w # Caller /\ Caller \in Threads
      /\ pc' \in [Threads -> PCs] /\ pc'[w] = "poll"
      /\ \A v \in Workers \ {w} : pc'[v] = pc[v]
      /\ pc'[Caller] = pc[Caller]
      /\ Published' <=> Published
      /\ InCall' <=> InCall
  BY <1>0, WorkerGoes
<1>2. ~stop /\ Published /\ seen[w] = ticket.generation
  BY <1>0, <1>1, WorkIsPublished DEF Owed, AtWork, JobPCs
<1>3. Owing' = Owing \ {w}
  <2>1. \A v \in Workers : Owes(v)' <=> v # w /\ Owes(v)
    BY <1>0, <1>1, <1>2 DEF Owes, AtWork, JobPCs, waitVars
  <2> QED
    BY <2>1 DEF Owing
<1>4. pending' \in 0 .. WorkerCount /\ Cardinality(Owing') = pending'
  <2>1. pending \in 1 .. WorkerCount /\ Cardinality(Owing') = pending - 1
    BY <1>0, <1>3, OneLeaves
  <2> QED
    BY <2>1, <1>0, PoolAssumption
<1>5. TypeOK'
  BY <1>0, <1>1, <1>4 DEF TypeOK, waitVars
<1>6. Places'
  BY <1>0, <1>1 DEF Places
<1>7. Tickets'
  BY <1>0, <1>1 DEF Tickets, waitVars
<1>8. Owed'
  <2>1. Helpers' = Helpers
    BY <1>0 DEF Helpers, Jobs, Grain
  <2>2. \A v \in Workers : AtWork(v)' => AtWork(v)
    BY <1>1 DEF AtWork, JobPCs
  <2>3. pc'[Caller] # "publish"
    BY <1>1, <1>2 DEF Published
  <2> QED
    BY <2>1, <2>2, <2>3, <1>0, <1>1, <1>2, <1>3, <1>4 DEF Owed, waitVars
<1>9. Shared'
  BY <1>0, WorkerShared
<1> QED
  BY <1>5, <1>6, <1>7, <1>8, <1>9

\* A worker that polls reads a ticket newer than its last one.
LEMMA PollKeeps ==
    ASSUME PoolInv, NEW w \in Workers, Poll(w)
    PROVE  PoolInv'
<1> USE DEF PoolInv
<1>0. /\ pc[w] = "poll" /\ NewTicket(w)
      /\ pc' = [pc EXCEPT ![w] = "join"] /\ "join" \in PCs
      /\ UNCHANGED <<spin, stop, cap, ticket, jobVars, assigned, sleeping, seen, range, request,
                   calls, runs>>
      /\ now' = [now EXCEPT ![w] = ticket]
  BY DEF Poll, Goto, PCs
<1>1. /\ w \in Threads /\ w # Caller /\ Caller \in Threads
      /\ pc' \in [Threads -> PCs] /\ pc'[w] = "join"
      /\ \A v \in Workers \ {w} : pc'[v] = pc[v]
      /\ pc'[Caller] = pc[Caller]
      /\ Published' <=> Published
      /\ InCall' <=> InCall
  BY <1>0, WorkerGoes
<1>2. /\ now' \in [Workers -> [generation : 0 .. Generations - 1, helpers : 0 .. WorkerCount]]
      /\ now'[w] = ticket /\ \A v \in Workers \ {w} : now'[v] = now[v]
  BY <1>0 DEF TypeOK
<1>3. TypeOK'
  BY <1>0, <1>1, <1>2 DEF TypeOK, jobVars
<1>4. Places'
  BY <1>0, <1>1 DEF Places, JobPCs
<1>5. Tickets'
  <2>1. seen[w] < ticket.generation
    <3>1. seen[w] \in Nat /\ ticket.generation \in Nat
      BY DEF TypeOK
    <3>2. seen[w] <= ticket.generation
      BY DEF Tickets
    <3> QED
      BY <3>1, <3>2, <1>0 DEF NewTicket
  <2>2. ticket.generation \in Nat
    BY DEF TypeOK
  <2> QED
    BY <2>1, <2>2, <1>0, <1>1, <1>2 DEF Tickets
<1>6. Owed'
  <2>1. DutiesStay
    BY <1>0, <1>1 DEF DutiesStay, AtWork, JobPCs, jobVars
  <2> QED
    BY <2>1, <1>1, OwedStays
<1>7. Shared'
  BY <1>0, WorkerShared DEF jobVars
<1> QED
  BY <1>3, <1>4, <1>5, <1>6, <1>7

\* Its patience ends.
LEMMA GiveUpKeeps ==
    ASSUME PoolInv, NEW w \in Workers, GiveUp(w)
    PROVE  PoolInv'
<1> USE DEF PoolInv
<1>0. /\ pc[w] = "poll" /\ pc' = [pc EXCEPT ![w] = "park"] /\ "park" \in PCs
      /\ UNCHANGED <<spin, stop, cap, ticket, jobVars, waitVars, range, request, calls, runs>>
  BY DEF GiveUp, Goto, PCs
<1>1. /\ w \in Threads /\ w # Caller /\ Caller \in Threads
      /\ pc' \in [Threads -> PCs] /\ pc'[w] = "park"
      /\ \A v \in Workers \ {w} : pc'[v] = pc[v]
      /\ pc'[Caller] = pc[Caller]
      /\ Published' <=> Published
      /\ InCall' <=> InCall
  BY <1>0, WorkerGoes
<1>2. TypeOK'
  BY <1>0, <1>1 DEF TypeOK, jobVars, waitVars
<1>3. Places'
  BY <1>0, <1>1 DEF Places, JobPCs
<1>4. Tickets'
  BY <1>0, <1>1 DEF Tickets, waitVars
<1>5. Owed'
  <2>1. DutiesStay
    BY <1>0, <1>1 DEF DutiesStay, AtWork, JobPCs, jobVars, waitVars
  <2> QED
    BY <2>1, <1>1, OwedStays
<1>6. Shared'
  BY <1>0, WorkerShared DEF jobVars
<1> QED
  BY <1>2, <1>3, <1>4, <1>5, <1>6

\* A worker parks unless there is a ticket, and wakes only with one or for the end.
LEMMA ParkKeeps ==
    ASSUME PoolInv, NEW w \in Workers, Park(w)
    PROVE  PoolInv'
<1> USE DEF PoolInv
<1> DEFINE to == IF ~stop /\ ~NewTicket(w) THEN "sleep" ELSE IF stop THEN "exited" ELSE "join"
<1>0. /\ pc[w] \in {"park", "wake"} /\ spin
      /\ pc' = [pc EXCEPT ![w] = to]
      /\ to \in PCs /\ to \in {"sleep", "exited", "join"}
      /\ to = "exited" => stop
      /\ to = "join" => NewTicket(w) /\ now' = [now EXCEPT ![w] = ticket]
      /\ UNCHANGED <<spin, stop, cap, ticket, jobVars, assigned, seen, range, request, calls, runs>>
  BY DEF Park, Goto, PCs
<1>1. /\ w \in Threads /\ w # Caller /\ Caller \in Threads
      /\ pc' \in [Threads -> PCs] /\ pc'[w] = to
      /\ \A v \in Workers \ {w} : pc'[v] = pc[v]
      /\ pc'[Caller] = pc[Caller]
      /\ Published' <=> Published
      /\ InCall' <=> InCall
  BY <1>0, WorkerGoes
<1>2. /\ now' \in [Workers -> [generation : 0 .. Generations - 1, helpers : 0 .. WorkerCount]]
      /\ sleeping' \in [Workers -> BOOLEAN]
      /\ \A v \in Workers \ {w} : now'[v] = now[v]
  <2>1. CASE ~stop /\ ~NewTicket(w)
    BY <2>1 DEF Park, TypeOK
  <2>2. CASE ~(~stop /\ ~NewTicket(w))
    <3>1. /\ now' = [now EXCEPT ![w] = ticket]
          /\ sleeping' = [sleeping EXCEPT ![w] = FALSE]
      BY <2>2 DEF Park
    <3> QED
      BY <3>1 DEF TypeOK
  <2> QED
    BY <2>1, <2>2
<1> HIDE DEF to
<1>3. TypeOK'
  BY <1>0, <1>1, <1>2 DEF TypeOK, jobVars
<1>4. Places'
  BY <1>0, <1>1 DEF Places, JobPCs
<1>5. Tickets'
  <2>1. pc'[w] = "join" => now'[w] = ticket /\ seen[w] < ticket.generation
    <3>1. seen[w] \in Nat /\ ticket.generation \in Nat /\ now \in [Workers ->
             [generation : 0 .. Generations - 1, helpers : 0 .. WorkerCount]]
      BY DEF TypeOK
    <3>2. seen[w] <= ticket.generation
      BY DEF Tickets
    <3> QED
      BY <3>1, <3>2, <1>0, <1>1 DEF NewTicket
  <2>2. ticket.generation \in Nat
    BY DEF TypeOK
  <2> QED
    BY <2>1, <2>2, <1>0, <1>1, <1>2 DEF Tickets
<1>6. Owed'
  <2>1. DutiesStay
    BY <1>0, <1>1 DEF DutiesStay, AtWork, JobPCs, jobVars
  <2> QED
    BY <2>1, <1>1, OwedStays
<1>7. Shared'
  BY <1>0, WorkerShared DEF jobVars
<1> QED
  BY <1>3, <1>4, <1>5, <1>6, <1>7

\* A worker joins only for the present ticket, and then it owes its work.
LEMMA JoinKeeps ==
    ASSUME PoolInv, NEW w \in Workers, Join(w)
    PROVE  PoolInv'
<1> USE DEF PoolInv
<1> DEFINE to == IF stop THEN "exited" ELSE IF w < now[w].helpers THEN "fetch" ELSE "poll"
<1>0. /\ pc[w] = "join"
      /\ pc' = [pc EXCEPT ![w] = to]
      /\ to \in PCs /\ to \in {"exited", "fetch", "poll"}
      /\ UNCHANGED <<spin, stop, cap, ticket, jobVars, assigned, sleeping, now, range, request,
                   calls, runs>>
  BY DEF Join, Goto, PCs
<1>1. /\ w \in Threads /\ w # Caller /\ Caller \in Threads
      /\ pc' \in [Threads -> PCs] /\ pc'[w] = to
      /\ \A v \in Workers \ {w} : pc'[v] = pc[v]
      /\ pc'[Caller] = pc[Caller]
      /\ Published' <=> Published
      /\ InCall' <=> InCall
  BY <1>0, WorkerGoes
<1>2. /\ seen' \in [Workers -> 0 .. Generations - 1]
      /\ seen'[w] = now[w].generation
      /\ \A v \in Workers \ {w} : seen'[v] = seen[v]
  BY DEF Join, TypeOK
<1>3. spin
  BY <1>0 DEF Places, JobPCs
<1>4. TypeOK'
  BY <1>0, <1>1, <1>2 DEF TypeOK, jobVars
<1>5. Places'
  BY <1>0, <1>1, <1>3 DEF Places, JobPCs
<1>6. /\ seen[w] < now[w].generation /\ now[w].generation <= ticket.generation
      /\ now[w].generation = ticket.generation => now[w].helpers = ticket.helpers
      /\ now[w].generation # ticket.generation => stop \/ w >= now[w].helpers
      /\ now[w] \in [generation : 0 .. Generations - 1, helpers : 0 .. WorkerCount]
      /\ seen[w] \in Nat /\ ticket.generation \in Nat /\ w \in Int /\ ~AtWork(w)
  BY <1>0 DEF Tickets, TypeOK, Workers, AtWork, JobPCs
<1>7. Tickets'
  BY <1>0, <1>1, <1>2, <1>6 DEF Tickets
<1>8. Owed'
  <2>1. AtWork(w)' <=> ~stop /\ w < now[w].helpers
    BY <1>1 DEF AtWork, JobPCs
  <2>2. AtWork(w)' => seen'[w] = ticket.generation /\ w < ticket.helpers
    BY <2>1, <1>2, <1>6
  <2>3. \A v \in Workers : AtWork(v)' => ~stop /\ seen'[v] = ticket.generation
    BY <2>1, <2>2, <1>0, <1>1, <1>2, <1>3 DEF Owed, AtWork
  <2>4. ~stop => Owing' = Owing
    <3>1. ~stop => (Owes(w)' <=> Owes(w))
      BY <2>1, <2>2, <1>0, <1>2, <1>3, <1>6 DEF Owes
    <3>2. \A v \in Workers \ {w} : Owes(v)' <=> Owes(v)
      BY <1>0, <1>1, <1>2 DEF Owes, AtWork
    <3> QED
      BY <3>1, <3>2 DEF Owing
  <2>5. Published => ~stop
    BY DEF Published, Places
  <2>6. Helpers' = Helpers
    BY <1>0 DEF Helpers, Jobs, Grain
  <2>7. ~stop => Cardinality(Owing') = Cardinality(Owing)
    BY <2>4
  <2> QED
    BY <2>3, <2>4, <2>5, <2>6, <2>7, <1>0, <1>1, <1>3 DEF Owed, jobVars
<1>9. Shared'
  BY <1>0, WorkerShared DEF jobVars
<1> QED
  BY <1>4, <1>5, <1>7, <1>8, <1>9

\* Between calls the cap may change.
LEMMA SetCapKeeps ==
    ASSUME PoolInv, NEW threads \in Limits, SetCap(threads)
    PROVE  PoolInv'
<1> USE DEF PoolInv
<1>1. /\ pc[Caller] = "idle"
      /\ UNCHANGED <<spin, stop, ticket, jobVars, waitVars, pc, range, request, calls, runs>>
      /\ ~Published /\ ~Published' /\ ~InCall /\ ~InCall' /\ ~stop
  BY DEF SetCap, Published, InCall, Places
<1>2. cap' \in 1 .. WorkerCount + 1
  BY PoolAssumption DEF SetCap
<1>3. TypeOK'
  BY <1>1, <1>2 DEF TypeOK, jobVars, waitVars
<1>4. Places'
  BY <1>1 DEF Places
<1>5. Tickets'
  BY <1>1 DEF Tickets, waitVars
<1>6. Owed'
  <2>1. \A w \in Workers : (Owes(w)' <=> Owes(w)) /\ (AtWork(w)' <=> AtWork(w))
    BY <1>1 DEF Owes, AtWork, waitVars
  <2>2. Owing' = Owing
    BY <2>1 DEF Owing
  <2> QED
    BY <2>1, <2>2, <1>1 DEF Owed, waitVars
<1>7. Shared'
  <2>1. IndicesStay
    BY <1>1 DEF IndicesStay, jobVars
  <2> QED
    BY <2>1, SharedStays
<1> QED
  BY <1>3, <1>4, <1>5, <1>6, <1>7

\* The pool is destroyed between calls: nobody is at work.
LEMMA DestroyKeeps ==
    ASSUME PoolInv, Destroy
    PROVE  PoolInv'
<1> USE DEF PoolInv
<1>1. /\ pc[Caller] = "idle" /\ pc'[Caller] = "closing" /\ stop' /\ stop' \in BOOLEAN
      /\ pc' \in [Threads -> PCs] /\ \A w \in Workers : pc'[w] = pc[w]
      /\ UNCHANGED <<spin, cap, ticket, jobVars, waitVars, range, request, calls, runs>>
      /\ ~Published /\ ~Published' /\ ~InCall /\ ~InCall' /\ ~stop /\ Caller \in Threads
  BY CallerIsNoWorker
     DEF Destroy, Goto, TypeOK, PCs, Threads, Published, InCall, Places
<1>2. TypeOK'
  BY <1>1 DEF TypeOK, jobVars, waitVars
<1>3. Places'
  BY <1>1 DEF Places, CallerPCs
<1>4. Tickets'
  BY <1>1 DEF Tickets, waitVars, TypeOK
<1>5. Owed'
  <2>1. \A w \in Workers : ~AtWork(w)'
    BY <1>1, NoneAtWork DEF AtWork
  <2> QED
    BY <2>1, <1>1 DEF Owed
<1>6. Shared'
  <2>1. IndicesStay
    BY <1>1 DEF IndicesStay, jobVars, Threads
  <2> QED
    BY <2>1, SharedStays
<1> QED
  BY <1>2, <1>3, <1>4, <1>5, <1>6

\* The ticket of the end asks for no work.
LEMMA WakeForStopKeeps ==
    ASSUME PoolInv, WakeForStop
    PROVE  PoolInv'
<1> USE DEF PoolInv
<1>1. /\ pc[Caller] = "closing" /\ stop /\ Caller \in Threads /\ pc \in [Threads -> PCs]
      /\ UNCHANGED <<spin, stop, cap, jobVars, sleeping, seen, now, range, request, calls, runs>>
  BY DEF WakeForStop, Places, Threads, TypeOK
<1>2. /\ pc' \in [Threads -> PCs]
      /\ pc'[Caller] = "joining" /\ ~Published /\ ~Published' /\ ~InCall /\ ~InCall'
      /\ \A w \in Workers : \/ pc'[w] = pc[w]
                            \/ pc[w] = "sleep" /\ pc'[w] = "wake"
  <2>1. pc' = [Signalled(pc, Workers) EXCEPT ![Caller] = "joining"]
    BY DEF WakeForStop
  <2> QED
    BY <2>1, <1>1, SignalledPlaces, CallerIsNoWorker DEF PCs, Published, Threads, InCall
<1>3. /\ ticket'.generation = ticket.generation + 1
      /\ ticket' \in [generation : 0 .. Generations - 1, helpers : 0 .. WorkerCount]
  <2>1. /\ ticket.generation <= calls /\ calls <= Generations - 2
        /\ ticket.generation \in Nat /\ calls \in Nat /\ Generations \in Nat
        /\ ticket \in [generation : 0 .. Generations - 1, helpers : 0 .. WorkerCount]
    BY <1>1, PoolAssumption DEF Tickets, TypeOK
  <2>2. NextGeneration = ticket.generation + 1
    BY <2>1 DEF NextGeneration
  <2>3. ticket' = [ticket EXCEPT !.generation = ticket.generation + 1]
    BY <2>2 DEF WakeForStop
  <2> QED
    BY <2>1, <2>3
<1>4. TypeOK'
  <2>1. assigned' \in [Workers -> BOOLEAN]
    BY DEF WakeForStop
  <2> QED
    BY <2>1, <1>1, <1>2, <1>3 DEF TypeOK, jobVars
<1>5. Places'
  BY <1>1, <1>2 DEF Places, CallerPCs
<1>6. Tickets'
  <2>1. /\ ticket.generation \in Nat /\ calls \in Nat /\ ticket.generation <= calls
        /\ \A w \in Workers : seen[w] \in Nat /\ now[w].generation \in Nat
    BY <1>1 DEF TypeOK, Tickets
  <2>2. \A w \in Workers : pc'[w] = "join" => pc[w] = "join"
    BY <1>2
  <2>3. \A w \in Workers : pc[w] = "join" =>
          seen[w] < now[w].generation /\ now[w].generation <= ticket.generation
    BY DEF Tickets
  <2>4. \A w \in Workers : seen[w] <= ticket.generation
    BY DEF Tickets
  <2> QED
    BY <2>1, <2>2, <2>3, <2>4, <1>1, <1>2, <1>3 DEF Tickets
<1>7. Owed'
  <2>1. \A w \in Workers : ~AtWork(w)'
    BY <1>1, <1>2, NoneAtWork DEF AtWork, JobPCs
  <2> QED
    BY <2>1, <1>1, <1>2 DEF Owed
<1>8. Shared'
  <2>1. IndicesStay
    BY <1>1, <1>2 DEF IndicesStay, jobVars, Threads
  <2> QED
    BY <2>1, SharedStays
<1> QED
  BY <1>4, <1>5, <1>6, <1>7, <1>8

\* All workers have left.
LEMMA JoinWorkersKeeps ==
    ASSUME PoolInv, JoinWorkers
    PROVE  PoolInv'
<1> USE DEF PoolInv
<1>1. /\ pc[Caller] = "joining" /\ pc'[Caller] = "destroyed" /\ stop
      /\ pc' \in [Threads -> PCs] /\ \A w \in Workers : pc'[w] = pc[w]
      /\ UNCHANGED <<spin, stop, cap, ticket, jobVars, waitVars, range, request, calls, runs>>
      /\ ~Published /\ ~Published' /\ ~InCall /\ ~InCall' /\ Caller \in Threads
  BY CallerIsNoWorker
     DEF JoinWorkers, Goto, TypeOK, PCs, Threads, Published, InCall, Places
<1>2. TypeOK'
  BY <1>1 DEF TypeOK, jobVars, waitVars
<1>3. Places'
  BY <1>1 DEF Places, CallerPCs
<1>4. Tickets'
  BY <1>1 DEF Tickets, waitVars
<1>5. Owed'
  <2>1. \A w \in Workers : ~AtWork(w)'
    BY <1>1, NoneAtWork DEF AtWork
  <2> QED
    BY <2>1, <1>1 DEF Owed
<1>6. Shared'
  <2>1. IndicesStay
    BY <1>1 DEF IndicesStay, jobVars, Threads
  <2> QED
    BY <2>1, SharedStays
<1> QED
  BY <1>2, <1>3, <1>4, <1>5, <1>6

\* The invariant holds before the first call.
LEMMA PoolStarts == Init => PoolInv
<1> SUFFICES ASSUME Init PROVE PoolInv
  OBVIOUS
<1>1. Caller \in Threads /\ Caller \notin Workers /\ Workers \subseteq Threads
  BY CallerIsNoWorker DEF Threads
<1>2. /\ pc \in [Threads -> PCs] /\ pc[Caller] = "idle" /\ ~stop
      /\ \A w \in Workers : pc[w] = IF spin THEN "poll" ELSE "top"
  BY <1>1 DEF Init, PCs
<1>3. /\ WorkerCount \in Nat /\ MaxCalls \in Nat /\ Generations \in Nat \ {0}
  BY PoolAssumption
<1>4. TypeOK
  <2>1. /\ ticket \in [generation : 0 .. Generations - 1, helpers : 0 .. WorkerCount]
        /\ seen \in [Workers -> 0 .. Generations - 1]
    BY <1>3 DEF Init
  <2>2. now \in [Workers -> [generation : 0 .. Generations - 1, helpers : 0 .. WorkerCount]]
    BY <2>1 DEF Init
  <2>3. range \in [Threads -> [begin : Nat, end : Nat, call : 0 .. MaxCalls]]
    BY <1>3 DEF Init, NoJobs
  <2>4. request \in [count : Nat, grain : Int]
    BY DEF Init
  <2>5. /\ spin \in BOOLEAN /\ stop \in BOOLEAN /\ cap \in 1 .. WorkerCount + 1
        /\ {next, count, grain} \subseteq Nat /\ {active, pending} \subseteq 0 .. WorkerCount
        /\ assigned \in [Workers -> BOOLEAN] /\ sleeping \in [Workers -> BOOLEAN]
        /\ calls \in 0 .. MaxCalls
    <3>1. spin \in BOOLEAN /\ stop \in BOOLEAN /\ cap = WorkerCount + 1
      BY DEF Init
    <3>2. next = 0 /\ count = 0 /\ grain = 0 /\ active = 0 /\ pending = 0 /\ calls = 0
      BY DEF Init
    <3>3. /\ assigned \in [Workers -> BOOLEAN] /\ sleeping \in [Workers -> BOOLEAN]
      BY DEF Init
    <3>4. cap \in 1 .. WorkerCount + 1 /\ 0 \in 0 .. WorkerCount /\ 0 \in 0 .. MaxCalls
      BY <3>1, <1>3
    <3> QED
      BY <3>1, <3>2, <3>3, <3>4
  <2> QED
    BY <2>1, <2>2, <2>3, <2>4, <2>5, <1>2 DEF TypeOK
<1>5. Places
  BY <1>2 DEF Places, CallerPCs
<1>6. Tickets
  BY <1>2 DEF Tickets, Init
<1>7. Owed
  <2>1. \A w \in Workers : ~AtWork(w)
    BY <1>2 DEF AtWork, JobPCs
  <2>2. Owing = {}
    BY <2>1 DEF Owing, Owes, Init
  <2> QED
    BY <2>1, <2>2, <1>2 DEF Owed, Published
<1>8. Shared
  <2>1. \A p \in Threads : pc[p] \notin {"check", "function", "leave", "wait", "doneWait"}
    BY <1>2 DEF Threads
  <2> QED
    BY <2>1, <1>2 DEF Shared, InCall, Published
<1> QED
  BY <1>4, <1>5, <1>6, <1>7, <1>8 DEF PoolInv

\* Every step of the pool keeps the invariant.
LEMMA PoolSteps ==
    ASSUME PoolInv, [Next]_vars
    PROVE  PoolInv'
<1>1. CASE \E r \in Requests : Begin(r)
  BY <1>1, BeginKeeps
<1>2. CASE Calling
  <2>1. Caller \in Threads
    BY DEF Threads
  <2> QED
    BY <1>2, <2>1, PrepareKeeps, PublishKeeps, AssignKeeps, ReturnKeeps, WaitDoneKeeps,
       ReturnInlineKeeps, FetchKeeps, CheckKeeps, FunctionKeeps, WakeForStopKeeps,
       JoinWorkersKeeps DEF Calling
<1>3. CASE \E w \in Workers : Working(w) \/ GiveUp(w)
  <2>1. PICK w \in Workers : Working(w) \/ GiveUp(w)
    BY <1>3
  <2>2. w \in Threads
    BY DEF Threads
  <2> QED
    BY <2>1, <2>2, FetchKeeps, CheckKeeps, FunctionKeeps, TopKeeps, LeaveKeeps, PollKeeps,
       ParkKeeps, JoinKeeps, LeaveSpinKeeps, GiveUpKeeps DEF Working
<1>4. CASE \E threads \in Limits : SetCap(threads)
  BY <1>4, SetCapKeeps
<1>5. CASE Destroy
  BY <1>5, DestroyKeeps
<1>6. CASE UNCHANGED vars
  <2>1. \A w \in Workers : Owes(w)' <=> Owes(w)
    BY <1>6 DEF Owes, AtWork, vars, waitVars
  <2>2. Owing' = Owing
    BY <2>1 DEF Owing
  <2>3. Helpers' = Helpers /\ Grain' = Grain
    BY <1>6 DEF vars, Helpers, Jobs, Grain
  <2>4. TypeOK'
    BY <1>6 DEF PoolInv, vars, jobVars, waitVars, TypeOK
  <2>5. Places' /\ Tickets'
    BY <1>6 DEF PoolInv, vars, jobVars, waitVars, Places, Tickets
  <2>6. Owed'
    BY <1>6, <2>2, <2>3 DEF PoolInv, vars, jobVars, waitVars, Owed, Published, AtWork
  <2>7. Shared'
    BY <1>6, <2>3 DEF PoolInv, vars, jobVars, waitVars, Shared, Published, InCall, Holds
  <2> QED
    BY <2>4, <2>5, <2>6, <2>7 DEF PoolInv
<1>7. CASE Destroyed
  BY <1>6, <1>7 DEF Destroyed
<1> QED
  BY <1>1, <1>2, <1>3, <1>4, <1>5, <1>6, <1>7 DEF Next

\* The invariant of the pool.
THEOREM PoolInvariant == Spec => []PoolInv
<1>1. Init => PoolInv
  BY PoolStarts
<1>2. PoolInv /\ [Next]_vars => PoolInv'
  BY PoolSteps
<1> QED
  BY <1>1, <1>2, PTL DEF Spec

\* No counter of helpers is negative, no generation wraps: the types of all variables.
THEOREM PoolTypes == Spec => []TypeOK
<1>1. PoolInv => TypeOK
  BY DEF PoolInv
<1> QED
  BY <1>1, PoolInvariant, PTL

\* No thread executes a function whose call has returned: its context may lie on
\* the stack of the caller of ei_parallel_for.
THEOREM PoolFunctionsInCall == Spec => []FunctionsInCall
<1>1. PoolInv => FunctionsInCall
  <2> SUFFICES ASSUME PoolInv, NEW p \in Threads, pc[p] = "function"
               PROVE  InCall /\ range[p].call = calls
    BY DEF FunctionsInCall
  <2>1. Published
    BY WorkIsPublished
  <2> QED
    BY <2>1 DEF Published, InCall, PoolInv, Shared
<1> QED
  BY <1>1, PoolInvariant, PTL

\* At most cap threads, the caller among them, draw and execute indices: the bound
\* parallel.h gives for ei_thread_pool_set_cap.
THEOREM PoolCapRespected == Spec => []CapRespected
<1>1. PoolInv => CapRespected
  <2> SUFFICES ASSUME PoolInv PROVE CapRespected
    OBVIOUS
  <2> DEFINE J == {p \in Threads : InJobs(p)}
  <2>1. WorkerCount \in Nat /\ cap \in 1 .. WorkerCount + 1
    BY PoolAssumption DEF PoolInv, TypeOK
  <2>2. \E n \in Nat : n + 1 <= cap /\ J \subseteq (0 .. n - 1) \cup {Caller}
    <3>1. CASE Published
      <4>1. request.count > 0
        BY <3>1 DEF PoolInv, Shared, Published, InCall
      <4>2. Helpers \in Nat /\ Helpers + 1 <= cap
        BY <2>1, <4>1, HelpersRange DEF PoolInv, Helpers, Least, Most
      <4>3. \A w \in Workers : InJobs(w) => w < Helpers /\ w >= 0 /\ w \in Int
        <5> SUFFICES ASSUME NEW w \in Workers, InJobs(w)
                     PROVE  w < Helpers /\ w >= 0 /\ w \in Int
          OBVIOUS
        <5>1. w \in Owing
          BY DEF InJobs, Owing, Owes, AtWork, JobPCs, PoolInv, Places
        <5> QED
          BY <5>1, <3>1 DEF PoolInv, Owed, Workers
      <4> QED
        BY <4>2, <4>3 DEF Threads
    <3>2. CASE ~Published
      <4>1. \A w \in Workers : ~InJobs(w)
        BY <3>2, NoneAtWork DEF InJobs, AtWork, JobPCs, PoolInv, Places
      <4>2. 0 \in Nat /\ 0 + 1 <= cap /\ J \subseteq (0 .. 0 - 1) \cup {Caller}
        BY <4>1, <2>1 DEF Threads
      <4> QED
        BY <4>2
    <3> QED
      BY <3>1, <3>2
  <2>3. PICK n \in Nat : n + 1 <= cap /\ J \subseteq (0 .. n - 1) \cup {Caller}
    BY <2>2
  <2>4. IsFiniteSet(0 .. n - 1) /\ Cardinality(0 .. n - 1) = n
    BY FS_Interval
  <2>5. /\ IsFiniteSet((0 .. n - 1) \cup {Caller})
        /\ Cardinality((0 .. n - 1) \cup {Caller}) = n + 1
    <3>1. Caller \notin 0 .. n - 1 /\ n \in Nat
      BY DEF Caller
    <3>2. /\ IsFiniteSet((0 .. n - 1) \cup {Caller})
          /\ Caller \notin 0 .. n - 1 =>
                Cardinality((0 .. n - 1) \cup {Caller}) = Cardinality(0 .. n - 1) + 1
      BY <2>4, FS_AddElement
    <3> QED
      BY <3>1, <3>2, <2>4
  <2>6. Cardinality(J) <= n + 1 /\ Cardinality(J) \in Nat
    BY <2>3, <2>5, FS_Subset, FS_CardinalityType
  <2> QED
    BY <2>1, <2>3, <2>6 DEF CapRespected
<1> QED
  BY <1>1, PoolInvariant, PTL

-----------------------------------------------------------------------------
(* The pool implements ParallelFor *)

\* The initial state is that of the promise.
LEMMA PromiseStarts == Init => Promise!Init
<1> SUFFICES ASSUME Init PROVE Promise!Init
  OBVIOUS
<1>1. Caller \in Threads
  BY DEF Threads
<1>2. pc[Caller] = "idle"
  BY <1>1 DEF Init
<1> QED
  BY <1>2 DEF Init, Promise!Init, InCall

\* A call makes the promise for its indices; executing a range of them, returning
\* and destroying the pool are the steps of the promise, and no other step is one.
LEMMA PromiseSteps ==
    ASSUME PoolInv, PoolInv', [Next]_vars
    PROVE  [Promise!Next]_(Promise!vars)
<1> DEFINE phase == IF InCall THEN "running" ELSE IF pc[Caller] = "idle" THEN "idle" ELSE "closed"
<1>0. Caller \in Threads /\ pc \in [Threads -> PCs]
  BY DEF Threads, PoolInv, TypeOK
<1>1. CASE \E r \in Requests : Begin(r)
  <2>1. PICK r \in Requests : Begin(r)
    BY <1>1
  <2>2. pc[Caller] = "idle" /\ pc'[Caller] \in {"inline", "prepare"}
    BY <2>1, <1>0 DEF Begin, Goto
  <2>3. r.count \in Sizes /\ runs' = [i \in 0 .. r.count - 1 |-> 0]
    BY <2>1 DEF Begin, Sizes
  <2>4. phase = "idle" /\ phase' = "running"
    BY <2>2 DEF InCall
  <2> QED
    BY <2>3, <2>4 DEF Promise!Next, Promise!Call
<1>2. ASSUME NEW p \in Threads, Function(p)
      PROVE  [Promise!Next]_(Promise!vars)
  <2> USE DEF PoolInv
  <2>1. /\ InCall /\ InCall'
        /\ request.count > 0 /\ request.count \in Nat
        /\ DOMAIN runs = 0 .. request.count - 1
    <3>1. pc[p] \in {"function", "inline"}
          /\ pc' = [pc EXCEPT ![p] = IF pc[p] = "inline" THEN "returnInline" ELSE "fetch"]
      BY <1>2 DEF Function, Goto
    <3>2. InCall
      <4>1. pc[p] = "inline" => p = Caller
        BY DEF Places, JobPCs, Threads
      <4> QED
        BY <3>1, <4>1, WorkIsPublished DEF InCall, Published
    <3>3. pc'[Caller] \in {pc[Caller], "returnInline", "fetch"}
      BY <3>1, <1>0
    <3> QED
      BY <3>2, <3>3 DEF InCall, Shared, TypeOK
  <2> DEFINE first == range[p].begin
             last  == range[p].end - 1
  <2>2. /\ first \in DOMAIN runs /\ last \in DOMAIN runs /\ first <= last
        /\ \A i \in first .. last : runs[i] = 0
    <3>1. range[p].begin \in Nat /\ range[p].end \in Nat
      BY DEF TypeOK
    <3>2. CASE pc[p] = "function"
      <4>1. /\ range[p].begin < count
            /\ range[p].end = Least(range[p].begin + grain, count)
            /\ count = request.count /\ grain \in Nat \ {0}
        BY <3>2, <2>1, WorkIsPublished, HelpersRange DEF Shared
      <4>2. /\ first \in DOMAIN runs /\ last \in DOMAIN runs /\ first <= last
        BY <4>1, <3>1, <2>1 DEF Least
      <4>3. \A i \in first .. last : i \in DOMAIN runs
        BY <4>2, <2>1
      <4> QED
        BY <4>2, <4>3, <3>2, HeldOnce
    <3>3. CASE pc[p] = "inline"
      <4>1. p = Caller
        BY <3>3 DEF Places, JobPCs, Threads
      <4>2. first = 0 /\ last = request.count - 1 /\ \A i \in DOMAIN runs : runs[i] = 0
        BY <3>3, <4>1 DEF Shared
      <4> QED
        BY <4>2, <2>1
    <3> QED
      BY <3>2, <3>3, <1>2 DEF Function
  <2>3. runs' = [i \in DOMAIN runs |-> IF i \in first .. last THEN 1 ELSE runs[i]]
    BY <1>2, <2>2 DEF Function
  <2> HIDE DEF first, last
  <2> QED
    BY <2>1, <2>2, <2>3 DEF Promise!Next, Promise!Execute
<1>3. CASE Return \/ ReturnInline
  <2>1. /\ phase = "running" /\ phase' = "idle" /\ runs' = runs
    BY <1>3, <1>0 DEF Return, ReturnInline, InCall, Goto
  <2>2. \A i \in DOMAIN runs : runs[i] = 1
    BY <1>3, AllExecuted DEF PoolInv, Shared, ReturnInline
  <2> QED
    BY <2>1, <2>2 DEF Promise!Next, Promise!Return
<1>4. CASE Destroy
  <2>1. /\ phase = "idle" /\ phase' = "closed" /\ runs' = runs
    BY <1>4, <1>0 DEF Destroy, InCall, Goto
  <2> QED
    BY <2>1 DEF Promise!Next, Promise!Close
<1>5. ASSUME runs' = runs, phase' = phase
      PROVE  [Promise!Next]_(Promise!vars)
  BY <1>5 DEF Promise!vars
<1>6. ASSUME NEW p \in Threads, Fetch(p) \/ Check(p)
      PROVE  runs' = runs /\ InCall /\ InCall'
  <2>1. Published
    BY <1>6, WorkIsPublished DEF Fetch, Check
  <2>2. pc'[Caller] \in {pc[Caller], "check", "function", "wait", "leave"}
    BY <1>6, <1>0 DEF Fetch, Check, Goto
  <2> QED
    BY <1>6, <2>1, <2>2 DEF Fetch, Check, Published, InCall
<1>7. ASSUME NEW w \in Workers, Working(w) \/ GiveUp(w)
      PROVE  [Promise!Next]_(Promise!vars)
  <2>1. w \in Threads /\ w # Caller
    BY CallerIsNoWorker DEF Threads
  <2>2. CASE Fetch(w) \/ Check(w) \/ Function(w)
    BY <2>1, <2>2, <1>2, <1>5, <1>6 DEF InCall
  <2>3. CASE Top(w) \/ Poll(w) \/ Park(w) \/ Join(w) \/ LeaveSpin(w) \/ GiveUp(w)
    <3>1. pc'[Caller] = pc[Caller] /\ runs' = runs
      BY <2>1, <2>3, <1>0
         DEF Top, NextAssignment, Poll, Park, Join, LeaveSpin, GiveUp, Goto
    <3> QED
      BY <3>1, <1>5 DEF InCall
  <2>4. CASE Leave(w)
    <3>1. runs' = runs /\ pc'[Caller] = IF active = 1 /\ pc[Caller] = "doneWait"
                                        THEN "wait" ELSE pc[Caller]
      BY <2>1, <2>4, <1>0 DEF Leave, NextAssignment
    <3> QED
      BY <3>1, <1>5 DEF InCall
  <2> QED
    BY <1>7, <2>2, <2>3, <2>4 DEF Working
<1>8. CASE Calling
  <2>1. CASE Fetch(Caller) \/ Check(Caller) \/ Function(Caller) \/ Return \/ ReturnInline
    BY <2>1, <1>0, <1>2, <1>3, <1>5, <1>6 DEF InCall
  <2>2. CASE Prepare \/ Publish \/ Assign \/ WaitDone
    <3>1. /\ runs' = runs /\ pc[Caller] \in {"prepare", "publish", "wait"}
          /\ pc'[Caller] \in {"publish", "fetch", "doneWait"}
      BY <2>2, <1>0 DEF Prepare, Publish, Assign, WaitDone, Goto, Signalled
    <3> QED
      BY <3>1, <1>5 DEF InCall
  <2>3. CASE WakeForStop \/ JoinWorkers
    <3>1. /\ runs' = runs /\ pc[Caller] \in {"closing", "joining"}
          /\ pc'[Caller] \in {"joining", "destroyed"}
      BY <2>3, <1>0 DEF WakeForStop, JoinWorkers, Goto, Signalled
    <3> QED
      BY <3>1, <1>5 DEF InCall
  <2> QED
    BY <1>8, <2>1, <2>2, <2>3 DEF Calling
<1>9. CASE (\E threads \in Limits : SetCap(threads)) \/ Destroyed \/ UNCHANGED vars
  <2>1. pc' = pc /\ runs' = runs
    BY <1>9 DEF SetCap, Destroyed, vars
  <2> QED
    BY <2>1, <1>5 DEF InCall
<1> QED
  BY <1>1, <1>4, <1>7, <1>8, <1>9 DEF Next

\* The pool keeps the promise of ei_parallel_for, whatever its mode, the number of
\* its workers and its cap: every index of a call is executed exactly once between
\* the call and its return, and nothing is executed afterwards.
THEOREM PoolImplementsParallelFor == Spec => ImplementsParallelFor
<1>1. Init => Promise!Init
  BY PromiseStarts
<1>2. PoolInv /\ PoolInv' /\ [Next]_vars => [Promise!Next]_(Promise!vars)
  BY PromiseSteps
<1> QED
  BY <1>1, <1>2, PoolInvariant, PTL DEF Spec, ImplementsParallelFor, Promise!Spec

==============================================================================
