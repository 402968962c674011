-------------------------- MODULE TokenizerPoolProofs --------------------------
(***************************************************************************)
(* TokenizerPool implements ParallelFor for every call, with any number of *)
(* callers and tokenizer threads: each text of a call is tokenized exactly *)
(* once between the call and its return, and no thread uses a job of a     *)
(* batch that is gone from its caller's stack.                             *)
(*                                                                         *)
(* The inductive invariant follows the jobs: they are distinct, each is in *)
(* the list or with one thread, and of a call that waits for its batch.    *)
(* The texts of a batch that are not tokenized yet are those of its jobs   *)
(* in the list or still in work, and remaining counts all its jobs.        *)
(***************************************************************************)
EXTENDS TokenizerPool, ListProofs

Waiting == {"await", "doneWait"}

\* Threads that have a job, those that tokenize it first.
Busy == {t \in Tokenizers : tpc[t] \in {"tokenize", "report"}}
Begun == {t \in Tokenizers : tpc[t] = "tokenize"}

\* The jobs of client c, and those whose text is not tokenized yet.
OpenOf(c) == {j \in ToSet(jobs) \cup {job[t] : t \in Busy} : j.client = c}
ToDoOf(c) == {j \in ToSet(jobs) \cup {job[t] : t \in Begun} : j.client = c}

\* Each job is in one place.
JobsPlaced ==
    /\ Distinct(jobs)
    /\ \A t \in Busy : job[t] \in Jobs \ ToSet(jobs)
    /\ \A t, u \in Busy : job[t] = job[u] => t = u

\* A job is one of a call that waits for it, and stands for one of its texts.
JobsOfCall(c) ==
    \A j \in OpenOf(c) : pc[c] \in Waiting /\ j.call = calls[c] /\ j.index \in DOMAIN runs[c]

\* The job of text i in client c's present call.
JobAt(c, i) == [client |-> c, index |-> i, call |-> calls[c]]

\* The text has been tokenized.
Ran(c, i) ==
    /\ pc[c] # "enqueue"
    /\ pc[c] = "inline" => i < Len(texts[c]) - remaining[c]
    /\ pc[c] \in Waiting => JobAt(c, i) \notin ToDoOf(c)

CallOf(c) ==
    pc[c] # "idle" =>
        /\ ~stopping
        /\ texts[c] \in Batches(c) /\ calls[c] > 0
        /\ DOMAIN runs[c] = 0 .. Len(texts[c]) - 1
        /\ \A i \in DOMAIN runs[c] : runs[c][i] = IF Ran(c, i) THEN 1 ELSE 0
        /\ pc[c] = "inline" => remaining[c] \in 1 .. Len(texts[c])
        /\ pc[c] = "enqueue" => remaining[c] = Len(texts[c])
        /\ pc[c] \in Waiting => /\ IsFiniteSet(OpenOf(c))
                                /\ remaining[c] = Cardinality(OpenOf(c))

PoolInv == TypeOK /\ JobsPlaced /\ \A c \in Clients : JobsOfCall(c) /\ CallOf(c)

-----------------------------------------------------------------------------
(* The types *)

PCs == {"idle", "inline", "enqueue", "await", "doneWait", "done", "submit", "failed"}
TokenizerPCs == {"top", "wait", "tokenize", "report", "exited"}

LEMMA InitTypes == Init => TypeOK
<1> SUFFICES ASSUME Init PROVE TypeOK
  OBVIOUS
<1>1. /\ model \in Models /\ jobs \in Seq(Jobs) /\ stopping \in BOOLEAN
      /\ remaining \in [Clients -> Nat]
  <2>1. jobs \in Seq(Jobs)
    BY DEF Init
  <2> QED
    BY <2>1 DEF Init
<1>5. calls \in [Clients -> 0 .. MaxCalls]
  BY TokenizerAssumption DEF Init
<1>2. pc \in [Clients -> PCs] /\ tpc \in [Tokenizers -> TokenizerPCs]
  BY DEF Init, PCs, TokenizerPCs
<1>3. /\ DOMAIN texts = Clients /\ DOMAIN tokens = Clients /\ DOMAIN runs = Clients
      /\ DOMAIN job = Tokenizers
      /\ \A c \in Clients : texts[c] = <<>> /\ tokens[c] = <<>> /\ runs[c] = [i \in {} |-> 0]
      /\ \A t \in Tokenizers : job[t] = <<>>
  BY DEF Init
<1>4. [i \in {} |-> 0] \in [DOMAIN [i \in {} |-> 0] -> Nat]
  OBVIOUS
<1> QED
  BY <1>1, <1>2, <1>3, <1>4, <1>5 DEF TypeOK, PCs, TokenizerPCs

\* What TypeOK says of one client and of one thread.
LEMMA ClientTypes ==
    ASSUME TypeOK, NEW c \in Clients
    PROVE  /\ pc[c] \in PCs /\ texts[c] \in Batches(c) \cup {<<>>}
           /\ Len(texts[c]) \in Nat /\ DOMAIN tokens[c] = DOMAIN texts[c]
           /\ remaining[c] \in Nat /\ calls[c] \in 0 .. MaxCalls
           /\ runs[c] \in [DOMAIN runs[c] -> Nat]
BY TokenizerAssumption DEF TypeOK, PCs

\* The jobs in the list or with a thread, and their clients.
LEMMA JobTypes ==
    ASSUME TypeOK, JobsPlaced
    PROVE  /\ ToSet(jobs) \subseteq Jobs
           /\ \A t \in Busy : job[t] \in Jobs
           /\ \A j \in Jobs : j.client \in Clients /\ j.index \in Nat
                             /\ j.call \in 1 .. MaxCalls
                             /\ j = [client |-> j.client, index |-> j.index, call |-> j.call]
<1>1. ToSet(jobs) \subseteq Jobs
  BY MembersAreCells DEF TypeOK
<1> QED
  BY <1>1 DEF JobsPlaced, Jobs

\* The jobs of a call are distinct, one per text.
LEMMA JobsListed ==
    ASSUME TypeOK, NEW c \in Clients, calls[c] > 0
    PROVE  /\ Lists(Jobs, JobsOf(c), {JobAt(c, i) : i \in 0 .. Len(texts[c]) - 1})
           /\ Len(JobsOf(c)) = Len(texts[c])
<1>1. Len(texts[c]) \in Nat /\ calls[c] \in 1 .. MaxCalls
  BY ClientTypes, TokenizerAssumption
<1> DEFINE s == JobsOf(c)
<1>2. /\ DOMAIN s = 1 .. Len(texts[c])
      /\ \A i \in 1 .. Len(texts[c]) : s[i] = JobAt(c, i - 1) /\ s[i] \in Jobs
                                        /\ s[i].index = i - 1
  BY <1>1 DEF JobsOf, JobAt, Jobs
<1>3. s \in Seq(Jobs) /\ Len(s) = Len(texts[c])
  <2>1. s \in [1 .. Len(texts[c]) -> Jobs]
    BY <1>2 DEF JobsOf
  <2> HIDE DEF s
  <2> QED
    BY <1>1, <2>1, SeqDef
<1>4. Distinct(s)
  BY <1>1, <1>2 DEF Distinct
<1>5. ToSet(s) = {JobAt(c, i) : i \in 0 .. Len(texts[c]) - 1}
  <2>1. ToSet(s) \subseteq {JobAt(c, i) : i \in 0 .. Len(texts[c]) - 1}
    BY <1>1, <1>2 DEF ToSet
  <2>2. ASSUME NEW i \in 0 .. Len(texts[c]) - 1 PROVE JobAt(c, i) \in ToSet(s)
    <3>1. i + 1 \in 1 .. Len(texts[c]) /\ (i + 1) - 1 = i
      BY <1>1
    <3>2. s[i + 1] = JobAt(c, i)
      BY <1>2, <3>1
    <3> QED
      BY <1>2, <3>1, <3>2 DEF ToSet
  <2> QED
    BY <2>1, <2>2
<1> QED
  BY <1>3, <1>4, <1>5 DEF Lists

-----------------------------------------------------------------------------
(* What a step leaves alone *)

\* What CallOf and JobsCurrent look at, for one client.
SameCall(c) ==
    /\ pc'[c] = pc[c] /\ texts'[c] = texts[c] /\ remaining'[c] = remaining[c]
    /\ calls'[c] = calls[c] /\ runs'[c] = runs[c]
    /\ OpenOf(c)' = OpenOf(c) /\ ToDoOf(c)' = ToDoOf(c)

LEMMA CallStays ==
    ASSUME NEW c \in Clients, CallOf(c), SameCall(c), pc[c] # "idle" => ~stopping'
    PROVE  CallOf(c)'
<1>1. JobAt(c, 0)' = JobAt(c, 0) /\ \A i : JobAt(c, i)' = JobAt(c, i)
  BY DEF SameCall, JobAt
<1>2. \A i : Ran(c, i)' <=> Ran(c, i)
  BY <1>1 DEF SameCall, Ran
<1> QED
  BY <1>2 DEF CallOf, SameCall

\* A job of a call that goes on stays one.
LEMMA JobsStay ==
    ASSUME NEW c \in Clients, JobsOfCall(c), SameCall(c)
    PROVE  JobsOfCall(c)'
BY DEF JobsOfCall, SameCall

\* A step that leaves the list and the threads alone leaves the jobs where they are.
LEMMA JobsAlone ==
    ASSUME jobs' = jobs, job' = job, Busy' = Busy, Begun' = Begun
    PROVE  /\ \A c : OpenOf(c)' = OpenOf(c) /\ ToDoOf(c)' = ToDoOf(c)
           /\ JobsPlaced => JobsPlaced'
<1>1. \A c : OpenOf(c)' = OpenOf(c) /\ ToDoOf(c)' = ToDoOf(c)
  BY DEF OpenOf, ToDoOf
<1>2. JobsPlaced => JobsPlaced'
  BY DEF JobsPlaced
<1> QED
  BY <1>1, <1>2

\* A step that changes one client's variables, and no others.
Only(c) ==
    /\ UNCHANGED <<model, jobs, stopping, tpc, job>>
    /\ \A d \in Clients \ {c} :
          /\ pc'[d] = pc[d] /\ texts'[d] = texts[d] /\ remaining'[d] = remaining[d]
          /\ calls'[d] = calls[d] /\ runs'[d] = runs[d]

LEMMA OneClient ==
    ASSUME PoolInv, NEW c \in Clients, Only(c), TypeOK', CallOf(c)',
           OpenOf(c)' = OpenOf(c) => JobsOfCall(c)'
    PROVE  PoolInv'
<1>1. /\ JobsPlaced /\ jobs' = jobs /\ job' = job /\ Busy' = Busy /\ Begun' = Begun
      /\ stopping' = stopping
  BY DEF PoolInv, Only, Busy, Begun
<1>2. JobsPlaced' /\ \A d : OpenOf(d)' = OpenOf(d) /\ ToDoOf(d)' = ToDoOf(d)
  BY <1>1, JobsAlone
<1>3. ASSUME NEW d \in Clients PROVE JobsOfCall(d)' /\ CallOf(d)'
  <2>1. CASE d = c
    BY <2>1, <1>2
  <2>2. CASE d # c
    <3>1. SameCall(d)
      BY <2>2, <1>2 DEF Only, SameCall
    <3>2. JobsOfCall(d) /\ CallOf(d) /\ (pc[d] # "idle" => ~stopping')
      BY <1>1 DEF PoolInv, CallOf
    <3> QED
      BY <3>1, <3>2, JobsStay, CallStays
  <2> QED
    BY <2>1, <2>2
<1> QED
  BY <1>2, <1>3 DEF PoolInv

\* A call that does not wait for its batch has no jobs.
LEMMA NoJobs ==
    ASSUME NEW c \in Clients, JobsOfCall(c)
    PROVE  /\ pc[c] \notin Waiting => OpenOf(c) = {}
           /\ OpenOf(c) = {} /\ OpenOf(c)' = OpenOf(c) => JobsOfCall(c)'
BY DEF JobsOfCall

-----------------------------------------------------------------------------
(* Callers *)

LEMMA BeginStep ==
    ASSUME PoolInv, NEW c \in Clients, NEW batch \in Batches(c), Begin(c, batch)
    PROVE  PoolInv'
<1>1. TypeOK /\ JobsOfCall(c)
  BY DEF PoolInv
<1>2. /\ pc[c] = "idle" /\ ~stopping' /\ stopping' = stopping
      /\ pc'[c] \in {"enqueue", "inline"} /\ texts'[c] = batch
      /\ remaining'[c] = Len(batch) /\ calls'[c] = calls[c] + 1
      /\ tokens'[c] = [i \in DOMAIN batch |-> <<>>]
      /\ runs'[c] = [i \in 0 .. Len(batch) - 1 |-> 0]
  BY <1>1 DEF Begin, Goto, TypeOK
<1>3. Len(batch) \in Nat \ {0} /\ calls[c] \in Nat /\ calls[c] < MaxCalls /\ MaxCalls \in Nat
  BY <1>1, TokenizerAssumption, ClientTypes DEF Begin
<1>4. TypeOK'
  <2>1. /\ pc' \in [Clients -> PCs] /\ remaining' \in [Clients -> Nat]
        /\ calls' \in [Clients -> 0 .. MaxCalls]
    BY <1>1, <1>3 DEF Begin, Goto, TypeOK, PCs
  <2>2. /\ DOMAIN texts' = Clients /\ DOMAIN tokens' = Clients /\ DOMAIN runs' = Clients
        /\ \A d \in Clients \ {c} : /\ texts'[d] = texts[d] /\ tokens'[d] = tokens[d]
                                    /\ runs'[d] = runs[d]
    BY <1>1 DEF Begin, TypeOK
  <2>3. runs'[c] \in [DOMAIN runs'[c] -> Nat] /\ DOMAIN tokens'[c] = DOMAIN texts'[c]
    BY <1>2
  <2>4. \A d \in Clients : /\ texts'[d] \in Batches(d) \cup {<<>>}
                          /\ DOMAIN tokens'[d] = DOMAIN texts'[d]
                          /\ runs'[d] \in [DOMAIN runs'[d] -> Nat]
    BY <1>1, <1>2, <2>2, <2>3 DEF TypeOK
  <2>5. UNCHANGED <<model, jobs, stopping, tpc, job>>
    BY DEF Begin
  <2> QED
    BY <1>1, <2>1, <2>2, <2>4, <2>5 DEF TypeOK, PCs
<1>5. Only(c)
  BY <1>1 DEF Begin, Goto, Only, TypeOK
<1>6. CallOf(c)'
  <2>1. DOMAIN runs'[c] = 0 .. Len(batch) - 1 /\ \A i \in DOMAIN runs'[c] : runs'[c][i] = 0
    BY <1>2
  <2>2. \A i \in DOMAIN runs'[c] : ~Ran(c, i)'
    BY <1>2, <1>3, <2>1 DEF Ran
  <2>3. Waiting \cap {"enqueue", "inline"} = {}
    BY DEF Waiting
  <2> QED
    BY <1>2, <1>3, <2>1, <2>2, <2>3 DEF CallOf
<1>7. OpenOf(c)' = OpenOf(c) => JobsOfCall(c)'
  BY <1>1, <1>2, NoJobs DEF Waiting
<1> QED
  BY <1>4, <1>5, <1>6, <1>7, OneClient

LEMMA InlineStep ==
    ASSUME PoolInv, NEW c \in Clients, Inline(c)
    PROVE  PoolInv'
<1>1. TypeOK /\ JobsOfCall(c) /\ CallOf(c) /\ pc[c] = "inline"
  BY DEF PoolInv, Inline
<1> DEFINE n == Len(texts[c])
           i == n - remaining[c]
<1>2. /\ n \in Nat /\ remaining[c] \in 1 .. n /\ ~stopping /\ calls[c] > 0
      /\ texts[c] \in Batches(c) /\ DOMAIN runs[c] = 0 .. n - 1
      /\ i \in 0 .. n - 1
  BY <1>1, ClientTypes DEF CallOf
<1>3. /\ \A k \in 0 .. n - 1 : runs[c][k] = IF k < i THEN 1 ELSE 0
      /\ runs[c] \in [0 .. n - 1 -> Nat]
  <2>1. \A k \in 0 .. n - 1 : Ran(c, k) <=> k < i
    BY <1>1 DEF Ran, Waiting
  <2> QED
    BY <1>1, <1>2, <2>1, ClientTypes DEF CallOf
<1>4. /\ pc'[c] = IF remaining[c] = 1 THEN "done" ELSE "inline"
      /\ pc' \in [Clients -> PCs]
      /\ remaining'[c] = remaining[c] - 1
      /\ texts' = texts /\ calls' = calls /\ stopping' = stopping
  BY <1>1 DEF Inline, Goto, TypeOK, PCs
<1>5. runs' = [runs EXCEPT ![c][i] = @ + 1]
  BY DEF Inline, Tokenized
<1>6. /\ DOMAIN runs' = Clients /\ runs'[c] = [runs[c] EXCEPT ![i] = @ + 1]
      /\ \A d \in Clients \ {c} : runs'[d] = runs[d]
  BY <1>1, <1>5 DEF TypeOK
<1>7. /\ runs'[c] \in [0 .. n - 1 -> Nat] /\ DOMAIN runs'[c] = 0 .. n - 1
      /\ \A k \in 0 .. n - 1 : runs'[c][k] = IF k < i + 1 THEN 1 ELSE 0
  BY <1>2, <1>3, <1>6
<1>8. TypeOK'
  <2>1. remaining' \in [Clients -> Nat]
    BY <1>1, <1>2 DEF Inline, TypeOK
  <2>2. DOMAIN tokens' = Clients /\ \A d \in Clients : DOMAIN tokens'[d] = DOMAIN tokens[d]
    BY <1>1 DEF Inline, Tokenized, TypeOK
  <2>3. \A d \in Clients : runs'[d] \in [DOMAIN runs'[d] -> Nat]
    BY <1>1, <1>6, <1>7 DEF TypeOK
  <2>4. UNCHANGED <<model, jobs, stopping, tpc, job>>
    BY DEF Inline
  <2> QED
    BY <1>1, <1>4, <1>6, <2>1, <2>2, <2>3, <2>4 DEF TypeOK, PCs
<1>9. Only(c)
  BY <1>1, <1>6 DEF Inline, Goto, Only, TypeOK
<1>10. CallOf(c)'
  <2>2. pc'[c] = "inline" => remaining'[c] \in 1 .. n
    BY <1>2, <1>4
  <2>3. pc'[c] \in {"inline", "done"} /\ pc'[c] # "enqueue" /\ pc'[c] \notin Waiting
    BY <1>4 DEF Waiting
  <2>1. \A k \in 0 .. n - 1 : Ran(c, k)' <=> k < i + 1
    BY <1>2, <1>4 DEF Ran, Waiting
  <2> QED
    BY <1>2, <1>4, <1>7, <2>1, <2>2, <2>3 DEF CallOf
<1>11. OpenOf(c)' = OpenOf(c) => JobsOfCall(c)'
  BY <1>1, NoJobs DEF Waiting
<1> QED
  BY <1>8, <1>9, <1>10, <1>11, OneClient

LEMMA AwaitStep ==
    ASSUME PoolInv, NEW c \in Clients, AwaitDone(c)
    PROVE  PoolInv'
<1>1. TypeOK /\ JobsOfCall(c) /\ CallOf(c) /\ pc[c] = "await" /\ pc[c] \in Waiting
  BY DEF PoolInv, AwaitDone, Waiting
<1>2. /\ UNCHANGED <<model, jobs, stopping, texts, remaining, calls, tokens, runs, tpc, job>>
      /\ pc' = [pc EXCEPT ![c] = IF remaining[c] = 0 THEN "done" ELSE "doneWait"]
  BY DEF AwaitDone, AllDone, Goto
<1>3. TypeOK'
  BY <1>1, <1>2 DEF TypeOK
<1>4. Only(c)
  BY <1>1, <1>2 DEF Only, TypeOK
<1>5. /\ JobsPlaced' /\ OpenOf(c)' = OpenOf(c) /\ ToDoOf(c)' = ToDoOf(c)
      /\ ToDoOf(c) \subseteq OpenOf(c)
  BY <1>2, JobsAlone DEF PoolInv, Busy, Begun, OpenOf, ToDoOf
<1>6. CASE remaining[c] = 0
  <2>1. OpenOf(c) = {} /\ pc'[c] = "done"
    BY <1>1, <1>2, <1>6, FS_EmptySet DEF CallOf, TypeOK
  <2>2. \A i : Ran(c, i) /\ Ran(c, i)'
    BY <1>1, <1>5, <2>1 DEF Ran, Waiting
  <2>3. CallOf(c)'
    BY <1>1, <1>2, <2>1, <2>2 DEF CallOf, Waiting
  <2>4. JobsOfCall(c)'
    BY <1>5, <2>1 DEF JobsOfCall
  <2> QED
    BY <1>3, <1>4, <2>3, <2>4, OneClient
<1>7. CASE remaining[c] # 0
  <2>1. pc'[c] = "doneWait" /\ pc'[c] \in Waiting
    BY <1>1, <1>2, <1>7 DEF TypeOK, Waiting
  <2>2. \A i : JobAt(c, i)' = JobAt(c, i)
    BY <1>2 DEF JobAt
  <2>3. \A i : Ran(c, i)' <=> Ran(c, i)
    BY <1>1, <1>5, <2>1, <2>2 DEF Ran
  <2>4. CallOf(c)'
    BY <1>1, <1>2, <1>5, <2>1, <2>3 DEF CallOf
  <2>5. JobsOfCall(c)'
    BY <1>1, <1>2, <1>5, <2>1 DEF JobsOfCall
  <2> QED
    BY <1>3, <1>4, <2>4, <2>5, OneClient
<1> QED
  BY <1>6, <1>7

\* The steps after the batch: they change neither counts nor runs.
LEMMA AfterStep ==
    ASSUME PoolInv, NEW c \in Clients, Truncate(c) \/ Return(c)
    PROVE  PoolInv'
<1>1. /\ TypeOK /\ JobsOfCall(c) /\ CallOf(c)
      /\ pc[c] \in {"done", "submit", "failed"} /\ pc[c] \notin Waiting
  BY DEF PoolInv, Truncate, Return, Waiting
<1>2. /\ UNCHANGED <<model, jobs, stopping, remaining, calls, runs, tpc, job>>
      /\ pc' \in [Clients -> PCs]
      /\ pc'[c] \in {"submit", "failed", "idle"} /\ pc'[c] \notin Waiting
      /\ \A d \in Clients \ {c} : pc'[d] = pc[d]
  BY <1>1 DEF Truncate, Return, Goto, TypeOK, PCs, Waiting
<1>3. /\ DOMAIN texts' = Clients /\ DOMAIN tokens' = Clients
      /\ \A d \in Clients \ {c} : texts'[d] = texts[d] /\ tokens'[d] = tokens[d]
      /\ DOMAIN tokens'[c] = DOMAIN texts'[c]
      /\ texts'[c] = IF pc'[c] = "idle" THEN <<>> ELSE texts[c]
  <2>1. CASE Truncate(c)
    <3>1. /\ texts' = texts /\ pc'[c] # "idle"
          /\ tokens' = [tokens EXCEPT ![c] = [i \in DOMAIN @ |-> Kept(model, @[i])]]
      BY <1>1, <2>1 DEF Truncate, Goto, TypeOK
    <3> QED
      BY <1>1, <3>1 DEF TypeOK
  <2>2. CASE Return(c)
    BY <1>1, <2>2 DEF Return, Goto, TypeOK
  <2> QED
    BY <2>1, <2>2
<1>4. TypeOK'
  BY <1>1, <1>2, <1>3 DEF TypeOK, PCs
<1>5. Only(c)
  BY <1>1, <1>2, <1>3 DEF Only
<1>6. CallOf(c)'
  <2>1. \A i : Ran(c, i) /\ Ran(c, i)'
    BY <1>1, <1>2 DEF Ran
  <2> QED
    BY <1>1, <1>2, <1>3, <2>1 DEF CallOf
<1>7. OpenOf(c)' = OpenOf(c) => JobsOfCall(c)'
  BY <1>1, NoJobs
<1> QED
  BY <1>4, <1>5, <1>6, <1>7, OneClient

\* A broadcast wakes the threads that sleep; it gives nobody a job.
LEMMA BroadcastWakes ==
    ASSUME TypeOK, tpc' = AllWoken
    PROVE  Busy' = Busy /\ Begun' = Begun /\ tpc' \in [Tokenizers -> TokenizerPCs]
BY DEF TypeOK, AllWoken, Busy, Begun, TokenizerPCs

LEMMA EnqueueStep ==
    ASSUME PoolInv, NEW c \in Clients, Enqueue(c)
    PROVE  PoolInv'
<1>1. /\ TypeOK /\ JobsPlaced /\ JobsOfCall(c) /\ CallOf(c)
      /\ pc[c] = "enqueue" /\ OpenOf(c) = {}
  BY NoJobs DEF PoolInv, Enqueue, Waiting
<1>2. /\ UNCHANGED <<model, stopping, texts, remaining, calls, tokens, runs, job>>
      /\ pc' = [pc EXCEPT ![c] = "await"] /\ tpc' = AllWoken /\ jobs' = jobs \o JobsOf(c)
  BY DEF Enqueue, Goto
<1> DEFINE n == Len(texts[c])
           new == JobsOf(c)
           all == {JobAt(c, i) : i \in 0 .. n - 1}
<1>3. /\ n \in Nat /\ calls[c] > 0 /\ ~stopping /\ texts[c] \in Batches(c)
      /\ DOMAIN runs[c] = 0 .. n - 1 /\ remaining[c] = n
      /\ \A i \in 0 .. n - 1 : runs[c][i] = 0
  <2>1. \A i : ~Ran(c, i)
    BY <1>1 DEF Ran
  <2> QED
    BY <1>1, <2>1, ClientTypes DEF CallOf
<1>4. Lists(Jobs, new, all) /\ Len(new) = n /\ new \in Seq(Jobs) /\ ToSet(new) = all
  BY <1>1, <1>3, JobsListed DEF Lists
<1>5. \A j \in all : j.client = c /\ j.call = calls[c] /\ j.index \in 0 .. n - 1
  BY DEF JobAt
<1>6. Busy' = Busy /\ Begun' = Begun /\ tpc' \in [Tokenizers -> TokenizerPCs]
  BY <1>1, <1>2, BroadcastWakes
<1>7. \A j \in ToSet(jobs) \cup {job[t] : t \in Busy} : j.client # c
  BY <1>1 DEF OpenOf
<1>8. Lists(Jobs, jobs', ToSet(jobs) \cup all)
  <2>1. jobs \in Seq(Jobs) /\ Distinct(jobs) /\ Distinct(new)
    BY <1>1, <1>4 DEF TypeOK, JobsPlaced, Lists
  <2>2. ToSet(jobs) \cap ToSet(new) = {}
    BY <1>4, <1>5, <1>7
  <2> QED
    BY <1>2, <1>4, <2>1, <2>2, ConcatLists
<1>9. TypeOK'
  BY <1>1, <1>2, <1>6, <1>8 DEF TypeOK, TokenizerPCs, Lists
<1>10. JobsPlaced'
  <2>1. Distinct(jobs') /\ ToSet(jobs') = ToSet(jobs) \cup all
    BY <1>8 DEF Lists
  <2>2. \A t \in Busy : job[t] \notin all
    BY <1>5, <1>7
  <2> QED
    BY <1>1, <1>2, <1>6, <2>1, <2>2 DEF JobsPlaced
<1>11. OpenOf(c)' = all /\ ToDoOf(c)' = all
  <2>1. ToSet(jobs') = ToSet(jobs) \cup all /\ Begun \subseteq Busy
    BY <1>8 DEF Lists, Busy, Begun
  <2> QED
    BY <1>2, <1>5, <1>6, <1>7, <2>1 DEF OpenOf, ToDoOf
<1>12. ASSUME NEW d \in Clients, d # c PROVE JobsOfCall(d)' /\ CallOf(d)'
  <2>1. ToSet(jobs') = ToSet(jobs) \cup all
    BY <1>8 DEF Lists
  <2>2. OpenOf(d)' = OpenOf(d) /\ ToDoOf(d)' = ToDoOf(d)
    BY <1>2, <1>5, <1>6, <1>12, <2>1 DEF OpenOf, ToDoOf
  <2>3. SameCall(d)
    BY <1>1, <1>2, <1>12, <2>2 DEF SameCall, TypeOK
  <2>4. JobsOfCall(d) /\ CallOf(d) /\ (pc[d] # "idle" => ~stopping')
    BY <1>2 DEF PoolInv, CallOf
  <2> QED
    BY <2>3, <2>4, JobsStay, CallStays
<1>13. pc'[c] = "await"
  BY <1>1, <1>2 DEF TypeOK
<1>14. JobsOfCall(c)'
  BY <1>2, <1>3, <1>5, <1>11, <1>13 DEF JobsOfCall, Waiting
<1>15. CallOf(c)'
  <2>1. \A i \in 0 .. n - 1 : JobAt(c, i)' \in all
    BY <1>2 DEF JobAt
  <2>2. \A i \in 0 .. n - 1 : ~Ran(c, i)'
    BY <1>11, <1>13, <2>1 DEF Ran, Waiting
  <2>3. IsFiniteSet(all) /\ Cardinality(all) = n
    BY <1>4, ListCounted DEF Lists
  <2> QED
    BY <1>2, <1>3, <1>11, <1>13, <2>2, <2>3 DEF CallOf
<1> QED
  BY <1>9, <1>10, <1>12, <1>14, <1>15 DEF PoolInv

-----------------------------------------------------------------------------
(* Tokenizer threads *)

\* The types of a step that leaves the callers alone, but not the list and the threads.
LEMMA ThreadTypes ==
    ASSUME TypeOK, UNCHANGED <<model, stopping, callVars>>, jobs' \in Seq(Jobs),
           tpc' \in [Tokenizers -> TokenizerPCs], DOMAIN job' = Tokenizers,
           \A t \in Tokenizers : job'[t] \in Jobs \cup {<<>>}
    PROVE  TypeOK'
BY DEF TypeOK, callVars, TokenizerPCs

\* A step that leaves the callers and their jobs alone.
LEMMA CallersStay ==
    ASSUME PoolInv, UNCHANGED callVars, (\A d \in Clients : pc[d] = "idle") \/ stopping' = stopping,
           TypeOK', JobsPlaced',
           \A d : OpenOf(d)' = OpenOf(d) /\ ToDoOf(d)' = ToDoOf(d)
    PROVE  PoolInv'
<1>1. ASSUME NEW d \in Clients PROVE JobsOfCall(d)' /\ CallOf(d)'
  <2>1. SameCall(d)
    BY DEF SameCall, callVars
  <2>2. JobsOfCall(d) /\ CallOf(d) /\ (pc[d] # "idle" => ~stopping')
    BY DEF PoolInv, CallOf
  <2> QED
    BY <2>1, <2>2, JobsStay, CallStays
<1> QED
  BY <1>1 DEF PoolInv

LEMMA TakeStep ==
    ASSUME PoolInv, NEW t \in Tokenizers, Take(t)
    PROVE  PoolInv'
<1>1. /\ TypeOK /\ JobsPlaced /\ tpc[t] = "top" /\ t \notin Busy /\ t \notin Begun
      /\ UNCHANGED <<model, stopping, callVars>>
  BY DEF PoolInv, Take, Busy, Begun
<1>2. CASE jobs = <<>>
  <2>1. /\ tpc' = [tpc EXCEPT ![t] = IF stopping THEN "exited" ELSE "wait"]
        /\ jobs' = jobs /\ job' = job
    BY <1>2 DEF Take
  <2>2. /\ tpc' \in [Tokenizers -> TokenizerPCs] /\ Busy' = Busy /\ Begun' = Begun
    BY <1>1, <2>1 DEF TypeOK, Busy, Begun, TokenizerPCs
  <2>3. TypeOK'
    BY <1>1, <2>1, <2>2, ThreadTypes DEF TypeOK
  <2>4. JobsPlaced' /\ \A d : OpenOf(d)' = OpenOf(d) /\ ToDoOf(d)' = ToDoOf(d)
    BY <1>1, <2>1, <2>2, JobsAlone
  <2> QED
    BY <1>1, <2>3, <2>4, CallersStay
<1>3. CASE jobs # <<>>
  <2> DEFINE j == Head(jobs)
  <2>1. /\ tpc' = [tpc EXCEPT ![t] = "tokenize"] /\ jobs' = Tail(jobs)
        /\ job' = [job EXCEPT ![t] = j]
    BY <1>3 DEF Take
  <2>2. /\ j \in Jobs /\ jobs' \in Seq(Jobs) /\ Distinct(jobs')
        /\ ToSet(jobs') = ToSet(jobs) \ {j} /\ j \in ToSet(jobs)
    BY <1>1, <1>3, <2>1, TailLists DEF TypeOK, JobsPlaced
  <2> HIDE DEF j
  <2>3. /\ tpc' \in [Tokenizers -> TokenizerPCs]
        /\ Busy' = Busy \cup {t} /\ Begun' = Begun \cup {t}
    BY <1>1, <2>1 DEF TypeOK, Busy, Begun, TokenizerPCs
  <2>4. /\ DOMAIN job' = Tokenizers /\ job'[t] = j
        /\ \A u \in Tokenizers \ {t} : job'[u] = job[u]
    BY <1>1, <2>1 DEF TypeOK
  <2>5. TypeOK'
    BY <1>1, <2>2, <2>3, <2>4, ThreadTypes DEF TypeOK
  <2>6. /\ Busy \subseteq Tokenizers \ {t} /\ Begun \subseteq Tokenizers \ {t}
    BY <1>1 DEF Busy, Begun
  <2>7. JobsPlaced'
    BY <1>1, <2>2, <2>3, <2>4, <2>6 DEF JobsPlaced
  <2>8. /\ {job'[u] : u \in Busy'} = {job[u] : u \in Busy} \cup {j}
        /\ {job'[u] : u \in Begun'} = {job[u] : u \in Begun} \cup {j}
    BY <2>3, <2>4, <2>6
  <2>9. \A d : OpenOf(d)' = OpenOf(d) /\ ToDoOf(d)' = ToDoOf(d)
    BY <2>2, <2>8 DEF OpenOf, ToDoOf
  <2> QED
    BY <1>1, <2>5, <2>7, <2>9, CallersStay
<1> QED
  BY <1>2, <1>3

\* The thread that works at a job, and the call of it.
LEMMA WorkOf ==
    ASSUME PoolInv, NEW t \in Busy
    PROVE  /\ job[t] \in Jobs \ ToSet(jobs)
           /\ job[t].client \in Clients /\ job[t] \in OpenOf(job[t].client)
           /\ pc[job[t].client] \in Waiting
           /\ job[t].index \in DOMAIN runs[job[t].client]
           /\ job[t] = JobAt(job[t].client, job[t].index)
<1> DEFINE j == job[t]
<1>1. j \in Jobs \ ToSet(jobs) /\ j.client \in Clients /\ TypeOK /\ JobsPlaced
  BY DEF PoolInv, JobsPlaced, Jobs
<1>2. j \in OpenOf(j.client)
  BY DEF OpenOf
<1>3. JobsOfCall(j.client)
  BY <1>1 DEF PoolInv
<1>4. pc[j.client] \in Waiting /\ j.call = calls[j.client] /\ j.index \in DOMAIN runs[j.client]
  BY <1>2, <1>3 DEF JobsOfCall
<1>5. j = [client |-> j.client, index |-> j.index, call |-> j.call]
  BY <1>1, JobTypes
<1> QED
  BY <1>1, <1>2, <1>4, <1>5 DEF JobAt

LEMMA TokenizeStep ==
    ASSUME PoolInv, NEW t \in Tokenizers, Tokenize(t)
    PROVE  PoolInv'
<1>0. PICK j, c, i : j = job[t] /\ c = j.client /\ i = j.index
  OBVIOUS
<1>1. /\ TypeOK /\ JobsPlaced /\ tpc[t] = "tokenize" /\ t \in Busy /\ t \in Begun
      /\ UNCHANGED <<model, jobs, stopping, pc, texts, remaining, calls, job>>
      /\ tpc' = [tpc EXCEPT ![t] = "report"]
  BY DEF PoolInv, Tokenize, Busy, Begun
<1>2. /\ j \in Jobs \ ToSet(jobs) /\ c \in Clients /\ j \in OpenOf(c) /\ pc[c] \in Waiting
      /\ i \in DOMAIN runs[c] /\ j = JobAt(c, i)
  BY <1>0, <1>1, WorkOf
<1>3. /\ runs' = [runs EXCEPT ![c][i] = @ + 1]
      /\ tokens' = [tokens EXCEPT ![c][i + 1] = Spm(model, texts[c][i + 1])]
  BY <1>0 DEF Tokenize, Tokenized
<1>4. /\ tpc' \in [Tokenizers -> TokenizerPCs] /\ Busy' = Busy /\ Begun' = Begun \ {t}
  BY <1>1 DEF TypeOK, Busy, Begun, TokenizerPCs
<1>5. /\ DOMAIN runs' = Clients /\ runs'[c] = [runs[c] EXCEPT ![i] = @ + 1]
      /\ \A d \in Clients \ {c} : runs'[d] = runs[d]
      /\ runs[c] \in [DOMAIN runs[c] -> Nat]
  BY <1>1, <1>2, <1>3 DEF TypeOK
<1>6. /\ DOMAIN runs'[c] = DOMAIN runs[c] /\ runs'[c] \in [DOMAIN runs[c] -> Nat]
      /\ runs'[c][i] = runs[c][i] + 1
      /\ \A k \in DOMAIN runs[c] : k # i => runs'[c][k] = runs[c][k]
  BY <1>2, <1>5
<1>7. TypeOK'
  <2>1. DOMAIN tokens' = Clients /\ \A d \in Clients : DOMAIN tokens'[d] = DOMAIN tokens[d]
    BY <1>1, <1>2, <1>3 DEF TypeOK
  <2>2. \A d \in Clients : runs'[d] \in [DOMAIN runs'[d] -> Nat]
    BY <1>1, <1>5, <1>6 DEF TypeOK
  <2> QED
    BY <1>1, <1>4, <1>5, <2>1, <2>2 DEF TypeOK, TokenizerPCs
<1>8. JobsPlaced'
  BY <1>1, <1>4 DEF JobsPlaced
<1>9. \A d : OpenOf(d)' = OpenOf(d)
  BY <1>1, <1>4 DEF OpenOf
<1>10. {job'[u] : u \in Begun'} = {job[u] : u \in Begun} \ {j}
  <2>1. \A u \in Begun : u \in Busy /\ (job[u] = j <=> u = t)
    BY <1>0, <1>1 DEF JobsPlaced, Busy, Begun
  <2> QED
    BY <1>0, <1>1, <1>4, <2>1
<1>11. ToDoOf(c)' = ToDoOf(c) \ {j} /\ j \in ToDoOf(c)
  BY <1>0, <1>1, <1>2, <1>10 DEF ToDoOf
<1>12. ASSUME NEW d \in Clients, d # c PROVE JobsOfCall(d)' /\ CallOf(d)'
  <2>1. ToDoOf(d)' = ToDoOf(d)
    BY <1>0, <1>1, <1>10, <1>12 DEF ToDoOf
  <2>2. SameCall(d)
    BY <1>1, <1>5, <1>9, <1>12, <2>1 DEF SameCall
  <2>3. JobsOfCall(d) /\ CallOf(d) /\ (pc[d] # "idle" => ~stopping')
    BY <1>1 DEF PoolInv, CallOf
  <2> QED
    BY <2>2, <2>3, JobsStay, CallStays
<1>13. JobsOfCall(c) /\ CallOf(c) /\ pc[c] # "idle" /\ pc[c] # "inline" /\ pc[c] # "enqueue"
  BY <1>2 DEF PoolInv, Waiting
<1>14. JobsOfCall(c)'
  BY <1>1, <1>6, <1>9, <1>13 DEF JobsOfCall
<1>15. CallOf(c)'
  <2>1. \A k : JobAt(c, k)' = JobAt(c, k) /\ (JobAt(c, k) = j <=> k = i)
    BY <1>1, <1>2 DEF JobAt
  <2>2. \A k : Ran(c, k)' <=> Ran(c, k) \/ k = i
    BY <1>1, <1>2, <1>11, <1>13, <2>1 DEF Ran
  <2>3. ~Ran(c, i)
    BY <1>2, <1>11, <2>1 DEF Ran
  <2>4. /\ DOMAIN runs[c] = 0 .. Len(texts[c]) - 1
        /\ \A k \in DOMAIN runs[c] : runs[c][k] = IF Ran(c, k) THEN 1 ELSE 0
    BY <1>13 DEF CallOf
  <2>5. \A k \in DOMAIN runs'[c] : runs'[c][k] = IF Ran(c, k)' THEN 1 ELSE 0
    BY <1>2, <1>6, <2>2, <2>3, <2>4
  <2> QED
    BY <1>1, <1>6, <1>9, <1>13, <2>4, <2>5 DEF CallOf
<1> QED
  BY <1>7, <1>8, <1>12, <1>14, <1>15 DEF PoolInv

LEMMA ReportStep ==
    ASSUME PoolInv, NEW t \in Tokenizers, Report(t)
    PROVE  PoolInv'
<1>0. PICK j, c : j = job[t] /\ c = j.client
  OBVIOUS
<1>1. /\ TypeOK /\ JobsPlaced /\ tpc[t] = "report" /\ t \in Busy /\ t \notin Begun
      /\ UNCHANGED <<model, jobs, stopping, texts, calls, tokens, runs>>
      /\ tpc' = [tpc EXCEPT ![t] = "top"] /\ job' = [job EXCEPT ![t] = <<>>]
  BY DEF PoolInv, Report, Busy, Begun
<1>2. /\ j \in Jobs \ ToSet(jobs) /\ c \in Clients /\ j \in OpenOf(c) /\ pc[c] \in Waiting
  BY <1>0, <1>1, WorkOf
<1>3. /\ remaining' = [remaining EXCEPT ![c] = @ - 1]
      /\ pc' = [pc EXCEPT ![c] = IF remaining[c] = 1 /\ @ = "doneWait" THEN "await" ELSE @]
  BY <1>0 DEF Report
<1>4. /\ JobsOfCall(c) /\ CallOf(c) /\ IsFiniteSet(OpenOf(c))
      /\ remaining[c] = Cardinality(OpenOf(c)) /\ remaining[c] \in Nat
  BY <1>1, <1>2 DEF PoolInv, CallOf, TypeOK, Waiting
<1>5. /\ IsFiniteSet(OpenOf(c) \ {j}) /\ Cardinality(OpenOf(c) \ {j}) = remaining[c] - 1
      /\ Cardinality(OpenOf(c) \ {j}) \in Nat
  BY <1>2, <1>4, FS_RemoveElement, FS_CardinalityType
<1>6. /\ tpc' \in [Tokenizers -> TokenizerPCs] /\ Busy' = Busy \ {t} /\ Begun' = Begun
  BY <1>1 DEF TypeOK, Busy, Begun, TokenizerPCs
<1>7. /\ DOMAIN job' = Tokenizers /\ job'[t] = <<>>
      /\ \A u \in Tokenizers \ {t} : job'[u] = job[u]
  BY <1>1 DEF TypeOK
<1>8. /\ pc' \in [Clients -> PCs] /\ pc'[c] \in Waiting
      /\ remaining' \in [Clients -> Nat] /\ remaining'[c] = remaining[c] - 1
      /\ \A d \in Clients \ {c} : pc'[d] = pc[d] /\ remaining'[d] = remaining[d]
  <2>1. pc \in [Clients -> PCs] /\ remaining \in [Clients -> Nat]
    BY <1>1 DEF TypeOK, PCs
  <2>2. remaining[c] - 1 \in Nat
    BY <1>5
  <2> QED
    BY <1>2, <1>3, <2>1, <2>2 DEF Waiting, PCs
<1>9. TypeOK'
  BY <1>1, <1>6, <1>7, <1>8 DEF TypeOK, TokenizerPCs, PCs
<1>10. Begun \subseteq Busy \ {t}
  BY <1>1 DEF Begun, Busy
<1>11. JobsPlaced'
  <2>1. \A u \in Busy' : u \in Busy /\ job'[u] = job[u]
    BY <1>6, <1>7 DEF Busy
  <2> QED
    BY <1>1, <2>1 DEF JobsPlaced
<1>12. /\ {job'[u] : u \in Busy'} = {job[u] : u \in Busy} \ {j}
       /\ {job'[u] : u \in Begun'} = {job[u] : u \in Begun}
  <2>1. \A u \in Busy : u \in Tokenizers /\ (job[u] = j <=> u = t)
    BY <1>0, <1>1 DEF JobsPlaced, Busy
  <2>2. \A u \in Busy' : job'[u] = job[u] /\ u \in Busy /\ u # t
    BY <1>6, <1>7, <2>1
  <2>3. \A u \in Begun : job'[u] = job[u]
    BY <1>7, <1>10, <2>1
  <2>4. {job'[u] : u \in Busy'} = {job[u] : u \in Busy} \ {j}
    BY <1>6, <2>1, <2>2
  <2> QED
    BY <1>6, <2>3, <2>4
<1>13. \A d : ToDoOf(d)' = ToDoOf(d) /\ OpenOf(d)' = OpenOf(d) \ {j}
  BY <1>1, <1>2, <1>12 DEF ToDoOf, OpenOf
<1>14. ASSUME NEW d \in Clients, d # c PROVE JobsOfCall(d)' /\ CallOf(d)'
  <2>1. j \notin OpenOf(d)
    BY <1>0, <1>14 DEF OpenOf
  <2>2. SameCall(d)
    BY <1>1, <1>8, <1>13, <1>14, <2>1 DEF SameCall
  <2>3. JobsOfCall(d) /\ CallOf(d) /\ (pc[d] # "idle" => ~stopping')
    BY <1>1 DEF PoolInv, CallOf
  <2> QED
    BY <2>2, <2>3, JobsStay, CallStays
<1>15. JobsOfCall(c)'
  BY <1>1, <1>4, <1>8, <1>13 DEF JobsOfCall
<1>16. CallOf(c)'
  <2>1. /\ pc[c] # "idle" /\ pc[c] # "inline" /\ pc[c] # "enqueue"
        /\ pc'[c] # "idle" /\ pc'[c] # "inline" /\ pc'[c] # "enqueue"
    BY <1>2, <1>8 DEF Waiting
  <2>2. \A k : JobAt(c, k)' = JobAt(c, k)
    BY <1>1 DEF JobAt
  <2>3. \A k : Ran(c, k)' <=> Ran(c, k)
    BY <1>2, <1>8, <1>13, <2>1, <2>2 DEF Ran
  <2> QED
    BY <1>1, <1>4, <1>5, <1>8, <1>13, <2>1, <2>3 DEF CallOf
<1> QED
  BY <1>9, <1>11, <1>14, <1>15, <1>16 DEF PoolInv

-----------------------------------------------------------------------------
(* The theorems *)

LEMMA StopStep ==
    ASSUME PoolInv, Stop
    PROVE  PoolInv'
<1>1. /\ TypeOK /\ JobsPlaced /\ UNCHANGED <<model, jobs, callVars, job>>
      /\ tpc' = AllWoken /\ stopping' \in BOOLEAN /\ \A c \in Clients : pc[c] = "idle"
  BY DEF PoolInv, Stop
<1>2. Busy' = Busy /\ Begun' = Begun /\ tpc' \in [Tokenizers -> TokenizerPCs]
  BY <1>1, BroadcastWakes
<1>3. TypeOK'
  BY <1>1, <1>2 DEF TypeOK, callVars, TokenizerPCs
<1>4. JobsPlaced' /\ \A d : OpenOf(d)' = OpenOf(d) /\ ToDoOf(d)' = ToDoOf(d)
  BY <1>1, <1>2, JobsAlone
<1> QED
  BY <1>1, <1>3, <1>4, CallersStay

LEMMA PoolInit == Init => PoolInv
<1> SUFFICES ASSUME Init PROVE PoolInv
  OBVIOUS
<1>1. /\ TypeOK /\ jobs = <<>> /\ \A c \in Clients : pc[c] = "idle"
      /\ Busy = {} /\ Begun = {}
  BY InitTypes DEF Init, Busy, Begun
<1>2. ToSet(jobs) = {} /\ Distinct(jobs)
  BY <1>1, EmptyList DEF Lists
<1>3. JobsPlaced /\ \A c \in Clients : OpenOf(c) = {}
  BY <1>1, <1>2 DEF JobsPlaced, OpenOf
<1> QED
  BY <1>1, <1>3 DEF PoolInv, JobsOfCall, CallOf

LEMMA PoolStep == PoolInv /\ [Next]_vars => PoolInv'
<1> SUFFICES ASSUME PoolInv, [Next]_vars PROVE PoolInv'
  OBVIOUS
<1>1. ASSUME NEW c \in Clients, Calling(c) PROVE PoolInv'
  BY <1>1, InlineStep, EnqueueStep, AwaitStep, AfterStep DEF Calling
<1>2. ASSUME NEW c \in Clients, NEW batch \in Batches(c), Begin(c, batch) PROVE PoolInv'
  BY <1>2, BeginStep
<1>3. ASSUME NEW t \in Tokenizers, Working(t) PROVE PoolInv'
  BY <1>3, TakeStep, TokenizeStep, ReportStep DEF Working
<1>4. CASE Destroyed \/ UNCHANGED vars
  <2>1. UNCHANGED vars
    BY <1>4 DEF Destroyed
  <2>2. /\ TypeOK' /\ JobsPlaced' /\ stopping' = stopping /\ UNCHANGED callVars
        /\ \A d : OpenOf(d)' = OpenOf(d) /\ ToDoOf(d)' = ToDoOf(d)
    BY <2>1 DEF vars, callVars, PoolInv, TypeOK, JobsPlaced, OpenOf, ToDoOf, Busy, Begun
  <2> QED
    BY <2>2, CallersStay
<1> QED
  BY <1>1, <1>2, <1>3, <1>4, StopStep DEF Next

\* The inductive invariant of the tokenizer threads holds in every reachable state.
THEOREM TokenizerInvariant == Spec => []PoolInv
<1>1. Init => PoolInv
  BY PoolInit
<1>2. PoolInv /\ [Next]_vars => PoolInv'
  BY PoolStep
<1> QED
  BY <1>1, <1>2, PTL DEF Spec

\* No job is used after its batch is gone from the caller's stack
\* (inference_service.c 490-517, 1155-1188).
THEOREM JobsAreInCall == Spec => []JobsInCall
<1>1. PoolInv => JobsInCall
  <2> SUFFICES ASSUME PoolInv,
                      NEW j \in ToSet(jobs) \cup {job[t] : t \in Busy}
               PROVE  pc[j.client] \in {"await", "doneWait"} /\ j.call = calls[j.client]
    BY DEF JobsInCall, Busy
  <2>1. j \in Jobs
    BY JobTypes DEF PoolInv
  <2>2. j.client \in Clients /\ j \in OpenOf(j.client)
    BY <2>1 DEF Jobs, OpenOf
  <2> QED
    BY <2>2 DEF PoolInv, JobsOfCall, Waiting
<1> QED
  BY <1>1, TokenizerInvariant, PTL

-----------------------------------------------------------------------------
(* The refinement *)

\* A client without a call, and one with.
LEMMA Phases ==
    ASSUME NEW c \in Clients, CallOf(c)
    PROVE  /\ pc[c] # "idle" => Phase(c) = "running" /\ ~stopping
           /\ pc[c] = "idle" => Phase(c) = IF stopping THEN "closed" ELSE "idle"
BY DEF Phase, CallOf

\* A step that a call does not notice.
LEMMA Unnoticed ==
    ASSUME NEW c \in Clients, Phase(c)' = Phase(c), runs'[c] = runs[c]
    PROVE  [Promise(c)!Next]_(Promise(c)!vars)
BY DEF Promise!vars

\* One more text of a call is tokenized, which was not before.
LEMMA OneMore ==
    ASSUME NEW c \in Clients, NEW i \in DOMAIN runs[c], runs[c][i] = 0,
           DOMAIN runs[c] \subseteq Int,
           runs'[c] = [runs[c] EXCEPT ![i] = @ + 1], Phase(c) = "running", Phase(c)' = "running",
           \A k \in DOMAIN runs[c] : runs[c][k] \in Nat
    PROVE  [Promise(c)!Next]_(Promise(c)!vars)
<1>1. \A k \in DOMAIN runs[c] : k \in i .. i <=> k = i
  OBVIOUS
<1>2. i <= i /\ \A k \in i .. i : runs[c][k] = 0
  OBVIOUS
<1>3. runs'[c] = [k \in DOMAIN runs[c] |-> IF k \in i .. i THEN 1 ELSE runs[c][k]]
  BY <1>1
<1>4. Promise(c)!Execute
  BY <1>2, <1>3 DEF Promise!Execute
<1> QED
  BY <1>4 DEF Promise!Next

LEMMA PromiseStarts == Init => \A c \in Clients : Promise(c)!Init
BY DEF Init, Promise!Init, Phase

\* The steps of client c, for c and for the others.
LEMMA CallerSteps ==
    ASSUME PoolInv, PoolInv', NEW c \in Clients, NEW d \in Clients,
           Calling(c) \/ \E batch \in Batches(c) : Begin(c, batch)
    PROVE  [Promise(d)!Next]_(Promise(d)!vars)
<1>1. TypeOK /\ CallOf(c) /\ CallOf(d) /\ CallOf(c)' /\ CallOf(d)'
  BY DEF PoolInv
<1>2. CASE d # c
  <2>1. pc'[d] = pc[d] /\ runs'[d] = runs[d] /\ stopping' = stopping
    BY <1>1, <1>2 DEF Calling, Inline, Enqueue, AwaitDone, Truncate, Return, Begin, Tokenized, Goto,
                      TypeOK
  <2> QED
    BY <2>1, Unnoticed DEF Phase
<1>3. CASE d = c
  <2>1. ASSUME NEW batch \in Batches(c), Begin(c, batch) PROVE [Promise(c)!Next]_(Promise(c)!vars)
    <3>1. /\ pc[c] = "idle" /\ ~stopping /\ ~stopping' /\ pc'[c] # "idle"
          /\ runs'[c] = [i \in 0 .. Len(batch) - 1 |-> 0]
      BY <1>1, <2>1 DEF Begin, Goto, TypeOK
    <3>2. Phase(c) = "idle" /\ Phase(c)' = "running" /\ Len(batch) \in {Len(b) : b \in Batches(c)}
      BY <3>1 DEF Phase
    <3>3. Promise(c)!Call
      BY <3>1, <3>2 DEF Promise!Call
    <3> QED
      BY <3>3 DEF Promise!Next
  <2>2. CASE Inline(c)
    <3> DEFINE i == Len(texts[c]) - remaining[c]
    <3>1. /\ pc[c] = "inline" /\ pc'[c] # "idle" /\ Len(texts[c]) \in Nat
          /\ remaining[c] \in 1 .. Len(texts[c])
      BY <1>1, <2>2, ClientTypes DEF Inline, Goto, TypeOK, CallOf
    <3>2. DOMAIN runs[c] = 0 .. Len(texts[c]) - 1 /\ i \in DOMAIN runs[c]
      BY <1>1, <3>1 DEF CallOf
    <3>3. ~Ran(c, i)
      BY <3>1 DEF Ran
    <3>4. runs[c][i] = 0
      BY <1>1, <3>1, <3>2, <3>3 DEF CallOf
    <3>5. runs' = [runs EXCEPT ![c][i] = @ + 1]
      BY <2>2 DEF Inline, Tokenized
    <3>6. runs'[c] = [runs[c] EXCEPT ![i] = @ + 1]
      BY <1>1, <3>5 DEF TypeOK
    <3>7. Phase(c) = "running" /\ Phase(c)' = "running"
      BY <3>1 DEF Phase
    <3>8. DOMAIN runs[c] \subseteq Int /\ \A k \in DOMAIN runs[c] : runs[c][k] \in Nat
      BY <1>1, <3>2, ClientTypes
    <3> QED
      BY <1>3, <3>2, <3>4, <3>6, <3>7, <3>8, OneMore
  <2>3. CASE Enqueue(c) \/ AwaitDone(c) \/ Truncate(c)
    <3>1. pc[c] # "idle" /\ pc'[c] # "idle" /\ runs'[c] = runs[c]
      BY <1>1, <2>3 DEF Enqueue, AwaitDone, Truncate, Goto, TypeOK
    <3> QED
      BY <1>3, <3>1, Unnoticed DEF Phase
  <2>4. CASE Return(c)
    <3>1. /\ pc[c] \in {"submit", "failed"} /\ pc'[c] = "idle" /\ runs'[c] = runs[c]
          /\ stopping' = stopping
      BY <1>1, <2>4 DEF Return, Goto, TypeOK
    <3>2. \A i : Ran(c, i)
      BY <3>1 DEF Ran, Waiting
    <3>3. ~stopping /\ \A i \in DOMAIN runs[c] : runs[c][i] = 1
      BY <1>1, <3>1, <3>2 DEF CallOf
    <3>4. Phase(c) = "running" /\ Phase(c)' = "idle"
      BY <3>1, <3>3 DEF Phase
    <3>5. Promise(c)!Return
      BY <3>1, <3>3, <3>4 DEF Promise!Return
    <3> QED
      BY <1>3, <3>5 DEF Promise!Next
  <2> QED
    BY <1>3, <2>1, <2>2, <2>3, <2>4 DEF Calling
<1> QED
  BY <1>2, <1>3

\* The steps of a tokenizer thread.
LEMMA ThreadSteps ==
    ASSUME PoolInv, PoolInv', NEW t \in Tokenizers, Working(t), NEW d \in Clients
    PROVE  [Promise(d)!Next]_(Promise(d)!vars)
<1>1. CASE Take(t)
  <2>1. pc' = pc /\ runs' = runs /\ stopping' = stopping
    BY <1>1 DEF Take, callVars
  <2> QED
    BY <2>1, Unnoticed DEF Phase
<1>2. CASE Report(t)
  <2>1. (pc'[d] = "idle" <=> pc[d] = "idle") /\ runs' = runs /\ stopping' = stopping
    BY <1>2 DEF Report, PoolInv, TypeOK
  <2> QED
    BY <2>1, Unnoticed DEF Phase
<1>3. CASE Tokenize(t)
  <2>1. PICK c, i : c = job[t].client /\ i = job[t].index
    OBVIOUS
  <2>2. /\ t \in Begun /\ t \in Busy /\ pc' = pc /\ stopping' = stopping
        /\ runs' = [runs EXCEPT ![c][i] = @ + 1] /\ TypeOK
    BY <1>3, <2>1 DEF Tokenize, Tokenized, Begun, Busy, PoolInv
  <2>3. /\ c \in Clients /\ pc[c] \in Waiting /\ i \in DOMAIN runs[c] /\ job[t] = JobAt(c, i)
    BY <2>1, <2>2, WorkOf
  <2>4. /\ DOMAIN runs = Clients /\ runs'[c] = [runs[c] EXCEPT ![i] = @ + 1]
        /\ \A e \in Clients \ {c} : runs'[e] = runs[e]
    BY <2>2, <2>3 DEF TypeOK
  <2>5. CASE d # c
    BY <2>2, <2>4, <2>5, Unnoticed DEF Phase
  <2>6. CASE d = c
    <3>1. CallOf(c) /\ JobAt(c, i) \in ToDoOf(c)
      BY <2>1, <2>2, <2>3 DEF PoolInv, ToDoOf
    <3>2. ~Ran(c, i)
      BY <2>3, <3>1 DEF Ran
    <3>3. runs[c][i] = 0 /\ DOMAIN runs[c] \subseteq Int
      BY <2>2, <2>3, <3>1, <3>2, ClientTypes DEF CallOf, Waiting
    <3>4. Phase(c) = "running" /\ Phase(c)' = "running"
      BY <2>2, <2>3 DEF Phase, Waiting
    <3>5. \A k \in DOMAIN runs[c] : runs[c][k] \in Nat
      BY <2>2, <2>3, ClientTypes
    <3> QED
      BY <2>3, <2>4, <2>6, <3>3, <3>4, <3>5, OneMore
  <2> QED
    BY <2>5, <2>6
<1> QED
  BY <1>1, <1>2, <1>3 DEF Working

LEMMA PromiseSteps ==
    ASSUME PoolInv, PoolInv', [Next]_vars, NEW d \in Clients
    PROVE  [Promise(d)!Next]_(Promise(d)!vars)
<1>1. CASE Stop
  <2>1. Phase(d) = "idle" /\ Phase(d)' = "closed" /\ runs'[d] = runs[d]
    BY <1>1 DEF Stop, callVars, Phase
  <2>2. Promise(d)!Close
    BY <2>1 DEF Promise!Close
  <2> QED
    BY <2>2 DEF Promise!Next
<1>2. CASE Destroyed \/ UNCHANGED vars
  <2>1. pc' = pc /\ runs' = runs /\ stopping' = stopping
    BY <1>2 DEF Destroyed, vars, callVars
  <2> QED
    BY <2>1, Unnoticed DEF Phase
<1> QED
  BY <1>1, <1>2, CallerSteps, ThreadSteps DEF Next

\* Every call of ei_inference_service_embed_batch has each of its texts tokenized
\* exactly once between the call and its return, and none afterwards, for any number
\* of callers and tokenizer threads (inference_service.c 490-517, 1155-1188).
THEOREM TokenizersImplementParallelFor == Spec => ImplementsParallelFor
<1>1. Init => \A c \in Clients : Promise(c)!Init
  BY PromiseStarts
<1>2. PoolInv /\ PoolInv' /\ [Next]_vars
        => [\A c \in Clients : [Promise(c)!Next]_(Promise(c)!vars)]_vars
  BY PromiseSteps
<1> QED
  BY <1>1, <1>2, TokenizerInvariant, PTL DEF Spec, ImplementsParallelFor

=============================================================================
