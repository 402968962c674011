----------------------------- MODULE TokenizerPool -----------------------------
(***************************************************************************)
(* The tokenizer threads of src/src/inference_service.c: a call of several *)
(* texts queues one job per text for them and waits until the last of its  *)
(* jobs is done; a call of one text, or a service without such threads,    *)
(* tokenizes on the caller's thread.                                       *)
(*                                                                         *)
(* The batch lives on the caller's stack and its jobs are freed when the   *)
(* caller goes on.  Jobs carry the number of their call, so that a job     *)
(* that outlives its batch is a state.  A critical section of              *)
(* tokenizer_mutex or of a batch's mutex is one step.                      *)
(***************************************************************************)
EXTENDS Integers, Sequences, SequencesExt

CONSTANTS
    Clients,            \* threads that call the service
    Tokenizers,         \* the tokenizer threads
    Models,             \* the models a service may be started with
    Spm(_, _),          \* ei_tokenize_spm: the tokens of a text under a model
    Batches(_),         \* what a client may send in one call: a set of sequences of texts
    Kept(_, _),         \* truncate_tokens: what is left of a text's tokens under a model
    MaxCalls            \* bound of the exploration: calls per client

ASSUME TokenizerAssumption ==
    /\ \A c \in Clients : \A b \in Batches(c) : Len(b) \in Nat \ {0}
    /\ MaxCalls \in Nat

VARIABLES
    model,              \* service->tokenizer->model
    jobs,               \* tokenizer_head ..
    stopping,           \* tokenizer_stopping
    pc, texts, remaining, calls, tokens, runs,  \* callers; runs: how often a text was tokenized
    tpc, job                                \* tokenizer threads

callVars == <<pc, texts, remaining, calls, tokens, runs>>
vars == <<model, jobs, stopping, callVars, tpc, job>>

\* One text of a call.
Jobs == [client : Clients, index : Nat, call : 1 .. MaxCalls]

\* The jobs of client c's current call, in order.
JobsOf(c) == [i \in 1 .. Len(texts[c]) |-> [client |-> c, index |-> i - 1, call |-> calls[c]]]

Init ==
    /\ model \in Models
    /\ jobs = <<>> /\ stopping = FALSE
    /\ pc = [c \in Clients |-> "idle"]
    /\ texts = [c \in Clients |-> <<>>] /\ remaining = [c \in Clients |-> 0]
    /\ calls = [c \in Clients |-> 0]
    /\ tokens = [c \in Clients |-> <<>>]
    /\ runs = [c \in Clients |-> [i \in {} |-> 0]]
    /\ tpc = [t \in Tokenizers |-> "top"]
    /\ job = [t \in Tokenizers |-> <<>>]

-----------------------------------------------------------------------------
(* Callers *)

Goto(c, where) == pc' = [pc EXCEPT ![c] = where]

Begin(c, batch) ==
    /\ pc[c] = "idle" /\ ~stopping /\ calls[c] < MaxCalls
    /\ texts' = [texts EXCEPT ![c] = batch]
    /\ remaining' = [remaining EXCEPT ![c] = Len(batch)]
    /\ calls' = [calls EXCEPT ![c] = @ + 1]
    /\ tokens' = [tokens EXCEPT ![c] = [i \in DOMAIN batch |-> <<>>]]
    /\ runs' = [runs EXCEPT ![c] = [i \in 0 .. Len(batch) - 1 |-> 0]]
    /\ Goto(c, IF Len(batch) > 1 /\ Tokenizers # {} THEN "enqueue" ELSE "inline")
    /\ UNCHANGED <<model, jobs, stopping, tpc, job>>

Tokenized(j) ==
    /\ tokens' = [tokens EXCEPT ![j.client][j.index + 1] = Spm(model, texts[j.client][j.index + 1])]
    /\ runs' = [runs EXCEPT ![j.client][j.index] = @ + 1]

\* The caller tokenizes its texts one after the other.
Inline(c) ==
    /\ pc[c] = "inline"
    /\ Tokenized([client |-> c, index |-> Len(texts[c]) - remaining[c]])
    /\ remaining' = [remaining EXCEPT ![c] = @ - 1]
    /\ Goto(c, IF remaining[c] = 1 THEN "done" ELSE "inline")
    /\ UNCHANGED <<model, jobs, stopping, texts, calls, tpc, job>>

\* pthread_cond_broadcast(&tokenizer_ready)
AllWoken == [t \in Tokenizers |-> IF tpc[t] = "wait" THEN "top" ELSE tpc[t]]

Enqueue(c) ==
    /\ pc[c] = "enqueue"
    /\ jobs' = jobs \o JobsOf(c)
    /\ tpc' = AllWoken
    /\ Goto(c, "await")
    /\ UNCHANGED <<model, stopping, texts, remaining, calls, tokens, runs, job>>

\* Mutant: the caller goes on when its last job has been taken.
NothingQueued(c) == \A i \in DOMAIN jobs : jobs[i].client # c

AllDone(c) == remaining[c] = 0

\* The wait for the batch; afterwards the batch and its jobs are gone.
AwaitDone(c) ==
    /\ pc[c] = "await"
    /\ IF AllDone(c) THEN Goto(c, "done") ELSE Goto(c, "doneWait")
    /\ UNCHANGED <<model, jobs, stopping, texts, remaining, calls, tokens, runs, tpc, job>>

\* Every text is cut to the context; a text without tokens fails the call.
Truncate(c) ==
    /\ pc[c] = "done"
    /\ tokens' = [tokens EXCEPT ![c] = [i \in DOMAIN @ |-> Kept(model, @[i])]]
    /\ Goto(c, IF \E i \in DOMAIN tokens[c] : tokens'[c][i] = <<>> THEN "failed" ELSE "submit")
    /\ UNCHANGED <<model, jobs, stopping, texts, remaining, calls, runs, tpc, job>>

\* The tokens are used (InferenceService) or not, and freed; the call returns.
Return(c) ==
    /\ pc[c] \in {"submit", "failed"}
    /\ texts' = [texts EXCEPT ![c] = <<>>] /\ tokens' = [tokens EXCEPT ![c] = <<>>]
    /\ Goto(c, "idle")
    /\ UNCHANGED <<model, jobs, stopping, remaining, calls, runs, tpc, job>>

-----------------------------------------------------------------------------
(* tokenizer_main *)

\* The top of the loop, with tokenizer_mutex.
Take(t) ==
    /\ tpc[t] = "top"
    /\ IF jobs # <<>>
       THEN /\ job' = [job EXCEPT ![t] = Head(jobs)]
            /\ jobs' = Tail(jobs)
            /\ tpc' = [tpc EXCEPT ![t] = "tokenize"]
       ELSE /\ tpc' = [tpc EXCEPT ![t] = IF stopping THEN "exited" ELSE "wait"]
            /\ UNCHANGED <<jobs, job>>
    /\ UNCHANGED <<model, stopping, callVars>>

Tokenize(t) ==
    /\ tpc[t] = "tokenize"
    /\ Tokenized(job[t])
    /\ tpc' = [tpc EXCEPT ![t] = "report"]
    /\ UNCHANGED <<model, jobs, stopping, pc, texts, remaining, calls, job>>

\* The last job of a batch wakes its caller.
Report(t) ==
    /\ tpc[t] = "report"
    /\ LET c == job[t].client
       IN  /\ remaining' = [remaining EXCEPT ![c] = @ - 1]
           /\ pc' = [pc EXCEPT ![c] = IF remaining[c] = 1 /\ @ = "doneWait" THEN "await" ELSE @]
    /\ tpc' = [tpc EXCEPT ![t] = "top"]
    /\ job' = [job EXCEPT ![t] = <<>>]
    /\ UNCHANGED <<model, jobs, stopping, texts, calls, tokens, runs>>

-----------------------------------------------------------------------------
(* ei_inference_service_free *)

\* Mutant: the threads are told without a broadcast.
StopSilently ==
    /\ ~stopping /\ \A c \in Clients : pc[c] = "idle"
    /\ stopping' = TRUE
    /\ UNCHANGED <<model, jobs, callVars, tpc, job>>

Stop ==
    /\ ~stopping /\ \A c \in Clients : pc[c] = "idle"
    /\ stopping' = TRUE
    /\ tpc' = AllWoken
    /\ UNCHANGED <<model, jobs, callVars, job>>

AllExited == \A t \in Tokenizers : tpc[t] = "exited"

Destroyed == stopping /\ AllExited /\ UNCHANGED vars

Calling(c) == Inline(c) \/ Enqueue(c) \/ AwaitDone(c) \/ Truncate(c) \/ Return(c)

Working(t) == Take(t) \/ Tokenize(t) \/ Report(t)

Next ==
    \/ \E c \in Clients : Calling(c) \/ \E batch \in Batches(c) : Begin(c, batch)
    \/ \E t \in Tokenizers : Working(t)
    \/ Stop \/ Destroyed

Spec == Init /\ [][Next]_vars

\* Every thread runs on while it can.
FairSpec ==
    /\ Spec
    /\ \A c \in Clients : WF_vars(Calling(c))
    /\ \A t \in Tokenizers : WF_vars(Working(t))

-----------------------------------------------------------------------------
(* Properties *)

\* The type of every variable; remaining, which is unsigned, never goes below zero.
TypeOK ==
    /\ model \in Models
    /\ jobs \in Seq(Jobs) /\ stopping \in BOOLEAN
    /\ pc \in [Clients -> {"idle", "inline", "enqueue", "await", "doneWait", "done", "submit", "failed"}]
    /\ DOMAIN texts = Clients /\ \A c \in Clients : texts[c] \in Batches(c) \cup {<<>>}
    /\ remaining \in [Clients -> Nat]
    /\ calls \in [Clients -> 0 .. MaxCalls]
    /\ DOMAIN tokens = Clients /\ \A c \in Clients : DOMAIN tokens[c] = DOMAIN texts[c]
    /\ DOMAIN runs = Clients /\ \A c \in Clients : runs[c] \in [DOMAIN runs[c] -> Nat]
    /\ tpc \in [Tokenizers -> {"top", "wait", "tokenize", "report", "exited"}]
    /\ DOMAIN job = Tokenizers /\ \A t \in Tokenizers : job[t] \in Jobs \cup {<<>>}

\* No job is used after its batch is gone from the caller's stack.
JobsInCall ==
    \A j \in ToSet(jobs) \cup {job[t] : t \in {u \in Tokenizers : tpc[u] \in {"tokenize", "report"}}} :
        pc[j.client] \in {"await", "doneWait"} /\ j.call = calls[j.client]

\* Every call gets each of its texts tokenized exactly once before it goes on.
Phase(c) == IF pc[c] = "idle" THEN IF stopping THEN "closed" ELSE "idle" ELSE "running"

Promise(c) == INSTANCE ParallelFor WITH
    Sizes <- {Len(b) : b \in Batches(c)}, phase <- Phase(c), runs <- runs[c]

ImplementsParallelFor ==
    /\ \A c \in Clients : Promise(c)!Init
    /\ [][\A c \in Clients : [Promise(c)!Next]_(Promise(c)!vars)]_vars

\* Every call returns, and a service that stops gets all its threads back.
TokenizersReturn ==
    /\ \A c \in Clients : pc[c] # "idle" ~> pc[c] = "idle"
    /\ stopping ~> AllExited

=============================================================================
