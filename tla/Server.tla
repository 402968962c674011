-------------------------------- MODULE Server --------------------------------
(***************************************************************************)
(* A life of the server (main of src/src/server.c): the exact cache is        *)
(* loaded, connections are served, a stop signal ends the accept loop, the  *)
(* cache is dumped while workers and waves go on, and the process ends; or  *)
(* it crashes.  It may then be started again, with another model.           *)
(***************************************************************************)
EXTENDS HttpFrontend, PersistentCache

VARIABLE lives          \* so far; a layout bounds them

vars == <<frontVars, cacheVars, lives>>

ASSUME ServerAssumption ==
    \A l \in Layouts :
        /\ l.lives \in Nat
        /\ \A c \in DOMAIN l.scripts : \A n \in DOMAIN l.scripts[c] :
              l.scripts[c][n].key \in Keys \cup {None}

Init == FrontInit /\ CacheInit /\ lives = 1

\* ei_inference_service_create loads the cache; then the workers start and the
\* server listens.
Start ==
    /\ mpc = "load"
    /\ Load
    /\ mpc' = "test"
    /\ UNCHANGED <<layout, stop, late, accepted, kernelVars, ringVars, wpc, workerVars, buffer, replies, lives>>

Running == mpc \in {"test", "calling", "accept", "push", "dump"}

\* A worker submits the text of its request, and answers from the cache.
Submit(w) ==
    /\ wpc[w] = "handle" /\ Asked(w).key # None
    /\ SubmitKey(Asked(w).key)
    /\ UNCHANGED <<frontVars, lives>>

AnswerRequest(w) ==
    /\ Answer(w)
    /\ Asked(w).key # None => MayLock /\ table[Asked(w).key] = "READY"
    /\ UNCHANGED <<cacheVars, lives>>

WorkerStep(w) == Running /\ Working(w) /\ UNCHANGED <<cacheVars, lives>>
WorkerSilent(w) == Running /\ Silence(w) /\ UNCHANGED <<cacheVars, lives>>

Wave(k) == (Computes(k) \/ BecomesReady(k)) /\ UNCHANGED <<frontVars, lives>>

\* An entry may be evicted, or fail, when no worker of the model waits for it.
Evicted(k) ==
    /\ \A w \in Workers : wpc[w] = "handle" => Asked(w).key # k
    /\ Leaves(k)
    /\ UNCHANGED <<frontVars, lives>>

MainStep == Main /\ UNCHANGED <<cacheVars, lives>>

DumpStep == mpc = "dump" /\ Dump /\ UNCHANGED <<frontVars, lives>>

\* main returns behind the dump.
Exit ==
    /\ mpc = "dump" /\ dpc = "done"
    /\ AllClosed /\ Ends(FALSE)
    /\ UNCHANGED lives

\* The process is killed, or the machine loses power.
Crash ==
    /\ Running
    /\ AllClosed /\ (Ends(FALSE) \/ Ends(TRUE))
    /\ UNCHANGED lives

Restart ==
    /\ mpc = "down" /\ lives < layout.lives
    /\ lives' = lives + 1
    /\ mpc' = "load"
    /\ NewModel
    /\ UNCHANGED <<layout, stop, late, accepted, kernelVars, ringVars, wpc, workerVars, buffer, replies>>

\* Nothing is left to do.
Over == mpc = "down" /\ lives = layout.lives /\ UNCHANGED vars

MainThread == Start \/ MainStep \/ DumpStep \/ Exit \/ Restart
Worker(w) == WorkerStep(w) \/ Submit(w) \/ AnswerRequest(w)
Waves == \E k \in Keys : Wave(k)

Next ==
    \/ MainThread
    \/ Crash
    \/ Over
    \/ Signal /\ UNCHANGED <<cacheVars, lives>>
    \/ \E c \in Connections : Running /\ Connect(c) /\ UNCHANGED <<cacheVars, lives>>
    \/ \E w \in layout.workers : Worker(w) \/ WorkerSilent(w)
    \/ Waves
    \/ \E k \in Keys : Evicted(k)

Spec == Init /\ [][Next]_vars

\* Threads run, a worker that competes for a connection gets one in the end, a
\* receive ends by data, end of stream or timeout, and waves end.
Fairness ==
    /\ WF_vars(MainThread)
    /\ \A w \in Workers :
          /\ SF_vars(w \in layout.workers /\ Worker(w))
          /\ WF_vars(w \in layout.workers /\ WorkerSilent(w))
    /\ SF_vars(Waves)

FairSpec == Spec /\ Fairness

-----------------------------------------------------------------------------

\* The type of every variable.
TypeOK ==
    /\ CacheTypeOK
    /\ mpc \in {"load", "test", "calling", "accept", "push", "dump", "down"}
    /\ stop \in BOOLEAN /\ late \in Nat /\ accepted \in Connections \cup {None}
    /\ fresh \subseteq Connections /\ closed \subseteq Connections
    /\ head \in 0 .. Cap - 1 /\ count \in 0 .. Cap
    /\ fds \in [0 .. Cap - 1 -> Connections \cup {None}]
    /\ wpc \in [Workers -> {"pop", "wait", "slot", "read", "handle", "leave", "close"}]
    /\ conn \in [Workers -> Connections \cup {None}] /\ kept \in [Workers -> BOOLEAN]
    /\ active \in Nat

\* Every connection made is answered or refused and closed, or goes with the
\* process.
ConnectionsEnd ==
    \A c \in Connections : c \in ToSet(backlog) ~> c \in closed

\* A stop signal is acted on with the next connection at the latest: one that is lost
\* between the test of the flag and accept() does not stay unnoticed beside traffic.
StopNoticed == (stop /\ backlog # <<>>) ~> mpc \in {"dump", "down"}

=============================================================================
