--------------------------- MODULE InferenceService ---------------------------
(***************************************************************************)
(* The embedding scheduler of src/src/inference_service.c: client threads  *)
(* submit token sequences, equal sequences share one cache entry, one      *)
(* backend thread per executor slot forms waves from the queue, and a lone *)
(* request may run its wave inline on the client's thread.                 *)
(*                                                                         *)
(* Every action is a piece of code executed while service->mutex is held,  *)
(* or the unlocked execution between two such pieces.  `lock' is the owner *)
(* of the mutex, so a critical section that loops is a sequence of actions *)
(* no other thread can interleave with.  Waiting on a condition variable   *)
(* is a program counter of its own ("queueWait", "collectWait" on          *)
(* queue_ready, "doneWait" on an entry's done), left only by a signal, a   *)
(* broadcast or, for collectWait, the timeout.                             *)
(*                                                                         *)
(* An entry is a heap cell: `entries' maps it to its record while it is    *)
(* linked in the bucket table and to NoEntry once it is freed.  Queue,     *)
(* waves, LRU list and callers hold cells, so a stale pointer is a state.  *)
(***************************************************************************)
EXTENDS WavePolicy, TLC

CONSTANTS
    Clients,            \* threads that call the embed functions
    Keys,               \* token sequences
    TokensOf,           \* length of each of them
    Calls,              \* the key sequences a call may carry
    Cells,              \* heap cells for cache entries, 1 .. n
    CacheEntries,       \* config.cache_entries
    Switches,           \* the EI_* switches that are on, see AllSwitches
    Free, NoEntry,      \* lock without an owner, freed cell
    DrainOnStop         \* free() while calls are waiting for their answer

\* EI_BATCH_LOOKAHEAD, EI_SOLO_INLINE, EI_BATCH_WAVE, EI_ADAPTIVE_BATCH_WAIT,
\* EI_BATCH_SORT, a non-zero batch_wait_us and EI_BATCH_ARRIVAL_WAIT_US.
AllSwitches ==
    {"lookahead", "solo_inline", "batch_wave", "adaptive_wait", "sort",
     "batch_wait", "arrival_wait"}

\* struct cache_entry, without the answer itself.
EntryType == [key : Keys, users : Nat, state : {"PENDING", "READY", "FAILED"}]

ASSUME ServiceAssumption ==
    /\ TokensOf \in [Keys -> 1 .. ContextLimit]
    /\ Calls \subseteq Seq(Keys) \ {<<>>}
    /\ Cells \subseteq Nat
    /\ CacheEntries \in Nat
    /\ Switches \subseteq AllSwitches
    /\ DrainOnStop \in BOOLEAN
    /\ NoEntry \notin EntryType
    /\ Free \notin Clients \cup Slots
    /\ Clients \cap Slots = {}

VARIABLES
    entries,        \* the bucket table, by cell
    queue,          \* queue_head ..: cells waiting for a wave
    lru,            \* lru_head ..: ready cells, most recent first
    readyEntries,
    pruning,        \* the lock's owner is in prune_cache
    slotMask, longMask,
    arriving, active, activePeak,
    stopping,
    lock,
    \* callers
    pc, items, handles, index, soloSlot, ok,
    \* backend threads, one per slot
    bpc, wave, slot, class, position

tableVars == <<entries, lru, readyEntries, pruning>>
slotVars == <<slotMask, longMask>>
countVars == <<arriving, active, activePeak>>
clientVars == <<pc, items, handles, index, soloSlot, ok>>
backendVars == <<bpc, wave, slot, class, position>>
vars == <<tableVars, queue, slotVars, countVars, stopping, lock, clientVars, backendVars>>

On(switch) == switch \in Switches

Lens(cells) == [i \in DOMAIN cells |-> TokensOf[entries[cells[i]].key]]

\* The list s with one occurrence of e unlinked.
Without(s, e) ==
    IF e \in ToSet(s) THEN RemoveAt(s, CHOOSE i \in DOMAIN s : s[i] = e) ELSE s

Init ==
    /\ entries = [e \in Cells |-> NoEntry]
    /\ queue = <<>> /\ lru = <<>> /\ readyEntries = 0 /\ pruning = FALSE
    /\ slotMask = {} /\ longMask = {}
    /\ arriving = 0 /\ active = 0 /\ activePeak = 0
    /\ stopping = FALSE
    /\ lock = Free
    /\ pc = [c \in Clients |-> "idle"]
    /\ items = [c \in Clients |-> <<>>]
    /\ handles = [c \in Clients |-> <<>>]
    /\ index = [c \in Clients |-> 1]
    /\ soloSlot = [c \in Clients |-> 0]
    /\ ok = [c \in Clients |-> TRUE]
    /\ bpc = [t \in Slots |-> "top"]
    /\ wave = [t \in Slots |-> <<>>]
    /\ slot = [t \in Slots |-> 0]
    /\ class = [t \in Slots |-> "FIFO"]
    /\ position = [t \in Slots |-> 1]

-----------------------------------------------------------------------------
(* Locking and condition variables. *)

Holds(p) == lock = p /\ ~pruning
MayLock(p) == lock \in {Free, p} /\ ~pruning

Woken(at) == CASE at = "queueWait" -> "top"
               [] at = "collectWait" -> "collect"
               [] OTHER -> at

Waiters(at) == {t \in Slots : at[t] \in {"queueWait", "collectWait"}}

\* Mutant: the signal is forgotten.
UnsignalledQueue(at) == bpc' = at

\* pthread_cond_signal(&service->queue_ready), from the backend counters `at'.
SignalQueue(at) ==
    IF Waiters(at) = {} THEN bpc' = at
    ELSE \E t \in Waiters(at) : bpc' = [at EXCEPT ![t] = Woken(at[t])]

\* Mutant: a signal where all threads must wake.
WakeLowest(at) ==
    [t \in Slots |-> IF t \in Waiters(at) /\ \A u \in Waiters(at) : t <= u
                     THEN Woken(at[t]) ELSE at[t]]

WakeAll(at) == [t \in Slots |-> Woken(at[t])]

\* release_slot_locked broadcasts only when there are several slots.
AfterRelease(at) == IF PipelineSlots > 1 THEN WakeAll(at) ELSE at

\* Mutant: one of the callers is woken.
WakeOneCaller(at, done) ==
    LET waiting == {c \in Clients : at[c] = "doneWait" /\ handles[c][index[c]] \in done}
    IN  [c \in Clients |-> IF waiting # {} /\ c = (CHOOSE w \in waiting : TRUE)
                           THEN "await" ELSE at[c]]

\* pthread_cond_broadcast(&entry->done) on each of a set of cells.
WakeCallers(at, done) ==
    [c \in Clients |-> IF at[c] = "doneWait" /\ handles[c][index[c]] \in done
                       THEN "await" ELSE at[c]]

-----------------------------------------------------------------------------
(* The entry cache. *)

FreeCells == {e \in Cells : entries[e] = NoEntry}

\* Mutant: a request in flight is not found, so it is queued a second time.
MatchingReady(k) ==
    {e \in Cells \ FreeCells : entries[e].key = k /\ entries[e].state = "READY"}

\* entry_slot: the cells whose tokens equal the request's.
Matching(k) == {e \in Cells \ FreeCells : entries[e].key = k}

\* lru_push_front
PushFront(list, e) == <<e>> \o Without(list, e)

\* Mutant: eviction from the LRU tail without the test of users.
EvictableInUse == {i \in DOMAIN lru : i = Len(lru)}

\* Mutant: eviction from the head of the LRU list.
EvictableFromHead ==
    LET unused == {i \in DOMAIN lru : entries[lru[i]].users = 0}
    IN  {i \in unused : \A j \in unused : i <= j}

\* The LRU position prune_cache finds: the last entry that nobody uses.
Evictable ==
    LET unused == {i \in DOMAIN lru : entries[lru[i]].users = 0}
    IN  {i \in unused : \A j \in unused : j <= i}

\* prune_cache: remove_entry while there are more than CacheEntries ready ones.
Evict ==
    /\ pruning /\ readyEntries > CacheEntries
    /\ \E i \in Evictable :
          /\ entries' = [entries EXCEPT ![lru[i]] = NoEntry]
          /\ lru' = RemoveAt(lru, i)
          /\ readyEntries' = readyEntries - 1
    /\ UNCHANGED <<pruning, queue, slotVars, countVars, stopping, lock, clientVars, backendVars>>

Pruned ==
    /\ pruning
    /\ readyEntries > CacheEntries => Evictable = {}
    /\ pruning' = FALSE
    /\ UNCHANGED <<entries, lru, readyEntries, queue, slotVars, countVars, stopping, lock,
                   clientVars, backendVars>>

\* A finished wave: its entries become READY and enter the LRU list in wave
\* order, or all of them become FAILED; then the cache is pruned.
Complete(done, success) ==
    /\ entries' = [e \in Cells |-> IF e \in ToSet(done)
          THEN [entries[e] EXCEPT !.state = IF success THEN "READY" ELSE "FAILED"]
          ELSE entries[e]]
    /\ lru' = IF success THEN Reverse(done) \o lru ELSE lru
    /\ readyEntries' = IF success THEN readyEntries + Len(done) ELSE readyEntries
    /\ pruning' = TRUE

-----------------------------------------------------------------------------
(* Waves: what the policy says in the current state. *)

Pick == PickSlot(Lens(queue), slotMask, longMask)

CanStart == CanStartWave(Lens(queue), slotMask, longMask)

\* expected_wave
ExpectedWave == IF activePeak < MaxBatchRequests THEN activePeak ELSE MaxBatchRequests

\* should_collect_batch; `hot' stands for the clock test on batch_hot_until_ns.
ShouldCollect(hot) ==
    /\ On("batch_wait")
    /\ \/ arriving > 0 /\ On("arrival_wait")
       \/ ~On("adaptive_wait")
       \/ Len(queue) > 1
       \/ On("batch_wave") /\ active > Len(queue) /\ ExpectedWave > Len(queue)
       \/ hot

CollectionComplete(s) ==
    CollectionReady(Lens(queue), WaveBudget(s),
                    IF On("batch_wave") THEN ExpectedWave ELSE 0, On("lookahead"))

ReleaseSlot(s) ==
    /\ slotMask' = slotMask \ {s}
    /\ longMask' = longMask \ {s}

-----------------------------------------------------------------------------
(* Callers: ei_inference_service_embed_batch_with_usage and _embed_tokens.  *)

Goto(c, where) == pc' = [pc EXCEPT ![c] = where]

\* note_active_request_locked
NoteActive(n) ==
    /\ active' = active + n
    /\ activePeak' = IF active + n > activePeak THEN active + n ELSE activePeak

\* Mutant: one arrival is taken back per call.
NoteArrivedOnce(c) == arriving' = arriving - 1

\* The texts of a call are tokenized: they are no longer arriving.
NoteArrived(c) == arriving' = arriving - Len(items[c])

\* The start of a batch call: its texts are counted as arriving.
Arrive(c, call) ==
    /\ pc[c] = "idle" /\ lock = Free /\ ~stopping
    /\ items' = [items EXCEPT ![c] = call]
    /\ arriving' = arriving + Len(call)
    /\ Goto(c, "tokenize")
    /\ UNCHANGED <<tableVars, queue, slotVars, active, activePeak, stopping, lock,
                   handles, index, soloSlot, ok, backendVars>>

\* A text without tokens: the call fails before anything is queued.
NoTokens(c) ==
    /\ pc[c] = "tokenize" /\ lock = Free
    /\ NoteArrived(c)
    /\ bpc' = WakeAll(bpc)
    /\ items' = [items EXCEPT ![c] = <<>>]
    /\ ok' = [ok EXCEPT ![c] = FALSE]
    /\ Goto(c, "idle")
    /\ UNCHANGED <<tableVars, queue, slotVars, active, activePeak, stopping, lock,
                   handles, index, soloSlot, wave, slot, class, position>>

\* Every text is tokenized: the call takes the mutex and starts to submit.
Tokenized(c) ==
    /\ pc[c] = "tokenize" /\ lock = Free
    /\ lock' = c
    /\ NoteArrived(c)
    /\ NoteActive(Len(items[c]))
    /\ ok' = [ok EXCEPT ![c] = TRUE]
    /\ Goto(c, "submit")
    /\ UNCHANGED <<tableVars, queue, slotVars, stopping,
                   items, handles, index, soloSlot, backendVars>>

\* ei_inference_service_embed_tokens: one sequence, already tokenized.
EmbedTokens(c, call) ==
    /\ pc[c] = "idle" /\ lock = Free /\ ~stopping
    /\ Len(call) = 1
    /\ lock' = c
    /\ items' = [items EXCEPT ![c] = call]
    /\ NoteActive(1)
    /\ ok' = [ok EXCEPT ![c] = TRUE]
    /\ Goto(c, "submit")
    /\ UNCHANGED <<tableVars, queue, slotVars, arriving, stopping,
                   handles, index, soloSlot, backendVars>>

\* The item of call c that is submitted next, and whether it is the last one.
NextItem(c) == items[c][Len(handles[c]) + 1]

Submitted(c, e) ==
    /\ handles' = [handles EXCEPT ![c] = Append(@, e)]
    /\ Goto(c, IF Len(handles[c]) + 1 = Len(items[c]) THEN "launch" ELSE "submit")
    /\ UNCHANGED <<readyEntries, pruning, slotVars, countVars, stopping, lock,
                   items, index, soloSlot, ok, backendVars>>

\* Mutant: joining an entry does not count its user.
SubmitUncounted(c) ==
    /\ Holds(c) /\ pc[c] = "submit"
    /\ \E e \in Matching(NextItem(c)) :
          /\ lru' = IF entries[e].state = "READY" THEN PushFront(lru, e) ELSE lru
          /\ Submitted(c, e)
    /\ UNCHANGED <<entries, queue>>

\* submit_tokens_locked, a known sequence: join its entry, whatever its state.
SubmitHit(c) ==
    /\ Holds(c) /\ pc[c] = "submit"
    /\ \E e \in Matching(NextItem(c)) :
          /\ entries' = [entries EXCEPT ![e].users = @ + 1]
          /\ lru' = IF entries[e].state = "READY" THEN PushFront(lru, e) ELSE lru
          /\ Submitted(c, e)
    /\ UNCHANGED queue

\* submit_tokens_locked, a new sequence: a pending entry joins the queue.
SubmitMiss(c) ==
    /\ Holds(c) /\ pc[c] = "submit"
    /\ Matching(NextItem(c)) = {}
    /\ FreeCells # {}
    /\ LET e == Lowest(FreeCells)
       IN  /\ entries' = [entries EXCEPT ![e] =
                              [key |-> NextItem(c), users |-> 1, state |-> "PENDING"]]
           /\ queue' = Append(queue, e)
           /\ Submitted(c, e)
    /\ UNCHANGED lru

\* try_execute_solo_locked: the lone request of an otherwise empty service.
SoloAllowed(c) ==
    LET e == handles[c][1]
        n == TokensOf[entries[e].key]
    IN  /\ On("solo_inline")
        /\ Len(items[c]) = 1
        /\ \/ Pick.wave = "ANY"
           \/ Pick.wave = "SHORT" /\ IsShort(n)
        /\ entries[e].state = "PENDING"
        /\ queue = <<e>>
        /\ ExpectedWave <= 1
        /\ ~(arriving > 0 /\ On("arrival_wait"))

LaunchSolo(c) ==
    /\ Holds(c) /\ pc[c] = "launch"
    /\ SoloAllowed(c)
    /\ queue' = <<>>
    /\ slotMask' = slotMask \cup {Pick.slot}
    /\ longMask' = IF BypassMode /\ ~IsShort(TokensOf[entries[handles[c][1]].key])
                   THEN longMask \cup {Pick.slot} ELSE longMask
    /\ soloSlot' = [soloSlot EXCEPT ![c] = Pick.slot]
    /\ lock' = Free
    /\ Goto(c, "solo")
    /\ UNCHANGED <<tableVars, countVars, stopping, items, handles, index, ok, backendVars>>

LaunchSignal(c) ==
    /\ Holds(c) /\ pc[c] = "launch"
    /\ ~SoloAllowed(c)
    /\ SignalQueue(bpc)
    /\ Goto(c, "await")
    /\ UNCHANGED <<tableVars, queue, slotVars, countVars, stopping, lock,
                   items, handles, index, soloSlot, ok, wave, slot, class, position>>

\* The inline wave has run: publish it and wake the backend.
SoloDone(c, success) ==
    /\ pc[c] = "solo" /\ lock = Free
    /\ lock' = c
    /\ ReleaseSlot(soloSlot[c])
    /\ soloSlot' = [soloSlot EXCEPT ![c] = 0]
    /\ activePeak' = active
    /\ Complete(<<handles[c][1]>>, success)
    /\ pc' = [WakeCallers(pc, {handles[c][1]}) EXCEPT ![c] = "await"]
    /\ SignalQueue(AfterRelease(bpc))
    /\ UNCHANGED <<queue, arriving, active, stopping, items, handles, index, ok,
                   wave, slot, class, position>>

\* await_entry_locked while the entry is pending.
AwaitBlock(c) ==
    /\ MayLock(c) /\ pc[c] = "await"
    /\ entries[handles[c][index[c]]].state = "PENDING"
    /\ lock' = Free
    /\ Goto(c, "doneWait")
    /\ UNCHANGED <<tableVars, queue, slotVars, countVars, stopping,
                   items, handles, index, soloSlot, ok, backendVars>>

\* Mutant: the cache is not pruned when an entry is released.
ReleaseUnpruned(e) ==
    /\ entries' = [entries EXCEPT ![e] =
          IF @.state = "FAILED" /\ @.users = 1 THEN NoEntry ELSE [@ EXCEPT !.users = @ - 1]]
    /\ UNCHANGED <<lru, readyEntries, pruning>>

\* Mutant: a failed entry stays in the table.
ReleaseKeepsFailed(e) ==
    /\ entries' = [entries EXCEPT ![e].users = @ - 1]
    /\ pruning' = TRUE
    /\ UNCHANGED <<lru, readyEntries>>

\* release_entry: a failed entry goes with its last user, else the cache is pruned.
ReleaseEntry(e) ==
    IF entries[e].state = "FAILED" /\ entries[e].users = 1
    THEN /\ entries' = [entries EXCEPT ![e] = NoEntry]
         /\ lru' = Without(lru, e)
         /\ readyEntries' = IF e \in ToSet(lru) THEN readyEntries - 1 ELSE readyEntries
         /\ UNCHANGED pruning
    ELSE /\ entries' = [entries EXCEPT ![e].users = @ - 1]
         /\ pruning' = TRUE
         /\ UNCHANGED <<lru, readyEntries>>

\* await_entry_locked once the entry is answered.
AwaitTake(c) ==
    LET e == handles[c][index[c]]
    IN  /\ MayLock(c) /\ pc[c] = "await"
        /\ entries[e].state # "PENDING"
        /\ ok' = [ok EXCEPT ![c] = @ /\ entries[e].state = "READY"]
        /\ ReleaseEntry(e)
        /\ index' = [index EXCEPT ![c] = @ + 1]
        /\ lock' = c
        /\ Goto(c, IF index[c] = Len(handles[c]) THEN "return" ELSE "await")
        /\ UNCHANGED <<queue, slotVars, countVars, stopping, items, handles, soloSlot,
                       backendVars>>

\* The last item is answered: the call ends.
Return(c) ==
    /\ Holds(c) /\ pc[c] = "return"
    /\ active' = active - Len(items[c])
    /\ items' = [items EXCEPT ![c] = <<>>]
    /\ handles' = [handles EXCEPT ![c] = <<>>]
    /\ index' = [index EXCEPT ![c] = 1]
    /\ lock' = Free
    /\ Goto(c, "idle")
    /\ UNCHANGED <<tableVars, queue, slotVars, arriving, activePeak, stopping, soloSlot, ok,
                   backendVars>>

Client(c) ==
    \/ \E call \in Calls : Arrive(c, call) \/ EmbedTokens(c, call)
    \/ NoTokens(c) \/ Tokenized(c)
    \/ SubmitHit(c) \/ SubmitMiss(c)
    \/ LaunchSolo(c) \/ LaunchSignal(c)
    \/ \E success \in BOOLEAN : SoloDone(c, success)
    \/ AwaitBlock(c) \/ AwaitTake(c) \/ Return(c)

-----------------------------------------------------------------------------
(* backend_main: one thread per slot, any thread runs a wave on any slot.   *)

BackendAt(t, where) == bpc' = [bpc EXCEPT ![t] = where]

\* The wait at the top of the loop.
QueueWait(t) ==
    /\ MayLock(t) /\ bpc[t] = "top"
    /\ IF queue = <<>> THEN ~stopping ELSE ~CanStart
    /\ lock' = Free
    /\ BackendAt(t, "queueWait")
    /\ UNCHANGED <<tableVars, queue, slotVars, countVars, stopping, clientVars,
                   wave, slot, class, position>>

Exit(t) ==
    /\ MayLock(t) /\ bpc[t] = "top"
    /\ queue = <<>> /\ stopping
    /\ lock' = Free
    /\ BackendAt(t, "exited")
    /\ UNCHANGED <<tableVars, queue, slotVars, countVars, stopping, clientVars,
                   wave, slot, class, position>>

\* The slot and the class of the next wave are fixed, the scan of the queue starts.
BeginScan(t) ==
    /\ slot' = [slot EXCEPT ![t] = Pick.slot]
    /\ class' = [class EXCEPT ![t] =
                    WaveClass(Pick.wave, Lens(queue)[1], On("lookahead"))]
    /\ wave' = [wave EXCEPT ![t] = <<>>]
    /\ position' = [position EXCEPT ![t] = 1]
    /\ BackendAt(t, "scan")
    /\ lock' = t

StartCollect(t) ==
    /\ MayLock(t) /\ bpc[t] = "top"
    /\ queue # <<>> /\ Pick.wave = "ANY"
    /\ \E hot \in BOOLEAN : ShouldCollect(hot)
    /\ ~stopping /\ ~CollectionComplete(Pick.slot)
    /\ slot' = [slot EXCEPT ![t] = Pick.slot]
    /\ lock' = Free
    /\ BackendAt(t, "collectWait")
    /\ UNCHANGED <<tableVars, queue, slotVars, countVars, stopping, clientVars,
                   wave, class, position>>

StartWave(t) ==
    /\ MayLock(t) /\ bpc[t] = "top"
    /\ queue # <<>> /\ CanStart
    /\ \/ Pick.wave # "ANY"
       \/ \E hot \in BOOLEAN : ~ShouldCollect(hot)
       \/ stopping \/ CollectionComplete(Pick.slot)
    /\ BeginScan(t)
    /\ UNCHANGED <<tableVars, queue, slotVars, countVars, stopping, clientVars>>

\* Woken before the deadline with the wave still incomplete.
CollectAgain(t) ==
    /\ lock = Free /\ bpc[t] = "collect"
    /\ ~stopping /\ ~CollectionComplete(slot[t])
    /\ BackendAt(t, "collectWait")
    /\ UNCHANGED <<tableVars, queue, slotVars, countVars, stopping, lock, clientVars,
                   wave, slot, class, position>>

\* Mutant: the slot chosen before the wait is used without picking again.
EndCollectStale(t) ==
    /\ lock = Free /\ bpc[t] \in {"collect", "collectWait"}
    /\ IF queue # <<>>
       THEN /\ class' = [class EXCEPT ![t] = "FIFO"]
            /\ wave' = [wave EXCEPT ![t] = <<>>]
            /\ position' = [position EXCEPT ![t] = 1]
            /\ BackendAt(t, "scan")
       ELSE BackendAt(t, "top") /\ UNCHANGED <<wave, class, position>>
    /\ lock' = t
    /\ UNCHANGED <<tableVars, queue, slotVars, countVars, stopping, clientVars, slot>>

\* The collection ends, by its deadline or because the wave is ready.  Other
\* threads ran meanwhile, so the slot is picked again; without one, the thread
\* goes back to the top of its loop with the mutex held.
EndCollect(t) ==
    /\ lock = Free /\ bpc[t] \in {"collect", "collectWait"}
    /\ IF CanStart THEN BeginScan(t)
       ELSE /\ lock' = t
            /\ BackendAt(t, "top")
            /\ UNCHANGED <<wave, slot, class, position>>
    /\ UNCHANGED <<tableVars, queue, slotVars, countVars, stopping, clientVars>>

TakenLens(t) == Lens(wave[t])

Ahead(t) == Total(TakenLens(t)) + Total(Lens(SubSeq(queue, 1, position[t] - 1)))

Scanning(t) == ScanContinues(class[t], Lens(queue), position[t], TakenLens(t))

\* The request under the scan may join the wave.
Joins(t) ==
    LET n == TokensOf[entries[queue[position[t]]].key]
    IN  Member(class[t], n, Ahead(t)) /\ Fits(TakenLens(t), n, WaveBudget(slot[t]))

\* Mutant: an entry behind the head is taken but stays linked in the queue.
ScanTakeLinked(t) ==
    /\ Holds(t) /\ bpc[t] = "scan"
    /\ Scanning(t) /\ Joins(t)
    /\ wave' = [wave EXCEPT ![t] = Append(@, queue[position[t]])]
    /\ queue' = IF position[t] = 1 THEN Tail(queue) ELSE queue
    /\ UNCHANGED <<tableVars, slotVars, countVars, stopping, lock, clientVars,
                   bpc, slot, class, position>>

ScanTake(t) ==
    /\ Holds(t) /\ bpc[t] = "scan"
    /\ Scanning(t) /\ Joins(t)
    /\ wave' = [wave EXCEPT ![t] = Append(@, queue[position[t]])]
    /\ queue' = RemoveAt(queue, position[t])
    /\ UNCHANGED <<tableVars, slotVars, countVars, stopping, lock, clientVars,
                   bpc, slot, class, position>>

ScanSkip(t) ==
    /\ Holds(t) /\ bpc[t] = "scan"
    /\ Scanning(t) /\ ~Joins(t)
    /\ position' = [position EXCEPT ![t] = @ + 1]
    /\ UNCHANGED <<tableVars, queue, slotVars, countVars, stopping, lock, clientVars,
                   bpc, wave, slot, class>>

\* qsort with longer_first: any order of equally long requests may come out.
Arrangements(w) ==
    IF ~On("sort") THEN {w}
    ELSE {[i \in DOMAIN w |-> w[p[i]]] : p \in
            {p \in Bijection(DOMAIN w, DOMAIN w) :
                \A i, j \in DOMAIN w : i < j => Lens(w)[p[i]] >= Lens(w)[p[j]]}}

\* The wave is complete: claim the slot, unlock and execute.  (Without a
\* member the thread would give up the mutex for a millisecond and retry.)
RunWave(t) ==
    /\ Holds(t) /\ bpc[t] = "scan"
    /\ ~Scanning(t)
    /\ lock' = Free
    /\ IF wave[t] = <<>>
       THEN BackendAt(t, "top") /\ UNCHANGED <<slotVars, wave>>
       ELSE /\ wave' \in {[wave EXCEPT ![t] = w] : w \in Arrangements(wave[t])}
            /\ slotMask' = slotMask \cup {slot[t]}
            /\ longMask' = IF class[t] = "LONG" THEN longMask \cup {slot[t]} ELSE longMask
            /\ BackendAt(t, "exec")
    /\ UNCHANGED <<tableVars, queue, countVars, stopping, clientVars, slot, class, position>>

FinishWave(t, success) ==
    /\ lock = Free /\ bpc[t] = "exec"
    /\ lock' = t
    /\ ReleaseSlot(slot[t])
    /\ bpc' = [AfterRelease(bpc) EXCEPT ![t] = "top"]
    /\ activePeak' = active
    /\ Complete(wave[t], success)
    /\ pc' = WakeCallers(pc, ToSet(wave[t]))
    /\ wave' = [wave EXCEPT ![t] = <<>>]
    /\ UNCHANGED <<queue, arriving, active, stopping, items, handles, index, soloSlot, ok,
                   slot, class, position>>

Working(t) ==
    \/ QueueWait(t) \/ Exit(t)
    \/ StartCollect(t) \/ EndCollect(t) \/ StartWave(t)
    \/ ScanTake(t) \/ ScanSkip(t) \/ RunWave(t)
    \/ \E success \in BOOLEAN : FinishWave(t, success)

Backend(t) == Working(t) \/ CollectAgain(t)

-----------------------------------------------------------------------------
(* ei_inference_service_free *)

AllExited == \A t \in Slots : bpc[t] = "exited"

\* The callers have returned, or (DrainOnStop) wait for an answer.
Stop ==
    /\ ~stopping /\ lock = Free
    /\ \A c \in Clients :
          pc[c] \in {"idle"} \cup IF DrainOnStop THEN {"solo", "await", "doneWait"} ELSE {}
    /\ stopping' = TRUE
    /\ bpc' = WakeAll(bpc)
    /\ UNCHANGED <<tableVars, queue, slotVars, countVars, lock, clientVars,
                   wave, slot, class, position>>

\* After the backend threads are joined the table is destroyed.
Destroy ==
    /\ AllExited /\ \A c \in Clients : pc[c] = "idle"
    /\ FreeCells # Cells
    /\ entries' = [e \in Cells |-> NoEntry]
    /\ lru' = <<>>
    /\ readyEntries' = 0
    /\ UNCHANGED <<pruning, queue, slotVars, countVars, stopping, lock, clientVars, backendVars>>

Destroyed ==
    /\ AllExited /\ FreeCells = Cells /\ \A c \in Clients : pc[c] = "idle"
    /\ UNCHANGED vars

Next ==
    \/ \E c \in Clients : Client(c)
    \/ \E t \in Slots : Backend(t)
    \/ Evict \/ Pruned
    \/ Stop \/ Destroy \/ Destroyed

Spec == Init /\ [][Next]_vars

\* Every thread of a running service is scheduled again and again, gets the
\* mutex it waits for, and its executions end.  A caller need not make a call.
\* A collection does not go on for ever (CollectAgain): its deadline may be
\* extended, but only up to cap_ns and arrival_ns, both fixed when it starts.
Calling(c) == Client(c) /\ pc[c] # "idle"

Fairness ==
    /\ WF_vars(Evict \/ Pruned)
    /\ \A c \in Clients : SF_vars(Calling(c))
    /\ \A t \in Slots : SF_vars(Working(t))

FairSpec == Spec /\ Fairness

-----------------------------------------------------------------------------
(* Properties *)

ClientPCs == {"idle", "tokenize", "submit", "launch", "solo", "await", "doneWait", "return"}
BackendPCs == {"top", "queueWait", "collect", "collectWait", "scan", "exec", "exited"}
Classes == {"FIFO", "LOOKAHEAD", "SHORT", "LONG", "OVERFLOW"}

\* The type of every variable.
TypeOK ==
    /\ entries \in [Cells -> EntryType \cup {NoEntry}]
    /\ queue \in Seq(Cells) /\ lru \in Seq(Cells) /\ readyEntries \in Int
    /\ pruning \in BOOLEAN
    /\ slotMask \subseteq Slots /\ longMask \subseteq Slots
    /\ arriving \in Int /\ active \in Int /\ activePeak \in Int
    /\ stopping \in BOOLEAN
    /\ lock \in Clients \cup Slots \cup {Free}
    /\ pc \in [Clients -> ClientPCs]
    /\ items \in [Clients -> Seq(Keys)]
    /\ handles \in [Clients -> Seq(Cells)]
    /\ index \in [Clients -> Nat \ {0}]
    /\ soloSlot \in [Clients -> Slots]
    /\ ok \in [Clients -> BOOLEAN]
    /\ bpc \in [Slots -> BackendPCs]
    /\ wave \in [Slots -> Seq(Cells)]
    /\ slot \in [Slots -> Slots]
    /\ class \in [Slots -> Classes]
    /\ position \in [Slots -> Nat \ {0}]

Allocated == Cells \ FreeCells

\* The items of calls whose entry is still to be released.
References(e) ==
    UNION {{<<c, i>> : i \in {j \in index[c] .. Len(handles[c]) : handles[c][j] = e}}
              : c \in Clients}

Executing == {t \in Slots : bpc[t] = "exec"}
Soloing == {c \in Clients : pc[c] = "solo"}

\* submit_tokens_locked shares entries: equal sequences never have two, so a
\* sequence is never computed twice at a time (single flight).
OneEntryPerKey ==
    \A e, f \in Allocated : entries[e].key = entries[f].key => e = f

\* No queue, wave, LRU or caller pointer outlives its entry: remove_entry only
\* frees what nothing refers to.
NoDanglingEntry ==
    /\ ToSet(queue) \cup ToSet(lru) \subseteq Allocated
    /\ \A t \in Slots : ToSet(wave[t]) \subseteq Allocated
    /\ \A c \in Clients : \A i \in index[c] .. Len(handles[c]) : handles[c][i] \in Allocated

\* entry->users is exactly the number of items that still have to release it.
UsersCounted ==
    \A e \in Allocated : entries[e].users = Cardinality(References(e))

\* The places a pending entry can be: the queue, a backend's wave, a solo run.
QueuePlaces(e) == {<<"queue", 0, i>> : i \in {j \in DOMAIN queue : queue[j] = e}}
WavePlaces(e) ==
    UNION {{<<"wave", t, i>> : i \in {j \in DOMAIN wave[t] : wave[t][j] = e}} : t \in Slots}
SoloPlaces(e) == {<<"solo", c, 1>> : c \in {d \in Soloing : handles[d][1] = e}}
Places(e) == QueuePlaces(e) \cup WavePlaces(e) \cup SoloPlaces(e)

\* Every pending entry is in exactly one place (it is neither lost nor executed
\* twice), and nothing that is answered is queued or executed again.
PendingInOnePlace ==
    \A e \in Allocated :
        Cardinality(Places(e)) = IF entries[e].state = "PENDING" THEN 1 ELSE 0

\* Two executions never share a slot, and slot_mask is exactly the slots of the
\* executions in flight (claim_slot_locked never meets a busy slot, ei_die).
SlotsExclusive ==
    /\ slotMask = {slot[t] : t \in Executing} \cup {soloSlot[c] : c \in Soloing}
    /\ \A t, u \in Executing : slot[t] = slot[u] => t = u
    /\ \A c, d \in Soloing : soloSlot[c] = soloSlot[d] => c = d
    /\ \A t \in Executing, c \in Soloing : slot[t] # soloSlot[c]
    /\ \A t \in Slots : bpc[t] = "scan" => slot[t] \notin slotMask

\* Mixed traffic on a device: at most one long wave, in the device's first slot,
\* and at most one short wave beside it (the priority streams of engine.c:1197).
BypassLanes ==
    BypassMode =>
        \A g \in DeviceGroups :
            LET busy == BusySlots(g, slotMask)
            IN  /\ busy \cap longMask \subseteq {Lowest(GroupSlots(g))}
                /\ Cardinality(busy \ longMask) <= 1

\* pick_slot_locked promised a member: a finished scan has one.
PickPromisesMember ==
    \A t \in Slots : bpc[t] = "scan" /\ ~Scanning(t) => wave[t] # <<>>

\* A wave in execution respects the limits its executor was sized for: it is a
\* single request, or within the slot's budget with no oversized request.
WaveWithinBudget ==
    \A t \in Executing :
        LET lens == TakenLens(t)
        IN  /\ Len(lens) \in 1 .. MaxBatchRequests
            /\ Len(lens) > 1 => /\ Total(lens) <= WaveBudget(slot[t])
                                /\ \A i \in DOMAIN lens : lens[i] <= MaxBatchSequenceTokens

\* The exact cache: the LRU list holds the ready entries once each, its length
\* is counted, and beyond the capacity it only holds entries in use.
CacheBounded ==
    /\ ToSet(lru) = {e \in Allocated : entries[e].state = "READY"}
    /\ readyEntries = Len(lru) /\ Len(lru) = Cardinality(ToSet(lru))
    /\ ~pruning /\ readyEntries > CacheEntries => \A e \in ToSet(lru) : entries[e].users > 0

\* A failure is not cached: a failed entry lives only while callers hold it.
FailureNotCached ==
    \A e \in Allocated : entries[e].state = "FAILED" => entries[e].users > 0

\* The arrival and activity counts the collector waits on are those of the
\* calls in progress; a leak would make every later wave wait.
SumLen(C) == MapThenFoldSet(+, 0, LAMBDA c : Len(items[c]), LAMBDA S : CHOOSE c \in S : TRUE, C)

CountsBalanced ==
    /\ arriving = SumLen({c \in Clients : pc[c] = "tokenize"})
    /\ active = SumLen({c \in Clients : pc[c] \notin {"idle", "tokenize"}})

\* No wakeup is lost while nothing executes: with work queued, some backend
\* thread is on its way to it.
NoLostWakeup ==
    lock = Free /\ queue # <<>> /\ slotMask = {} =>
        \E t \in Slots : bpc[t] \in {"top", "collect", "collectWait"}

\* An eviction (an entry leaving the LRU list) takes entries nobody uses, and
\* only ones less recently used than every unused entry that stays.
EvictsLeastRecentlyUsed ==
    LET at(e) == CHOOSE i \in DOMAIN lru : lru[i] = e
        kept == {e \in ToSet(lru) \cap ToSet(lru') : entries[e].users = 0}
    IN  \A e \in ToSet(lru) \ ToSet(lru') :
            /\ References(e) = {}
            /\ \A f \in kept : at(f) < at(e)

EvictionOrder == [][~AllExited => EvictsLeastRecentlyUsed]_vars

\* An overflow wave starts only while every device is busy, and it leaves in the
\* queue at least the work that the devices' next waves absorb.
OverflowLeavesHead ==
    [][\A t \in Slots :
          bpc[t] = "scan" /\ bpc'[t] = "exec" /\ class[t] = "OVERFLOW" =>
              /\ IdleGroups(slotMask) = {}
              /\ Total(Lens(queue)) >= MaxBatchTokens * Groups]_vars

\* An entry never changes its sequence, and it is answered at most once.
AnsweredOnce ==
    [][\A e \in Cells :
          entries[e] # NoEntry /\ entries'[e] # NoEntry =>
              /\ entries'[e].key = entries[e].key
              /\ entries[e].state # "PENDING" => entries'[e].state = entries[e].state]_vars

\* Waves on different executors run at the same time: while requests are queued
\* and a device is idle, some backend thread is about to start a wave.
IdleDeviceServed ==
    lock = Free /\ queue # <<>> /\ IdleGroups(slotMask) # {} =>
        \E t \in Slots : bpc[t] \in {"top", "collect", "collectWait"}

\* Every call returns, whether or not executions fail.
CallsReturn == \A c \in Clients : pc[c] # "idle" ~> pc[c] = "idle"

\* ei_inference_service_free ends: every backend thread drains and exits.
ShutdownCompletes == stopping ~> AllExited

\* The service makes progress: calls return, also those that wait when it is
\* stopped, and it can be stopped.
ServiceLive == CallsReturn /\ ShutdownCompletes

\* The callers and the answer of each sequence as the promise of the service sees
\* them: a sequence has the answer of its entry, if there is one.
PhaseOf(where) == CASE where = "tokenize" -> "asked"
                    [] where = "submit" -> "joining"
                    [] where \in {"launch", "solo", "await", "doneWait"} -> "waiting"
                    [] where = "return" -> "answered"
                    [] OTHER -> "idle"

Phase == [c \in Clients |-> PhaseOf(pc[c])]

Joined == [c \in Clients |-> Len(handles[c])]

Answer == [k \in Keys |-> IF Matching(k) = {} THEN "NONE"
                          ELSE entries[CHOOSE e \in Matching(k) : TRUE].state]

Promise == INSTANCE SharedAnswers WITH
    answer <- Answer, closed <- stopping, phase <- Phase, joined <- Joined

\* Queue, waves, inline runs, eviction and shutdown together are no more than
\* shared answers: every item takes the answer of its own sequence, from the one
\* execution that was in flight or is cached, and no answer is withdrawn under it.
ImplementsSharedAnswers == Promise!Spec

=============================================================================
