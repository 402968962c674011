----------------------------- MODULE ResponseCache -----------------------------
(***************************************************************************)
(* The byte-bounded cache of finished responses (src/src/response_cache.c) *)
(* as the HTTP workers use it: look a key up, hold the response while it   *)
(* is sent or copied, release it; after a miss compute the response and    *)
(* insert it.                                                              *)
(*                                                                         *)
(* Every call of the cache is one critical section.  Acquire and release   *)
(* are one step each; an insertion that has to evict keeps the mutex over  *)
(* several steps, one per victim.  Hashing and the bucket chains, which    *)
(* compare whole keys, are a search among the linked entries.              *)
(***************************************************************************)
EXTENDS Integers, Sequences, SequencesExt, FiniteSets, FiniteSetsExt

CONSTANTS
    CacheUsers,            \* threads that use the cache
    ResponseKeys,
    Sizes,              \* entry_bytes of the responses that may be computed
    MaxBytes,           \* max_bytes; a cache of 0 bytes is not created
    Cells,              \* heap cells for entries
    NoEntry             \* a freed cell

EntryType == [key : ResponseKeys, bytes : Sizes, users : Nat]

ASSUME CacheAssumption ==
    /\ Sizes \subseteq Nat \ {0}
    /\ MaxBytes \in Nat \ {0}
    /\ NoEntry \notin EntryType

VARIABLES
    entries,            \* the bucket table, by cell
    lru,                \* lru_head .. lru_tail
    usedBytes,
    call                \* what each client is doing, with its local variables

storeVars == <<entries, lru, usedBytes>>
responseVars == <<storeVars, call>>

\* Before and after a call; with value->entry; after a miss, with the response
\* computed since; in the loop of ei_response_cache_insert, with the mutex.
Idle == [at |-> "idle"]
Holding(e) == [at |-> "holding", entry |-> e]
Computed(k, n) == [at |-> "computed", key |-> k, bytes |-> n]
Inserting(k, n) == [at |-> "inserting", key |-> k, bytes |-> n]

MutexFree == \A c \in CacheUsers : call[c].at # "inserting"

Become(c, state) == call' = [call EXCEPT ![c] = state]

Linked == {e \in Cells : entries[e] # NoEntry}

Matching(k) == {e \in Linked : entries[e].key = k}

ResponseInit ==
    /\ entries = [e \in Cells |-> NoEntry]
    /\ lru = <<>> /\ usedBytes = 0
    /\ call = [c \in CacheUsers |-> Idle]

PushFront(e) == lru' = <<e>> \o RemoveFirst(lru, e)

-----------------------------------------------------------------------------
(* ei_response_cache_acquire and ei_response_cache_release *)

Hit(c, k, e) ==
    /\ e \in Matching(k)
    /\ entries' = [entries EXCEPT ![e].users = @ + 1]
    /\ PushFront(e)
    /\ Become(c, Holding(e))
    /\ UNCHANGED usedBytes

Miss(c, k) ==
    /\ Matching(k) = {}
    /\ \E n \in Sizes : Become(c, Computed(k, n))
    /\ UNCHANGED storeVars

Acquire(c, k) ==
    /\ call[c] = Idle /\ MutexFree
    /\ Miss(c, k) \/ \E e \in Cells : Hit(c, k, e)

\* Mutant: the caller's value is not cleared and may be released again.
ReleaseKept(c) ==
    /\ call[c].at = "holding" /\ MutexFree
    /\ entries' = [entries EXCEPT ![call[c].entry].users = @ - 1]
    /\ UNCHANGED <<lru, usedBytes, call>>

Release(c) ==
    /\ call[c].at = "holding" /\ MutexFree
    /\ entries' = [entries EXCEPT ![call[c].entry].users = @ - 1]
    /\ Become(c, Idle)
    /\ UNCHANGED <<lru, usedBytes>>

-----------------------------------------------------------------------------
(* ei_response_cache_insert *)

TooLarge(c) == call[c].bytes > MaxBytes

\* Mutant: the key is not looked up again.
NeverThere(c) == FALSE

\* Another thread was faster.
AlreadyThere(c) == Matching(call[c].key) # {}

Drop(c) ==
    /\ call[c].at = "computed"
    /\ TooLarge(c) \/ (MutexFree /\ AlreadyThere(c))
    /\ Become(c, Idle)
    /\ UNCHANGED storeVars

StartInsert(c) ==
    /\ call[c].at = "computed" /\ MutexFree
    /\ ~TooLarge(c) /\ ~AlreadyThere(c)
    /\ Become(c, Inserting(call[c].key, call[c].bytes))
    /\ UNCHANGED storeVars

\* Mutant: the room for the candidate itself is forgotten.
HasAnyRoom(n) == usedBytes <= MaxBytes

RoomLeft(n) == usedBytes <= MaxBytes - n

\* Mutant: the users of the entry do not matter.
TailVictim == {Len(lru)} \ {0}

\* Mutant: an entry in use at the tail hides the others.
UnusedTail == {i \in DOMAIN lru : i = Len(lru) /\ entries[lru[i]].users = 0}

\* The least recently used entry nobody holds, if there is one.
Victims ==
    {i \in DOMAIN lru : /\ entries[lru[i]].users = 0
                        /\ \A j \in i + 1 .. Len(lru) : entries[lru[j]].users # 0}

EvictVictim(c) ==
    /\ call[c].at = "inserting" /\ ~RoomLeft(call[c].bytes)
    /\ \E i \in Victims :
          /\ usedBytes' = usedBytes - entries[lru[i]].bytes
          /\ entries' = [entries EXCEPT ![lru[i]] = NoEntry]
          /\ lru' = RemoveAt(lru, i)
    /\ UNCHANGED call

GiveUp(c) ==
    /\ call[c].at = "inserting" /\ ~RoomLeft(call[c].bytes) /\ Victims = {}
    /\ Become(c, Idle)
    /\ UNCHANGED storeVars

Link(c) ==
    /\ call[c].at = "inserting" /\ RoomLeft(call[c].bytes)
    /\ \E e \in Cells \ Linked :
          /\ entries' = [entries EXCEPT ![e] =
                            [key |-> call[c].key, bytes |-> call[c].bytes, users |-> 0]]
          /\ PushFront(e)
    /\ usedBytes' = usedBytes + call[c].bytes
    /\ Become(c, Idle)

ResponseNext ==
    \E c \in CacheUsers :
        \/ \E k \in ResponseKeys : Acquire(c, k)
        \/ Release(c)
        \/ Drop(c) \/ StartInsert(c) \/ EvictVictim(c) \/ GiveUp(c) \/ Link(c)

ResponseSpec == ResponseInit /\ [][ResponseNext]_responseVars

-----------------------------------------------------------------------------
(* Properties *)

Holders(e) == {c \in CacheUsers : call[c] = Holding(e)}

BytesOf(S) == MapThenSumSet(LAMBDA e : entries[e].bytes, S)

\* The type of every variable.
ResponseTypeOK ==
    /\ entries \in [Cells -> EntryType \cup {NoEntry}]
    /\ lru \in Seq(Cells)
    /\ usedBytes \in Nat
    /\ call \in [CacheUsers -> {Idle} \cup {Holding(e) : e \in Cells}
                            \cup {Computed(k, n) : k \in ResponseKeys, n \in Sizes}
                            \cup {Inserting(k, n) : k \in ResponseKeys, n \in Sizes}]

\* used_bytes is the size of the linked entries and never exceeds max_bytes,
\* whatever is evicted or held; the unsigned subtraction never wraps.
BytesAccounted ==
    /\ usedBytes = BytesOf(Linked)
    /\ usedBytes <= MaxBytes

\* A response is not freed while a worker sends it: the entry it was given is
\* linked, and its users are exactly its holders.
HeldAlive ==
    /\ \A e \in Cells : Holders(e) # {} => e \in Linked
    /\ \A e \in Linked : entries[e].users = Cardinality(Holders(e))

\* Workers that miss the same key together leave one entry, and the LRU list,
\* where victims are looked for, has every entry once.
OneResponsePerKey ==
    /\ \A d, e \in Linked : entries[d].key = entries[e].key => d = e
    /\ ToSet(lru) = Linked
    /\ Len(lru) = Cardinality(Linked)

InUse == {e \in Linked : entries[e].users > 0}

\* A computed response that fits beside the entries in use is found after its
\* insertion: only entries in use can make an insertion fail.
RoomMade ==
    [][\A c \in CacheUsers :
          /\ call[c].at \in {"computed", "inserting"} /\ call'[c] = Idle
          /\ BytesOf(InUse) + call[c].bytes <= MaxBytes
          => \E e \in Linked' : entries'[e].key = call[c].key]_responseVars

=============================================================================
