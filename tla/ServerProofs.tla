----------------------------- MODULE ServerProofs -----------------------------
(***************************************************************************)
(* Theorems about the lives of the server: what is served from the cache   *)
(* file, what the dump writes, how many connections a stop signal lets     *)
(* through, where a connection is, that a client is answered in the order  *)
(* of its requests; and about the cache of finished responses.             *)
(***************************************************************************)
EXTENDS Server, ResponseCache, ListProofs

(***************************************************************************)
(* The cache file.  A record of a file names the sequence and the model of *)
(* its vector, and the models of a file have one fingerprint; the dump has *)
(* written the records of the answered entries it has passed, which stay   *)
(* as they are while it holds the mutex; and a server that is down, or has *)
(* not loaded the file yet, has no entries, so that the model may change.  *)
(***************************************************************************)

FileType == [fingerprint : Fingerprints, count : Nat, records : Seq(Record)]

\* Every vector of the file is what a model of its fingerprint computes for its sequence.
GenuineFile(f) ==
    /\ f \in FileType
    /\ \A r \in ToSet(f.records) : ComputedUnder(f.fingerprint, r.vector, r.key)

RecordOf(k) == [key |-> k, vector |-> vector[k]]

CacheTypes ==
    /\ model \in Models
    /\ table \in [Keys -> States]
    /\ vector \in [Keys -> Vectors \cup {NoVector}]
    /\ dpc \in {"idle", "records", "rename", "done"}
    /\ left \subseteq Keys

\* A vector is not there yet or one of this model's fingerprint, and there before its
\* entry is answered.
EntriesGenuine ==
    \A k \in Keys :
        /\ vector[k] = NoVector \/ ComputedUnder(Fingerprint(model), vector[k], k)
        /\ table[k] = "READY" => ComputedUnder(Fingerprint(model), vector[k], k)

FilesGenuine ==
    /\ file = NoFile \/ GenuineFile(file)
    /\ dpc \in {"records", "rename"} =>
          GenuineFile(temp) /\ temp.fingerprint = Fingerprint(model)

\* The dump has the records of the answered entries it has passed.
DumpProgress ==
    /\ dpc = "records" => ToSet(temp.records) = {RecordOf(k) : k \in Ready \ left}
    /\ dpc = "rename" => /\ ToSet(temp.records) = {RecordOf(k) : k \in Ready}
                         /\ temp.count = Len(temp.records)

\* A server that does not run yet, or any more.
DownIsEmpty ==
    mpc \in {"load", "down"} =>
        /\ table = NoEntries /\ vector = NoVectors /\ dpc = "idle"
        /\ \A w \in Workers : wpc[w] # "handle"

CacheInv == CacheTypes /\ EntriesGenuine /\ FilesGenuine /\ DumpProgress /\ DownIsEmpty

\* The layout is one of those considered, and its workers are workers.
LayoutKept == layout \in Layouts

\* The configuration does not change while the server lives.
LEMMA LayoutInvariant == Spec => []LayoutKept
<1>1. Init => LayoutKept
  BY DEF Init, FrontInit, LayoutKept
<1>2. LayoutKept /\ [Next]_vars => LayoutKept'
  <2> SUFFICES ASSUME LayoutKept, [Next]_vars PROVE layout' = layout
    BY DEF LayoutKept
  <2>1. CASE MainThread
    BY <2>1 DEF MainThread, Start, MainStep, Main, MainTest, MainCalls, Accept, Push, Refuse,
                DumpStep, frontVars, Exit, AllClosed, Restart
  <2>2. CASE Crash \/ Over \/ UNCHANGED vars
    BY <2>2 DEF Crash, AllClosed, Over, vars, frontVars
  <2>3. CASE Signal \/ (\E c \in Connections : Connect(c))
    BY <2>3 DEF Signal, Connect
  <2>4. ASSUME NEW w \in layout.workers, Worker(w) \/ WorkerSilent(w)
        PROVE  layout' = layout
    BY <2>4 DEF Worker, WorkerStep, Working, Wait, Pop, TakeSlot, Receive, BadFraming,
                ReadRequest, GiveSlot, Close, Submit, frontVars, AnswerRequest, Answer,
                WorkerSilent, Silence
  <2>5. CASE Waves \/ \E k \in Keys : Evicted(k)
    BY <2>5 DEF Waves, Wave, Evicted, frontVars
  <2> QED
    BY <2>1, <2>2, <2>3, <2>4, <2>5 DEF Next
<1> QED
  BY <1>1, <1>2, PTL DEF Spec

\* The workers of a configuration are workers.
LEMMA LayoutWorkers ==
    ASSUME LayoutKept
    PROVE  layout.workers \subseteq Workers
BY FrontendAssumption DEF LayoutKept, LayoutType

-----------------------------------------------------------------------------
(* The cache file *)

\* The first life starts without entries, and without a cache file.
LEMMA CacheInvInit == Init => CacheInv
<1> SUFFICES ASSUME Init PROVE CacheInv
  OBVIOUS
<1>1. /\ model \in Models /\ table = NoEntries /\ vector = NoVectors
      /\ file = NoFile /\ dpc = "idle" /\ left = {}
      /\ wpc = [w \in Workers |-> "pop"]
  BY DEF Init, CacheInit, FrontInit
<1>2. CacheTypes
  BY <1>1 DEF CacheTypes, NoEntries, NoVectors, States
<1>3. EntriesGenuine
  BY <1>1 DEF EntriesGenuine, NoEntries, NoVectors
<1>4. FilesGenuine /\ DumpProgress
  BY <1>1 DEF FilesGenuine, DumpProgress
<1>5. DownIsEmpty
  BY <1>1 DEF DownIsEmpty
<1> QED
  BY <1>2, <1>3, <1>4, <1>5 DEF CacheInv

\* Steps of the front end do not touch the cache; they happen while the server runs.
LEMMA CacheStays ==
    ASSUME CacheInv, UNCHANGED cacheVars, mpc' \notin {"load", "down"}
    PROVE  CacheInv'
<1>1. /\ model' = model /\ table' = table /\ vector' = vector /\ file' = file /\ temp' = temp
      /\ dpc' = dpc /\ left' = left
  BY DEF cacheVars
<1>2. CacheTypes'
  BY <1>1 DEF CacheInv, CacheTypes
<1>3. EntriesGenuine'
  BY <1>1 DEF CacheInv, EntriesGenuine
<1>4. FilesGenuine'
  BY <1>1 DEF CacheInv, FilesGenuine, GenuineFile
<1>5. DumpProgress'
  BY <1>1 DEF CacheInv, DumpProgress, RecordOf, Ready
<1>6. DownIsEmpty'
  BY DEF DownIsEmpty
<1> QED
  BY <1>2, <1>3, <1>4, <1>5, <1>6 DEF CacheInv

\* What Load takes from an accepted file is some of its records.
LEMMA LoadedGenuine ==
    ASSUME CacheInv, NEW r \in ToSet(LoadedRecords(file))
    PROVE  ComputedUnder(Fingerprint(model), r.vector, r.key)
<1> DEFINE S == {file.count, CacheEntries, Len(file.records)}
<1>1. Accepted(file)
  BY DEF LoadedRecords, ToSet
<1>2. GenuineFile(file) /\ file.fingerprint = Fingerprint(model)
  BY <1>1 DEF Accepted, CacheInv, FilesGenuine
<1>3. file.records \in Seq(Record) /\ file.count \in Nat
  BY <1>2 DEF GenuineFile, FileType
<1>4. Min(S) \in 0 .. Len(file.records)
  <2>1. file.count \in Nat /\ CacheEntries \in Nat /\ Len(file.records) \in Nat
    BY <1>3, PersistentCacheAssumption
  <2>2. \E x \in S : \A y \in S : x <= y
    BY <2>1
  <2>3. Min(S) \in S /\ \A y \in S : Min(S) <= y
    BY <2>2 DEF Min
  <2> QED
    BY <2>1, <2>3
<1> HIDE DEF S
<1>5. r \in ToSet(file.records)
  <2>1. LoadedRecords(file) = SubSeq(file.records, 1, Min(S))
    BY <1>1 DEF LoadedRecords, S
  <2> QED
    BY <1>3, <1>4, <2>1, PrefixMembers
<1> QED
  BY <1>2, <1>5 DEF GenuineFile

\* The file is loaded: an entry of it is served as if it had been computed.
LEMMA StartKeepsCache ==
    ASSUME CacheInv, Start
    PROVE  CacheInv'
<1> DEFINE loaded == LoadedRecords(file)
           There(k) == \E r \in ToSet(loaded) : r.key = k
           record(k) == CHOOSE r \in ToSet(loaded) : r.key = k
<1>1. /\ table' = [k \in Keys |-> IF There(k) THEN "READY" ELSE "absent"]
      /\ vector' = [k \in Keys |-> IF table'[k] = "READY" THEN record(k).vector ELSE NoVector]
      /\ model' = model /\ file' = file /\ temp' = temp /\ dpc' = dpc /\ left' = left
      /\ mpc' = "test" /\ dpc = "idle"
  BY DEF Start, Load, CacheInv, DownIsEmpty
<1>2. \A k \in Keys : There(k) => ComputedUnder(Fingerprint(model), record(k).vector, k)
  <2> SUFFICES ASSUME NEW k \in Keys, There(k)
               PROVE  ComputedUnder(Fingerprint(model), record(k).vector, k)
    OBVIOUS
  <2>1. record(k) \in ToSet(loaded) /\ record(k).key = k
    OBVIOUS
  <2> HIDE DEF record
  <2> QED
    BY <2>1, LoadedGenuine
<1> HIDE DEF There, record
<1>3. \A k \in Keys : \/ /\ table'[k] = "READY"
                         /\ ComputedUnder(Fingerprint(model), vector'[k], k)
                      \/ table'[k] = "absent" /\ vector'[k] = NoVector
  BY <1>1, <1>2
<1>4. CacheTypes'
  <2>1. table' \in [Keys -> States]
    BY <1>1 DEF States
  <2>2. vector' \in [Keys -> Vectors \cup {NoVector}]
    <3>1. \A k \in Keys : vector'[k] \in Vectors \cup {NoVector}
      <4>1. \A k \in Keys : \A v : ComputedUnder(Fingerprint(model), v, k) => v \in Vectors
        BY DEF ComputedUnder, Vectors
      <4> QED
        BY <1>3, <4>1
    <3>2. vector' = [k \in Keys |-> vector'[k]]
      BY <1>1
    <3> QED
      BY <3>1, <3>2
  <2> QED
    BY <1>1, <2>1, <2>2 DEF CacheInv, CacheTypes
<1>5. EntriesGenuine'
  <2>1. Fingerprint(model)' = Fingerprint(model)
    BY <1>1 DEF Fingerprint
  <2> QED
    BY <1>3, <2>1 DEF EntriesGenuine, ComputedUnder
<1>6. FilesGenuine'
  BY <1>1 DEF CacheInv, FilesGenuine, GenuineFile
<1>7. DumpProgress' /\ DownIsEmpty'
  BY <1>1 DEF DumpProgress, DownIsEmpty
<1> QED
  BY <1>4, <1>5, <1>6, <1>7 DEF CacheInv

\* An entry is made, for a worker that waits for it.
LEMMA SubmitKeepsCache ==
    ASSUME CacheInv, LayoutKept, NEW w \in layout.workers, Submit(w)
    PROVE  CacheInv'
<1>1. PICK k : k = Asked(w).key
  OBVIOUS
<1>2. /\ dpc \in {"idle", "done"} /\ table[k] = "absent"
      /\ table' = [table EXCEPT ![k] = "PENDING"]
      /\ model' = model /\ vector' = vector /\ file' = file /\ temp' = temp
      /\ dpc' = dpc /\ left' = left
      /\ mpc' = mpc /\ wpc[w] = "handle"
  BY <1>1 DEF Submit, SubmitKey, MayLock, frontVars, mainVars
<1>3. table \in [Keys -> States]
  BY DEF CacheInv, CacheTypes
<1>4. table' \in [Keys -> States] /\ \A l \in Keys : table'[l] = "READY" => table[l] = "READY"
  BY <1>2, <1>3 DEF States
<1>5. CacheTypes'
  BY <1>2, <1>4 DEF CacheInv, CacheTypes
<1>6. EntriesGenuine'
  BY <1>2, <1>4 DEF CacheInv, EntriesGenuine
<1>7. FilesGenuine' /\ DumpProgress'
  BY <1>2 DEF CacheInv, FilesGenuine, GenuineFile, DumpProgress
<1>8. DownIsEmpty'
  BY <1>2, LayoutWorkers DEF CacheInv, DownIsEmpty
<1> QED
  BY <1>5, <1>6, <1>7, <1>8 DEF CacheInv

\* A wave writes an embedding: of an entry that is in work, also while the dump runs.
LEMMA WaveKeepsCache ==
    ASSUME CacheInv, NEW k \in Keys, Wave(k)
    PROVE  CacheInv'
<1>1. mpc' = mpc
  BY DEF Wave, frontVars, mainVars
<1>2. ASSUME table[k] = "PENDING"
      PROVE  mpc \notin {"load", "down"}
  BY <1>2 DEF CacheInv, DownIsEmpty, NoEntries
<1>3. ASSUME Computes(k)
      PROVE  CacheInv'
  <2>1. /\ table[k] = "PENDING"
        /\ vector' = [vector EXCEPT ![k] = <<model, k>>]
        /\ model' = model /\ table' = table /\ file' = file /\ temp' = temp
        /\ dpc' = dpc /\ left' = left
    BY <1>3 DEF Computes
  <2>2. vector \in [Keys -> Vectors \cup {NoVector}] /\ <<model, k>> \in Vectors
    BY DEF CacheInv, CacheTypes, Vectors
  <2>3. /\ vector' \in [Keys -> Vectors \cup {NoVector}]
        /\ vector'[k] = <<model, k>> /\ \A l \in Keys : l # k => vector'[l] = vector[l]
    BY <2>1, <2>2
  <2>4. \A l \in Ready : vector'[l] = vector[l]
    BY <2>1, <2>3 DEF Ready
  <2>5. CacheTypes'
    BY <2>1, <2>3 DEF CacheInv, CacheTypes
  <2>6. EntriesGenuine'
    <3>1. ComputedUnder(Fingerprint(model), vector'[k], k)
      BY <2>3 DEF CacheInv, CacheTypes, ComputedUnder
    <3>2. Fingerprint(model)' = Fingerprint(model)
      BY <2>1 DEF Fingerprint
    <3>3. ASSUME NEW l \in Keys
          PROVE  /\ vector'[l] = NoVector \/ ComputedUnder(Fingerprint(model), vector'[l], l)
                 /\ table[l] = "READY" => ComputedUnder(Fingerprint(model), vector'[l], l)
      <4>1. CASE l = k
        BY <3>1, <4>1
      <4>2. CASE l # k
        <5>1. vector'[l] = vector[l]
          BY <2>3, <4>2
        <5> QED
          BY <5>1 DEF CacheInv, EntriesGenuine
      <4> QED
        BY <4>1, <4>2
    <3> QED
      BY <2>1, <3>2, <3>3 DEF EntriesGenuine, ComputedUnder
  <2>7. FilesGenuine'
    BY <2>1 DEF CacheInv, FilesGenuine, GenuineFile
  <2>8. DumpProgress'
    <3>1. Ready' = Ready /\ \A l \in Ready : RecordOf(l)' = RecordOf(l)
      BY <2>1, <2>4 DEF Ready, RecordOf
    <3>2. \A S \in SUBSET Ready : {RecordOf(l)' : l \in S} = {RecordOf(l) : l \in S}
      BY <3>1
    <3>3. {RecordOf(l) : l \in Ready}' = {RecordOf(l) : l \in Ready}
      BY <3>1, <3>2
    <3>4. {RecordOf(l) : l \in Ready \ left}' = {RecordOf(l) : l \in Ready \ left}
      BY <2>1, <3>1, <3>2
    <3> QED
      BY <2>1, <3>3, <3>4 DEF CacheInv, DumpProgress
  <2>9. DownIsEmpty'
    BY <1>1, <1>2, <2>1 DEF DownIsEmpty
  <2> QED
    BY <2>5, <2>6, <2>7, <2>8, <2>9 DEF CacheInv
<1>4. ASSUME BecomesReady(k)
      PROVE  CacheInv'
  <2>1. /\ dpc \in {"idle", "done"} /\ table[k] = "PENDING" /\ vector[k] # NoVector
        /\ table' = [table EXCEPT ![k] = "READY"]
        /\ model' = model /\ vector' = vector /\ file' = file /\ temp' = temp
        /\ dpc' = dpc /\ left' = left
    BY <1>4 DEF BecomesReady, MayLock
  <2>2. CacheTypes'
    BY <2>1 DEF CacheInv, CacheTypes, States
  <2>3. EntriesGenuine'
    BY <2>1 DEF CacheInv, CacheTypes, EntriesGenuine
  <2>4. FilesGenuine' /\ DumpProgress'
    BY <2>1 DEF CacheInv, FilesGenuine, GenuineFile, DumpProgress
  <2>5. DownIsEmpty'
    BY <1>1, <1>2, <2>1 DEF DownIsEmpty
  <2> QED
    BY <2>2, <2>3, <2>4, <2>5 DEF CacheInv
<1> QED
  BY <1>3, <1>4 DEF Wave

\* An entry is evicted, or its execution failed.
LEMMA LeavesKeepsCache ==
    ASSUME CacheInv, NEW k \in Keys, Evicted(k)
    PROVE  CacheInv'
<1>1. /\ dpc \in {"idle", "done"} /\ table[k] # "absent" /\ mpc' = mpc
      /\ table' = [table EXCEPT ![k] = "absent"]
      /\ vector' = [vector EXCEPT ![k] = NoVector]
      /\ model' = model /\ file' = file /\ temp' = temp /\ dpc' = dpc /\ left' = left
  BY DEF Evicted, Leaves, MayLock, frontVars, mainVars
<1>2. CacheTypes'
  BY <1>1 DEF CacheInv, CacheTypes, States
<1>3. EntriesGenuine'
  BY <1>1 DEF CacheInv, CacheTypes, EntriesGenuine
<1>4. FilesGenuine' /\ DumpProgress'
  BY <1>1 DEF CacheInv, FilesGenuine, GenuineFile, DumpProgress
<1>5. DownIsEmpty'
  BY <1>1 DEF CacheInv, DownIsEmpty, NoEntries
<1> QED
  BY <1>2, <1>3, <1>4, <1>5 DEF CacheInv

\* What the dump leaves alone, and what is left to prove of its steps.
LEMMA DumpFrame ==
    ASSUME CacheInv, DumpStep, FilesGenuine', DumpProgress'
    PROVE  CacheInv'
<1>1. /\ mpc = "dump" /\ mpc' = mpc
      /\ model' = model /\ table' = table /\ vector' = vector
  BY DEF DumpStep, frontVars, mainVars, Dump, DumpBegin, DumpCannotBegin, DumpCount, DumpFails,
         DumpRename, DumpEntry
<1>2. dpc' \in {"idle", "records", "rename", "done"} /\ left' \subseteq Keys
  BY DEF CacheInv, CacheTypes, DumpStep, Dump, DumpBegin, DumpCannotBegin, DumpCount,
         DumpFails, DumpRename, DumpEntry
<1>3. CacheTypes'
  BY <1>1, <1>2 DEF CacheInv, CacheTypes
<1>4. EntriesGenuine'
  BY <1>1 DEF CacheInv, EntriesGenuine, ComputedUnder, Fingerprint
<1>5. DownIsEmpty'
  BY <1>1 DEF DownIsEmpty
<1> QED
  BY <1>3, <1>4, <1>5 DEF CacheInv

\* The dump goes on: with the header, one entry, the count, the rename, or a failure.
LEMMA DumpKeepsCache ==
    ASSUME CacheInv, DumpStep
    PROVE  CacheInv'
<1>1. /\ model' = model /\ table' = table /\ vector' = vector
      /\ Ready' = Ready /\ \A k : RecordOf(k)' = RecordOf(k)
  BY DEF DumpStep, Dump, DumpBegin, DumpCannotBegin, DumpCount, DumpFails, DumpRename,
         DumpEntry, Ready, RecordOf
<1>2. ASSUME DumpBegin
      PROVE  CacheInv'
  <2>1. /\ temp' = [fingerprint |-> Fingerprint(model), count |-> 0, records |-> <<>>]
        /\ left' = {k \in Keys : table[k] # "absent"}
        /\ dpc' = "records" /\ file' = file
    BY <1>2 DEF DumpBegin
  <2>2. GenuineFile(temp)' /\ temp'.fingerprint = Fingerprint(model)'
    <3>1. Fingerprint(model) \in Fingerprints
      BY DEF CacheInv, CacheTypes, Fingerprints
    <3>2. ToSet(temp'.records) = {}
      BY <2>1 DEF ToSet
    <3>3. temp' \in FileType
      BY <2>1, <3>1 DEF FileType
    <3>4. Fingerprint(model)' = Fingerprint(model)
      BY <1>1 DEF Fingerprint
    <3> QED
      BY <2>1, <3>2, <3>3, <3>4 DEF GenuineFile, FileType, Fingerprints, Fingerprint
  <2>3. FilesGenuine'
    BY <2>1, <2>2 DEF CacheInv, FilesGenuine, GenuineFile
  <2>4. DumpProgress'
    <3>1. (Ready \ left)' = {} /\ ToSet(temp'.records) = {}
      BY <1>1, <2>1 DEF Ready, ToSet
    <3> QED
      BY <2>1, <3>1 DEF DumpProgress
  <2> QED
    BY <2>3, <2>4, DumpFrame
<1>3. ASSUME NEW k \in Keys, DumpEntry(k)
      PROVE  CacheInv'
  <2>1. /\ dpc = "records" /\ k \in left /\ left' = left \ {k}
        /\ file' = file /\ dpc' = dpc
    BY <1>3 DEF DumpEntry
  <2>2. /\ temp \in FileType /\ temp.fingerprint = Fingerprint(model)
        /\ \A r \in ToSet(temp.records) : ComputedUnder(Fingerprint(model), r.vector, r.key)
        /\ ToSet(temp.records) = {RecordOf(l) : l \in Ready \ left}
    BY <2>1 DEF CacheInv, FilesGenuine, GenuineFile, DumpProgress
  <2>3. CASE table[k] = "READY"
    <3>1. temp' = [temp EXCEPT !.records = Append(temp.records, RecordOf(k))] /\ k \in Ready
      BY <1>3, <2>3 DEF DumpEntry, RecordOf, Ready
    <3>2. /\ RecordOf(k) \in Record
          /\ ComputedUnder(Fingerprint(model), RecordOf(k).vector, RecordOf(k).key)
      <4>1. ComputedUnder(Fingerprint(model), vector[k], k)
        BY <2>3 DEF CacheInv, EntriesGenuine
      <4>2. vector[k] \in Vectors
        BY <4>1 DEF ComputedUnder, Vectors
      <4> QED
        BY <4>1, <4>2 DEF RecordOf, Record
    <3>3. /\ Append(temp.records, RecordOf(k)) \in Seq(Record)
          /\ ToSet(Append(temp.records, RecordOf(k))) = ToSet(temp.records) \cup {RecordOf(k)}
      BY <2>2, <3>2, AppendMembers DEF FileType
    <3>4. temp' \in FileType /\ temp'.fingerprint = Fingerprint(model)
          /\ temp'.records = Append(temp.records, RecordOf(k))
      BY <2>2, <3>1, <3>3 DEF FileType
    <3>5. FilesGenuine'
      <4>1. \A r \in ToSet(temp'.records) :
               ComputedUnder(Fingerprint(model), r.vector, r.key)
        BY <2>2, <3>2, <3>3, <3>4
      <4>2. GenuineFile(temp)' /\ temp'.fingerprint = Fingerprint(model)'
        BY <1>1, <3>4, <4>1 DEF GenuineFile, ComputedUnder, Fingerprint
      <4> QED
        BY <2>1, <4>2 DEF CacheInv, FilesGenuine, GenuineFile
    <3>6. DumpProgress'
      <4>1. Ready \ left' = (Ready \ left) \cup {k}
        BY <2>1, <3>1
      <4>2. ToSet(temp'.records) = {RecordOf(l) : l \in Ready \ left'}
        BY <2>2, <3>3, <3>4, <4>1
      <4> QED
        BY <1>1, <2>1, <4>2 DEF DumpProgress
    <3> QED
      BY <3>5, <3>6, DumpFrame
  <2>4. CASE table[k] # "READY"
    <3>1. temp' = temp
      BY <1>3, <2>4 DEF DumpEntry
    <3>2. FilesGenuine'
      BY <1>1, <2>1, <3>1 DEF CacheInv, FilesGenuine, GenuineFile
    <3>3. DumpProgress'
      <4>1. Ready \ left' = Ready \ left
        BY <2>1, <2>4 DEF Ready
      <4> QED
        BY <1>1, <2>1, <2>2, <3>1, <4>1 DEF DumpProgress
    <3> QED
      BY <3>2, <3>3, DumpFrame
  <2> QED
    BY <2>3, <2>4
<1>4. ASSUME DumpCount
      PROVE  CacheInv'
  <2>1. /\ dpc = "records" /\ left = {} /\ dpc' = "rename" /\ file' = file
        /\ temp' = [temp EXCEPT !.count = Len(temp.records)]
    BY <1>4 DEF DumpCount
  <2>2. temp \in FileType /\ GenuineFile(temp) /\ temp.fingerprint = Fingerprint(model)
    BY <2>1 DEF CacheInv, FilesGenuine, GenuineFile
  <2>3. /\ temp' \in FileType /\ temp'.fingerprint = Fingerprint(model)
        /\ temp'.records = temp.records /\ temp'.count = Len(temp.records)
    BY <2>1, <2>2 DEF FileType
  <2>4. FilesGenuine'
    BY <1>1, <2>1, <2>2, <2>3 DEF CacheInv, FilesGenuine, GenuineFile, Fingerprint
  <2>5. DumpProgress'
    BY <1>1, <2>1, <2>3 DEF CacheInv, DumpProgress
  <2> QED
    BY <2>4, <2>5, DumpFrame
<1>5. ASSUME DumpRename
      PROVE  CacheInv'
  <2>1. dpc = "rename" /\ file' = temp /\ dpc' = "done"
    BY <1>5 DEF DumpRename
  <2>2. FilesGenuine'
    BY <2>1 DEF CacheInv, FilesGenuine, GenuineFile
  <2>3. DumpProgress'
    BY <2>1 DEF DumpProgress
  <2> QED
    BY <2>2, <2>3, DumpFrame
<1>6. ASSUME DumpCannotBegin \/ DumpFails
      PROVE  CacheInv'
  <2>1. file' = file /\ dpc' = "done"
    BY <1>6 DEF DumpCannotBegin, DumpFails
  <2>2. FilesGenuine'
    BY <2>1 DEF CacheInv, FilesGenuine, GenuineFile
  <2>3. DumpProgress'
    BY <2>1 DEF DumpProgress
  <2> QED
    BY <2>2, <2>3, DumpFrame
<1> QED
  BY <1>2, <1>3, <1>4, <1>5, <1>6 DEF DumpStep, Dump

\* The process ends, in whatever state the dump is; a torn file keeps genuine records.
LEMMA EndKeepsCache ==
    ASSUME CacheInv, AllClosed, NEW torn \in BOOLEAN, Ends(torn)
    PROVE  CacheInv'
<1>1. /\ table' = NoEntries /\ vector' = NoVectors /\ dpc' = "idle" /\ left' = {}
      /\ model' = model /\ mpc' = "down" /\ wpc' = [w \in Workers |-> "pop"]
  BY DEF Ends, AllClosed
<1>2. CacheTypes'
  BY <1>1 DEF CacheInv, CacheTypes, NoEntries, NoVectors, States
<1>3. EntriesGenuine'
  BY <1>1 DEF EntriesGenuine, NoEntries, NoVectors
<1>4. DumpProgress' /\ DownIsEmpty'
  BY <1>1 DEF DumpProgress, DownIsEmpty, NoEntries, NoVectors
<1>5. FilesGenuine'
  <2>1. CASE file' = file
    BY <1>1, <2>1 DEF CacheInv, FilesGenuine, GenuineFile
  <2>2. CASE file' # file
    <3>1. PICK n \in 0 .. Len(file.records) :
             file' = [file EXCEPT !.records = SubSeq(file.records, 1, n)]
      BY <2>2 DEF Ends
    <3>2. GenuineFile(file)
      BY <2>2 DEF Ends, CacheInv, FilesGenuine
    <3>3. file \in FileType /\ file.records \in Seq(Record)
      BY <3>2 DEF GenuineFile, FileType
    <3>4. /\ SubSeq(file.records, 1, n) \in Seq(Record)
          /\ ToSet(SubSeq(file.records, 1, n)) \subseteq ToSet(file.records)
      BY <3>3, PrefixMembers
    <3>5. /\ file' \in FileType /\ file'.fingerprint = file.fingerprint
          /\ file'.records = SubSeq(file.records, 1, n)
      BY <3>1, <3>3, <3>4 DEF FileType
    <3>6. GenuineFile(file)'
      BY <3>2, <3>4, <3>5 DEF GenuineFile
    <3> QED
      BY <1>1, <3>6 DEF FilesGenuine
  <2> QED
    BY <2>1, <2>2
<1> QED
  BY <1>2, <1>3, <1>4, <1>5 DEF CacheInv

\* Another model: there are no entries of the old one, only its file.
LEMMA RestartKeepsCache ==
    ASSUME CacheInv, Restart
    PROVE  CacheInv'
<1>1. /\ table = NoEntries /\ vector = NoVectors /\ dpc = "idle"
      /\ \A w \in Workers : wpc[w] # "handle"
      /\ table' = table /\ vector' = vector /\ dpc' = dpc /\ file' = file /\ wpc' = wpc
      /\ left' = left /\ model' \in Models
  BY DEF Restart, NewModel, CacheInv, DownIsEmpty
<1>2. CacheTypes'
  BY <1>1 DEF CacheInv, CacheTypes
<1>3. EntriesGenuine'
  BY <1>1 DEF EntriesGenuine, NoEntries, NoVectors
<1>4. FilesGenuine'
  BY <1>1 DEF CacheInv, FilesGenuine, GenuineFile
<1>5. DumpProgress' /\ DownIsEmpty'
  BY <1>1 DEF DumpProgress, DownIsEmpty
<1> QED
  BY <1>2, <1>3, <1>4, <1>5 DEF CacheInv

\* The steps of the front end, which are most of them.
LEMMA FrontSteps ==
    ASSUME CacheInv, LayoutKept, [Next]_vars
    PROVE  \/ UNCHANGED cacheVars /\ mpc' \notin {"load", "down"}
           \/ UNCHANGED <<cacheVars, mpc, wpc>>
           \/ Start \/ DumpStep \/ Exit \/ Crash \/ Restart
           \/ \E w \in layout.workers : Submit(w)
           \/ \E k \in Keys : Wave(k) \/ Evicted(k)
<1>1. CASE MainStep
  BY <1>1 DEF MainStep, Main, MainTest, MainCalls, Accept, Push, Refuse, MainGoto
<1>2. CASE Signal /\ UNCHANGED <<cacheVars, lives>>
  BY <1>2 DEF Signal, MainGoto
<1>3. CASE \E c \in Connections : Running /\ Connect(c) /\ UNCHANGED <<cacheVars, lives>>
  BY <1>3 DEF Running, Connect, mainVars
<1>4. ASSUME NEW w \in layout.workers, WorkerStep(w) \/ WorkerSilent(w) \/ AnswerRequest(w)
      PROVE  UNCHANGED cacheVars /\ mpc' \notin {"load", "down"}
  <2>1. mpc \notin {"load", "down"}
    BY <1>4, LayoutWorkers DEF WorkerStep, WorkerSilent, Running, AnswerRequest, Answer,
                               CacheInv, DownIsEmpty
  <2>2. mpc' = mpc
    BY <1>4 DEF WorkerStep, Working, Wait, Pop, TakeSlot, Receive, BadFraming, ReadRequest,
                GiveSlot, Close, AnswerRequest, Answer, WorkerSilent, Silence, mainVars
  <2> QED
    BY <1>4, <2>1, <2>2 DEF WorkerStep, WorkerSilent, AnswerRequest
<1>5. CASE Over \/ UNCHANGED vars
  BY <1>5 DEF Over, vars, frontVars, mainVars
<1> QED
  BY <1>1, <1>2, <1>3, <1>4, <1>5 DEF Next, MainThread, Worker, Waves

\* No step of main, of a worker or of a wave disturbs the cache file.
LEMMA CacheInvStep == CacheInv /\ LayoutKept /\ [Next]_vars => CacheInv'
<1> SUFFICES ASSUME CacheInv, LayoutKept, [Next]_vars PROVE CacheInv'
  OBVIOUS
<1>1. CASE UNCHANGED cacheVars /\ mpc' \notin {"load", "down"}
  BY <1>1, CacheStays
<1>2. CASE UNCHANGED <<cacheVars, mpc, wpc>>
  <2>1. CASE mpc \in {"load", "down"}
    <3>1. /\ model' = model /\ table' = table /\ vector' = vector /\ file' = file
          /\ dpc' = dpc /\ left' = left /\ mpc' = mpc /\ wpc' = wpc
      BY <1>2 DEF cacheVars
    <3>2. dpc = "idle"
      BY <2>1 DEF CacheInv, DownIsEmpty
    <3>3. CacheTypes' /\ EntriesGenuine' /\ DownIsEmpty'
      BY <3>1 DEF CacheInv, CacheTypes, EntriesGenuine, DownIsEmpty
    <3>4. FilesGenuine' /\ DumpProgress'
      BY <3>1, <3>2 DEF CacheInv, FilesGenuine, GenuineFile, DumpProgress
    <3> QED
      BY <3>3, <3>4 DEF CacheInv
  <2>2. CASE mpc \notin {"load", "down"}
    BY <1>2, <2>2, CacheStays
  <2> QED
    BY <2>1, <2>2
<1>3. CASE Start \/ DumpStep \/ Restart
  BY <1>3, StartKeepsCache, DumpKeepsCache, RestartKeepsCache
<1>4. CASE Exit \/ Crash
  BY <1>4, EndKeepsCache DEF Exit, Crash
<1>5. CASE \E w \in layout.workers : Submit(w)
  BY <1>5, SubmitKeepsCache
<1>6. CASE \E k \in Keys : Wave(k) \/ Evicted(k)
  BY <1>6, WaveKeepsCache, LeavesKeepsCache
<1> QED
  BY <1>1, <1>2, <1>3, <1>4, <1>5, <1>6, FrontSteps

\* The entries of the running server and the file on disk are of their fingerprint in
\* every life, whatever models ran before and wherever they crashed.
THEOREM CacheInvariant == Spec => []CacheInv
<1> QED
  BY CacheInvInit, CacheInvStep, LayoutInvariant, PTL DEF Spec

\* What is served from the cache was computed for this text by this model or by one of
\* its fingerprint, whatever files and models came before.
THEOREM VectorsAreOfFingerprint == Spec => []VectorsOfFingerprint
<1>1. CacheInv => VectorsOfFingerprint
  BY DEF CacheInv, EntriesGenuine, VectorsOfFingerprint, Ready
<1> QED
  BY <1>1, CacheInvariant, PTL

\* No two of the models the server is started with have one fingerprint.
FingerprintsTellModels ==
    \A a, b \in Models : Fingerprint(a) = Fingerprint(b) => a = b

\* Between models the fingerprint tells apart, what is served from the cache is what
\* this model computes for this text: all that the promise of server.c lacks is this.
THEOREM VectorsAreGenuine == FingerprintsTellModels /\ Spec => []VectorsGenuine
<1>1. FingerprintsTellModels /\ CacheInv => VectorsGenuine
  <2> SUFFICES ASSUME FingerprintsTellModels, CacheInv, NEW k \in Ready
               PROVE  vector[k] = <<model, k>>
    BY DEF VectorsGenuine
  <2>1. k \in Keys /\ model \in Models /\ ComputedUnder(Fingerprint(model), vector[k], k)
    BY DEF CacheInv, CacheTypes, EntriesGenuine, Ready
  <2>2. PICK mod \in Models : Fingerprint(mod) = Fingerprint(model) /\ vector[k] = <<mod, k>>
    BY <2>1 DEF ComputedUnder
  <2>3. mod = model
    BY <2>1, <2>2 DEF FingerprintsTellModels
  <2> QED
    BY <2>2, <2>3
<1>2. FingerprintsTellModels => [](CacheInv => VectorsGenuine)
  <2> SUFFICES ASSUME FingerprintsTellModels PROVE [](CacheInv => VectorsGenuine)
    OBVIOUS
  <2>1. CacheInv => VectorsGenuine
    BY <1>1
  <2> QED
    BY <2>1, PTL
<1> QED
  BY <1>2, CacheInvariant, PTL

\* The rename puts the complete set of answered entries in the place of the file, and
\* nothing else does: no failed write and no entry in work gets into it.
THEOREM FileIsReplacedWhole == Spec => FileReplacedWhole
<1>1. ASSUME CacheInv, LayoutKept, [Next]_vars, dpc' = "done", file' # file
      PROVE  /\ file'.fingerprint = Fingerprint(model)
             /\ file'.count = Len(file'.records)
             /\ ToSet(file'.records) = {[key |-> k, vector |-> vector[k]] : k \in Ready}
  <2>1. DumpStep
    BY <1>1, FrontSteps DEF cacheVars, Start, Load, Exit, Crash, Ends, Restart, NewModel,
                            Submit, SubmitKey, Wave, Computes, BecomesReady, Evicted, Leaves
  <2>2. DumpRename
    BY <1>1, <2>1 DEF DumpStep, Dump, DumpBegin, DumpCannotBegin, DumpCount, DumpFails,
                      DumpEntry
  <2>3. dpc = "rename" /\ file' = temp
    BY <2>2 DEF DumpRename
  <2>4. /\ temp.fingerprint = Fingerprint(model) /\ temp.count = Len(temp.records)
        /\ ToSet(temp.records) = {RecordOf(k) : k \in Ready}
    BY <1>1, <2>3 DEF CacheInv, FilesGenuine, DumpProgress
  <2> QED
    BY <2>3, <2>4 DEF RecordOf
<1>2. CacheInv /\ LayoutKept /\ [Next]_vars =>
         [dpc' = "done" /\ file' # file =>
            /\ file'.fingerprint = Fingerprint(model)
            /\ file'.count = Len(file'.records)
            /\ ToSet(file'.records) = {[key |-> k, vector |-> vector[k]] : k \in Ready}]_cacheVars
  BY <1>1
<1> QED
  BY <1>2, CacheInvariant, LayoutInvariant, PTL DEF Spec, FileReplacedWhole

-----------------------------------------------------------------------------
(* The stop flag *)

\* A connection accepted since the signal was accepted by a call of accept() that was
\* entered without the flag; the main thread looks at it before the next one.
StopInv ==
    /\ late \in {0, 1}
    /\ late = 1 => stop /\ mpc \in {"push", "test", "dump"}
    /\ mpc \in {"load", "down"} => ~stop

\* The flag is tested before every connection that is accepted.
LEMMA StopInvStep == StopInv /\ [Next]_vars => StopInv'
<1> SUFFICES ASSUME StopInv, [Next]_vars PROVE StopInv'
  OBVIOUS
<1> USE DEF StopInv
<1>1. CASE MainStep
  <2>1. CASE MainTest
    BY <2>1 DEF MainTest, MainGoto
  <2>2. CASE MainCalls
    BY <2>2 DEF MainCalls, MainGoto
  <2>3. CASE Accept
    BY <2>3 DEF Accept, MainGoto
  <2>4. CASE Push \/ Refuse
    BY <2>4 DEF Push, Refuse, MainGoto
  <2> QED
    BY <1>1, <2>1, <2>2, <2>3, <2>4 DEF MainStep, Main
<1>2. CASE Signal
  BY <1>2 DEF Signal, MainGoto
<1>3. CASE Start \/ Exit \/ Crash \/ Restart
  <2>1. CASE Start
    BY <2>1 DEF Start
  <2>2. CASE Exit \/ Crash
    <3>1. mpc' = "down" /\ stop' = FALSE /\ late' = 0
      BY <2>2 DEF Exit, Crash, AllClosed
    <3> QED
      BY <3>1
  <2>3. CASE Restart
    BY <2>3 DEF Restart
  <2> QED
    BY <1>3, <2>1, <2>2, <2>3
<1>4. CASE DumpStep \/ Over \/ UNCHANGED vars \/ Waves \/ \E k \in Keys : Evicted(k)
  BY <1>4 DEF DumpStep, Over, vars, Waves, Wave, Evicted, frontVars, mainVars
<1>5. CASE \E c \in Connections : Connect(c)
  BY <1>5 DEF Connect, mainVars
<1>6. ASSUME NEW w \in layout.workers, Worker(w) \/ WorkerSilent(w)
      PROVE  StopInv'
  <2>1. UNCHANGED mainVars
    BY <1>6 DEF Worker, WorkerStep, Working, Wait, Pop, TakeSlot, Receive, BadFraming,
                ReadRequest, GiveSlot, Close, Submit, frontVars, AnswerRequest, Answer,
                WorkerSilent, Silence
  <2> QED
    BY <2>1 DEF mainVars
<1> QED
  BY <1>1, <1>2, <1>3, <1>4, <1>5, <1>6 DEF Next, MainThread

\* Once the signal has come no second connection is accepted: the one that is was
\* taken by an accept() entered without the flag.
AtMostOneLate == late <= 1

\* A stop signal costs at most one more connection; whether that connection comes, and
\* with it the end of accept(), is not promised.
THEOREM StopCostsOneConnection == Spec => []AtMostOneLate
<1>1. Init => StopInv
  BY DEF Init, FrontInit, StopInv
<1>2. StopInv => AtMostOneLate
  BY DEF StopInv, AtMostOneLate
<1> QED
  BY <1>1, <1>2, StopInvStep, PTL DEF Spec

-----------------------------------------------------------------------------
(***************************************************************************)
(* Where a connection is.  A place of a worker and of the main thread goes *)
(* with the line of code it is at; the ring is read as the sequence of its *)
(* sockets, to which Push appends and from which Pop takes the first.      *)
(***************************************************************************)

\* The place k behind place h of a ring of C places.
Slot(C, h, k) == (h + k) % C

Ring == [n \in 1 .. count |-> fds[Slot(Cap, head, n - 1)]]

Labels == {"pop", "wait", "slot", "read", "handle", "leave", "close"}

\* What a worker has at a label: no connection, one, one with its slot decided, or one
\* whose slot is given back.
Phase(l) ==
    IF l \in {"pop", "wait"} THEN "free"
    ELSE IF l \in {"read", "handle", "leave"} THEN "decided" ELSE l

FrontTypes ==
    /\ layout \in Layouts
    /\ mpc \in {"load", "test", "calling", "accept", "push", "dump", "down"}
    /\ accepted \in Connections \cup {None}
    /\ fresh \subseteq Clients /\ closed \subseteq Connections
    /\ backlog \in Seq(Connections)
    /\ head \in 0 .. Cap - 1 /\ count \in 0 .. Cap
    /\ fds \in [0 .. Cap - 1 -> Connections \cup {None}]
    /\ Ring \in Seq(Connections)
    /\ wpc \in [Workers -> Labels]
    /\ conn \in [Workers -> Connections \cup {None}]
    /\ kept \in [Workers -> BOOLEAN]

HandsFull ==
    /\ accepted # None <=> mpc = "push"
    /\ \A w \in Workers : conn[w] = None <=> Phase(wpc[w]) = "free"
    /\ \A w \in Workers : kept[w] => Phase(wpc[w]) = "decided"

In(c, S) == IF c \in S THEN 1 ELSE 0

PlaceSum(c) ==
    In(c, fresh) + In(c, closed) + Is(accepted, c)
    + Occurrences(backlog, c) + Occurrences(Ring, c) + CountIn(Workers, conn, c)

OnePlace ==
    \A c \in Connections : PlaceSum(c) = In(c, Clients)

Keeping == [w \in Workers |-> IF kept[w] THEN 1 ELSE 0]

SlotsCounted == active = CountIn(Workers, Keeping, 1) /\ active <= layout.slots

FrontInv == FrontTypes /\ HandsFull /\ OnePlace /\ SlotsCounted

\* The places of a ring go round once.
LEMMA SlotBehind ==
    ASSUME NEW C \in Nat \ {0}, NEW h \in 0 .. C - 1, NEW k \in 0 .. C
    PROVE  /\ Slot(C, h, k) \in 0 .. C - 1
           /\ h + k < C => Slot(C, h, k) = h + k
           /\ h + k >= C => Slot(C, h, k) = h + k - C
<1>1. CASE h + k < C
  <2>1. PICK a \in 0 .. C - 1 : a = h + k
    BY <1>1
  <2>2. a % C = a
    OBVIOUS
  <2> QED
    BY <1>1, <2>1, <2>2 DEF Slot
<1>2. CASE ~(h + k < C)
  <2>1. PICK a \in Nat : a = h + k /\ C <= a /\ a < 2 * C
    BY <1>2
  <2>2. a % C = a - C
    BY <2>1
  <2> QED
    BY <1>2, <2>1, <2>2 DEF Slot
<1> QED
  BY <1>1, <1>2

\* Two sockets of the ring have two places.
LEMMA SlotsDiffer ==
    ASSUME NEW C \in Nat \ {0}, NEW h \in 0 .. C - 1, NEW k \in 0 .. C - 1, NEW l \in 0 .. C - 1,
           Slot(C, h, k) = Slot(C, h, l)
    PROVE  k = l
<1>1. k \in 0 .. C /\ l \in 0 .. C
  OBVIOUS
<1>2. /\ h + k < C => Slot(C, h, k) = h + k
      /\ h + k >= C => Slot(C, h, k) = h + k - C
  BY <1>1, SlotBehind
<1>3. /\ h + l < C => Slot(C, h, l) = h + l
      /\ h + l >= C => Slot(C, h, l) = h + l - C
  BY <1>1, SlotBehind
<1> QED
  BY <1>2, <1>3

\* The ring counted from its second place.
LEMMA NextSlot ==
    ASSUME NEW C \in Nat \ {0}, NEW h \in 0 .. C - 1, NEW k \in 0 .. C - 1
    PROVE  Slot(C, Slot(C, h, 1), k) = Slot(C, h, k + 1)
<1>a. 1 \in 0 .. C /\ k \in 0 .. C
  OBVIOUS
<1>1. PICK g \in 0 .. C - 1 : /\ g = Slot(C, h, 1)
                              /\ h + 1 < C => g = h + 1
                              /\ h + 1 >= C => g = h + 1 - C
  BY <1>a, SlotBehind
<1>3. /\ Slot(C, g, k) \in 0 .. C - 1
      /\ g + k < C => Slot(C, g, k) = g + k
      /\ g + k >= C => Slot(C, g, k) = g + k - C
  BY <1>a, SlotBehind
<1>4. PICK l \in 0 .. C : l = k + 1
  OBVIOUS
<1>5. /\ Slot(C, h, l) \in 0 .. C - 1
      /\ h + l < C => Slot(C, h, l) = h + l
      /\ h + l >= C => Slot(C, h, l) = h + l - C
  BY SlotBehind
<1> QED
  BY <1>1, <1>3, <1>4, <1>5

\* The capacity of the ring is a positive number.
LEMMA CapPositive ==
    ASSUME FrontTypes
    PROVE  /\ Cap \in Nat \ {0} /\ layout.slots \in Nat
           /\ layout.workers \subseteq Workers /\ Clients \subseteq Connections
BY FrontendAssumption DEF FrontTypes, LayoutType, Cap, Clients

\* socket_queue_try_push puts a socket behind the others.
LEMMA RingPushed ==
    ASSUME FrontTypes, Push, layout' = layout, accepted \in Connections
    PROVE  /\ Ring' = Append(Ring, accepted)
           /\ fds' \in [0 .. Cap - 1 -> Connections \cup {None}]
           /\ count' \in 0 .. Cap /\ head' = head
<1>1. /\ count # Cap /\ head' = head /\ count' = count + 1
      /\ fds' = [fds EXCEPT ![Slot(Cap, head, count)] = accepted]
  BY DEF Push, HasRoom, Slot
<1>2. PICK C \in Nat \ {0} : C = Cap
  BY CapPositive
<1>3. /\ head \in 0 .. C - 1 /\ count \in 0 .. C - 1 /\ Cap' = C
      /\ fds \in [0 .. C - 1 -> Connections \cup {None}]
  BY <1>1, <1>2 DEF FrontTypes, Cap
<1>4. PICK new \in 0 .. C - 1 : new = Slot(C, head, count)
  BY <1>3, SlotBehind
<1>5. fds' = [fds EXCEPT ![new] = accepted]
  BY <1>1, <1>2, <1>4
<1>6. \A n \in 1 .. count :
         /\ Slot(C, head, n - 1) \in 0 .. C - 1
         /\ Slot(C, head, n - 1) # new
  <2> SUFFICES ASSUME NEW n \in 1 .. count
               PROVE  /\ Slot(C, head, n - 1) \in 0 .. C - 1
                      /\ Slot(C, head, n - 1) # new
    OBVIOUS
  <2>1. n - 1 \in 0 .. C - 1 /\ n - 1 \in 0 .. C /\ n - 1 # count
    BY <1>3
  <2>2. Slot(C, head, n - 1) \in 0 .. C - 1
    BY <1>3, <2>1, SlotBehind
  <2>3. ASSUME Slot(C, head, n - 1) = Slot(C, head, count)
        PROVE  FALSE
    <3>1. n - 1 = count
      BY <1>3, <2>1, <2>3, SlotsDiffer
    <3> QED
      BY <2>1, <3>1
  <2> QED
    BY <1>4, <2>2, <2>3
<1>7. \A n \in 1 .. count : fds'[Slot(C, head, n - 1)] = fds[Slot(C, head, n - 1)]
  BY <1>3, <1>5, <1>6
<1>8. fds'[Slot(C, head, (count + 1) - 1)] = accepted
  <2>1. (count + 1) - 1 = count
    BY <1>3
  <2> QED
    BY <1>3, <1>4, <1>5, <2>1
<1>9. Ring = [n \in 1 .. count |-> fds[Slot(C, head, n - 1)]]
  BY <1>2 DEF Ring
<1>10. Ring' = [n \in 1 .. count + 1 |-> fds'[Slot(C, head, n - 1)]]
  BY <1>1, <1>3 DEF Ring
<1>11. Ring \in Seq(Connections)
  BY DEF FrontTypes
<1>12. Ring' = Append(Ring, accepted)
  <2>1. PICK r \in Seq(Connections) : r = Ring
    BY <1>11
  <2>2. Len(r) = count /\ \A n \in 1 .. count : r[n] = fds[Slot(C, head, n - 1)]
    BY <1>3, <1>9, <2>1
  <2>0. PICK t \in Seq(Connections) : t = Append(r, accepted)
    BY <2>1, AppendProperties
  <2>3. /\ Len(t) = count + 1
        /\ \A n \in 1 .. count : t[n] = r[n]
        /\ t[count + 1] = accepted
    BY <2>2, <2>0, AppendProperties
  <2>4. \A n \in 1 .. count + 1 : fds'[Slot(C, head, n - 1)] = t[n]
    BY <1>3, <1>7, <1>8, <2>2, <2>3
  <2>5. t = [n \in 1 .. count + 1 |-> t[n]]
    <3>1. t = [n \in 1 .. Len(t) |-> t[n]]
      OBVIOUS
    <3> QED
      BY <2>3, <3>1
  <2>6. t = Ring'
    BY <1>10, <2>4, <2>5
  <2> QED
    BY <2>1, <2>0, <2>6
<1>13. count' \in 0 .. Cap
  BY <1>1, <1>2, <1>3
<1>14. fds' \in [0 .. Cap - 1 -> Connections \cup {None}]
  BY <1>2, <1>3, <1>5
<1> QED
  BY <1>1, <1>12, <1>13, <1>14

\* socket_queue_pop takes the first socket.
LEMMA RingPopped ==
    ASSUME FrontTypes, NEW w \in Workers, Pop(w), layout' = layout
    PROVE  /\ Ring # <<>> /\ fds[head] = Ring[1] /\ fds[head] \in Connections
           /\ Ring' = Tail(Ring)
           /\ fds' \in [0 .. Cap - 1 -> Connections \cup {None}]
           /\ count' \in 0 .. Cap /\ head' \in 0 .. Cap - 1
<1>1. /\ count > 0 /\ head' = Slot(Cap, head, 1) /\ count' = count - 1
      /\ fds' = [fds EXCEPT ![head] = None]
  BY DEF Pop, Slot
<1>2. PICK C \in Nat \ {0} : C = Cap
  BY CapPositive
<1>3. /\ head \in 0 .. C - 1 /\ count \in 1 .. C /\ Cap' = C
      /\ fds \in [0 .. C - 1 -> Connections \cup {None}]
      /\ Ring \in Seq(Connections)
  BY <1>1, <1>2 DEF FrontTypes, Cap
<1>4. PICK r \in Seq(Connections) : r = Ring
  BY <1>3
<1>5. Len(r) = count /\ \A n \in 1 .. count : r[n] = fds[Slot(C, head, n - 1)]
  BY <1>2, <1>3, <1>4 DEF Ring
<1>6. Slot(C, head, 0) = head
  BY <1>3, SlotBehind
<1>7. r # <<>> /\ r[1] = fds[head] /\ r[1] \in Connections
  BY <1>3, <1>5, <1>6
<1>8. \A n \in 1 .. count - 1 :
         /\ Slot(C, Slot(C, head, 1), n - 1) = Slot(C, head, (n + 1) - 1)
         /\ Slot(C, head, (n + 1) - 1) \in 0 .. C - 1
         /\ Slot(C, head, (n + 1) - 1) # head
  <2> SUFFICES ASSUME NEW n \in 1 .. count - 1
               PROVE  /\ Slot(C, Slot(C, head, 1), n - 1) = Slot(C, head, (n + 1) - 1)
                      /\ Slot(C, head, (n + 1) - 1) \in 0 .. C - 1
                      /\ Slot(C, head, (n + 1) - 1) # head
    OBVIOUS
  <2>1. /\ n \in 0 .. C - 1 /\ n \in 0 .. C /\ n - 1 \in 0 .. C - 1
        /\ (n - 1) + 1 = n /\ (n + 1) - 1 = n /\ n # 0
    BY <1>3
  <2>2. Slot(C, Slot(C, head, 1), n - 1) = Slot(C, head, (n - 1) + 1)
    BY <1>3, <2>1, NextSlot
  <2>3. Slot(C, head, n) \in 0 .. C - 1
    BY <1>3, <2>1, SlotBehind
  <2>4. /\ head + n < C => Slot(C, head, n) = head + n
        /\ head + n >= C => Slot(C, head, n) = head + n - C
    BY <1>3, <2>1, SlotBehind
  <2>5. Slot(C, head, n) # head
    BY <1>3, <2>1, <2>4
  <2> QED
    BY <2>1, <2>2, <2>3, <2>5
<1>9. \A n \in 1 .. count - 1 : fds'[Slot(C, Slot(C, head, 1), n - 1)] = r[n + 1]
  <2> SUFFICES ASSUME NEW n \in 1 .. count - 1
               PROVE  fds'[Slot(C, Slot(C, head, 1), n - 1)] = r[n + 1]
    OBVIOUS
  <2>1. n + 1 \in 1 .. count
    BY <1>3
  <2>2. fds'[Slot(C, head, (n + 1) - 1)] = fds[Slot(C, head, (n + 1) - 1)]
    BY <1>1, <1>3, <1>8
  <2> QED
    BY <1>5, <1>8, <2>1, <2>2
<1>10. Ring' = [n \in 1 .. count - 1 |-> fds'[Slot(C, Slot(C, head, 1), n - 1)]]
  BY <1>1, <1>2, <1>3 DEF Ring
<1>11. /\ Tail(r) \in Seq(Connections) /\ Len(Tail(r)) = count - 1
       /\ \A n \in 1 .. count - 1 : Tail(r)[n] = r[n + 1]
  BY <1>3, <1>5, <1>7
<1>12. Ring' = Tail(r)
  <2>1. PICK t \in Seq(Connections) : t = Tail(r)
    BY <1>11
  <2>2. Len(t) = count - 1 /\ \A n \in 1 .. count - 1 : t[n] = r[n + 1]
    BY <1>11, <2>1
  <2>3. t = [n \in 1 .. count - 1 |-> t[n]]
    BY <2>2
  <2>4. t = Ring'
    BY <1>9, <1>10, <2>2, <2>3
  <2> QED
    BY <2>1, <2>4
<1>13. Slot(C, head, 1) \in 0 .. C - 1
  <2>1. 0 \in 0 .. C - 1
    OBVIOUS
  <2> QED
    BY <1>3, <2>1, SlotBehind
<1>14. /\ fds' \in [0 .. Cap - 1 -> Connections \cup {None}]
       /\ count' \in 0 .. Cap /\ head' \in 0 .. Cap - 1
  BY <1>1, <1>2, <1>3, <1>13
<1> QED
  BY <1>4, <1>7, <1>12, <1>14

\* The numbers of places.
LEMMA PlacesTyped ==
    ASSUME FrontTypes, NEW c
    PROVE  /\ In(c, fresh) \in Nat /\ In(c, closed) \in Nat /\ Is(accepted, c) \in Nat
           /\ Occurrences(backlog, c) \in Nat
           /\ Occurrences(Ring, c) \in Nat
           /\ CountIn(Workers, conn, c) \in Nat
<1>1. Occurrences(backlog, c) \in Nat /\ Occurrences(Ring, c) \in Nat
  BY OccurrencesNat DEF FrontTypes
<1>2. CountIn(Workers, conn, c) \in Nat
  BY CountNat, FrontendAssumption
<1> QED
  BY <1>1, <1>2 DEF Is, In

\* A step after which every connection is as often somewhere as before.
LEMMA OnePlaceKept ==
    ASSUME OnePlace, layout' = layout, \A c \in Connections : PlaceSum(c)' = PlaceSum(c)
    PROVE  OnePlace'
BY DEF OnePlace, Clients

\* A step that only moves the main thread or a worker within what it has in hand.
LEMMA QuietStep ==
    ASSUME FrontInv, UNCHANGED <<layout, fresh, backlog, closed, accepted, ringVars, conn, kept,
                                 active>>,
           mpc' \in {"load", "test", "calling", "accept", "push", "dump", "down"},
           mpc' = "push" <=> mpc = "push",
           wpc' \in [Workers -> Labels],
           \A w \in Workers : Phase(wpc'[w]) = Phase(wpc[w])
    PROVE  FrontInv'
<1>1. /\ layout' = layout /\ fresh' = fresh /\ backlog' = backlog /\ closed' = closed
      /\ accepted' = accepted /\ fds' = fds /\ head' = head /\ count' = count /\ conn' = conn
      /\ kept' = kept /\ active' = active
      /\ Cap' = Cap /\ Clients' = Clients /\ Ring' = Ring
  BY DEF ringVars, Cap, Clients, Ring
<1>2. FrontTypes'
  BY <1>1 DEF FrontInv, FrontTypes
<1>3. HandsFull'
  BY <1>1 DEF FrontInv, HandsFull
<1>4. OnePlace'
  <2>1. \A c \in Connections : PlaceSum(c)' = PlaceSum(c)
    BY <1>1 DEF PlaceSum
  <2> QED
    BY <1>1, <2>1, OnePlaceKept DEF FrontInv
<1>5. SlotsCounted'
  BY <1>1 DEF FrontInv, SlotsCounted, Keeping
<1> QED
  BY <1>2, <1>3, <1>4, <1>5 DEF FrontInv

\* The kernel queues a new connection.
LEMMA ConnectKeeps ==
    ASSUME FrontInv, NEW d \in Connections, Connect(d)
    PROVE  FrontInv'
<1>1. /\ d \in fresh /\ fresh' = fresh \ {d} /\ backlog' = Append(backlog, d)
      /\ layout' = layout /\ closed' = closed /\ mpc' = mpc /\ accepted' = accepted
      /\ fds' = fds /\ head' = head /\ count' = count /\ wpc' = wpc
      /\ conn' = conn /\ kept' = kept /\ active' = active
      /\ Cap' = Cap /\ Clients' = Clients /\ Ring' = Ring
  BY DEF Connect, mainVars, ringVars, workerVars, Cap, Clients, Ring
<1>2. FrontTypes'
  BY <1>1, AppendProperties DEF FrontInv, FrontTypes
<1>3. HandsFull'
  BY <1>1 DEF FrontInv, HandsFull
<1>4. OnePlace'
  <2>1. ASSUME NEW c \in Connections
        PROVE  PlaceSum(c)' = PlaceSum(c)
    <3>1. Occurrences(backlog', c) = Occurrences(backlog, c) + Is(d, c)
      BY <1>1, OccurrencesAppend DEF FrontInv, FrontTypes
    <3>2. In(c, fresh') + Is(d, c) = In(c, fresh)
      BY <1>1 DEF Is, In
    <3>3. In(c, fresh') \in Nat /\ Is(d, c) \in Nat
      BY DEF Is, In
    <3>4. PlaceSum(c)' = In(c, fresh') + In(c, closed) + Is(accepted, c)
                            + (Occurrences(backlog, c) + Is(d, c)) + Occurrences(Ring, c)
                            + CountIn(Workers, conn, c)
      BY <1>1, <3>1 DEF PlaceSum
    <3>5. FrontTypes
      BY DEF FrontInv
    <3> QED
      BY <3>2, <3>3, <3>4, <3>5, PlacesTyped DEF PlaceSum
  <2> QED
    BY <1>1, <2>1, OnePlaceKept DEF FrontInv
<1>5. SlotsCounted'
  BY <1>1 DEF FrontInv, SlotsCounted, Keeping
<1> QED
  BY <1>2, <1>3, <1>4, <1>5 DEF FrontInv

\* accept() returns the first connection of the kernel's queue.
LEMMA AcceptKeeps ==
    ASSUME FrontInv, Accept
    PROVE  FrontInv'
<1>1. PICK d : d = Head(backlog)
  OBVIOUS
<1>2. /\ mpc = "accept" /\ backlog # <<>> /\ mpc' = "push"
      /\ accepted' = d /\ backlog' = Tail(backlog)
      /\ layout' = layout /\ fresh' = fresh /\ closed' = closed
      /\ fds' = fds /\ head' = head /\ count' = count /\ wpc' = wpc
      /\ conn' = conn /\ kept' = kept /\ active' = active
      /\ Cap' = Cap /\ Clients' = Clients /\ Ring' = Ring
  BY <1>1 DEF Accept, MainGoto, ringVars, workerVars, Cap, Clients, Ring
<1>3. /\ d \in Connections /\ d = backlog[1] /\ backlog' \in Seq(Connections)
      /\ accepted = None /\ None \notin Connections
  BY <1>1, <1>2, HeadTailProperties, FrontendAssumption DEF FrontInv, FrontTypes, HandsFull
<1>4. FrontTypes'
  BY <1>2, <1>3 DEF FrontInv, FrontTypes
<1>5. HandsFull'
  BY <1>2, <1>3 DEF FrontInv, HandsFull
<1>6. OnePlace'
  <2>1. ASSUME NEW c \in Connections
        PROVE  PlaceSum(c)' = PlaceSum(c)
    <3>1. /\ Occurrences(backlog', c) \in Nat
          /\ Occurrences(backlog, c) = Occurrences(backlog', c) + Is(d, c)
      BY <1>2, <1>3, OccurrencesTail DEF FrontInv, FrontTypes
    <3>2. Is(accepted, c) = 0 /\ Is(accepted', c) = Is(d, c) /\ Is(d, c) \in Nat
      BY <1>2, <1>3 DEF Is, In
    <3> QED
      BY <1>2, <3>1, <3>2, PlacesTyped DEF FrontInv, PlaceSum
  <2> QED
    BY <1>2, <2>1, OnePlaceKept DEF FrontInv
<1>7. SlotsCounted'
  BY <1>2 DEF FrontInv, SlotsCounted, Keeping
<1> QED
  BY <1>4, <1>5, <1>6, <1>7 DEF FrontInv

\* The main thread has a connection in hand exactly at the push.
LEMMA PushHas ==
    ASSUME FrontInv, mpc = "push"
    PROVE  accepted \in Connections
BY DEF FrontInv, FrontTypes, HandsFull

\* The connection goes into the ring, and a waiting worker looks again.
LEMMA PushKeeps ==
    ASSUME FrontInv, Push
    PROVE  FrontInv'
<1>1. /\ mpc = "push" /\ mpc' = "test" /\ accepted' = None
      /\ layout' = layout /\ fresh' = fresh /\ backlog' = backlog /\ closed' = closed
      /\ conn' = conn /\ kept' = kept /\ active' = active
      /\ Cap' = Cap /\ Clients' = Clients
  BY DEF Push, MainGoto, kernelVars, workerVars, Cap, Clients
<1>2. PICK d \in Connections : d = accepted
  BY <1>1, PushHas
<1>3. /\ Ring' = Append(Ring, d) /\ count' \in 0 .. Cap /\ head' = head
      /\ fds' \in [0 .. Cap - 1 -> Connections \cup {None}]
  BY <1>1, <1>2, RingPushed DEF FrontInv
<1>4. wpc' \in [Workers -> Labels] /\ \A w \in Workers : Phase(wpc'[w]) = Phase(wpc[w])
  <2>1. wpc \in [Workers -> Labels]
    BY DEF FrontInv, FrontTypes
  <2>2. WorkerSignalled
    BY DEF Push
  <2> QED
    BY <2>1, <2>2 DEF WorkerSignalled, Labels, Phase
<1>5. FrontTypes'
  <2>1. Ring' \in Seq(Connections)
    BY <1>2, <1>3, AppendProperties DEF FrontInv, FrontTypes
  <2> QED
    BY <1>1, <1>3, <1>4, <2>1 DEF FrontInv, FrontTypes
<1>6. HandsFull'
  BY <1>1, <1>4 DEF FrontInv, HandsFull
<1>7. OnePlace'
  <2>1. ASSUME NEW c \in Connections
        PROVE  PlaceSum(c)' = PlaceSum(c)
    <3>1. Occurrences(Ring', c) = Occurrences(Ring, c) + Is(d, c)
      BY <1>2, <1>3, OccurrencesAppend DEF FrontInv, FrontTypes
    <3>2. Is(accepted', c) = 0 /\ Is(accepted, c) = Is(d, c) /\ Is(d, c) \in Nat
      BY <1>1, <1>2, FrontendAssumption DEF Is, In
    <3> QED
      BY <1>1, <3>1, <3>2, PlacesTyped DEF FrontInv, PlaceSum
  <2> QED
    BY <1>1, <2>1, OnePlaceKept DEF FrontInv
<1>8. SlotsCounted'
  BY <1>1 DEF FrontInv, SlotsCounted, Keeping
<1> QED
  BY <1>5, <1>6, <1>7, <1>8 DEF FrontInv

\* A connection that is not queued is closed.
LEMMA RefuseKeeps ==
    ASSUME FrontInv, Refuse
    PROVE  FrontInv'
<1>1. /\ mpc = "push" /\ mpc' = "test" /\ accepted' = None
      /\ closed' = closed \cup {accepted}
      /\ layout' = layout /\ fresh' = fresh /\ backlog' = backlog
      /\ fds' = fds /\ head' = head /\ count' = count /\ wpc' = wpc
      /\ conn' = conn /\ kept' = kept /\ active' = active
      /\ Cap' = Cap /\ Clients' = Clients /\ Ring' = Ring
  BY DEF Refuse, MainGoto, ringVars, workerVars, Cap, Clients, Ring
<1>2. PICK d \in Connections : d = accepted
  BY <1>1, PushHas
<1>3. FrontTypes'
  BY <1>1, <1>2 DEF FrontInv, FrontTypes
<1>4. HandsFull'
  BY <1>1 DEF FrontInv, HandsFull
<1>5. d \notin closed
  <2>1. PlaceSum(d) <= 1 /\ Is(accepted, d) = 1
    BY <1>2 DEF FrontInv, OnePlace, Is, In
  <2>2. In(d, closed) = 0
    BY <2>1, PlacesTyped DEF FrontInv, PlaceSum
  <2> QED
    BY <2>2 DEF Is, In
<1>6. OnePlace'
  <2>1. ASSUME NEW c \in Connections
        PROVE  PlaceSum(c)' = PlaceSum(c)
    <3>1. In(c, closed') = In(c, closed) + Is(accepted, c)
      BY <1>1, <1>2, <1>5 DEF Is, In
    <3>2. Is(accepted', c) = 0
      BY <1>1, FrontendAssumption DEF Is, In
    <3> QED
      BY <1>1, <3>1, <3>2, PlacesTyped DEF FrontInv, PlaceSum
  <2> QED
    BY <1>1, <2>1, OnePlaceKept DEF FrontInv
<1>7. SlotsCounted'
  BY <1>1 DEF FrontInv, SlotsCounted, Keeping
<1> QED
  BY <1>3, <1>4, <1>6, <1>7 DEF FrontInv

\* The connection of a worker moves with it.
LEMMA WorkerMoves ==
    ASSUME FrontTypes, NEW w \in Workers, NEW x, conn' = [conn EXCEPT ![w] = x], NEW c
    PROVE  /\ CountIn(Workers, conn', c) \in Nat
           /\ CountIn(Workers, conn', c) + Is(conn[w], c) = CountIn(Workers, conn, c) + Is(x, c)
<1>1. DOMAIN conn = Workers /\ IsFiniteSet(Workers)
  BY FrontendAssumption DEF FrontTypes
<1>2. PICK f : f = conn
  OBVIOUS
<1>3. PICK g : g = conn'
  OBVIOUS
<1>4. g[w] = x /\ ChangesAt(Workers, f, g, w)
  BY <1>1, <1>2, <1>3 DEF ChangesAt
<1>5. CountIn(Workers, g, c) \in Nat
  BY <1>1, CountNat
<1>6. CountIn(Workers, g, c) + Is(f[w], c) = CountIn(Workers, f, c) + Is(g[w], c)
  BY <1>1, <1>4, CountMoves
<1> QED
  BY <1>2, <1>3, <1>4, <1>5, <1>6

\* A worker takes the first connection of the ring.
LEMMA PopKeeps ==
    ASSUME FrontInv, NEW w \in Workers, Pop(w)
    PROVE  FrontInv'
<1>1. PICK d : d = fds[head]
  OBVIOUS
<1>2. /\ wpc[w] = "pop" /\ wpc' = [wpc EXCEPT ![w] = "slot"]
      /\ conn' = [conn EXCEPT ![w] = d]
      /\ layout' = layout /\ fresh' = fresh /\ backlog' = backlog /\ closed' = closed
      /\ mpc' = mpc /\ accepted' = accepted /\ kept' = kept /\ active' = active
      /\ Cap' = Cap /\ Clients' = Clients
  BY <1>1 DEF Pop, Goto, mainVars, kernelVars, Cap, Clients
<1>3. /\ Ring # <<>> /\ d = Ring[1] /\ d \in Connections /\ Ring' = Tail(Ring)
      /\ fds' \in [0 .. Cap - 1 -> Connections \cup {None}]
      /\ count' \in 0 .. Cap /\ head' \in 0 .. Cap - 1
  BY <1>1, <1>2, RingPopped DEF FrontInv
<1>4. conn[w] = None /\ ~kept[w]
  BY <1>2 DEF FrontInv, FrontTypes, HandsFull, Phase
<1>5. FrontTypes'
  <2>1. Ring' \in Seq(Connections)
    BY <1>3, HeadTailProperties DEF FrontInv, FrontTypes
  <2> QED
    BY <1>2, <1>3, <2>1 DEF FrontInv, FrontTypes, Labels
<1>6. HandsFull'
  <2>1. /\ wpc'[w] = "slot" /\ conn'[w] = d /\ d # None
        /\ \A v \in Workers : v # w => wpc'[v] = wpc[v] /\ conn'[v] = conn[v]
    BY <1>2, <1>3, FrontendAssumption DEF FrontInv, FrontTypes
  <2> QED
    BY <1>2, <1>4, <2>1 DEF FrontInv, HandsFull, Phase
<1>7. OnePlace'
  <2>1. ASSUME NEW c \in Connections
        PROVE  PlaceSum(c)' = PlaceSum(c)
    <3>1. /\ Occurrences(Ring', c) \in Nat
          /\ Occurrences(Ring, c) = Occurrences(Ring', c) + Is(d, c)
      BY <1>3, OccurrencesTail DEF FrontInv, FrontTypes
    <3>2. /\ CountIn(Workers, conn', c) \in Nat
          /\ CountIn(Workers, conn', c) + Is(conn[w], c) = CountIn(Workers, conn, c) + Is(d, c)
      <4>1. FrontTypes /\ conn' = [conn EXCEPT ![w] = d]
        BY <1>2 DEF FrontInv
      <4>2. CountIn(Workers, conn', c) \in Nat
        BY <4>1, WorkerMoves
      <4>3. CountIn(Workers, conn', c) + Is(conn[w], c) = CountIn(Workers, conn, c) + Is(d, c)
        BY <4>1, WorkerMoves
      <4> QED
        BY <4>2, <4>3
    <3>3. Is(conn[w], c) = 0 /\ Is(d, c) \in Nat
      BY <1>4, FrontendAssumption DEF Is, In
    <3>4. PlaceSum(c)' = In(c, fresh) + In(c, closed) + Is(accepted, c)
                            + Occurrences(backlog, c) + Occurrences(Ring', c)
                            + CountIn(Workers, conn', c)
      BY <1>2 DEF PlaceSum
    <3>5. FrontTypes
      BY DEF FrontInv
    <3> QED
      BY <3>1, <3>2, <3>3, <3>4, <3>5, PlacesTyped DEF PlaceSum
  <2> QED
    BY <1>2, <2>1, OnePlaceKept DEF FrontInv
<1>8. SlotsCounted'
  BY <1>2 DEF FrontInv, SlotsCounted, Keeping
<1> QED
  BY <1>5, <1>6, <1>7, <1>8 DEF FrontInv

\* The socket is closed and the worker free.
LEMMA CloseKeeps ==
    ASSUME FrontInv, NEW w \in Workers, Close(w)
    PROVE  FrontInv'
<1>1. PICK d : d = conn[w]
  OBVIOUS
<1>2. /\ wpc[w] = "close" /\ wpc' = [wpc EXCEPT ![w] = "pop"]
      /\ conn' = [conn EXCEPT ![w] = None] /\ closed' = closed \cup {d}
      /\ layout' = layout /\ fresh' = fresh /\ backlog' = backlog
      /\ fds' = fds /\ head' = head /\ count' = count
      /\ mpc' = mpc /\ accepted' = accepted /\ kept' = kept /\ active' = active
      /\ Cap' = Cap /\ Clients' = Clients /\ Ring' = Ring
  BY <1>1 DEF Close, Goto, mainVars, ringVars, Cap, Clients, Ring
<1>3. d \in Connections /\ ~kept[w]
  BY <1>1, <1>2 DEF FrontInv, FrontTypes, HandsFull, Phase
<1>4. FrontTypes'
  BY <1>2, <1>3 DEF FrontInv, FrontTypes, Labels
<1>5. HandsFull'
  <2>1. /\ wpc'[w] = "pop" /\ conn'[w] = None
        /\ \A v \in Workers : v # w => wpc'[v] = wpc[v] /\ conn'[v] = conn[v]
    BY <1>2 DEF FrontInv, FrontTypes
  <2> QED
    BY <1>2, <1>3, <2>1 DEF FrontInv, HandsFull, Phase
<1>6. ASSUME NEW c \in Connections
      PROVE  /\ CountIn(Workers, conn', c) \in Nat
             /\ CountIn(Workers, conn', c) + Is(d, c) = CountIn(Workers, conn, c)
  <2>1. /\ CountIn(Workers, conn', c) \in Nat
        /\ CountIn(Workers, conn', c) + Is(conn[w], c)
              = CountIn(Workers, conn, c) + Is(None, c)
    <3>1. FrontTypes /\ conn' = [conn EXCEPT ![w] = None]
      BY <1>2 DEF FrontInv
    <3>2. CountIn(Workers, conn', c) \in Nat
      BY <3>1, WorkerMoves
    <3>3. CountIn(Workers, conn', c) + Is(conn[w], c)
             = CountIn(Workers, conn, c) + Is(None, c)
      BY <3>1, WorkerMoves
    <3> QED
      BY <3>2, <3>3
  <2>2. Is(None, c) = 0 /\ CountIn(Workers, conn, c) \in Nat
    BY PlacesTyped, FrontendAssumption DEF FrontInv, Is, In
  <2> QED
    BY <1>1, <2>1, <2>2
<1>7. d \notin closed
  <2>1. PlaceSum(d) <= 1 /\ Is(d, d) = 1
    BY <1>3 DEF FrontInv, OnePlace, Is, In
  <2>2. CountIn(Workers, conn, d) >= 1
    BY <1>3, <1>6, <2>1
  <2>3. FrontTypes
    BY DEF FrontInv
  <2>4. In(d, closed) = 0
    BY <2>1, <2>2, <2>3, PlacesTyped DEF PlaceSum
  <2> QED
    BY <2>4 DEF Is, In
<1>8. OnePlace'
  <2>1. ASSUME NEW c \in Connections
        PROVE  PlaceSum(c)' = PlaceSum(c)
    <3>1. In(c, closed') = In(c, closed) + Is(d, c) /\ Is(d, c) \in Nat
      BY <1>2, <1>7 DEF Is, In
    <3>2. PlaceSum(c)' = In(c, fresh) + (In(c, closed) + Is(d, c)) + Is(accepted, c)
                            + Occurrences(backlog, c) + Occurrences(Ring, c)
                            + CountIn(Workers, conn', c)
      BY <1>2, <3>1 DEF PlaceSum
    <3>3. FrontTypes
      BY DEF FrontInv
    <3> QED
      BY <1>6, <3>1, <3>2, <3>3, PlacesTyped DEF PlaceSum
  <2> QED
    BY <1>2, <2>1, OnePlaceKept DEF FrontInv
<1>9. SlotsCounted'
  BY <1>2 DEF FrontInv, SlotsCounted, Keeping
<1> QED
  BY <1>4, <1>5, <1>8, <1>9 DEF FrontInv

\* A worker takes a keep-alive slot if there is one, or gives it back.
LEMMA SlotsKeep ==
    ASSUME FrontInv, NEW w \in Workers, TakeSlot(w) \/ GiveSlot(w)
    PROVE  FrontInv'
<1>1. PICK x \in BOOLEAN : kept' = [kept EXCEPT ![w] = x]
  BY DEF TakeSlot, GiveSlot
<1>2. /\ layout' = layout /\ fresh' = fresh /\ backlog' = backlog /\ closed' = closed
      /\ fds' = fds /\ head' = head /\ count' = count /\ conn' = conn
      /\ mpc' = mpc /\ accepted' = accepted
      /\ Cap' = Cap /\ Clients' = Clients /\ Ring' = Ring
  BY DEF TakeSlot, GiveSlot, mainVars, kernelVars, ringVars, Cap, Clients, Ring
<1>3. /\ wpc \in [Workers -> Labels] /\ kept \in [Workers -> BOOLEAN]
      /\ kept'[w] = x /\ \A v \in Workers : v # w => kept'[v] = kept[v]
  BY <1>1 DEF FrontInv, FrontTypes
<1>4. \/ wpc[w] = "slot" /\ wpc' = [wpc EXCEPT ![w] = "read"]
      \/ wpc[w] = "leave" /\ wpc' = [wpc EXCEPT ![w] = "close"] /\ x = FALSE
  BY <1>1, <1>3 DEF TakeSlot, GiveSlot, Goto
<1>5. /\ wpc' \in [Workers -> Labels]
      /\ \A v \in Workers : v # w => wpc'[v] = wpc[v]
      /\ \A v \in Workers : Phase(wpc'[v]) = "free" <=> Phase(wpc[v]) = "free"
      /\ x => Phase(wpc'[w]) = "decided"
  BY <1>3, <1>4 DEF Labels, Phase
<1>6. FrontTypes'
  BY <1>1, <1>2, <1>5 DEF FrontInv, FrontTypes
<1>7. HandsFull'
  BY <1>2, <1>3, <1>5 DEF FrontInv, HandsFull
<1>8. OnePlace'
  <2>1. \A c \in Connections : PlaceSum(c)' = PlaceSum(c)
    BY <1>2 DEF PlaceSum
  <2> QED
    BY <1>2, <2>1, OnePlaceKept DEF FrontInv
<1>9. SlotsCounted'
  <2>1. PICK f : f = Keeping
    OBVIOUS
  <2>2. PICK g : g = Keeping'
    OBVIOUS
  <2>3. /\ f[w] = (IF kept[w] THEN 1 ELSE 0) /\ g[w] = (IF x THEN 1 ELSE 0)
        /\ ChangesAt(Workers, f, g, w)
    BY <1>3, <2>1, <2>2 DEF Keeping, ChangesAt
  <2>4. /\ CountIn(Workers, g, 1) \in Nat /\ CountIn(Workers, f, 1) \in Nat
        /\ CountIn(Workers, g, 1) + Is(f[w], 1) = CountIn(Workers, f, 1) + Is(g[w], 1)
    <3>1. IsFiniteSet(Workers)
      BY FrontendAssumption
    <3>2. CountIn(Workers, g, 1) \in Nat /\ CountIn(Workers, f, 1) \in Nat
      BY <3>1, CountNat
    <3>3. CountIn(Workers, g, 1) + Is(f[w], 1) = CountIn(Workers, f, 1) + Is(g[w], 1)
      BY <2>3, <3>1, CountMoves
    <3> QED
      BY <3>2, <3>3
  <2>5. /\ active = CountIn(Workers, f, 1) /\ active <= layout.slots
        /\ layout.slots \in Nat
    BY <2>1, CapPositive DEF FrontInv, FrontTypes, SlotsCounted
  <2>6. active' = CountIn(Workers, g, 1) /\ active' <= layout.slots
    <3>1. CASE TakeSlot(w)
      <4>1. ~kept[w]
        BY <3>1 DEF TakeSlot, FrontInv, HandsFull, Phase
      <4>2. /\ x => active < layout.slots /\ active' = active + 1
            /\ ~x => active' = active
        BY <1>1, <1>3, <3>1 DEF TakeSlot
      <4>3. Is(f[w], 1) = 0
        BY <2>3, <4>1 DEF Is
      <4>4. CASE x
        <5>1. Is(g[w], 1) = 1
          BY <2>3, <4>4 DEF Is
        <5> QED
          BY <2>4, <2>5, <4>2, <4>3, <4>4, <5>1
      <4>5. CASE ~x
        <5>1. Is(g[w], 1) = 0
          BY <2>3, <4>5 DEF Is
        <5> QED
          BY <2>4, <2>5, <4>2, <4>3, <4>5, <5>1
      <4> QED
        BY <4>4, <4>5
    <3>2. CASE GiveSlot(w)
      <4>1. active' = (IF kept[w] THEN active - 1 ELSE active) /\ ~x
        BY <1>1, <1>3, <3>2 DEF GiveSlot
      <4>2. Is(g[w], 1) = 0
        BY <2>3, <4>1 DEF Is
      <4>3. CASE kept[w]
        <5>1. Is(f[w], 1) = 1
          BY <2>3, <4>3 DEF Is
        <5> QED
          BY <2>4, <2>5, <4>1, <4>2, <4>3, <5>1
      <4>4. CASE ~kept[w]
        <5>1. Is(f[w], 1) = 0
          BY <2>3, <4>4 DEF Is
        <5> QED
          BY <2>4, <2>5, <4>1, <4>2, <4>4, <5>1
      <4> QED
        BY <4>3, <4>4
    <3> QED
      BY <3>1, <3>2
  <2> QED
    BY <1>2, <2>2, <2>6 DEF SlotsCounted
<1> QED
  BY <1>6, <1>7, <1>8, <1>9 DEF FrontInv

\* The process ends, and with it every connection that was made.
LEMMA AllClosedKeeps ==
    ASSUME FrontInv, AllClosed
    PROVE  FrontInv'
<1>1. /\ mpc' = "down" /\ accepted' = None /\ closed' = Clients \ fresh /\ backlog' = <<>>
      /\ fds' = [n \in 0 .. Cap - 1 |-> None] /\ head' = 0 /\ count' = 0
      /\ wpc' = [w \in Workers |-> "pop"] /\ conn' = [w \in Workers |-> None]
      /\ kept' = [w \in Workers |-> FALSE] /\ active' = 0
      /\ layout' = layout /\ fresh' = fresh /\ Cap' = Cap /\ Clients' = Clients
  BY DEF AllClosed, Cap, Clients
<1>2. /\ Cap \in Nat \ {0} /\ layout.slots \in Nat /\ Clients \subseteq Connections
      /\ layout \in Layouts /\ fresh \subseteq Clients
  BY CapPositive DEF FrontInv, FrontTypes
<1>3. Ring' = <<>>
  BY <1>1 DEF Ring
<1>4. FrontTypes'
  BY <1>1, <1>2, <1>3 DEF FrontTypes, Labels
<1>5. HandsFull'
  BY <1>1 DEF HandsFull, Phase
<1>6. OnePlace'
  <2>1. ASSUME NEW c \in Connections
        PROVE  PlaceSum(c)' = In(c, fresh) + In(c, Clients \ fresh)
    <3>1. CountIn(Workers, conn', c) = 0
      BY <1>1, CountNone, FrontendAssumption
    <3>2. Is(accepted', c) = 0
      BY <1>1, FrontendAssumption DEF Is, In
    <3>3. Occurrences(<<>>, c) = 0
      BY NoOccurrence
    <3>4. In(c, fresh) \in Nat /\ In(c, Clients \ fresh) \in Nat
      BY DEF Is, In
    <3> QED
      BY <1>1, <1>3, <3>1, <3>2, <3>3, <3>4 DEF PlaceSum
  <2>2. \A c \in Connections : In(c, fresh) + In(c, Clients \ fresh) = In(c, Clients)
    BY <1>2 DEF In
  <2> QED
    BY <1>1, <2>1, <2>2 DEF OnePlace
<1>7. SlotsCounted'
  <2>1. Keeping' = [w \in Workers |-> 0]
    BY <1>1 DEF Keeping
  <2>2. CountIn(Workers, Keeping', 1) = 0
    <3>1. CountIn(Workers, [w \in Workers |-> 0], 1) = 0
      <4>1. 0 # 1
        OBVIOUS
      <4> QED
        BY <4>1, CountNone, Zenon
    <3> QED
      BY <2>1, <3>1
  <2>3. active' = 0 /\ layout'.slots = layout.slots
    BY <1>1
  <2>4. active' <= layout'.slots
    BY <1>2, <2>3
  <2> QED
    BY <2>2, <2>3, <2>4 DEF SlotsCounted
<1> QED
  BY <1>4, <1>5, <1>6, <1>7 DEF FrontInv

\* At the start nobody has connected.
LEMMA FrontInvInit ==
    ASSUME Init
    PROVE  FrontInv
<1>1. /\ layout \in Layouts /\ mpc = "load" /\ accepted = None /\ closed = {} /\ backlog = <<>>
      /\ fds = [n \in 0 .. Cap - 1 |-> None] /\ head = 0 /\ count = 0
      /\ wpc = [w \in Workers |-> "pop"] /\ conn = [w \in Workers |-> None]
      /\ kept = [w \in Workers |-> FALSE] /\ active = 0 /\ fresh = Clients
  BY DEF Init, FrontInit
<1>2. Cap \in Nat \ {0} /\ layout.slots \in Nat /\ Clients \subseteq Connections
  BY <1>1, FrontendAssumption DEF LayoutType, Cap, Clients
<1>3. Ring = <<>>
  BY <1>1 DEF Ring
<1>4. FrontTypes
  BY <1>1, <1>2, <1>3 DEF FrontTypes, Labels
<1>5. HandsFull
  BY <1>1 DEF HandsFull, Phase
<1>6. OnePlace
  <2>1. ASSUME NEW c \in Connections
        PROVE  PlaceSum(c) = In(c, Clients)
    <3>1. CountIn(Workers, conn, c) = 0
      BY <1>1, CountNone, FrontendAssumption
    <3>2. Is(accepted, c) = 0 /\ In(c, closed) = 0
      BY <1>1, FrontendAssumption DEF Is, In
    <3>3. Occurrences(<<>>, c) = 0
      BY NoOccurrence
    <3>4. In(c, Clients) \in Nat
      BY DEF In
    <3> QED
      BY <1>1, <1>3, <3>1, <3>2, <3>3, <3>4 DEF PlaceSum
  <2> QED
    BY <2>1 DEF OnePlace, In
<1>7. SlotsCounted
  <2>1. Keeping = [w \in Workers |-> 0]
    BY <1>1 DEF Keeping
  <2>2. CountIn(Workers, Keeping, 1) = 0
    <3>1. CountIn(Workers, [w \in Workers |-> 0], 1) = 0
      <4>1. 0 # 1
        OBVIOUS
      <4> QED
        BY <4>1, CountNone, Zenon
    <3> QED
      BY <2>1, <3>1
  <2> QED
    BY <1>1, <1>2, <2>2 DEF SlotsCounted
<1> QED
  BY <1>4, <1>5, <1>6, <1>7 DEF FrontInv

\* The steps of the main thread.
LEMMA FrontMain ==
    ASSUME FrontInv, MainThread \/ Crash \/ Signal
    PROVE  FrontInv'
<1> USE DEF mainVars, kernelVars, ringVars, workerVars, frontVars
<1>1. wpc \in [Workers -> Labels]
  BY DEF FrontInv, FrontTypes
<1>2. CASE MainTest
  <2>1. /\ mpc = "test" /\ mpc' \in {"dump", "calling"} /\ wpc' = wpc
        /\ UNCHANGED <<layout, fresh, backlog, closed, accepted, ringVars, conn, kept, active>>
    BY <1>2 DEF MainTest, MainGoto
  <2> QED
    BY <1>1, <2>1, QuietStep
<1>3. CASE MainCalls
  <2>1. /\ mpc = "calling" /\ mpc' = "accept" /\ wpc' = wpc
        /\ UNCHANGED <<layout, fresh, backlog, closed, accepted, ringVars, conn, kept, active>>
    BY <1>3 DEF MainCalls, MainGoto
  <2> QED
    BY <1>1, <2>1, QuietStep
<1>4. CASE Start
  <2>1. /\ mpc = "load" /\ mpc' = "test" /\ wpc' = wpc
        /\ UNCHANGED <<layout, fresh, backlog, closed, accepted, ringVars, conn, kept, active>>
    BY <1>4 DEF Start
  <2> QED
    BY <1>1, <2>1, QuietStep
<1>5. CASE Restart
  <2>1. /\ mpc = "down" /\ mpc' = "load" /\ wpc' = wpc
        /\ UNCHANGED <<layout, fresh, backlog, closed, accepted, ringVars, conn, kept, active>>
    BY <1>5 DEF Restart
  <2> QED
    BY <1>1, <2>1, QuietStep
<1>6. CASE DumpStep
  <2>1. /\ mpc' = mpc /\ wpc' = wpc /\ mpc = "dump"
        /\ UNCHANGED <<layout, fresh, backlog, closed, accepted, ringVars, conn, kept, active>>
    BY <1>6 DEF DumpStep
  <2> QED
    BY <1>1, <2>1, QuietStep
<1>7. CASE Signal
  <2>1. /\ mpc \in {"test", "calling", "accept", "push"} /\ wpc' = wpc
        /\ mpc' = mpc \/ (mpc = "accept" /\ mpc' = "test")
        /\ UNCHANGED <<layout, fresh, backlog, closed, accepted, ringVars, conn, kept, active>>
    BY <1>7 DEF Signal, MainGoto
  <2> QED
    BY <1>1, <2>1, QuietStep
<1>8. CASE Accept \/ Push \/ Refuse
  BY <1>8, AcceptKeeps, PushKeeps, RefuseKeeps
<1>9. CASE Exit \/ Crash
  <2>1. AllClosed
    BY <1>9 DEF Exit, Crash
  <2> QED
    BY <2>1, AllClosedKeeps
<1> HIDE DEF mainVars, kernelVars, ringVars, workerVars, frontVars
<1> QED
  BY <1>2, <1>3, <1>4, <1>5, <1>6, <1>7, <1>8, <1>9 DEF MainThread, MainStep, Main

\* The steps of a worker.
LEMMA FrontWorker ==
    ASSUME FrontInv, NEW w \in Workers, Worker(w) \/ WorkerSilent(w)
    PROVE  FrontInv'
<1>1. /\ wpc \in [Workers -> Labels]
      /\ mpc \in {"load", "test", "calling", "accept", "push", "dump", "down"}
  BY DEF FrontInv, FrontTypes
<1>2. CASE Pop(w) \/ Close(w)
  BY <1>2, PopKeeps, CloseKeeps
<1>3. CASE TakeSlot(w) \/ GiveSlot(w)
  BY <1>3, SlotsKeep
<1>4. CASE Wait(w) \/ Receive(w) \/ BadFraming(w) \/ ReadRequest(w) \/ Submit(w)
           \/ Answer(w) \/ Silence(w)
  <2>1. /\ mpc' = mpc
        /\ UNCHANGED <<layout, fresh, backlog, closed, accepted, ringVars, conn, kept, active>>
    BY <1>4 DEF Wait, Receive, BadFraming, ReadRequest, Submit, Answer, Silence,
                mainVars, kernelVars, ringVars, workerVars, frontVars
  <2>2. \/ wpc' = wpc
        \/ wpc[w] = "pop" /\ wpc' = [wpc EXCEPT ![w] = "wait"]
        \/ wpc[w] = "read" /\ wpc' = [wpc EXCEPT ![w] = "leave"]
        \/ wpc[w] = "read" /\ wpc' = [wpc EXCEPT ![w] = "handle"]
        \/ wpc[w] = "handle" /\ wpc' = [wpc EXCEPT ![w] = "read"]
        \/ wpc[w] = "handle" /\ wpc' = [wpc EXCEPT ![w] = "leave"]
    <3>1. CASE Wait(w)
      BY <3>1 DEF Wait, Goto
    <3>2. CASE Receive(w)
      BY <3>2 DEF Receive, Goto
    <3>3. CASE BadFraming(w)
      BY <3>3 DEF BadFraming, Goto
    <3>4. CASE ReadRequest(w)
      BY <3>4 DEF ReadRequest, Goto
    <3>5. CASE Submit(w)
      BY <3>5 DEF Submit, frontVars
    <3>6. CASE Answer(w)
      <4>1. PICK l : l \in {"read", "leave"} /\ Goto(w, l)
        BY <3>6 DEF Answer
      <4>2. wpc[w] = "handle"
        BY <3>6 DEF Answer
      <4> QED
        BY <4>1, <4>2 DEF Goto
    <3>7. CASE Silence(w)
      BY <3>7 DEF Silence, Goto
    <3> QED
      BY <1>4, <3>1, <3>2, <3>3, <3>4, <3>5, <3>6, <3>7
  <2>3. wpc' \in [Workers -> Labels] /\ \A v \in Workers : Phase(wpc'[v]) = Phase(wpc[v])
    BY <1>1, <2>2 DEF Labels, Phase
  <2> QED
    BY <1>1, <2>1, <2>3, QuietStep
<1> QED
  BY <1>2, <1>3, <1>4 DEF Worker, WorkerSilent, WorkerStep, AnswerRequest, Working

\* Steps that leave the connections alone.
LEMMA FrontUnchanged ==
    ASSUME FrontInv, UNCHANGED frontVars
    PROVE  FrontInv'
<1>1. /\ wpc \in [Workers -> Labels]
      /\ mpc \in {"load", "test", "calling", "accept", "push", "dump", "down"}
  BY DEF FrontInv, FrontTypes
<1>2. /\ mpc' = mpc /\ wpc' = wpc
      /\ UNCHANGED <<layout, fresh, backlog, closed, accepted, ringVars, conn, kept, active>>
  BY DEF mainVars, kernelVars, ringVars, workerVars, frontVars
<1> QED
  BY <1>1, <1>2, QuietStep

\* No step of the server loses or doubles a connection.
LEMMA FrontInvStep ==
    ASSUME FrontInv, [Next]_vars
    PROVE  FrontInv'
<1>1. CASE MainThread \/ Crash \/ Signal
  BY <1>1, FrontMain
<1>2. ASSUME NEW c \in Connections, Connect(c)
      PROVE  FrontInv'
  BY <1>2, ConnectKeeps
<1>3. ASSUME NEW w \in layout.workers, Worker(w) \/ WorkerSilent(w)
      PROVE  FrontInv'
  <2>1. w \in Workers
    BY LayoutWorkers DEF FrontInv, FrontTypes, LayoutKept
  <2> QED
    BY <1>3, <2>1, FrontWorker
<1>4. CASE Over \/ Waves \/ (\E k \in Keys : Evicted(k)) \/ UNCHANGED vars
  <2>1. UNCHANGED frontVars
    BY <1>4 DEF Over, Waves, Wave, Evicted, vars
  <2> QED
    BY <2>1, FrontUnchanged
<1> QED
  BY <1>1, <1>2, <1>3, <1>4 DEF Next

\* Every connection has its place, and every slot its worker, always.
THEOREM FrontInvariant == Spec => []FrontInv
<1>1. Init => FrontInv
  BY FrontInvInit
<1>2. FrontInv /\ [Next]_vars => FrontInv'
  BY FrontInvStep
<1> QED
  BY <1>1, <1>2, PTL DEF Spec

\* A one-to-one image of a finite set is as large.
LEMMA SameSize ==
    ASSUME NEW S, NEW T, IsFiniteSet(S), NEW f \in [S -> T],
           \A a, b \in S : f[a] = f[b] => a = b,
           \A t \in T : \E a \in S : f[a] = t
    PROVE  Cardinality(S) = Cardinality(T)
<1>1. f \in Bijection(S, T)
  BY DEF Bijection, Injection, Surjection, IsInjective
<1>2. ExistsBijection(S, T)
  BY <1>1 DEF ExistsBijection
<1> QED
  BY <1>2, FS_Bijection

\* The places of the ring that hold a connection are counted from its head.
LEMMA RingPlaces ==
    ASSUME FrontTypes, NEW c
    PROVE  Cardinality({n \in 0 .. count - 1 : fds[(head + n) % Cap] = c})
              = Occurrences(Ring, c)
<1>1. PICK m : m = count
  OBVIOUS
<1>2. m \in Nat
  BY <1>1, CapPositive DEF FrontTypes
<1>3. PICK S : S = {n \in 0 .. m - 1 : fds[(head + n) % Cap] = c}
  OBVIOUS
<1>4. PICK T : T = Where(DOMAIN Ring, Ring, c)
  OBVIOUS
<1>5. \A n : n \in T <=> n \in 1 .. m /\ fds[(head + (n - 1)) % Cap] = c
  BY <1>1, <1>4 DEF Ring, Where, Slot
<1>6. \A n : n \in S <=> n \in 0 .. m - 1 /\ fds[(head + n) % Cap] = c
  BY <1>3
<1>7. IsFiniteSet(S)
  <2>1. S \in SUBSET (0 .. m - 1)
    BY <1>6
  <2>2. IsFiniteSet(0 .. m - 1)
    BY <1>2, FS_Interval
  <2> QED
    BY <2>1, <2>2, FS_Subset
<1>8. PICK f : f = [n \in S |-> n + 1]
  OBVIOUS
<1>9. f \in [S -> T]
  <2>1. \A n \in S : n + 1 \in 1 .. m /\ (n + 1) - 1 = n
    BY <1>2, <1>6
  <2>2. \A n \in S : n + 1 \in T
    BY <1>5, <1>6, <2>1
  <2> QED
    BY <1>8, <2>2
<1>10. \A a, b \in S : f[a] = f[b] => a = b
  BY <1>2, <1>6, <1>8
<1>11. ASSUME NEW t \in T
       PROVE  \E a \in S : f[a] = t
  <2>1. t \in 1 .. m /\ fds[(head + (t - 1)) % Cap] = c
    BY <1>5
  <2>2. t - 1 \in S
    BY <1>2, <1>6, <2>1
  <2>3. f[t - 1] = t
    BY <1>8, <2>1, <2>2
  <2> QED
    BY <2>2, <2>3
<1>12. Cardinality(S) = Cardinality(T)
  BY <1>7, <1>9, <1>10, <1>11, SameSize
<1> QED
  BY <1>1, <1>3, <1>4, <1>12 DEF Occurrences, CountIn

\* The places of a connection add up.
LEMMA PlacesAddUp ==
    ASSUME FrontTypes, NEW c \in Connections
    PROVE  Places(c) = PlaceSum(c)
<1>1. Cardinality({n \in DOMAIN backlog : backlog[n] = c}) = Occurrences(backlog, c)
  BY DEF Occurrences, CountIn, Where
<1>2. Cardinality({n \in 0 .. count - 1 : fds[(head + n) % Cap] = c}) = Occurrences(Ring, c)
  BY RingPlaces
<1>3. Cardinality({w \in Workers : conn[w] = c}) = CountIn(Workers, conn, c)
  BY DEF CountIn, Where
<1>4. Places(c) = In(c, fresh) + In(c, closed) + Is(accepted, c)
                     + Cardinality({n \in DOMAIN backlog : backlog[n] = c})
                     + Cardinality({n \in 0 .. count - 1 : fds[(head + n) % Cap] = c})
                     + Cardinality({w \in Workers : conn[w] = c})
  BY Zenon DEF Places, In, Is
<1> QED
  BY <1>1, <1>2, <1>3, <1>4 DEF PlaceSum

\* A connection is at every moment in exactly one place: with the kernel, in the main
\* thread's hand, in the ring, with one worker, or closed; and the count of keep-alive slots
\* is the number of workers that hold one.
THEOREM ConnectionsAreAccounted == Spec => []ConnectionsAccounted
<1>1. ASSUME FrontInv
      PROVE  ConnectionsAccounted
  <2>1. FrontTypes /\ OnePlace /\ SlotsCounted
    BY <1>1 DEF FrontInv
  <2>2. \A c \in Clients : Places(c) = 1
    BY <2>1, CapPositive, PlacesAddUp DEF OnePlace, In
  <2>3. {w \in Workers : kept[w]} = Where(Workers, Keeping, 1)
    BY DEF Where, Keeping
  <2> QED
    BY <2>1, <2>2, <2>3 DEF SlotsCounted, ConnectionsAccounted, CountIn
<1>2. FrontInv => ConnectionsAccounted
  BY <1>1
<1> QED
  BY <1>2, FrontInvariant, PTL

-----------------------------------------------------------------------------
(***************************************************************************)
(* What a client is answered.  The receive buffer and the network hold the *)
(* stream from the first request that is neither answered nor in work;     *)
(* read_request takes exactly the units of that request, however recv has  *)
(* cut the stream.  All answers but the last are good, in their order; an  *)
(* error is the last, and the worker leaves the connection with it.        *)
(***************************************************************************)

UnitType == {"head", "end", "body"} \X Nat
ReplyType == [status : Nat, request : Nat, keep : BOOLEAN]

\* What a worker is doing with its connection.
Stage(w) ==
    IF wpc[w] = "handle" THEN "handle" ELSE IF wpc[w] \in {"leave", "close"} THEN "over" ELSE "open"

Handling(c) == \E w \in Workers : conn[w] = c /\ Stage(w) = "handle"
Ended(c) == c \in closed \/ \E w \in Workers : conn[w] = c /\ Stage(w) = "over"

\* The good answers of a client: all of them but an error at the end.
Rank(c) ==
    LET n == Len(replies[c])
    IN  IF n > 0 /\ replies[c][n].status # 200 THEN n - 1 ELSE n

\* The request whose units are the next in the buffer and the network.
Position(c) == Rank(c) + (IF Handling(c) THEN 2 ELSE 1)

ExchangeTypes(c) ==
    /\ replies[c] \in Seq(ReplyType)
    /\ buffer[c] \in Seq(UnitType) /\ stream[c] \in Seq(UnitType)

RepliesInOrder(c) ==
    \A n \in DOMAIN replies[c] :
        /\ replies[c][n].keep => replies[c][n].status = 200
        /\ replies[c][n].status = 200 => replies[c][n].request = n
        /\ n < Len(replies[c]) \/ ~Ended(c) => replies[c][n].keep

RestInOrder(c) ==
    c \notin closed =>
        /\ Position(c) <= Len(Script(c)) + 1
        /\ buffer[c] \o stream[c] = StreamFrom(c, Position(c))

Exchange(c) ==
    /\ ExchangeTypes(c)
    /\ RepliesInOrder(c)
    /\ RestInOrder(c)
    /\ c \in fresh => buffer[c] = <<>>
    /\ \A w \in Workers : conn[w] = c /\ Stage(w) = "handle" => current[w] = Rank(c) + 1

AnswerInv ==
    /\ DOMAIN replies = Connections /\ DOMAIN buffer = Connections
    /\ DOMAIN stream = Connections /\ DOMAIN current = Workers
    /\ \A c \in Clients : Exchange(c)

-----------------------------------------------------------------------------
\* A sequence cut in two is the two pieces one after the other.
LEMMA CutSequence ==
    ASSUME NEW T, NEW s \in Seq(T), NEW n \in 0 .. Len(s)
    PROVE  /\ SubSeq(s, 1, n) \in Seq(T) /\ Len(SubSeq(s, 1, n)) = n
           /\ SubSeq(s, n + 1, Len(s)) \in Seq(T) /\ Len(SubSeq(s, n + 1, Len(s))) = Len(s) - n
           /\ \A j \in 1 .. Len(s) - n : SubSeq(s, n + 1, Len(s))[j] = s[j + n]
           /\ SubSeq(s, 1, n) \o SubSeq(s, n + 1, Len(s)) = s
<1> DEFINE front == SubSeq(s, 1, n)
           back == SubSeq(s, n + 1, Len(s))
<1>1. front \in Seq(T) /\ Len(front) = n /\ \A j \in 1 .. n : front[j] = s[j]
  BY PrefixMembers
<1>2. back \in Seq(T) /\ Len(back) = Len(s) - n
  <2>1. \A j \in n + 1 .. Len(s) : s[j] \in T
    OBVIOUS
  <2>2. n + 1 \in Int /\ Len(s) \in Int
    OBVIOUS
  <2>3. back \in Seq(T) /\ Len(back) = IF n + 1 <= Len(s) THEN Len(s) - (n + 1) + 1 ELSE 0
    BY <2>1, <2>2, SubSeqProperties
  <2> QED
    BY <2>3
<1>3. \A j \in 1 .. Len(s) - n : back[j] = s[j + n]
  <2>1. \A j \in n + 1 .. Len(s) : s[j] \in T
    OBVIOUS
  <2>2. \A j \in 1 .. Len(s) - (n + 1) + 1 : back[j] = s[(n + 1) + j - 1]
    BY <2>1, SubSeqProperties
  <2>3. \A j \in 1 .. Len(s) - n : j \in 1 .. Len(s) - (n + 1) + 1 /\ (n + 1) + j - 1 = j + n
    OBVIOUS
  <2> QED
    BY <2>2, <2>3
<1> HIDE DEF front, back
<1>4. front \o back = s
  <2>1. /\ front \o back \in Seq(T) /\ Len(front \o back) = Len(front) + Len(back)
        /\ \A i \in 1 .. Len(front) + Len(back) :
              (front \o back)[i] = IF i <= Len(front) THEN front[i] ELSE back[i - Len(front)]
    BY <1>1, <1>2, ConcatProperties
  <2>2. Len(front \o back) = Len(s)
    BY <1>1, <1>2, <2>1
  <2>3. ASSUME NEW i \in 1 .. Len(s)
        PROVE  (front \o back)[i] = s[i]
    <3>1. CASE i <= n
      BY <1>1, <1>2, <2>1, <3>1
    <3>2. CASE ~(i <= n)
      <4>1. i - n \in 1 .. Len(s) - n /\ (i - n) + n = i
        BY <3>2
      <4>2. back[i - n] = s[i]
        BY <1>3, <4>1
      <4> QED
        BY <1>1, <1>2, <2>1, <3>2, <4>2
    <3> QED
      BY <3>1, <3>2
  <2> QED
    BY <2>1, <2>2, <2>3, SeqEqual
<1> QED
  BY <1>1, <1>2, <1>3, <1>4 DEF front, back

\* Of two readings of a sequence, the longer first piece begins with the shorter one, and
\* what it has more goes to the other rest.
LEMMA CutBehind ==
    ASSUME NEW T, NEW b \in Seq(T), NEW s \in Seq(T), NEW u \in Seq(T), NEW r \in Seq(T),
           b \o s = u \o r, Len(u) <= Len(b)
    PROVE  SubSeq(b, Len(u) + 1, Len(b)) \in Seq(T) /\ SubSeq(b, Len(u) + 1, Len(b)) \o s = r
<1> DEFINE m == Len(u)
           d == SubSeq(b, m + 1, Len(b))
<1>1. m \in 0 .. Len(b)
  OBVIOUS
<1>2. d \in Seq(T) /\ Len(d) = Len(b) - m /\ \A j \in 1 .. Len(b) - m : d[j] = b[j + m]
  BY <1>1, CutSequence
<1>3. /\ Len(b \o s) = Len(b) + Len(s) /\ Len(u \o r) = m + Len(r)
      /\ \A i \in 1 .. Len(b) + Len(s) : (b \o s)[i] = IF i <= Len(b) THEN b[i] ELSE s[i - Len(b)]
      /\ \A i \in 1 .. m + Len(r) : (u \o r)[i] = IF i <= m THEN u[i] ELSE r[i - m]
  BY ConcatProperties
<1>4. /\ d \o s \in Seq(T) /\ Len(d \o s) = Len(d) + Len(s)
      /\ \A i \in 1 .. Len(d) + Len(s) : (d \o s)[i] = IF i <= Len(d) THEN d[i] ELSE s[i - Len(d)]
  BY <1>2, ConcatProperties
<1> HIDE DEF d
<1>5. Len(d \o s) = Len(r)
  BY <1>1, <1>2, <1>3, <1>4
<1>6. ASSUME NEW i \in 1 .. Len(r)
      PROVE  (d \o s)[i] = r[i]
  <2>1. /\ i + m \in 1 .. m + Len(r) /\ i + m \in 1 .. Len(b) + Len(s)
        /\ ~(i + m <= m) /\ (i + m) - m = i /\ i \in 1 .. Len(d) + Len(s)
    BY <1>1, <1>3, <1>4, <1>5
  <2>2. r[i] = (u \o r)[i + m]
    BY <1>3, <2>1
  <2>3. r[i] = IF i + m <= Len(b) THEN b[i + m] ELSE s[(i + m) - Len(b)]
    BY <1>3, <2>1, <2>2
  <2>4. (d \o s)[i] = IF i <= Len(d) THEN d[i] ELSE s[i - Len(d)]
    BY <1>4, <2>1
  <2>5. CASE i + m <= Len(b)
    <3>1. i <= Len(d) /\ i \in 1 .. Len(b) - m
      BY <1>1, <1>2, <2>5
    <3>2. d[i] = b[i + m]
      BY <1>2, <3>1
    <3> QED
      BY <2>3, <2>4, <2>5, <3>1, <3>2
  <2>6. CASE ~(i + m <= Len(b))
    <3>1. ~(i <= Len(d)) /\ (i + m) - Len(b) = i - Len(d)
      BY <1>1, <1>2, <2>6
    <3> QED
      BY <2>3, <2>4, <2>6, <3>1
  <2> QED
    BY <2>5, <2>6
<1>7. d \o s = r
  BY <1>4, <1>5, <1>6, SeqEqual
<1> QED
  BY <1>2, <1>7 DEF d

-----------------------------------------------------------------------------
\* The scripts of a configuration are typed.
LEMMA ScriptTyped ==
    ASSUME layout \in Layouts, NEW c \in Clients
    PROVE  /\ Len(Script(c)) \in Nat
           /\ \A i \in 1 .. Len(Script(c)) : Script(c)[i].head \in Nat /\ Script(c)[i].body \in Nat
BY FrontendAssumption DEF LayoutType, Clients, Script

\* The units of a request, its empty line among them.
LEMMA UnitsOfRequest ==
    ASSUME layout \in Layouts, NEW c \in Clients, NEW i \in 1 .. Len(Script(c))
    PROVE  /\ Units(c, i) \in Seq(UnitType)
           /\ Len(Units(c, i)) = Script(c)[i].head + 1 + Script(c)[i].body
           /\ \A n \in 1 .. Script(c)[i].head : Units(c, i)[n] = <<"head", i>>
           /\ Units(c, i)[Script(c)[i].head + 1] = <<"end", i>>
<1>1. PICK h \in Nat, m \in Nat : h = Script(c)[i].head /\ m = Script(c)[i].body
  BY ScriptTyped
<1> DEFINE x == [n \in 1 .. h |-> <<"head", i>>]
           e == <<<<"end", i>>>>
           y == [n \in 1 .. m |-> <<"body", i>>]
<1>2. i \in Nat
  BY ScriptTyped
<1>3. /\ <<"head", i>> \in UnitType /\ <<"end", i>> \in UnitType /\ <<"body", i>> \in UnitType
  BY <1>2 DEF UnitType
<1>4. /\ x \in Seq(UnitType) /\ Len(x) = h /\ e \in Seq(UnitType) /\ Len(e) = 1
      /\ y \in Seq(UnitType) /\ Len(y) = m
      /\ e[1] = <<"end", i>> /\ \A n \in 1 .. h : x[n] = <<"head", i>>
  <2>1. PICK a \in UnitType, b \in UnitType, d \in UnitType :
           a = <<"head", i>> /\ b = <<"end", i>> /\ d = <<"body", i>>
    BY <1>3
  <2>2. x = [n \in 1 .. h |-> a] /\ e = <<b>> /\ y = [n \in 1 .. m |-> d]
    BY <2>1
  <2> HIDE DEF x, e, y
  <2>3. x \in [1 .. h -> UnitType] /\ y \in [1 .. m -> UnitType]
    BY <2>2
  <2>4. x \in Seq(UnitType) /\ y \in Seq(UnitType)
    BY <1>1, <2>3, SeqDef
  <2>5. Len(x) = h /\ Len(y) = m
    BY <1>1, <2>3, <2>4
  <2>6. e \in Seq(UnitType) /\ Len(e) = 1 /\ e[1] = b
    BY <2>2
  <2>7. \A n \in 1 .. h : x[n] = a
    BY <2>2
  <2> QED
    BY <2>1, <2>4, <2>5, <2>6, <2>7
<1>5. Units(c, i) = x \o e \o y
  BY <1>1 DEF Units
<1> HIDE DEF x, e, y
<1>6. PICK z \in Seq(UnitType) : z = x \o e
  BY <1>4, ConcatProperties
<1>7. /\ Len(z) = h + 1
      /\ \A n \in 1 .. h + 1 : z[n] = IF n <= h THEN x[n] ELSE e[n - h]
  <2>1. /\ Len(x \o e) = Len(x) + Len(e)
        /\ \A n \in 1 .. Len(x) + Len(e) :
              (x \o e)[n] = IF n <= Len(x) THEN x[n] ELSE e[n - Len(x)]
    BY <1>4, ConcatProperties
  <2> QED
    BY <1>4, <1>6, <2>1
<1>8. /\ z \o y \in Seq(UnitType) /\ Len(z \o y) = h + 1 + m
      /\ \A n \in 1 .. h + 1 + m : (z \o y)[n] = IF n <= h + 1 THEN z[n] ELSE y[n - (h + 1)]
  <2>1. /\ z \o y \in Seq(UnitType) /\ Len(z \o y) = Len(z) + Len(y)
        /\ \A n \in 1 .. Len(z) + Len(y) :
              (z \o y)[n] = IF n <= Len(z) THEN z[n] ELSE y[n - Len(z)]
    <3>1. z \in Seq(UnitType) /\ y \in Seq(UnitType)
      BY <1>4, <1>6
    <3> QED
      BY <3>1, ConcatProperties
  <2> QED
    BY <1>4, <1>7, <2>1
<1>9. \A n \in 1 .. h : (z \o y)[n] = <<"head", i>>
  <2>1. \A n \in 1 .. h : n \in 1 .. h + 1 /\ n \in 1 .. h + 1 + m /\ n <= h + 1 /\ n <= h
    BY <1>1
  <2> QED
    BY <1>4, <1>7, <1>8, <2>1
<1>10. (z \o y)[h + 1] = <<"end", i>>
  <2>1. /\ h + 1 \in 1 .. h + 1 /\ h + 1 \in 1 .. h + 1 + m /\ h + 1 <= h + 1 /\ ~(h + 1 <= h)
        /\ (h + 1) - h = 1
    BY <1>1
  <2>2. (z \o y)[h + 1] = z[h + 1]
    BY <1>8, <2>1
  <2>3. z[h + 1] = e[(h + 1) - h]
    BY <1>7, <2>1
  <2> QED
    BY <1>4, <2>1, <2>2, <2>3
<1> QED
  BY <1>1, <1>5, <1>6, <1>8, <1>9, <1>10

\* f is what StreamFrom chooses: the rest of the stream from each request on.
Rests(c, N, f) == f = [n \in 1 .. N + 1 |-> IF n > N THEN <<>> ELSE Units(c, n) \o f[n + 1]]

\* The rests of a stream exist.
LEMMA RestsExist ==
    ASSUME NEW c, NEW N \in Nat
    PROVE  \E f : Rests(c, N, f)
<1> DEFINE Solves(k, f) ==
               /\ DOMAIN f = k .. N + 1
               /\ \A n \in k .. N + 1 : f[n] = IF n > N THEN <<>> ELSE Units(c, n) \o f[n + 1]
           U == {k \in 1 .. N + 1 : ~\E f : Solves(k, f)}
<1>1. U = {}
  <2> SUFFICES ASSUME U # {} PROVE FALSE
    OBVIOUS
  <2>1. PICK m \in U : \A j \in U : j <= m
    <3>1. U \in SUBSET (1 .. N + 1) /\ N + 1 \in Nat
      OBVIOUS
    <3> HIDE DEF U
    <3> QED
      BY <3>1, LastPlace
  <2>2. m \in 1 .. N + 1
    BY <2>1
  <2>3. CASE m = N + 1
    <3>1. PICK f : f = [n \in N + 1 .. N + 1 |-> <<>>]
      OBVIOUS
    <3>2. Solves(N + 1, f)
      <4>1. \A n \in N + 1 .. N + 1 : n > N
        OBVIOUS
      <4> QED
        BY <3>1, <4>1
    <3> QED
      BY <2>1, <2>3, <3>2
  <2>4. CASE m # N + 1
    <3>1. m + 1 \in 1 .. N + 1 /\ m + 1 \notin U
      BY <2>1, <2>2, <2>4
    <3>2. PICK f : Solves(m + 1, f)
      BY <3>1
    <3>3. PICK g : g = [n \in m .. N + 1 |-> IF n = m THEN Units(c, m) \o f[m + 1] ELSE f[n]]
      OBVIOUS
    <3>4. ASSUME NEW n \in m .. N + 1
          PROVE  g[n] = IF n > N THEN <<>> ELSE Units(c, n) \o g[n + 1]
      <4>1. CASE n = m
        <5>1. ~(n > N) /\ m + 1 \in m .. N + 1 /\ m + 1 # m
          BY <2>2, <2>4, <4>1
        <5> QED
          BY <3>3, <4>1, <5>1
      <4>2. CASE n # m /\ n > N
        <5>1. n \in m + 1 .. N + 1
          BY <2>2, <4>2
        <5> QED
          BY <3>2, <3>3, <4>2, <5>1
      <4>3. CASE n # m /\ ~(n > N)
        <5>1. n \in m + 1 .. N + 1 /\ n + 1 \in m .. N + 1 /\ n + 1 # m
          BY <2>2, <4>3
        <5>2. f[n] = Units(c, n) \o f[n + 1]
          BY <3>2, <4>3, <5>1
        <5> QED
          BY <3>3, <4>3, <5>1, <5>2
      <4> QED
        BY <4>1, <4>2, <4>3
    <3>5. Solves(m, g)
      BY <3>3, <3>4
    <3> QED
      BY <2>1, <3>5
  <2> QED
    BY <2>3, <2>4
<1>2. 1 \in 1 .. N + 1
  OBVIOUS
<1>3. PICK f : Solves(1, f)
  BY <1>1, <1>2
<1>4. PICK g : g = [n \in 1 .. N + 1 |-> f[n]]
  OBVIOUS
<1>5. \A n \in 1 .. N + 1 : ~(n > N) => n + 1 \in 1 .. N + 1
  OBVIOUS
<1>6. \A n \in 1 .. N + 1 : g[n] = IF n > N THEN <<>> ELSE Units(c, n) \o g[n + 1]
  BY <1>3, <1>4, <1>5
<1>7. g = [n \in 1 .. N + 1 |-> IF n > N THEN <<>> ELSE Units(c, n) \o g[n + 1]]
  BY <1>4, <1>6
<1> QED
  BY <1>7 DEF Rests

\* The stream from a request on is that request and the stream from the next on.
LEMMA StreamSplits ==
    ASSUME layout \in Layouts, NEW c \in Clients, NEW i \in 1 .. Len(Script(c)) + 1
    PROVE  /\ StreamFrom(c, i) \in Seq(UnitType)
           /\ i = Len(Script(c)) + 1 => StreamFrom(c, i) = <<>>
           /\ i <= Len(Script(c)) => StreamFrom(c, i) = Units(c, i) \o StreamFrom(c, i + 1)
<1>1. PICK N \in Nat : N = Len(Script(c))
  BY ScriptTyped
<1>2. PICK f : f = CHOOSE g : Rests(c, N, g)
  OBVIOUS
<1>3. Rests(c, N, f)
  BY <1>2, RestsExist
<1>4. \A n \in 1 .. N + 1 : StreamFrom(c, n) = f[n]
  BY <1>1, <1>2 DEF StreamFrom, Rests
<1>5. \A n \in 1 .. N + 1 : f[n] = IF n > N THEN <<>> ELSE Units(c, n) \o f[n + 1]
  <2>1. \E r : r = f /\ f = [n \in 1 .. N + 1 |-> IF n > N THEN <<>> ELSE Units(c, n) \o r[n + 1]]
    BY <1>3 DEF Rests
  <2> QED
    BY <2>1
<1> DEFINE U == {n \in 1 .. N + 1 : f[n] \notin Seq(UnitType)}
<1>6. U = {}
  <2> SUFFICES ASSUME U # {} PROVE FALSE
    OBVIOUS
  <2>1. PICK m \in U : \A j \in U : j <= m
    <3>1. U \in SUBSET (1 .. N + 1) /\ N + 1 \in Nat
      OBVIOUS
    <3> HIDE DEF U
    <3> QED
      BY <3>1, LastPlace
  <2>2. m \in 1 .. N + 1 /\ f[m] \notin Seq(UnitType)
    BY <2>1
  <2>3. ~(m > N)
    <3>1. <<>> \in Seq(UnitType)
      OBVIOUS
    <3> QED
      BY <1>5, <2>2, <3>1
  <2>4. m \in 1 .. N /\ m + 1 \in 1 .. N + 1 /\ ~(m + 1 <= m)
    BY <2>2, <2>3
  <2>5. f[m + 1] \in Seq(UnitType)
    BY <2>1, <2>4
  <2>6. Units(c, m) \in Seq(UnitType)
    BY <1>1, <2>4, UnitsOfRequest
  <2>7. f[m] = Units(c, m) \o f[m + 1]
    BY <1>5, <2>2, <2>3
  <2> QED
    BY <2>2, <2>5, <2>6, <2>7, ConcatProperties
<1>7. i \in 1 .. N + 1 /\ StreamFrom(c, i) = f[i]
  BY <1>1, <1>4
<1>8. i <= N => i + 1 \in 1 .. N + 1 /\ ~(i > N) /\ StreamFrom(c, i + 1) = f[i + 1]
  BY <1>4, <1>7
<1>9. f[i] \in Seq(UnitType)
  BY <1>6, <1>7
<1>10. i = N + 1 => f[i] = <<>>
  <2>1. N + 1 > N
    OBVIOUS
  <2> QED
    BY <1>5, <1>7, <2>1
<1>11. i <= N => f[i] = Units(c, i) \o f[i + 1]
  BY <1>5, <1>7, <1>8
<1> HIDE DEF U
<1> QED
  BY <1>1, <1>7, <1>8, <1>9, <1>10, <1>11
-----------------------------------------------------------------------------
\* A connection that is not made yet, accepted or closed is with no worker, and a worker's
\* connection is with no other worker.
LEMMA PlacedAlone ==
    ASSUME FrontInv, NEW c \in Connections
    PROVE  /\ \A w \in Workers : conn[w] = c =>
                 /\ c \in Clients /\ c \notin closed /\ c \notin fresh
                 /\ \A v \in Workers : conn[v] = c => v = w
           /\ accepted = c =>
                 /\ c \in Clients /\ c \notin closed /\ c \notin fresh
                 /\ \A w \in Workers : conn[w] # c
           /\ c \in fresh => c \notin closed
<1>1. PICK a \in Nat, b \in Nat, e \in Nat, g \in Nat, h \in Nat, k \in Nat :
         /\ a = In(c, fresh) /\ b = In(c, closed) /\ e = Is(accepted, c)
         /\ g = Occurrences(backlog, c) /\ h = Occurrences(Ring, c)
         /\ k = CountIn(Workers, conn, c)
  BY PlacesTyped DEF FrontInv
<1>2. a + b + e + g + h + k = In(c, Clients)
  BY <1>1 DEF FrontInv, OnePlace, PlaceSum
<1>3. ASSUME NEW w \in Workers, conn[w] = c
      PROVE  \E n \in Nat : n = CountIn(Workers \ {w}, conn, c) /\ k = n + 1
  <2>1. /\ CountIn(Workers \ {w}, conn, c) \in Nat
        /\ CountIn(Workers, conn, c) = CountIn(Workers \ {w}, conn, c) + Is(conn[w], c)
    BY CountOne, FrontendAssumption
  <2>2. Is(conn[w], c) = 1
    BY <1>3 DEF Is
  <2> QED
    BY <1>1, <2>1, <2>2
<1>4. ASSUME NEW w \in Workers, conn[w] = c
      PROVE  /\ c \in Clients /\ c \notin closed /\ c \notin fresh
             /\ accepted # c
             /\ \A v \in Workers : conn[v] = c => v = w
  <2>1. PICK n \in Nat : n = CountIn(Workers \ {w}, conn, c) /\ k = n + 1
    BY <1>3, <1>4
  <2>2. In(c, Clients) = 1 /\ a = 0 /\ b = 0 /\ e = 0 /\ n = 0
    BY <1>1, <1>2, <2>1 DEF In
  <2>3. ASSUME NEW v \in Workers, conn[v] = c, v # w
        PROVE  FALSE
    <3>1. IsFiniteSet(Workers \ {w}) /\ v \in Workers \ {w}
      BY <2>3, FrontendAssumption, FS_Difference
    <3>2. /\ CountIn((Workers \ {w}) \ {v}, conn, c) \in Nat
          /\ CountIn(Workers \ {w}, conn, c)
                = CountIn((Workers \ {w}) \ {v}, conn, c) + Is(conn[v], c)
      BY <3>1, CountOne
    <3>3. Is(conn[v], c) = 1
      BY <2>3 DEF Is
    <3>4. PICK x \in Nat : x = CountIn((Workers \ {w}) \ {v}, conn, c)
      BY <3>2
    <3>5. CountIn(Workers \ {w}, conn, c) = x + 1
      BY <3>2, <3>3, <3>4
    <3>6. 0 = x + 1
      BY <2>1, <2>2, <3>5, Zenon
    <3> QED
      BY <3>4, <3>6
  <2> QED
    BY <1>1, <2>2, <2>3 DEF In, Is
<1>5. ASSUME accepted = c
      PROVE  c \in Clients /\ c \notin closed /\ c \notin fresh
  <2>1. e = 1
    BY <1>1, <1>5 DEF Is
  <2>2. In(c, Clients) = 1 /\ a = 0 /\ b = 0
    BY <1>1, <1>2, <2>1 DEF In
  <2> QED
    BY <1>1, <2>2 DEF In
<1>6. c \in fresh => c \notin closed
  BY <1>1, <1>2 DEF In
<1> QED
  BY <1>4, <1>5, <1>6

\* What a worker between pop and close knows of its connection.
LEMMA WorkerOf ==
    ASSUME FrontInv, NEW w \in Workers, Phase(wpc[w]) # "free", conn' = conn,
           NEW d, d = conn[w]
    PROVE  /\ d \in Clients /\ d \in Connections /\ d \notin closed /\ d \notin fresh
           /\ \A v \in Workers : conn[v] = d => v = w
           /\ Handling(d) <=> Stage(w) = "handle"
           /\ Ended(d) <=> Stage(w) = "over"
           /\ Handling(d)' <=> Stage(w)' = "handle"
           /\ Ended(d)' <=> d \in closed' \/ Stage(w)' = "over"
<1>1. d \in Connections
  BY DEF FrontInv, FrontTypes, HandsFull
<1>2. /\ d \in Clients /\ d \notin closed /\ d \notin fresh
      /\ \A v \in Workers : conn[v] = d => v = w
  BY <1>1, PlacedAlone
<1> QED
  BY <1>1, <1>2 DEF Handling, Ended

\* All answers of a client that goes on are good.
LEMMA OpenRank ==
    ASSUME NEW c, Exchange(c), ~Ended(c)
    PROVE  /\ Len(replies[c]) \in Nat /\ Rank(c) = Len(replies[c])
           /\ \A n \in 1 .. Len(replies[c]) :
                 /\ replies[c][n].keep /\ replies[c][n].status = 200
                 /\ replies[c][n].request = n
<1>1. PICK r \in Seq(ReplyType) : r = replies[c]
  BY DEF Exchange, ExchangeTypes
<1>2. \A n \in 1 .. Len(r) : r[n].keep /\ r[n].status = 200 /\ r[n].request = n
  BY <1>1 DEF Exchange, RepliesInOrder
<1>3. Len(r) \in Nat /\ (Len(r) > 0 => r[Len(r)].status = 200)
  BY <1>2
<1> QED
  BY <1>1, <1>2, <1>3 DEF Rank

\* The rank is a natural number.
LEMMA RankNat ==
    ASSUME NEW c, Exchange(c)
    PROVE  Rank(c) \in Nat
BY DEF Exchange, ExchangeTypes, Rank

\* One more answer to a client that went on until now.
LEMMA OneMoreAnswer ==
    ASSUME NEW c, Exchange(c), ~Ended(c), NEW e \in ReplyType,
           replies'[c] = Append(replies[c], e),
           e.keep => e.status = 200,
           e.status = 200 => e.request = Rank(c) + 1,
           ~Ended(c)' => e.keep
    PROVE  /\ replies'[c] \in Seq(ReplyType) /\ RepliesInOrder(c)'
           /\ e.status = 200 => Rank(c)' = Rank(c) + 1
           /\ e.status # 200 => Rank(c)' = Rank(c)
<1>1. PICK r \in Seq(ReplyType) : r = replies[c]
  BY DEF Exchange, ExchangeTypes
<1>2. PICK m \in Nat : m = Len(r)
  OBVIOUS
<1>3. Rank(c) = m /\ \A n \in 1 .. m : r[n].keep /\ r[n].status = 200 /\ r[n].request = n
  BY <1>1, <1>2, OpenRank
<1>4. PICK q \in Seq(ReplyType) :
         /\ q = replies'[c] /\ Len(q) = m + 1 /\ q[m + 1] = e
         /\ \A n \in 1 .. m : q[n] = r[n]
  <2>1. /\ Append(r, e) \in Seq(ReplyType) /\ Len(Append(r, e)) = Len(r) + 1
        /\ \A n \in 1 .. Len(r) : Append(r, e)[n] = r[n]
        /\ Append(r, e)[Len(r) + 1] = e
    BY AppendProperties
  <2>2. PICK q \in Seq(ReplyType) : q = Append(r, e)
    BY <2>1
  <2>3. /\ q = replies'[c] /\ Len(q) = m + 1 /\ q[m + 1] = e
        /\ \A n \in 1 .. m : q[n] = r[n]
    BY <1>1, <1>2, <2>1, <2>2
  <2> QED
    BY <2>3
<1>5. RepliesInOrder(c)'
  <2>1. DOMAIN q = 1 .. m + 1
    BY <1>4
  <2>2. ASSUME NEW n \in 1 .. m + 1
        PROVE  /\ q[n].keep => q[n].status = 200
               /\ q[n].status = 200 => q[n].request = n
               /\ n < m + 1 \/ ~Ended(c)' => q[n].keep
    <3>1. CASE n = m + 1
      BY <1>2, <1>3, <1>4, <3>1
    <3>2. CASE n # m + 1
      <4>1. n \in 1 .. m
        BY <1>2, <3>2
      <4> QED
        BY <1>3, <1>4, <4>1
    <3> QED
      BY <3>1, <3>2
  <2> QED
    BY <1>4, <2>1, <2>2 DEF RepliesInOrder
<1>6. Rank(c)' = IF q[m + 1].status # 200 THEN m ELSE m + 1
  BY <1>2, <1>4 DEF Rank
<1> QED
  BY <1>3, <1>4, <1>5, <1>6

\* What a step does not do to a client that does not notice it.
LEMMA Unnoticed ==
    ASSUME NEW c, Exchange(c), layout' = layout,
           replies'[c] = replies[c], buffer'[c] = buffer[c], stream'[c] = stream[c],
           c \in fresh' => c \in fresh, c \in closed' <=> c \in closed,
           \A v \in Workers : \A l \in {"handle", "over"} :
              conn'[v] = c /\ Stage(v)' = l <=> conn[v] = c /\ Stage(v) = l,
           \A v \in Workers : conn'[v] = c /\ Stage(v)' = "handle" => current'[v] = current[v]
    PROVE  Exchange(c)'
<1>1. Rank(c)' = Rank(c)
  BY DEF Rank
<1>2. (Handling(c)' <=> Handling(c)) /\ (Ended(c)' <=> Ended(c))
  BY DEF Handling, Ended
<1>3. Position(c)' = Position(c)
  BY <1>1, <1>2 DEF Position
<1>4. Script(c)' = Script(c) /\ \A i : StreamFrom(c, i)' = StreamFrom(c, i)
  BY DEF Script, StreamFrom, Units
<1>5. ExchangeTypes(c)'
  BY DEF Exchange, ExchangeTypes
<1>6. RepliesInOrder(c)'
  BY <1>2 DEF Exchange, RepliesInOrder
<1>7. RestInOrder(c)'
  <2>1. PICK p : p = Position(c)
    OBVIOUS
  <2>2. Position(c)' = p /\ StreamFrom(c, p)' = StreamFrom(c, p)
    BY <1>3, <1>4, <2>1
  <2>3. c \notin closed => p <= Len(Script(c)) + 1 /\ buffer[c] \o stream[c] = StreamFrom(c, p)
    BY <2>1 DEF Exchange, RestInOrder
  <2> QED
    BY <1>4, <2>2, <2>3 DEF RestInOrder
<1>8. c \in fresh' => buffer'[c] = <<>>
  BY DEF Exchange
<1>9. \A w \in Workers : conn'[w] = c /\ Stage(w)' = "handle" => current'[w] = Rank(c)' + 1
  BY <1>1 DEF Exchange
<1> QED
  BY <1>5, <1>6, <1>7, <1>8, <1>9 DEF Exchange

\* A step of worker w, for the clients of the others.
LEMMA OtherClients ==
    ASSUME \A c \in Clients : Exchange(c), FrontInv,
           NEW w \in Workers, NEW d, d = conn[w],
           layout' = layout, fresh' = fresh,
           closed' = closed \/ closed' = closed \cup {d},
           \A c \in Clients : c # d =>
              replies'[c] = replies[c] /\ buffer'[c] = buffer[c] /\ stream'[c] = stream[c],
           \A v \in Workers : v # w =>
              conn'[v] = conn[v] /\ wpc'[v] = wpc[v] /\ current'[v] = current[v],
           conn'[w] \in {d, None},
           Exchange(d)'
    PROVE  \A c \in Clients' : Exchange(c)'
<1> SUFFICES ASSUME NEW c \in Clients PROVE Exchange(c)'
  BY DEF Clients
<1>1. CASE c = d
  BY <1>1
<1>2. CASE c # d
  <2>1. Exchange(c) /\ c # None
    BY FrontendAssumption, CapPositive DEF FrontInv
  <2>2. conn'[w] # c /\ conn[w] # c
    BY <1>2, <2>1
  <2>3. /\ \A v \in Workers : \A l \in {"handle", "over"} :
              conn'[v] = c /\ Stage(v)' = l <=> conn[v] = c /\ Stage(v) = l
        /\ \A v \in Workers : conn'[v] = c /\ Stage(v)' = "handle" => current'[v] = current[v]
    BY <2>2 DEF Stage
  <2> QED
    BY <1>2, <2>1, <2>3, Unnoticed
<1> QED
  BY <1>1, <1>2

\* A worker that reads, without a complete request: what is received is the same, and an
\* error may be answered that ends the connection.
LEMMA ReadingKeeps ==
    ASSUME FrontInv, NEW w \in Workers, wpc[w] = "read", conn' = conn,
           NEW d, d = conn[w], Exchange(d),
           layout' = layout, fresh' = fresh, closed' = closed,
           wpc'[w] \in {"read", "leave"},
           \/ replies'[d] = replies[d]
           \/ /\ wpc'[w] = "leave"
              /\ replies'[d] = Append(replies[d], [status |-> 400, request |-> 0, keep |-> FALSE]),
           buffer'[d] \in Seq(UnitType), stream'[d] \in Seq(UnitType),
           buffer'[d] \o stream'[d] = buffer[d] \o stream[d]
    PROVE  Exchange(d)'
<1>1. /\ d \in Clients /\ d \notin closed /\ d \notin fresh
      /\ \A v \in Workers : conn[v] = d => v = w
      /\ ~Handling(d) /\ ~Ended(d) /\ ~Handling(d)'
  BY WorkerOf DEF Stage, Phase
<1>2. PICK e \in ReplyType : e = [status |-> 400, request |-> 0, keep |-> FALSE]
  <2>1. 400 \in Nat /\ 0 \in Nat /\ FALSE \in BOOLEAN
    OBVIOUS
  <2>2. [status |-> 400, request |-> 0, keep |-> FALSE] \in ReplyType
    BY <2>1 DEF ReplyType
  <2> QED
    BY <2>2
<1>3. /\ replies'[d] \in Seq(ReplyType) /\ RepliesInOrder(d)' /\ Rank(d)' = Rank(d)
  <2>1. CASE replies'[d] = replies[d]
    <3>1. Rank(d)' = Rank(d)
      BY <2>1 DEF Rank
    <3>2. RepliesInOrder(d)'
      BY <1>1, <2>1 DEF Exchange, RepliesInOrder
    <3> QED
      BY <2>1, <3>1, <3>2 DEF Exchange, ExchangeTypes
  <2>2. CASE wpc'[w] = "leave" /\ replies'[d] = Append(replies[d], e)
    <3>1. Ended(d)'
      BY <2>2 DEF Ended, Stage
    <3>2. e.status # 200 /\ (e.keep => e.status = 200)
      BY <1>2
    <3>3. /\ e.status = 200 => e.request = Rank(d) + 1
          /\ ~Ended(d)' => e.keep
      BY <3>1, <3>2
    <3>4. ~Ended(d) /\ replies'[d] = Append(replies[d], e)
      BY <1>1, <2>2
    <3> QED
      BY <3>2, <3>3, <3>4, OneMoreAnswer, Zenon
  <2> QED
    BY <1>2, <2>1, <2>2
<1>4. RestInOrder(d)'
  <2>1. PICK p : p = Position(d)
    OBVIOUS
  <2>2. Position(d)' = p
    BY <1>1, <1>3, <2>1 DEF Position
  <2>3. StreamFrom(d, p)' = StreamFrom(d, p) /\ Script(d)' = Script(d)
    BY DEF Script, StreamFrom, Units
  <2>4. p <= Len(Script(d)) + 1 /\ buffer[d] \o stream[d] = StreamFrom(d, p)
    BY <1>1, <2>1 DEF Exchange, RestInOrder
  <2> QED
    BY <2>2, <2>3, <2>4 DEF RestInOrder
<1>5. \A v \in Workers : ~(conn'[v] = d /\ Stage(v)' = "handle")
  BY <1>1 DEF Handling
<1> QED
  BY <1>1, <1>3, <1>4, <1>5 DEF Exchange, ExchangeTypes

\* Steps of worker w on its own connection.
LEMMA AnswerSteps ==
    ASSUME AnswerInv, FrontInv, NEW w \in Workers,
           Receive(w) \/ Silence(w) \/ BadFraming(w)
    PROVE  AnswerInv'
<1>1. PICK d : d = conn[w]
  OBVIOUS
<1>2. /\ wpc[w] = "read" /\ conn' = conn /\ layout' = layout /\ fresh' = fresh
      /\ closed' = closed /\ current' = current
  BY DEF Receive, Silence, BadFraming, mainVars, kernelVars, ringVars, workerVars
<1>3. d \in Clients /\ d \in Connections
  BY <1>1, <1>2, WorkerOf DEF Phase
<1>4. /\ Exchange(d) /\ \A c \in Clients : Exchange(c)
      /\ DOMAIN replies = Connections /\ DOMAIN buffer = Connections
      /\ DOMAIN stream = Connections /\ DOMAIN current = Workers
  BY <1>3 DEF AnswerInv
<1>5. wpc \in [Workers -> Labels]
  BY DEF FrontInv, FrontTypes
<1> DEFINE Err == [status |-> 400, request |-> 0, keep |-> FALSE]
<1>6. /\ \/ replies' = replies /\ wpc' = wpc
         \/ /\ replies' = [replies EXCEPT ![d] = Append(replies[d], Err)]
            /\ wpc' = [wpc EXCEPT ![w] = "leave"]
         \/ replies' = replies /\ wpc' = [wpc EXCEPT ![w] = "leave"]
  <2>1. CASE Receive(w)
    BY <1>1, <2>1 DEF Receive, Reply, Goto
  <2>2. CASE Silence(w)
    BY <1>1, <2>2 DEF Silence, Reply, Goto
  <2>3. CASE BadFraming(w)
    BY <1>1, <2>3 DEF BadFraming, Reply, Goto
  <2> QED
    BY <2>1, <2>2, <2>3
<1>7. /\ wpc'[w] \in {"read", "leave"} /\ \A v \in Workers : v # w => wpc'[v] = wpc[v]
      /\ \/ replies'[d] = replies[d]
         \/ wpc'[w] = "leave" /\ replies'[d] = Append(replies[d], Err)
      /\ \A c \in Connections : c # d => replies'[c] = replies[c]
      /\ DOMAIN replies' = Connections
  BY <1>2, <1>3, <1>4, <1>5, <1>6
<1>8. /\ buffer'[d] \in Seq(UnitType) /\ stream'[d] \in Seq(UnitType)
      /\ buffer'[d] \o stream'[d] = buffer[d] \o stream[d]
      /\ \A c \in Connections : c # d => buffer'[c] = buffer[c] /\ stream'[c] = stream[c]
      /\ DOMAIN buffer' = Connections /\ DOMAIN stream' = Connections
  <2>0. PICK x \in Seq(UnitType), y \in Seq(UnitType) : x = buffer[d] /\ y = stream[d]
    BY <1>4 DEF Exchange, ExchangeTypes
  <2>1. CASE Receive(w)
    <3>1. PICK n \in 1 .. (IF Chunk < Len(stream[d]) THEN Chunk ELSE Len(stream[d])) :
             /\ buffer' = [buffer EXCEPT ![d] = @ \o SubSeq(stream[d], 1, n)]
             /\ stream' = [stream EXCEPT ![d] = SubSeq(@, n + 1, Len(@))]
      BY <1>1, <2>1 DEF Receive
    <3>2. n \in 0 .. Len(y)
      BY <2>0, <3>1, FrontendAssumption
    <3>3. PICK f \in Seq(UnitType), r \in Seq(UnitType) :
             f = SubSeq(y, 1, n) /\ r = SubSeq(y, n + 1, Len(y)) /\ f \o r = y
      <4>1. /\ SubSeq(y, 1, n) \in Seq(UnitType) /\ SubSeq(y, n + 1, Len(y)) \in Seq(UnitType)
            /\ SubSeq(y, 1, n) \o SubSeq(y, n + 1, Len(y)) = y
        BY <3>2, CutSequence
      <4> QED
        BY <4>1, Zenon
    <3>4. buffer'[d] = x \o f /\ stream'[d] = r
      BY <1>3, <1>4, <2>0, <3>1, <3>3
    <3>5. (x \o f) \o r = x \o y /\ x \o f \in Seq(UnitType)
      <4>1. (x \o f) \o r = x \o (f \o r)
        BY ConcatAssociative
      <4>2. x \o f \in Seq(UnitType)
        BY ConcatProperties
      <4> QED
        BY <3>3, <4>1, <4>2
    <3>6. /\ \A c \in Connections : c # d => buffer'[c] = buffer[c] /\ stream'[c] = stream[c]
          /\ DOMAIN buffer' = Connections /\ DOMAIN stream' = Connections
      BY <1>4, <3>1
    <3> QED
      BY <2>0, <3>3, <3>4, <3>5, <3>6
  <2>2. CASE Silence(w) \/ BadFraming(w)
    <3>1. buffer' = buffer /\ stream' = stream
      BY <2>2 DEF Silence, BadFraming, kernelVars
    <3> QED
      BY <1>4, <2>0, <3>1
  <2> QED
    BY <2>1, <2>2
<1>9. Exchange(d)'
  BY <1>1, <1>2, <1>4, <1>7, <1>8, ReadingKeeps
<1>10. Clients \subseteq Connections
  BY CapPositive DEF FrontInv
<1>11. \A c \in Clients' : Exchange(c)'
  BY <1>1, <1>2, <1>4, <1>7, <1>8, <1>9, <1>10, OtherClients
<1> QED
  BY <1>2, <1>4, <1>7, <1>8, <1>11 DEF AnswerInv

\* Facts about places in a buffer, kept apart so that each is arithmetic alone.
LEMMA PlaceAfter ==
    ASSUME NEW L \in Nat, NEW n \in 1 .. L, NEW h \in Nat, ~(n <= h)
    PROVE  h + 1 \in 1 .. L /\ h + 1 \in 1 .. h + 1
OBVIOUS

LEMMA OnlyPlace ==
    ASSUME NEW L \in Nat, NEW h \in Nat, NEW k \in 1 .. L,
           ~(k <= h), h + 1 \notin 1 .. k - 1
    PROVE  k = h + 1
OBVIOUS

\* The first empty line of what was received ends the header of the next request.
LEMMA FirstRequest ==
    ASSUME layout \in Layouts, NEW c \in Clients,
           NEW p \in 1 .. Len(Script(c)) + 1,
           NEW b \in Seq(UnitType), NEW s \in Seq(UnitType),
           b \o s = StreamFrom(c, p), HeaderEnd(b) # 0
    PROVE  /\ p <= Len(Script(c))
           /\ HeaderEnd(b) = Script(c)[p].head + 1
           /\ b[HeaderEnd(b)][2] = p
<1>0. Len(Script(c)) \in Nat
  BY ScriptTyped
<1>1. PICK n \in 1 .. Len(b) : b[n][1] = "end"
  BY DEF HeaderEnd
<1>c. Len(b) \in Nat
  OBVIOUS
<1>2. /\ Len(b \o s) = Len(b) + Len(s)
      /\ \A i \in 1 .. Len(b) + Len(s) : (b \o s)[i] = IF i <= Len(b) THEN b[i] ELSE s[i - Len(b)]
  BY ConcatProperties
<1>3. \A i \in 1 .. Len(b) : i \in 1 .. Len(b) + Len(s) /\ (b \o s)[i] = b[i]
  BY <1>2
<1>4. p <= Len(Script(c))
  <2> SUFFICES ASSUME ~(p <= Len(Script(c))) PROVE FALSE
    OBVIOUS
  <2>1. p = Len(Script(c)) + 1
    BY <1>0
  <2>2. b \o s = <<>>
    BY <2>1, StreamSplits
  <2>3. Len(b \o s) = 0
    BY <2>2
  <2>4. Len(b) \in Nat /\ Len(s) \in Nat /\ Len(b) > 0
    BY <1>1
  <2>5. Len(b) + Len(s) = 0
    BY <1>2, <2>3
  <2> QED
    BY <2>4, <2>5
<1>5. p \in 1 .. Len(Script(c)) /\ p + 1 \in 1 .. Len(Script(c)) + 1
  BY <1>0, <1>4
<1>6. PICK h \in Nat : h = Script(c)[p].head
  BY <1>5, ScriptTyped
<1>7. PICK u \in Seq(UnitType), r \in Seq(UnitType) :
         u = Units(c, p) /\ r = StreamFrom(c, p + 1) /\ b \o s = u \o r
  BY <1>4, <1>5, UnitsOfRequest, StreamSplits
<1>a. PICK x, y : x = <<"head", p>> /\ y = <<"end", p>>
  OBVIOUS
<1>b. x[1] # "end" /\ y[1] = "end" /\ y[2] = p
  BY <1>a
<1>8. /\ Len(u) \in Nat /\ Len(u) >= h + 1 /\ \A i \in 1 .. h : u[i] = x
      /\ u[h + 1] = y
  <2>1. PICK m \in Nat : m = Script(c)[p].body
    BY <1>5, ScriptTyped
  <2>2. /\ Len(u) = Script(c)[p].head + 1 + Script(c)[p].body
        /\ \A i \in 1 .. Script(c)[p].head : u[i] = <<"head", p>>
        /\ u[Script(c)[p].head + 1] = <<"end", p>>
    BY <1>5, <1>7, UnitsOfRequest
  <2>3. Len(u) = h + 1 + m
    BY <1>6, <2>1, <2>2
  <2>4. Len(u) \in Nat /\ Len(u) >= h + 1
    <3>1. h \in Nat /\ m \in Nat
      BY <1>6, <2>1
    <3>2. h + 1 + m \in Nat /\ h + 1 + m >= h + 1
      BY <3>1
    <3> QED
      BY <2>3, <3>2
  <2> QED
    BY <1>6, <1>a, <2>2, <2>4
<1>9. /\ Len(u \o r) = Len(u) + Len(r)
      /\ \A i \in 1 .. Len(u) + Len(r) : (u \o r)[i] = IF i <= Len(u) THEN u[i] ELSE r[i - Len(u)]
  BY ConcatProperties
<1>10. \A i \in 1 .. h + 1 : i \in 1 .. Len(b) => b[i] = u[i]
  <2> SUFFICES ASSUME NEW i \in 1 .. h + 1, i \in 1 .. Len(b) PROVE b[i] = u[i]
    OBVIOUS
  <2>1. i \in 1 .. Len(u) + Len(r) /\ i <= Len(u)
    BY <1>8
  <2>2. (u \o r)[i] = u[i]
    BY <1>9, <2>1
  <2> QED
    BY <1>3, <1>7, <2>2
<1>11. \A i \in 1 .. Len(b) : i <= h => b[i] = x
  <2>1. \A i \in 1 .. Len(b) : i <= h => i \in 1 .. h /\ i \in 1 .. h + 1
    BY <1>6
  <2> QED
    BY <1>8, <1>10, <2>1
<1>12. ~(n <= h)
  BY <1>1, <1>11, <1>b
<1>13. h + 1 \in 1 .. Len(b) /\ b[h + 1] = y
  <2>1. h + 1 \in 1 .. Len(b) /\ h + 1 \in 1 .. h + 1
    BY <1>1, <1>6, <1>12, <1>c, PlaceAfter, Zenon
  <2> QED
    BY <1>8, <1>10, <2>1
<1> DEFINE FirstEnd(k) == b[k][1] = "end" /\ \A o \in 1 .. k - 1 : b[o][1] # "end"
<1>14. \A o \in 1 .. (h + 1) - 1 : o \in 1 .. Len(b) /\ o <= h
  <2>1. h \in Nat /\ h + 1 <= Len(b)
    BY <1>6, <1>13
  <2> QED
    BY <1>c, <2>1
<1>15. FirstEnd(h + 1)
  <2>1. \A o \in 1 .. (h + 1) - 1 : b[o] = x
    BY <1>11, <1>14
  <2> QED
    BY <1>13, <1>b, <2>1
<1>16. ASSUME NEW k \in 1 .. Len(b), FirstEnd(k)
       PROVE  k = h + 1
  <2>1. ~(k <= h)
    BY <1>11, <1>16, <1>b
  <2>2. h + 1 \notin 1 .. k - 1
    BY <1>13, <1>16, <1>b
  <2> QED
    BY <1>6, <1>16, <1>c, <2>1, <2>2, OnlyPlace, Zenon
<1>17. HeaderEnd(b) = CHOOSE k \in 1 .. Len(b) : FirstEnd(k)
  <2>1. DOMAIN b = 1 .. Len(b)
    OBVIOUS
  <2> QED
    BY <1>1, <2>1 DEF HeaderEnd
<1> HIDE DEF FirstEnd
<1>18. HeaderEnd(b) = h + 1
  BY <1>13, <1>15, <1>16, <1>17
<1> QED
  BY <1>4, <1>6, <1>13, <1>b, <1>18

\* read_request takes the next request off the buffer, and no more.
LEMMA ReadRequestStep ==
    ASSUME AnswerInv, FrontInv, NEW w \in Workers, ReadRequest(w)
    PROVE  AnswerInv'
<1>1. PICK d : d = conn[w]
  OBVIOUS
<1>2. /\ wpc[w] = "read" /\ conn' = conn /\ layout' = layout /\ fresh' = fresh
      /\ closed' = closed /\ stream' = stream /\ replies' = replies
      /\ wpc' = [wpc EXCEPT ![w] = "handle"]
      /\ current' = [current EXCEPT ![w] = First(d)]
      /\ HeaderEnd(buffer[d]) # 0 /\ BodyThere(d)
      /\ buffer' = [buffer EXCEPT ![d] =
                      SubSeq(@, HeaderEnd(buffer[d]) + Framed(d).body + 1, Len(@))]
  BY <1>1 DEF ReadRequest, Goto, mainVars, kernelVars, ringVars
<1>3. /\ wpc \in [Workers -> Labels] /\ layout \in Layouts /\ Clients \subseteq Connections
  BY CapPositive DEF FrontInv, FrontTypes
<1>4. /\ wpc'[w] = "handle" /\ \A v \in Workers : v # w => wpc'[v] = wpc[v]
  BY <1>2, <1>3
<1>5. /\ d \in Clients /\ d \in Connections /\ d \notin closed /\ d \notin fresh
      /\ \A v \in Workers : conn[v] = d => v = w
      /\ ~Handling(d) /\ ~Ended(d) /\ Handling(d)' /\ ~Ended(d)'
  BY <1>1, <1>2, <1>4, WorkerOf DEF Stage, Phase
<1>6. /\ Exchange(d) /\ \A c \in Clients : Exchange(c)
      /\ DOMAIN replies = Connections /\ DOMAIN buffer = Connections
      /\ DOMAIN stream = Connections /\ DOMAIN current = Workers
  BY <1>5 DEF AnswerInv
<1>7. PICK b \in Seq(UnitType), s \in Seq(UnitType) : b = buffer[d] /\ s = stream[d]
  BY <1>6 DEF Exchange, ExchangeTypes
<1>8. PICK k \in Nat : k = Rank(d)
  BY <1>6, RankNat
<1>9. PICK N \in Nat : N = Len(Script(d))
  BY <1>3, <1>5, ScriptTyped
<1>10. /\ k + 1 \in 1 .. N + 1 /\ b \o s = StreamFrom(d, k + 1)
  BY <1>5, <1>6, <1>7, <1>8, <1>9 DEF Exchange, RestInOrder, Position
<1>11. PICK p \in 1 .. N + 1 : p = k + 1
  BY <1>10
<1>12. p <= N /\ HeaderEnd(b) = Script(d)[p].head + 1 /\ b[HeaderEnd(b)][2] = p
  <2>1. p \in 1 .. Len(Script(d)) + 1 /\ b \o s = StreamFrom(d, p) /\ HeaderEnd(b) # 0
    BY <1>2, <1>7, <1>9, <1>10, <1>11
  <2>2. /\ p <= Len(Script(d)) /\ HeaderEnd(b) = Script(d)[p].head + 1
        /\ b[HeaderEnd(b)][2] = p
    <3>1. b \in Seq(UnitType) /\ s \in Seq(UnitType) /\ layout \in Layouts /\ d \in Clients
      BY <1>3, <1>5, <1>7
    <3> QED
      BY <2>1, <3>1, FirstRequest, Zenon
  <2> QED
    BY <1>9, <2>2
<1>13. p \in 1 .. N /\ p + 1 \in 1 .. N + 1
  BY <1>9, <1>12
<1>14. First(d) = p /\ Framed(d) = Script(d)[p]
  BY <1>7, <1>12 DEF First, Framed
<1>15. PICK h \in Nat, m \in Nat : h = Script(d)[p].head /\ m = Script(d)[p].body
  BY <1>3, <1>5, <1>9, <1>13, ScriptTyped
<1>16. PICK u \in Seq(UnitType), r \in Seq(UnitType) :
          u = Units(d, p) /\ r = StreamFrom(d, p + 1) /\ b \o s = u \o r
  <2>1. Units(d, p) \in Seq(UnitType) /\ StreamFrom(d, p + 1) \in Seq(UnitType)
    BY <1>3, <1>5, <1>9, <1>13, UnitsOfRequest, StreamSplits
  <2>2. StreamFrom(d, p) = Units(d, p) \o StreamFrom(d, p + 1)
    BY <1>3, <1>5, <1>9, <1>13, StreamSplits
  <2> QED
    BY <1>10, <1>11, <2>1, <2>2
<1>17. Len(u) = h + 1 + m
  BY <1>3, <1>5, <1>9, <1>13, <1>15, <1>16, UnitsOfRequest
<1>18. Len(b) \in Nat /\ Len(b) - (h + 1) >= m
  BY <1>2, <1>7, <1>12, <1>14, <1>15 DEF BodyThere
<1>19. Len(u) <= Len(b)
  <2>1. h \in Nat /\ m \in Nat
    BY <1>15
  <2> QED
    BY <1>17, <1>18, <2>1
<1>20. SubSeq(b, Len(u) + 1, Len(b)) \in Seq(UnitType)
       /\ SubSeq(b, Len(u) + 1, Len(b)) \o s = r
  <2>1. b \o s = u \o r
    BY <1>16
  <2>2. b \in Seq(UnitType) /\ s \in Seq(UnitType) /\ u \in Seq(UnitType) /\ r \in Seq(UnitType)
    BY <1>7, <1>16
  <2> QED
    BY <1>19, <2>1, <2>2, CutBehind
<1>21. buffer'[d] = SubSeq(b, Len(u) + 1, Len(b))
  <2>1. HeaderEnd(buffer[d]) + Framed(d).body + 1 = Len(u) + 1
    BY <1>7, <1>12, <1>14, <1>15, <1>17
  <2> QED
    BY <1>2, <1>5, <1>6, <1>7, <2>1
<1>22. current'[w] = k + 1 /\ \A v \in Workers : v # w => current'[v] = current[v]
  BY <1>2, <1>6, <1>11, <1>14
<1>23. Rank(d)' = k
  BY <1>2, <1>8 DEF Rank
<1>24. Exchange(d)'
  <2>1. ExchangeTypes(d)'
    BY <1>2, <1>6, <1>7, <1>20, <1>21 DEF Exchange, ExchangeTypes
  <2>2. RepliesInOrder(d)'
    BY <1>2, <1>5, <1>6 DEF Exchange, RepliesInOrder
  <2>3. RestInOrder(d)'
    <3>1. Position(d)' = k + 2
      BY <1>5, <1>23 DEF Position
    <3>2. Position(d)' = p + 1 /\ p + 1 <= N + 1
      BY <1>11, <1>12, <3>1
    <3>3. StreamFrom(d, p + 1)' = StreamFrom(d, p + 1) /\ Script(d)' = Script(d)
      BY <1>2 DEF Script, StreamFrom, Units
    <3>4. PICK q : q = p + 1
      OBVIOUS
    <3>5. StreamFrom(d, q)' = r /\ Position(d)' = q /\ q <= Len(Script(d)')  + 1
      BY <1>9, <1>16, <3>2, <3>3, <3>4
    <3> QED
      BY <1>2, <1>7, <1>20, <1>21, <3>5 DEF RestInOrder
  <2>4. \A v \in Workers : conn'[v] = d /\ Stage(v)' = "handle" => current'[v] = Rank(d)' + 1
    BY <1>2, <1>5, <1>22, <1>23
  <2> QED
    BY <1>2, <1>5, <2>1, <2>2, <2>3, <2>4 DEF Exchange
<1>25. /\ \A c \in Connections : c # d => buffer'[c] = buffer[c]
       /\ DOMAIN buffer' = Connections /\ DOMAIN current' = Workers
  BY <1>2, <1>6
<1>26. \A c \in Clients' : Exchange(c)'
  BY <1>1, <1>2, <1>3, <1>4, <1>6, <1>22, <1>24, <1>25, OtherClients
<1> QED
  BY <1>2, <1>6, <1>25, <1>26 DEF AnswerInv

\* The request in work is answered, under its number.
LEMMA AnswerStep ==
    ASSUME AnswerInv, FrontInv, NEW w \in Workers, Answer(w)
    PROVE  AnswerInv'
<1>1. PICK d : d = conn[w]
  OBVIOUS
<1>2. PICK good \in BOOLEAN :
         good = (kept[w] /\ served[w] + 1 < layout.requests /\ Asked(w).keep)
  OBVIOUS
<1>3. /\ wpc[w] = "handle" /\ conn' = conn /\ layout' = layout /\ fresh' = fresh
      /\ closed' = closed /\ stream' = stream /\ buffer' = buffer
      /\ wpc' = [wpc EXCEPT ![w] = IF good THEN "read" ELSE "leave"]
      /\ current' = [current EXCEPT ![w] = 0]
      /\ replies' = [replies EXCEPT ![d] =
                       Append(@, [status |-> 200, request |-> current[w], keep |-> good])]
  BY <1>1, <1>2 DEF Answer, Reply, Goto, mainVars, kernelVars, ringVars
<1>4. /\ wpc \in [Workers -> Labels] /\ layout \in Layouts /\ Clients \subseteq Connections
  BY CapPositive DEF FrontInv, FrontTypes
<1>5. /\ wpc'[w] = (IF good THEN "read" ELSE "leave")
      /\ \A v \in Workers : v # w => wpc'[v] = wpc[v]
  BY <1>3, <1>4
<1>6. /\ d \in Clients /\ d \in Connections /\ d \notin closed /\ d \notin fresh
      /\ \A v \in Workers : conn[v] = d => v = w
      /\ Handling(d) /\ ~Ended(d) /\ ~Handling(d)' /\ (~Ended(d)' => good)
  <2>1. /\ Stage(w) = "handle" /\ (good => Stage(w)' = "open") /\ (~good => Stage(w)' = "over")
    BY <1>3, <1>5 DEF Stage
  <2>2. Phase(wpc[w]) # "free"
    BY <1>3 DEF Phase
  <2> QED
    BY <1>1, <1>3, <2>1, <2>2, WorkerOf
<1>7. /\ Exchange(d) /\ \A c \in Clients : Exchange(c)
      /\ DOMAIN replies = Connections /\ DOMAIN buffer = Connections
      /\ DOMAIN stream = Connections /\ DOMAIN current = Workers
  BY <1>6 DEF AnswerInv
<1>8. PICK k \in Nat : k = Rank(d)
  BY <1>7, RankNat
<1>9. current[w] = k + 1
  BY <1>1, <1>3, <1>7, <1>8 DEF Exchange, Stage
<1>10. PICK e \in ReplyType :
          /\ e = [status |-> 200, request |-> k + 1, keep |-> good]
          /\ e.status = 200 /\ e.request = k + 1 /\ (e.keep <=> good)
  <2>1. PICK e : e = [status |-> 200, request |-> k + 1, keep |-> good]
    OBVIOUS
  <2>2. e \in ReplyType
    BY <2>1 DEF ReplyType
  <2>3. e.status = 200 /\ e.request = k + 1 /\ (e.keep <=> good)
    BY <2>1
  <2> QED
    BY <2>1, <2>2, <2>3
<1>11. /\ replies'[d] = Append(replies[d], e)
       /\ \A c \in Connections : c # d => replies'[c] = replies[c]
       /\ DOMAIN replies' = Connections
  BY <1>3, <1>6, <1>7, <1>9, <1>10
<1>12. /\ replies'[d] \in Seq(ReplyType) /\ RepliesInOrder(d)' /\ Rank(d)' = k + 1
  <2>1. e.keep => e.status = 200
    BY <1>10
  <2>2. e.status = 200 => e.request = Rank(d) + 1
    BY <1>8, <1>10
  <2>3. ~Ended(d)' => e.keep
    BY <1>6, <1>10
  <2>4. Exchange(d) /\ ~Ended(d) /\ replies'[d] = Append(replies[d], e)
    BY <1>6, <1>7, <1>11
  <2>5. /\ replies'[d] \in Seq(ReplyType) /\ RepliesInOrder(d)'
        /\ e.status = 200 => Rank(d)' = Rank(d) + 1
    BY <2>1, <2>2, <2>3, <2>4, OneMoreAnswer, Zenon
  <2> QED
    BY <1>8, <1>10, <2>5
<1>13. Exchange(d)'
  <2>1. RestInOrder(d)'
    <3>1. PICK p : p = k + 2
      OBVIOUS
    <3>2. Position(d) = p /\ Position(d)' = p
      BY <1>6, <1>8, <1>12, <3>1 DEF Position
    <3>3. StreamFrom(d, p)' = StreamFrom(d, p) /\ Script(d)' = Script(d)
      BY <1>3 DEF Script, StreamFrom, Units
    <3>4. p <= Len(Script(d)) + 1 /\ buffer[d] \o stream[d] = StreamFrom(d, p)
      BY <1>6, <1>7, <3>2 DEF Exchange, RestInOrder
    <3> QED
      BY <1>3, <3>2, <3>3, <3>4 DEF RestInOrder
  <2>2. \A v \in Workers : ~(conn'[v] = d /\ Stage(v)' = "handle")
    BY <1>6 DEF Handling
  <2>3. ExchangeTypes(d)'
    BY <1>3, <1>7, <1>12 DEF Exchange, ExchangeTypes
  <2> QED
    BY <1>3, <1>6, <1>12, <2>1, <2>2, <2>3 DEF Exchange
<1>14. DOMAIN current' = Workers /\ \A v \in Workers : v # w => current'[v] = current[v]
  BY <1>3, <1>7
<1>15. \A c \in Clients' : Exchange(c)'
  BY <1>1, <1>3, <1>4, <1>5, <1>7, <1>11, <1>13, <1>14, OtherClients
<1> QED
  BY <1>3, <1>7, <1>11, <1>14, <1>15 DEF AnswerInv

\* A connection is over: its answers stay what they are.
LEMMA OverKeeps ==
    ASSUME NEW c, RepliesInOrder(c), replies'[c] = replies[c], c \in closed'
    PROVE  RepliesInOrder(c)' /\ RestInOrder(c)'
<1>1. Ended(c)' /\ RestInOrder(c)'
  BY DEF RestInOrder, Ended
<1>2. RepliesInOrder(c)'
  BY <1>1 DEF RepliesInOrder
<1> QED
  BY <1>1, <1>2

\* The worker closes the connection.
LEMMA CloseStep ==
    ASSUME AnswerInv, FrontInv, NEW w \in Workers, Close(w)
    PROVE  AnswerInv'
<1>1. PICK d : d = conn[w]
  OBVIOUS
<1>2. /\ wpc[w] = "close" /\ layout' = layout /\ fresh' = fresh /\ replies' = replies
      /\ current' = current /\ closed' = closed \cup {d}
      /\ wpc' = [wpc EXCEPT ![w] = "pop"] /\ conn' = [conn EXCEPT ![w] = None]
      /\ buffer' = [buffer EXCEPT ![d] = <<>>] /\ stream' = [stream EXCEPT ![d] = <<>>]
  BY <1>1 DEF Close, Goto
<1>3. /\ wpc \in [Workers -> Labels] /\ conn \in [Workers -> Connections \cup {None}]
      /\ Clients \subseteq Connections
  BY CapPositive DEF FrontInv, FrontTypes
<1>4. /\ conn'[w] = None
      /\ \A v \in Workers : v # w => wpc'[v] = wpc[v] /\ conn'[v] = conn[v]
  BY <1>2, <1>3
<1>5. d \in Connections
  BY <1>1, <1>2 DEF FrontInv, FrontTypes, HandsFull, Phase
<1>6. /\ d \in Clients /\ d \notin fresh /\ d # None
      /\ \A v \in Workers : conn[v] = d => v = w
  BY <1>1, <1>5, PlacedAlone, FrontendAssumption
<1>7. /\ Exchange(d) /\ \A c \in Clients : Exchange(c)
      /\ DOMAIN replies = Connections /\ DOMAIN buffer = Connections
      /\ DOMAIN stream = Connections /\ DOMAIN current = Workers
  BY <1>6 DEF AnswerInv
<1>8. /\ buffer'[d] = <<>> /\ stream'[d] = <<>>
      /\ \A c \in Connections : c # d => buffer'[c] = buffer[c] /\ stream'[c] = stream[c]
      /\ DOMAIN buffer' = Connections /\ DOMAIN stream' = Connections
  BY <1>2, <1>5, <1>7
<1>9. Exchange(d)'
  <2>1. RepliesInOrder(d)' /\ RestInOrder(d)'
    BY <1>2, <1>7, OverKeeps DEF Exchange
  <2>2. ExchangeTypes(d)'
    BY <1>2, <1>7, <1>8 DEF Exchange, ExchangeTypes
  <2>3. \A v \in Workers : conn'[v] # d
    BY <1>4, <1>6
  <2> QED
    BY <1>2, <1>6, <2>1, <2>2, <2>3 DEF Exchange
<1>10. \A c \in Clients' : Exchange(c)'
  BY <1>1, <1>2, <1>3, <1>4, <1>7, <1>8, <1>9, OtherClients
<1> QED
  BY <1>2, <1>7, <1>8, <1>10 DEF AnswerInv

\* A connection is refused: its 503 is the only answer.
LEMMA RefuseStep ==
    ASSUME AnswerInv, FrontInv, Refuse
    PROVE  AnswerInv'
<1>1. PICK d : d = accepted
  OBVIOUS
<1>2. PICK e \in ReplyType :
         /\ e = [status |-> 503, request |-> 0, keep |-> FALSE]
         /\ e.status # 200 /\ ~e.keep
  <2>1. PICK e : e = [status |-> 503, request |-> 0, keep |-> FALSE]
    OBVIOUS
  <2>2. e \in ReplyType
    BY <2>1 DEF ReplyType
  <2>3. e.status # 200 /\ ~e.keep
    BY <2>1
  <2> QED
    BY <2>1, <2>2, <2>3
<1>3. /\ mpc = "push" /\ layout' = layout /\ fresh' = fresh /\ closed' = closed \cup {d}
      /\ current' = current /\ buffer' = buffer /\ stream' = stream /\ wpc' = wpc
      /\ conn' = conn /\ replies' = [replies EXCEPT ![d] = Append(@, e)]
  BY <1>1, <1>2 DEF Refuse, workerVars
<1>4. d \in Connections
  BY <1>1, <1>3 DEF FrontInv, FrontTypes, HandsFull
<1>5. /\ d \in Clients /\ d \notin closed /\ d \notin fresh
      /\ \A v \in Workers : conn[v] # d
  BY <1>1, <1>4, PlacedAlone
<1>6. /\ Exchange(d) /\ \A c \in Clients : Exchange(c)
      /\ DOMAIN replies = Connections /\ Clients \subseteq Connections
  BY <1>5, CapPositive DEF AnswerInv, FrontInv
<1>7. /\ replies'[d] = Append(replies[d], e)
      /\ \A c \in Connections : c # d => replies'[c] = replies[c]
      /\ DOMAIN replies' = Connections
  BY <1>3, <1>4, <1>6
<1>8. Exchange(d)'
  <2>1. ~Ended(d) /\ Ended(d)'
    BY <1>3, <1>5 DEF Ended
  <2>2. e.keep => e.status = 200
    BY <1>2
  <2>3. e.status = 200 => e.request = Rank(d) + 1
    BY <1>2
  <2>4. ~Ended(d)' => e.keep
    BY <2>1
  <2>5. replies'[d] \in Seq(ReplyType) /\ RepliesInOrder(d)'
    <3>1. Exchange(d) /\ ~Ended(d) /\ replies'[d] = Append(replies[d], e)
      BY <1>6, <1>7, <2>1
    <3> QED
      BY <2>2, <2>3, <2>4, <3>1, OneMoreAnswer, Zenon
  <2>6. ExchangeTypes(d)'
    BY <1>3, <1>6, <2>5 DEF Exchange, ExchangeTypes
  <2>7. RestInOrder(d)'
    BY <1>3 DEF RestInOrder
  <2> QED
    BY <1>3, <1>5, <2>5, <2>6, <2>7 DEF Exchange
<1>9. ASSUME NEW c \in Clients, c # d
      PROVE  Exchange(c)'
  <2>1. \A v \in Workers : Stage(v)' = Stage(v)
    BY <1>3 DEF Stage
  <2> QED
    BY <1>3, <1>6, <1>7, <1>9, <2>1, Unnoticed
<1>10. \A c \in Clients' : Exchange(c)'
  BY <1>3, <1>8, <1>9 DEF Clients
<1> QED
  BY <1>3, <1>7, <1>10 DEF AnswerInv

\* The process ends: what was answered stays, and who had not connected has sent nothing.
LEMMA AllClosedStep ==
    ASSUME AnswerInv, FrontInv, AllClosed
    PROVE  AnswerInv'
<1>1. /\ layout' = layout /\ fresh' = fresh /\ closed' = Clients \ fresh /\ replies' = replies
      /\ stream' = [c \in Connections |-> IF c \in fresh THEN stream[c] ELSE <<>>]
      /\ buffer' = [c \in Connections |-> <<>>]
      /\ conn' = [w \in Workers |-> None] /\ current' = [w \in Workers |-> 0]
  BY DEF AllClosed
<1>2. Clients \subseteq Connections
  BY CapPositive DEF FrontInv
<1>3. ASSUME NEW c \in Clients
      PROVE  Exchange(c)'
  <2>1. Exchange(c) /\ c \in Connections /\ c # None
    BY <1>2, FrontendAssumption DEF AnswerInv
  <2>2. \A v \in Workers : conn'[v] # c
    BY <1>1, <2>1
  <2>3. CASE c \in fresh
    <3>1. c \notin closed' /\ \A v \in Workers : conn[v] # c
      BY <1>1, <2>1, <2>3, PlacedAlone
    <3>2. c \notin closed
      BY <2>1, <2>3, PlacedAlone
    <3>3. buffer'[c] = buffer[c] /\ stream'[c] = stream[c]
      BY <1>1, <2>1, <2>3 DEF Exchange
    <3> QED
      BY <1>1, <2>1, <2>2, <2>3, <3>1, <3>2, <3>3, Unnoticed
  <2>4. CASE c \notin fresh
    <3>1. c \in closed'
      BY <1>1, <2>4
    <3>2. RepliesInOrder(c)' /\ RestInOrder(c)'
      BY <1>1, <2>1, <3>1, OverKeeps DEF Exchange
    <3>3. ExchangeTypes(c)'
      BY <1>1, <2>1, <2>4 DEF Exchange, ExchangeTypes
    <3> QED
      BY <1>1, <2>2, <2>4, <3>2, <3>3 DEF Exchange
  <2> QED
    BY <2>3, <2>4
<1>4. \A c \in Clients' : Exchange(c)'
  BY <1>1, <1>3 DEF Clients
<1> QED
  BY <1>1, <1>4 DEF AnswerInv

\* A step that answers nobody, moves no data and starts or ends no request.
LEMMA QuietExchange ==
    ASSUME AnswerInv, layout' = layout, fresh' \subseteq fresh, closed' = closed,
           stream' = stream, buffer' = buffer, replies' = replies, current' = current,
           \A v \in Workers : \/ conn'[v] = conn[v] /\ Stage(v)' = Stage(v)
                              \/ Stage(v)' = "open" /\ Stage(v) = "open"
    PROVE  AnswerInv'
<1>1. ASSUME NEW c \in Clients
      PROVE  Exchange(c)'
  <2>1. Exchange(c)
    BY DEF AnswerInv
  <2>2. "open" # "handle" /\ "open" # "over"
    OBVIOUS
  <2>3. /\ \A v \in Workers : \A l \in {"handle", "over"} :
              conn'[v] = c /\ Stage(v)' = l <=> conn[v] = c /\ Stage(v) = l
    BY <2>2
  <2> QED
    BY <2>1, <2>3, Unnoticed
<1>2. \A c \in Clients' : Exchange(c)'
  BY <1>1 DEF Clients
<1> QED
  BY <1>2 DEF AnswerInv

\* The steps of the main thread, of the kernel and of the service.
LEMMA ExchangeMain ==
    ASSUME AnswerInv, FrontInv, MainThread \/ Crash \/ Signal
    PROVE  AnswerInv'
<1> USE DEF mainVars, kernelVars, workerVars
<1>1. wpc \in [Workers -> Labels]
  BY DEF FrontInv, FrontTypes
<1>2. CASE Start \/ Restart \/ DumpStep \/ MainTest \/ MainCalls \/ Accept \/ Signal
  <2>1. /\ layout' = layout /\ fresh' = fresh /\ closed' = closed /\ stream' = stream
        /\ buffer' = buffer /\ replies' = replies /\ current' = current /\ wpc' = wpc
        /\ conn' = conn
    BY <1>2 DEF Start, Restart, DumpStep, MainTest, MainCalls, Accept, Signal, frontVars
  <2>2. \A v \in Workers : Stage(v)' = Stage(v)
    BY <2>1 DEF Stage
  <2> QED
    BY <2>1, <2>2, QuietExchange
<1>3. CASE Push
  <2>1. /\ layout' = layout /\ fresh' = fresh /\ closed' = closed /\ stream' = stream
        /\ buffer' = buffer /\ replies' = replies /\ current' = current
        /\ conn' = conn
        /\ \/ wpc' = wpc
           \/ \E w \in Workers : wpc[w] = "wait" /\ wpc' = [wpc EXCEPT ![w] = "pop"]
    BY <1>3 DEF Push, WorkerSignalled
  <2>2. \A v \in Workers : wpc'[v] = wpc[v] \/ (wpc[v] = "wait" /\ wpc'[v] = "pop")
    <3>1. CASE wpc' = wpc
      BY <3>1
    <3>2. ASSUME NEW w \in Workers, wpc[w] = "wait", wpc' = [wpc EXCEPT ![w] = "pop"]
          PROVE  \A v \in Workers : wpc'[v] = wpc[v] \/ (wpc[v] = "wait" /\ wpc'[v] = "pop")
      BY <1>1, <3>2
    <3> QED
      BY <2>1, <3>1, <3>2
  <2>3. \A v \in Workers : Stage(v)' = Stage(v)
    BY <2>2 DEF Stage
  <2> QED
    BY <2>1, <2>3, QuietExchange
<1>4. CASE Refuse
  BY <1>4, RefuseStep
<1>5. CASE Exit \/ Crash
  BY <1>5, AllClosedStep DEF Exit, Crash
<1> HIDE DEF mainVars, kernelVars, workerVars
<1> QED
  BY <1>2, <1>3, <1>4, <1>5 DEF MainThread, MainStep, Main

\* The steps of a worker.
LEMMA ExchangeWorker ==
    ASSUME AnswerInv, FrontInv, NEW w \in Workers, Worker(w) \/ WorkerSilent(w)
    PROVE  AnswerInv'
<1>1. /\ wpc \in [Workers -> Labels] /\ conn \in [Workers -> Connections \cup {None}]
  BY DEF FrontInv, FrontTypes
<1>2. CASE Receive(w) \/ Silence(w) \/ BadFraming(w)
  BY <1>2, AnswerSteps
<1>3. CASE ReadRequest(w)
  BY <1>3, ReadRequestStep
<1>4. CASE Answer(w)
  BY <1>4, AnswerStep
<1>5. CASE Close(w)
  BY <1>5, CloseStep
<1>6. CASE Wait(w) \/ Pop(w) \/ TakeSlot(w) \/ GiveSlot(w)
  <2>1. /\ layout' = layout /\ fresh' = fresh /\ closed' = closed /\ stream' = stream
        /\ buffer' = buffer /\ replies' = replies /\ current' = current
    BY <1>6 DEF Wait, Pop, TakeSlot, GiveSlot, kernelVars, workerVars
  <2>2. /\ \/ wpc[w] = "pop" /\ wpc' = [wpc EXCEPT ![w] = "wait"] /\ conn' = conn
           \/ wpc[w] = "pop" /\ wpc' = [wpc EXCEPT ![w] = "slot"]
              /\ conn' = [conn EXCEPT ![w] = fds[head]]
           \/ wpc[w] = "slot" /\ wpc' = [wpc EXCEPT ![w] = "read"] /\ conn' = conn
           \/ wpc[w] = "leave" /\ wpc' = [wpc EXCEPT ![w] = "close"] /\ conn' = conn
    BY <1>6 DEF Wait, Pop, TakeSlot, GiveSlot, workerVars, Goto
  <2>3. \A v \in Workers : v # w => conn'[v] = conn[v] /\ wpc'[v] = wpc[v]
    BY <1>1, <2>2
  <2>4. \A v \in Workers : v # w => conn'[v] = conn[v] /\ Stage(v)' = Stage(v)
    BY <2>3 DEF Stage
  <2>5. \/ conn'[w] = conn[w] /\ Stage(w)' = Stage(w)
        \/ Stage(w)' = "open" /\ Stage(w) = "open"
    BY <1>1, <2>2 DEF Stage
  <2>6. \A v \in Workers : \/ conn'[v] = conn[v] /\ Stage(v)' = Stage(v)
                           \/ Stage(v)' = "open" /\ Stage(v) = "open"
    BY <2>4, <2>5
  <2> QED
    BY <2>1, <2>6, QuietExchange
<1>7. CASE Submit(w)
  <2>1. /\ layout' = layout /\ fresh' = fresh /\ closed' = closed /\ stream' = stream
        /\ buffer' = buffer /\ replies' = replies /\ current' = current /\ wpc' = wpc
        /\ conn' = conn
    BY <1>7 DEF Submit, frontVars, kernelVars, workerVars
  <2>2. \A v \in Workers : Stage(v)' = Stage(v)
    BY <2>1 DEF Stage
  <2> QED
    BY <2>1, <2>2, QuietExchange
<1> QED
  BY <1>2, <1>3, <1>4, <1>5, <1>6, <1>7
     DEF Worker, WorkerSilent, WorkerStep, AnswerRequest, Working

\* At the start everything a client will say is on its way, and nobody is answered.
LEMMA AnswerInvInit ==
    ASSUME Init
    PROVE  AnswerInv
<1>1. /\ layout \in Layouts /\ closed = {}
      /\ wpc = [w \in Workers |-> "pop"] /\ conn = [w \in Workers |-> None]
      /\ current = [w \in Workers |-> 0]
      /\ stream = [c \in Connections |-> IF c \in Clients THEN StreamFrom(c, 1) ELSE <<>>]
      /\ buffer = [c \in Connections |-> <<>>] /\ replies = [c \in Connections |-> <<>>]
  BY DEF Init, FrontInit
<1>2. Clients \subseteq Connections
  BY <1>1, FrontendAssumption DEF LayoutType, Clients
<1>3. ASSUME NEW c \in Clients
      PROVE  Exchange(c)
  <2>1. /\ replies[c] = <<>> /\ buffer[c] = <<>> /\ stream[c] = StreamFrom(c, 1)
    BY <1>1, <1>2
  <2>2. Len(Script(c)) \in Nat /\ 1 \in 1 .. Len(Script(c)) + 1
    BY <1>1, ScriptTyped
  <2>3. StreamFrom(c, 1) \in Seq(UnitType)
    BY <1>1, <2>2, StreamSplits
  <2>4. \A w \in Workers : Stage(w) = "open"
    BY <1>1 DEF Stage
  <2>5. ExchangeTypes(c)
    BY <2>1, <2>3 DEF ExchangeTypes
  <2>6. RepliesInOrder(c)
    BY <2>1 DEF RepliesInOrder
  <2>7. RestInOrder(c)
    <3>1. Rank(c) = 0
      BY <2>1 DEF Rank
    <3>2. ~Handling(c)
      BY <2>4 DEF Handling
    <3>3. Position(c) = 1
      BY <3>1, <3>2 DEF Position
    <3>4. <<>> \o StreamFrom(c, 1) = StreamFrom(c, 1)
      BY <2>3, ConcatEmptySeq
    <3>5. 1 <= Len(Script(c)) + 1
      BY <2>2
    <3>6. buffer[c] \o stream[c] = StreamFrom(c, 1)
      BY <2>1, <3>4
    <3> QED
      BY <3>3, <3>5, <3>6 DEF RestInOrder
  <2> QED
    BY <2>1, <2>4, <2>5, <2>6, <2>7 DEF Exchange
<1> QED
  BY <1>1, <1>3 DEF AnswerInv

\* No step of the server answers out of order, or loses or repeats what a client sent.
LEMMA AnswerInvStep ==
    ASSUME AnswerInv, FrontInv, [Next]_vars
    PROVE  AnswerInv'
<1>1. CASE MainThread \/ Crash \/ Signal
  BY <1>1, ExchangeMain
<1>2. ASSUME NEW c \in Connections, Connect(c)
      PROVE  AnswerInv'
  <2>1. /\ layout' = layout /\ fresh' \subseteq fresh /\ closed' = closed /\ stream' = stream
        /\ buffer' = buffer /\ replies' = replies /\ current' = current /\ wpc' = wpc
        /\ conn' = conn
    BY <1>2 DEF Connect, mainVars, workerVars
  <2>2. \A v \in Workers : Stage(v)' = Stage(v)
    BY <2>1 DEF Stage
  <2> QED
    BY <2>1, <2>2, QuietExchange
<1>3. ASSUME NEW w \in layout.workers, Worker(w) \/ WorkerSilent(w)
      PROVE  AnswerInv'
  <2>1. w \in Workers
    BY LayoutWorkers DEF FrontInv, FrontTypes, LayoutKept
  <2> QED
    BY <1>3, <2>1, ExchangeWorker
<1>4. CASE Over \/ Waves \/ (\E k \in Keys : Evicted(k)) \/ UNCHANGED vars
  <2>1. UNCHANGED frontVars
    BY <1>4 DEF Over, Waves, Wave, Evicted, vars
  <2>2. /\ layout' = layout /\ fresh' = fresh /\ closed' = closed /\ stream' = stream
        /\ buffer' = buffer /\ replies' = replies /\ current' = current /\ wpc' = wpc
        /\ conn' = conn
    BY <2>1 DEF frontVars, kernelVars, workerVars
  <2>3. \A v \in Workers : Stage(v)' = Stage(v)
    BY <2>2 DEF Stage
  <2> QED
    BY <2>2, <2>3, QuietExchange
<1> QED
  BY <1>1, <1>2, <1>3, <1>4 DEF Next

\* Buffers, streams and answers agree with the scripts in every reachable state.
THEOREM AnswerInvariant == Spec => []AnswerInv
<1>1. Init => AnswerInv
  BY AnswerInvInit
<1>2. AnswerInv /\ FrontInv /\ [Next]_vars => AnswerInv'
  BY AnswerInvStep
<1> QED
  BY <1>1, <1>2, FrontInvariant, PTL DEF Spec

\* The answered requests of a client are as many as its rank says.
LEMMA RankCounts ==
    ASSUME NEW c, Exchange(c)
    PROVE  Answered(c) = Rank(c)
<1>1. PICK r \in Seq(ReplyType) : r = replies[c]
  BY DEF Exchange, ExchangeTypes
<1>2. PICK m \in Nat : m = Len(r)
  OBVIOUS
<1>3. \A n \in 1 .. m : n < m => r[n].status = 200
  BY <1>1, <1>2 DEF Exchange, RepliesInOrder
<1>4. PICK k \in Nat : /\ k = Rank(c)
                       /\ k = IF m > 0 /\ r[m].status # 200 THEN m - 1 ELSE m
  <2>1. Rank(c) = IF m > 0 /\ r[m].status # 200 THEN m - 1 ELSE m
    BY <1>1, <1>2 DEF Rank
  <2>2. Rank(c) \in Nat
    BY RankNat
  <2> QED
    BY <2>1, <2>2
<1>5. {n \in 1 .. m : r[n].status = 200} = 1 .. k
  <2>1. CASE m > 0 /\ r[m].status # 200
    <3>1. k = m - 1
      BY <1>4, <2>1
    <3>2. \A n \in 1 .. m : n \in 1 .. k <=> n < m
      BY <1>2, <3>1
    <3>3. \A n \in 1 .. m : r[n].status = 200 <=> n < m
      BY <1>2, <1>3, <2>1
    <3>4. \A n \in 1 .. k : n \in 1 .. m
      BY <1>2, <1>4, <3>1
    <3>5. {n \in 1 .. m : r[n].status = 200} \subseteq 1 .. k
      BY <3>2, <3>3
    <3>6. 1 .. k \subseteq {n \in 1 .. m : r[n].status = 200}
      BY <3>2, <3>3, <3>4
    <3> QED
      BY <3>5, <3>6
  <2>2. CASE ~(m > 0 /\ r[m].status # 200)
    <3>1. k = m
      BY <1>4, <2>2
    <3>2. \A n \in 1 .. m : r[n].status = 200
      BY <1>2, <1>3, <2>2
    <3> QED
      BY <3>1, <3>2
  <2> QED
    BY <2>1, <2>2
<1>6. DOMAIN r = 1 .. m
  BY <1>2
<1>7. Answered(c) = Cardinality(1 .. k)
  BY <1>1, <1>5, <1>6 DEF Answered
<1> QED
  BY <1>4, <1>7, PlacesCounted

\* At most one worker has a request of a client in work.
LEMMA HandlingCounts ==
    ASSUME FrontInv, NEW c \in Connections
    PROVE  InWork(c) = IF Handling(c) THEN 1 ELSE 0
<1> DEFINE S == {w \in Workers : conn[w] = c /\ wpc[w] = "handle"}
<1>1. \A w \in Workers : wpc[w] = "handle" <=> Stage(w) = "handle"
  BY DEF Stage
<1>2. CASE Handling(c)
  <2>1. PICK w \in Workers : conn[w] = c /\ wpc[w] = "handle"
    BY <1>1, <1>2 DEF Handling
  <2>2. \A v \in Workers : conn[v] = c => v = w
    BY <2>1, PlacedAlone
  <2>3. S = {w}
    BY <2>1, <2>2
  <2>4. Cardinality({w}) = 1
    BY FS_Singleton
  <2> QED
    BY <1>2, <2>3, <2>4 DEF InWork
<1>3. CASE ~Handling(c)
  <2>1. S = {}
    BY <1>1, <1>3 DEF Handling
  <2>2. Cardinality({}) = 0
    BY FS_EmptySet
  <2> QED
    BY <1>3, <2>1, <2>2 DEF InWork
<1> QED
  BY <1>2, <1>3

\* Requests that arrive in any pieces are answered one by one in their order; behind the
\* answered ones the buffer and the network hold exactly the rest; and an error ends the
\* connection and is its last answer (read_request and handle_client of server.c), for any
\* scripts, chunk and header limit, and any number of connections and workers.
THEOREM AnswersAreInOrder == Spec => []AnswersInOrder
<1>1. ASSUME AnswerInv, FrontInv
      PROVE  AnswersInOrder
  <2> SUFFICES ASSUME NEW c \in Clients
               PROVE  /\ c \notin closed =>
                            buffer[c] \o stream[c] = StreamFrom(c, Answered(c) + InWork(c) + 1)
                      /\ \A n \in DOMAIN replies[c] :
                            /\ replies[c][n].status = 200 => replies[c][n].request = n
                            /\ n < Len(replies[c]) => replies[c][n].keep
    BY DEF AnswersInOrder
  <2>1. Exchange(c) /\ c \in Connections
    BY <1>1, CapPositive DEF AnswerInv, FrontInv
  <2>2. Rank(c) \in Nat /\ Answered(c) = Rank(c)
    BY <2>1, RankNat, RankCounts
  <2>3. InWork(c) = IF Handling(c) THEN 1 ELSE 0
    BY <1>1, <2>1, HandlingCounts
  <2>4. Answered(c) + InWork(c) + 1 = Position(c)
    BY <2>2, <2>3 DEF Position
  <2>5. c \notin closed => buffer[c] \o stream[c] = StreamFrom(c, Answered(c) + InWork(c) + 1)
    BY <2>1, <2>4 DEF Exchange, RestInOrder
  <2> QED
    BY <2>1, <2>5 DEF Exchange, RepliesInOrder
<1>2. AnswerInv /\ FrontInv => AnswersInOrder
  BY <1>1
<1> QED
  BY <1>2, AnswerInvariant, FrontInvariant, PTL

-----------------------------------------------------------------------------
(***************************************************************************)
(* The response cache of the same server: the bytes add up, a response in  *)
(* use is never freed, a key has one response, and an insertion fails only *)
(* for responses in use.                                                   *)
(***************************************************************************)


(***************************************************************************)
(* The inductive invariant.  The sum of the bytes and the count of the     *)
(* holders are of finite sets; the number of workers and of keys is not    *)
(* bounded by the code, so that they are finite is part of the invariant.  *)
(***************************************************************************)

\* The LRU list has every linked entry once, and no other.
LruListed == Lists(Cells, lru, Linked)

\* The entries in use are held, and only so often as they say.
UsersCounted ==
    /\ HeldAlive
    /\ \A e \in Cells : IsFiniteSet(Holders(e))

\* No two entries have one key.
KeysUnique == \A d, e \in Linked : entries[d].key = entries[e].key => d = e

\* One insertion at a time; what it links was looked up under its mutex, and
\* there is a state of the cache in which it fits.
InsertionOwned ==
    /\ \A c, d \in CacheUsers :
          call[c].at = "inserting" /\ call[d].at = "inserting" => c = d
    /\ \A c \in CacheUsers :
          call[c].at = "inserting" =>
             Matching(call[c].key) = {} /\ call[c].bytes <= MaxBytes

ResponseInv ==
    /\ ResponseTypeOK /\ LruListed /\ UsersCounted /\ KeysUnique /\ InsertionOwned
    /\ BytesAccounted

-----------------------------------------------------------------------------
(* The sum of the sizes *)

\* What BytesOf computes, of any contents of the table.
BytesAt(f, S) == MapThenSumSet(LAMBDA e : f[e].bytes, S)

BytesIn(f) == [e \in Cells |-> f[e].bytes]

\* It is the sum of the sizes of the entries, in whatever order they are taken.
LEMMA BytesSummed ==
    ASSUME NEW f, NEW S \in SUBSET Cells, IsFiniteSet(S)
    PROVE  BytesAt(f, S) = SumOver(BytesIn(f), S)
<1> DEFINE Solves(g) ==
        g = [s \in SUBSET S |->
                IF s = {} THEN 0
                ELSE f[CHOOSE x \in s : TRUE].bytes + g[s \ {CHOOSE x \in s : TRUE}]]
<1>1. \A g : Solves(g) <=> Sums(BytesIn(f), S, g)
  <2>1. \A s \in SUBSET S : s # {} => BytesIn(f)[Chosen(s)] = f[CHOOSE x \in s : TRUE].bytes
    BY ChosenIn DEF BytesIn, Chosen
  <2> QED
    BY <2>1 DEF Sums, Chosen
<1>2. PICK g : g = CHOOSE h : Solves(h)
  OBVIOUS
<1>3. BytesAt(f, S) = g[S]
  BY <1>2 DEF BytesAt, MapThenSumSet, MapThenFoldSet
<1> HIDE DEF Solves
<1>4. Solves(g)
  BY <1>1, <1>2, SumsExist
<1> QED
  BY <1>1, <1>3, <1>4, SumIsUnique

\* Entries of the same sizes have the same bytes.
LEMMA BytesSame ==
    ASSUME NEW f, NEW g, NEW S \in SUBSET Cells, IsFiniteSet(S),
           \A e \in S : f[e].bytes = g[e].bytes
    PROVE  BytesAt(f, S) = BytesAt(g, S)
<1>1. \A e \in S : BytesIn(f)[e] = BytesIn(g)[e]
  BY DEF BytesIn
<1> QED
  BY <1>1, BytesSummed, SumSame

\* Linking an entry adds its bytes, unlinking it takes them away.
LEMMA BytesAdd ==
    ASSUME NEW f, NEW S \in SUBSET Cells, IsFiniteSet(S), \A e \in S : f[e].bytes \in Nat,
           NEW x \in S
    PROVE  /\ BytesAt(f, S) \in Nat
           /\ BytesAt(f, S \ {x}) \in Nat
           /\ BytesAt(f, S) = BytesAt(f, S \ {x}) + f[x].bytes
<1>1. \A e \in S : BytesIn(f)[e] = f[e].bytes /\ BytesIn(f)[e] \in Nat
  BY DEF BytesIn
<1>2. IsFiniteSet(S \ {x}) /\ S \ {x} \in SUBSET Cells
  BY FS_Subset
<1>3. SumOver(BytesIn(f), S) \in Nat
  BY <1>1, SumNat
<1>4. SumOver(BytesIn(f), S \ {x}) \in Nat
  BY <1>1, <1>2, SumNat
<1>5. SumOver(BytesIn(f), S) = SumOver(BytesIn(f), S \ {x}) + BytesIn(f)[x]
  BY <1>1, SumAdd
<1>6. /\ BytesAt(f, S) = SumOver(BytesIn(f), S)
      /\ BytesAt(f, S \ {x}) = SumOver(BytesIn(f), S \ {x})
  BY <1>2, BytesSummed
<1> QED
  BY <1>1, <1>3, <1>4, <1>5, <1>6

\* Some of the entries have no more bytes than all of them.
LEMMA BytesOfPart ==
    ASSUME NEW f, NEW S \in SUBSET Cells, IsFiniteSet(S), \A e \in S : f[e].bytes \in Nat,
           NEW P \in SUBSET S
    PROVE  BytesAt(f, P) <= BytesAt(f, S)
<1>1. \A e \in S : BytesIn(f)[e] \in Nat
  BY DEF BytesIn
<1>2. IsFiniteSet(P) /\ P \in SUBSET Cells
  BY FS_Subset
<1> QED
  BY <1>1, <1>2, BytesSummed, SumMonotone

-----------------------------------------------------------------------------
(* Facts about one state *)

CallType == {Idle} \cup {Holding(e) : e \in Cells}
                   \cup {Computed(k, n) : k \in ResponseKeys, n \in Sizes}
                   \cup {Inserting(k, n) : k \in ResponseKeys, n \in Sizes}

\* Where a client is says which local variables it has.
LEMMA CallForms ==
    ASSUME NEW s \in CallType
    PROVE  /\ s.at = "idle" <=> s = Idle
           /\ s.at = "holding" => s.entry \in Cells /\ s = Holding(s.entry)
           /\ s.at = "computed" => /\ s.key \in ResponseKeys /\ s.bytes \in Sizes
                                   /\ s = Computed(s.key, s.bytes)
           /\ s.at = "inserting" => /\ s.key \in ResponseKeys /\ s.bytes \in Sizes
                                    /\ s = Inserting(s.key, s.bytes)
<1>1. CASE s = Idle
  BY <1>1 DEF Idle
<1>2. CASE \E e \in Cells : s = Holding(e)
  BY <1>2 DEF Idle, Holding
<1>3. CASE \E k \in ResponseKeys, n \in Sizes : s = Computed(k, n)
  BY <1>3 DEF Idle, Computed
<1>4. CASE \E k \in ResponseKeys, n \in Sizes : s = Inserting(k, n)
  BY <1>4 DEF Idle, Inserting
<1> QED
  BY <1>1, <1>2, <1>3, <1>4 DEF CallType

\* A call that neither takes nor returns a response leaves the holders of every entry.
LEMMA HoldersStay ==
    ASSUME ResponseTypeOK, NEW c \in CacheUsers, NEW s, Become(c, s),
           call[c].at # "holding", s.at # "holding"
    PROVE  \A e : Holders(e)' = Holders(e)
<1>1. call' = [call EXCEPT ![c] = s] /\ DOMAIN call = CacheUsers
  BY DEF Become, ResponseTypeOK
<1>2. \A e : Holding(e).at = "holding"
  BY DEF Holding
<1> QED
  BY <1>1, <1>2 DEF Holders

\* The bytes of the linked entries, before a step and after it.
LEMMA BytesNow ==
    /\ BytesOf(Linked) = BytesAt(entries, Linked)
    /\ BytesOf(Linked)' = BytesAt(entries', Linked')
<1>1. BytesOf(Linked) = BytesAt(entries, Linked)
  BY DEF BytesOf, BytesAt
<1>2. BytesOf(Linked)' = BytesAt(entries', Linked')
  BY DEF BytesOf, BytesAt, MapThenSumSet, MapThenFoldSet
<1> QED
  BY <1>1, <1>2

\* The table, its size and the users of its entries, as the proofs need them.
LEMMA TableFacts ==
    ASSUME ResponseInv
    PROVE  /\ Linked \in SUBSET Cells /\ IsFiniteSet(Linked)
           /\ \A e \in Linked : /\ entries[e] \in EntryType
                                /\ entries[e].bytes \in Nat \ {0} /\ entries[e].users \in Nat
           /\ usedBytes = BytesAt(entries, Linked)
           /\ usedBytes \in Nat /\ usedBytes <= MaxBytes
<1>1. Linked \in SUBSET Cells /\ \A e \in Linked : entries[e] \in EntryType
  BY DEF ResponseInv, ResponseTypeOK, Linked
<1>2. \A e \in Linked : entries[e].bytes \in Nat \ {0} /\ entries[e].users \in Nat
  BY <1>1, CacheAssumption DEF EntryType
<1>3. IsFiniteSet(Linked)
  BY ListCounted DEF ResponseInv, LruListed, Lists
<1>4. usedBytes = BytesAt(entries, Linked) /\ usedBytes \in Nat /\ usedBytes <= MaxBytes
  BY BytesNow DEF ResponseInv, ResponseTypeOK, BytesAccounted
<1> QED
  BY <1>1, <1>2, <1>3, <1>4

\* A call that leaves the table, and takes or returns no response, disturbs only the
\* rule of the insertions.
LEMMA TableStays ==
    ASSUME ResponseInv, NEW c \in CacheUsers, NEW s \in CallType, Become(c, s), UNCHANGED storeVars,
           call[c].at # "holding", s.at # "holding"
    PROVE  /\ ResponseTypeOK' /\ LruListed' /\ UsersCounted' /\ KeysUnique' /\ BytesAccounted'
<1>1. /\ entries' = entries /\ lru' = lru /\ usedBytes' = usedBytes
      /\ call' = [call EXCEPT ![c] = s]
  BY DEF storeVars, Become
<1>2. ResponseTypeOK'
  BY <1>1 DEF ResponseInv, ResponseTypeOK, CallType
<1>3. Linked' = Linked
  BY <1>1 DEF Linked
<1>4. \A e : Holders(e)' = Holders(e)
  BY HoldersStay DEF ResponseInv
<1>5. LruListed'
  BY <1>1, <1>3 DEF ResponseInv, LruListed
<1>6. UsersCounted'
  BY <1>1, <1>3, <1>4 DEF ResponseInv, UsersCounted, HeldAlive
<1>7. KeysUnique'
  BY <1>1, <1>3 DEF ResponseInv, KeysUnique
<1>8. BytesAccounted'
  BY <1>1, <1>3, BytesNow DEF ResponseInv, BytesAccounted
<1> QED
  BY <1>2, <1>5, <1>6, <1>7, <1>8

\* While no other client inserts, a client may change the table and leave its insertion.
LEMMA OwnerLeaves ==
    ASSUME ResponseInv, NEW c \in CacheUsers, NEW s, Become(c, s), s.at # "inserting",
           MutexFree \/ call[c].at = "inserting"
    PROVE  InsertionOwned'
<1>1. call' = [call EXCEPT ![c] = s] /\ DOMAIN call = CacheUsers
  BY DEF ResponseInv, ResponseTypeOK, Become
<1>2. \A d \in CacheUsers : d # c => call[d].at # "inserting"
  BY DEF ResponseInv, InsertionOwned, MutexFree
<1>3. \A d \in CacheUsers : call'[d].at # "inserting"
  BY <1>1, <1>2
<1> QED
  BY <1>3 DEF InsertionOwned

-----------------------------------------------------------------------------
(* Every step preserves the invariant *)

\* The cache starts empty.
LEMMA ResponseInvInit == ResponseInit => ResponseInv
<1> SUFFICES ASSUME ResponseInit PROVE ResponseInv
  OBVIOUS
<1>1. /\ entries = [e \in Cells |-> NoEntry] /\ lru = <<>> /\ usedBytes = 0
      /\ call = [c \in CacheUsers |-> Idle]
  BY DEF ResponseInit
<1>2. ResponseTypeOK
  BY <1>1 DEF ResponseTypeOK
<1>3. Linked = {}
  BY <1>1 DEF Linked
<1>4. \A e : Holders(e) = {}
  BY <1>1 DEF Holders, Holding, Idle
<1>5. LruListed
  BY <1>1, <1>3, EmptyList DEF LruListed
<1>6. UsersCounted
  BY <1>3, <1>4, FS_EmptySet DEF UsersCounted, HeldAlive
<1>7. KeysUnique
  BY <1>3 DEF KeysUnique
<1>8. InsertionOwned
  BY <1>1 DEF InsertionOwned, Idle
<1>9. BytesAccounted
  <2>1. BytesAt(entries, {}) = 0
    BY BytesSummed, SumStep, FS_EmptySet
  <2> QED
    BY <1>1, <1>3, <2>1, BytesNow, CacheAssumption DEF BytesAccounted
<1> QED
  BY <1>2, <1>5, <1>6, <1>7, <1>8, <1>9 DEF ResponseInv

\* A hit: the entry gets one more user, the client that now holds it.
LEMMA HitKeeps ==
    ASSUME ResponseInv, NEW c \in CacheUsers, NEW k \in ResponseKeys, NEW e \in Cells,
           call[c] = Idle, MutexFree, Hit(c, k, e)
    PROVE  ResponseInv'
<1> DEFINE u == entries[e].users
<1>1. /\ e \in Linked
      /\ entries' = [entries EXCEPT ![e].users = @ + 1]
      /\ lru' = <<e>> \o RemoveFirst(lru, e)
      /\ call' = [call EXCEPT ![c] = Holding(e)]
      /\ usedBytes' = usedBytes
  BY DEF Hit, PushFront, Become, Matching
<1>2. /\ entries \in [Cells -> EntryType \cup {NoEntry}] /\ lru \in Seq(Cells)
      /\ call \in [CacheUsers -> CallType] /\ usedBytes \in Nat
  BY DEF ResponseInv, ResponseTypeOK, CallType
<1>3. /\ Linked \in SUBSET Cells /\ IsFiniteSet(Linked)
      /\ \A d \in Linked : /\ entries[d] \in EntryType
                           /\ entries[d].bytes \in Nat \ {0} /\ entries[d].users \in Nat
  BY TableFacts
<1>4. /\ entries'[e] \in EntryType
      /\ entries'[e].key = entries[e].key /\ entries'[e].bytes = entries[e].bytes
      /\ entries'[e].users = u + 1
      /\ \A d \in Cells : d # e => entries'[d] = entries[d]
  <2>1. entries[e] \in EntryType /\ u + 1 \in Nat
    BY <1>1, <1>3
  <2>2. entries'[e] = [entries[e] EXCEPT !.users = u + 1]
    BY <1>1, <1>2
  <2>3. \A d \in Cells : d # e => entries'[d] = entries[d]
    BY <1>1, <1>2
  <2> QED
    BY <2>1, <2>2, <2>3 DEF EntryType
<1>5. entries' \in [Cells -> EntryType \cup {NoEntry}]
  BY <1>1, <1>2, <1>4
<1>6. Linked' = Linked
  BY <1>1, <1>4, CacheAssumption DEF Linked
<1>7. LruListed'
  <2>1. Lists(Cells, RemoveFirst(lru, e), Linked \ {e})
    BY RemoveFirstLists DEF ResponseInv, LruListed, Lists
  <2>2. Lists(Cells, <<e>>, {e})
    BY DEF Lists, Distinct, ToSet
  <2>3. Lists(Cells, <<e>> \o RemoveFirst(lru, e), {e} \cup (Linked \ {e}))
    <3>1. /\ <<e>> \in Seq(Cells) /\ Distinct(<<e>>) /\ ToSet(<<e>>) = {e}
          /\ RemoveFirst(lru, e) \in Seq(Cells) /\ Distinct(RemoveFirst(lru, e))
          /\ ToSet(RemoveFirst(lru, e)) = Linked \ {e}
      BY <2>1, <2>2 DEF Lists
    <3> QED
      BY <3>1, ConcatLists
  <2>4. {e} \cup (Linked \ {e}) = Linked'
    BY <1>1, <1>6
  <2> QED
    BY <1>1, <2>3, <2>4 DEF LruListed
<1>8. ResponseTypeOK'
  <2>1. lru' \in Seq(Cells)
    BY <1>7 DEF LruListed, Lists
  <2>2. call' \in [CacheUsers -> CallType]
    BY <1>1, <1>2 DEF CallType
  <2>3. usedBytes' \in Nat
    BY <1>1, <1>2
  <2> QED
    BY <1>5, <2>1, <2>2, <2>3 DEF ResponseTypeOK, CallType
<1>9. UsersCounted'
  <2>1. Holders(e)' = Holders(e) \cup {c} /\ c \notin Holders(e)
    BY <1>1, <1>2 DEF Holders, Holding, Idle
  <2>2. \A d \in Cells : d # e => Holders(d)' = Holders(d)
    BY <1>1, <1>2 DEF Holders, Holding, Idle
  <2>3. IsFiniteSet(Holders(e)) /\ u = Cardinality(Holders(e))
    BY <1>1, <1>3 DEF ResponseInv, UsersCounted, HeldAlive
  <2>4. IsFiniteSet(Holders(e)') /\ Cardinality(Holders(e)') = u + 1
    BY <2>1, <2>3, FS_AddElement
  <2>5. \A d \in Cells : d # e => IsFiniteSet(Holders(d)')
    BY <2>2 DEF ResponseInv, UsersCounted
  <2>6. \A d \in Linked : entries'[d].users = Cardinality(Holders(d)')
    BY <1>1, <1>3, <1>4, <2>2, <2>4 DEF ResponseInv, UsersCounted, HeldAlive
  <2>7. \A d \in Cells : Holders(d)' # {} => d \in Linked
    BY <1>1, <2>2 DEF ResponseInv, UsersCounted, HeldAlive
  <2> QED
    <3>1. HeldAlive'
      BY <1>3, <1>6, <2>6, <2>7 DEF HeldAlive
    <3>2. \A d \in Cells : IsFiniteSet(Holders(d)')
      BY <2>4, <2>5
    <3> QED
      BY <3>1, <3>2 DEF UsersCounted
<1>10. KeysUnique'
  BY <1>3, <1>4, <1>6 DEF ResponseInv, KeysUnique
<1>11. InsertionOwned'
  <2>1. Become(c, Holding(e)) /\ Holding(e).at # "inserting"
    BY <1>1 DEF Become, Holding
  <2> QED
    BY <2>1, OwnerLeaves
<1>12. BytesAccounted'
  <2>1. \A d \in Linked : entries'[d].bytes = entries[d].bytes
    BY <1>3, <1>4
  <2>2. BytesAt(entries', Linked) = BytesAt(entries, Linked)
    BY <1>3, <2>1, BytesSame
  <2> QED
    BY <1>1, <1>6, <2>2, BytesNow DEF ResponseInv, BytesAccounted
<1> QED
  BY <1>7, <1>8, <1>9, <1>10, <1>11, <1>12 DEF ResponseInv

\* A miss, after which the client computes its response.
LEMMA MissKeeps ==
    ASSUME ResponseInv, NEW c \in CacheUsers, NEW k \in ResponseKeys, call[c] = Idle, MutexFree, Miss(c, k)
    PROVE  ResponseInv'
<1>1. PICK n \in Sizes : Become(c, Computed(k, n))
  BY DEF Miss
<1>2. call[c].at # "holding" /\ Computed(k, n).at = "computed" /\ Computed(k, n) \in CallType
  BY DEF Idle, Computed, CallType
<1>3. ResponseTypeOK' /\ LruListed' /\ UsersCounted' /\ KeysUnique' /\ BytesAccounted'
  BY <1>1, <1>2, TableStays DEF Miss
<1>4. InsertionOwned'
  BY <1>1, <1>2, OwnerLeaves
<1> QED
  BY <1>3, <1>4 DEF ResponseInv

\* A release: the entry has at least the user that releases it, so the counter does not wrap.
LEMMA ReleaseKeeps ==
    ASSUME ResponseInv, NEW c \in CacheUsers, Release(c)
    PROVE  ResponseInv'
<1>0. PICK e \in Cells : e = call[c].entry /\ call[c] = Holding(e)
  BY CallForms DEF Release, ResponseInv, ResponseTypeOK, CallType
<1> DEFINE u == entries[e].users
<1>1. /\ call[c].at = "holding" /\ MutexFree
      /\ entries' = [entries EXCEPT ![e].users = @ - 1]
      /\ call' = [call EXCEPT ![c] = Idle]
      /\ lru' = lru /\ usedBytes' = usedBytes
  BY <1>0 DEF Release, Become
<1>2. /\ entries \in [Cells -> EntryType \cup {NoEntry}] /\ lru \in Seq(Cells)
      /\ call \in [CacheUsers -> CallType] /\ usedBytes \in Nat
  BY DEF ResponseInv, ResponseTypeOK, CallType
<1>3. /\ Linked \in SUBSET Cells /\ IsFiniteSet(Linked)
      /\ \A d \in Linked : /\ entries[d] \in EntryType
                           /\ entries[d].bytes \in Nat \ {0} /\ entries[d].users \in Nat
  BY TableFacts
<1>5. c \in Holders(e) /\ e \in Linked
  BY <1>0 DEF Holders, ResponseInv, UsersCounted, HeldAlive
<1>6. IsFiniteSet(Holders(e)) /\ u = Cardinality(Holders(e)) /\ u \in Nat
  BY <1>3, <1>0, <1>5 DEF ResponseInv, UsersCounted, HeldAlive
<1>7. /\ IsFiniteSet(Holders(e) \ {c}) /\ Cardinality(Holders(e) \ {c}) = u - 1
      /\ u - 1 \in Nat
  <2>1. /\ IsFiniteSet(Holders(e) \ {c}) /\ Cardinality(Holders(e) \ {c}) = u - 1
    BY <1>5, <1>6, FS_RemoveElement
  <2> QED
    BY <2>1, FS_CardinalityType
<1>8. /\ entries'[e] \in EntryType
      /\ entries'[e].key = entries[e].key /\ entries'[e].bytes = entries[e].bytes
      /\ entries'[e].users = u - 1
      /\ \A d \in Cells : d # e => entries'[d] = entries[d]
  BY <1>1, <1>2, <1>3, <1>0, <1>5, <1>7 DEF EntryType
<1>9. entries' \in [Cells -> EntryType \cup {NoEntry}]
  BY <1>1, <1>2, <1>8
<1>10. Linked' = Linked
  BY <1>0, <1>5, <1>8, CacheAssumption DEF Linked
<1>11. ResponseTypeOK'
  <2>1. call' \in [CacheUsers -> CallType]
    BY <1>1, <1>2 DEF CallType
  <2> QED
    BY <1>1, <1>2, <1>9, <2>1 DEF ResponseTypeOK, CallType
<1>12. LruListed'
  BY <1>1, <1>10 DEF ResponseInv, LruListed
<1>13. UsersCounted'
  <2>1. Holders(e)' = Holders(e) \ {c}
    <3>1. Idle # Holding(e)
      BY DEF Idle, Holding
    <3>2. Holders(e)' = {d \in CacheUsers : call'[d] = Holding(e)}
      BY DEF Holders
    <3> QED
      BY <1>1, <1>2, <3>1, <3>2 DEF Holders
  <2>2. \A d \in Cells : d # e => Holders(d)' = Holders(d)
    BY <1>1, <1>2, <1>0 DEF Holders, Holding, Idle
  <2>3. \A d \in Cells : IsFiniteSet(Holders(d)')
    BY <1>7, <2>1, <2>2 DEF ResponseInv, UsersCounted
  <2>4. \A d \in Linked : entries'[d].users = Cardinality(Holders(d)')
    BY <1>3, <1>7, <1>8, <2>1, <2>2 DEF ResponseInv, UsersCounted, HeldAlive
  <2>5. \A d \in Cells : Holders(d)' # {} => d \in Linked
    BY <1>5, <2>2 DEF ResponseInv, UsersCounted, HeldAlive
  <2> QED
    BY <1>10, <2>3, <2>4, <2>5 DEF UsersCounted, HeldAlive
<1>14. KeysUnique'
  BY <1>3, <1>8, <1>10 DEF ResponseInv, KeysUnique
<1>15. InsertionOwned'
  <2>1. Become(c, Idle) /\ Idle.at # "inserting"
    BY <1>1 DEF Become, Idle
  <2> QED
    BY <1>1, <2>1, OwnerLeaves
<1>16. BytesAccounted'
  <2>1. \A d \in Linked : entries'[d].bytes = entries[d].bytes
    BY <1>3, <1>8
  <2>2. BytesAt(entries', Linked) = BytesAt(entries, Linked)
    BY <1>3, <2>1, BytesSame
  <2> QED
    BY <1>1, <1>10, <2>2, BytesNow DEF ResponseInv, BytesAccounted
<1> QED
  BY <1>11, <1>12, <1>13, <1>14, <1>15, <1>16 DEF ResponseInv

\* A response that does not fit the cache, or that another client linked meanwhile, is freed.
LEMMA DropKeeps ==
    ASSUME ResponseInv, NEW c \in CacheUsers, Drop(c)
    PROVE  ResponseInv'
<1>1. /\ call[c].at = "computed" /\ Become(c, Idle) /\ UNCHANGED storeVars
      /\ Idle \in CallType /\ Idle.at = "idle"
  BY DEF Drop, CallType, Idle
<1>2. ResponseTypeOK' /\ LruListed' /\ UsersCounted' /\ KeysUnique' /\ BytesAccounted'
  BY <1>1, TableStays
<1>3. InsertionOwned'
  <2>1. entries' = entries /\ call' = [call EXCEPT ![c] = Idle] /\ DOMAIN call = CacheUsers
    BY <1>1 DEF storeVars, Become, ResponseInv, ResponseTypeOK
  <2>2. \A d \in CacheUsers : call'[d].at = "inserting" => call'[d] = call[d]
    BY <1>1, <2>1
  <2>3. \A k : Matching(k)' = Matching(k)
    BY <2>1 DEF Matching, Linked
  <2> QED
    BY <2>2, <2>3 DEF ResponseInv, InsertionOwned
<1> QED
  BY <1>2, <1>3 DEF ResponseInv

\* The insertion starts: nobody else inserts, the key is not there and the response may fit.
LEMMA StartInsertKeeps ==
    ASSUME ResponseInv, NEW c \in CacheUsers, StartInsert(c)
    PROVE  ResponseInv'
<1> DEFINE s == Inserting(call[c].key, call[c].bytes)
<1>1. /\ call[c].at = "computed" /\ MutexFree /\ Become(c, s) /\ UNCHANGED storeVars
      /\ ~TooLarge(c) /\ Matching(call[c].key) = {}
  BY DEF StartInsert, AlreadyThere
<1>2. call \in [CacheUsers -> CallType]
  BY DEF ResponseInv, ResponseTypeOK, CallType
<1>3. call[c].key \in ResponseKeys /\ call[c].bytes \in Sizes
  BY <1>1, <1>2, CallForms
<1>4. /\ s \in CallType /\ s.at = "inserting"
      /\ s.key = call[c].key /\ s.bytes = call[c].bytes
  BY <1>3 DEF CallType, Inserting
<1> HIDE DEF s
<1>5. ResponseTypeOK' /\ LruListed' /\ UsersCounted' /\ KeysUnique' /\ BytesAccounted'
  BY <1>1, <1>4, TableStays
<1>6. InsertionOwned'
  <2>1. entries' = entries /\ call' = [call EXCEPT ![c] = s]
    BY <1>1 DEF storeVars, Become
  <2>2. \A d \in CacheUsers : d # c => call'[d].at # "inserting"
    BY <1>1, <1>2, <2>1 DEF MutexFree
  <2>3. call'[c].key = call[c].key /\ call'[c].bytes <= MaxBytes
    <3>1. call'[c] = s
      BY <1>2, <2>1
    <3>2. call[c].bytes \in Nat /\ MaxBytes \in Nat /\ ~(call[c].bytes > MaxBytes)
      BY <1>1, <1>3, CacheAssumption DEF TooLarge
    <3>3. call[c].bytes <= MaxBytes
      BY <3>2
    <3> QED
      BY <1>4, <3>1, <3>3
  <2>4. \A k : Matching(k)' = Matching(k)
    BY <2>1 DEF Matching, Linked
  <2> QED
    BY <1>1, <2>2, <2>3, <2>4 DEF InsertionOwned
<1> QED
  BY <1>5, <1>6 DEF ResponseInv

\* An insertion that finds no room is given up.
LEMMA GiveUpKeeps ==
    ASSUME ResponseInv, NEW c \in CacheUsers, GiveUp(c)
    PROVE  ResponseInv'
<1>1. /\ call[c].at = "inserting" /\ Become(c, Idle) /\ UNCHANGED storeVars
      /\ Idle \in CallType /\ Idle.at = "idle"
  BY DEF GiveUp, CallType, Idle
<1>2. ResponseTypeOK' /\ LruListed' /\ UsersCounted' /\ KeysUnique' /\ BytesAccounted'
  BY <1>1, TableStays
<1>3. InsertionOwned'
  BY <1>1, OwnerLeaves
<1> QED
  BY <1>2, <1>3 DEF ResponseInv

\* An eviction: an entry nobody holds leaves the table and the list, and its bytes the sum.
LEMMA EvictKeeps ==
    ASSUME ResponseInv, NEW c \in CacheUsers, EvictVictim(c)
    PROVE  ResponseInv'
<1>1. PICK i \in Victims : /\ usedBytes' = usedBytes - entries[lru[i]].bytes
                           /\ entries' = [entries EXCEPT ![lru[i]] = NoEntry]
                           /\ lru' = RemoveAt(lru, i)
  BY DEF EvictVictim
<1>2. call' = call /\ call[c].at = "inserting"
  BY DEF EvictVictim
<1>3. /\ entries \in [Cells -> EntryType \cup {NoEntry}] /\ usedBytes \in Nat
      /\ lru \in Seq(Cells) /\ Distinct(lru) /\ ToSet(lru) = Linked
  BY DEF ResponseInv, ResponseTypeOK, LruListed, Lists
<1>4. /\ Linked \in SUBSET Cells /\ IsFiniteSet(Linked)
      /\ \A d \in Linked : /\ entries[d] \in EntryType
                           /\ entries[d].bytes \in Nat \ {0} /\ entries[d].users \in Nat
      /\ usedBytes = BytesAt(entries, Linked) /\ usedBytes <= MaxBytes
  BY TableFacts
<1>5. i \in 1 .. Len(lru) /\ entries[lru[i]].users = 0
  BY <1>3 DEF Victims
<1>6. PICK v \in Linked : v = lru[i]
  BY <1>3, <1>5 DEF ToSet
<1>7. /\ v \in Cells /\ entries' = [entries EXCEPT ![v] = NoEntry]
      /\ \A d \in Cells : d # v => entries'[d] = entries[d]
  BY <1>1, <1>3, <1>4, <1>6
<1>8. Linked' = Linked \ {v}
  BY <1>3, <1>7 DEF Linked
<1>9. LruListed'
  BY <1>1, <1>3, <1>5, <1>6, <1>8, RemoveLists DEF LruListed
<1>10. /\ BytesAt(entries, Linked) = BytesAt(entries, Linked \ {v}) + entries[v].bytes
       /\ BytesAt(entries, Linked \ {v}) \in Nat
  BY <1>4, BytesAdd
<1>11. BytesAt(entries', Linked \ {v}) = BytesAt(entries, Linked \ {v})
  <2>1. \A d \in Linked \ {v} : entries'[d].bytes = entries[d].bytes
    BY <1>4, <1>7
  <2>2. IsFiniteSet(Linked \ {v}) /\ Linked \ {v} \in SUBSET Cells
    BY <1>4, FS_Subset
  <2> QED
    BY <2>1, <2>2, BytesSame
<1>12. usedBytes' = BytesAt(entries, Linked \ {v})
  BY <1>1, <1>4, <1>6, <1>10
<1>13. BytesAccounted'
  <2>1. usedBytes' <= MaxBytes
    BY <1>4, <1>10, <1>12, CacheAssumption
  <2> QED
    BY <1>8, <1>11, <1>12, <2>1, BytesNow DEF BytesAccounted
<1>14. ResponseTypeOK'
  <2>1. entries' \in [Cells -> EntryType \cup {NoEntry}]
    BY <1>3, <1>7
  <2>2. lru' \in Seq(Cells)
    BY <1>9 DEF LruListed, Lists
  <2>3. usedBytes' \in Nat
    BY <1>10, <1>12
  <2> QED
    BY <1>2, <2>1, <2>2, <2>3 DEF ResponseInv, ResponseTypeOK
<1>15. UsersCounted'
  <2>1. \A d : Holders(d)' = Holders(d)
    BY <1>2 DEF Holders
  <2>2. Holders(v) = {}
    <3>1. IsFiniteSet(Holders(v)) /\ Cardinality(Holders(v)) = 0
      BY <1>5, <1>6, <1>7 DEF ResponseInv, UsersCounted, HeldAlive
    <3> QED
      BY <3>1, FS_EmptySet
  <2>3. \A d \in Linked \ {v} : entries'[d].users = Cardinality(Holders(d))
    BY <1>4, <1>7 DEF ResponseInv, UsersCounted, HeldAlive
  <2>4. \A d \in Cells : Holders(d) # {} => d \in Linked \ {v}
    BY <2>2 DEF ResponseInv, UsersCounted, HeldAlive
  <2>5. HeldAlive'
    BY <1>8, <2>1, <2>3, <2>4 DEF HeldAlive
  <2> QED
    BY <2>1, <2>5 DEF ResponseInv, UsersCounted
<1>16. KeysUnique'
  BY <1>4, <1>7, <1>8 DEF ResponseInv, KeysUnique
<1>17. InsertionOwned'
  <2>1. \A k : Matching(k)' \subseteq Matching(k)
    BY <1>4, <1>7, <1>8 DEF Matching
  <2> QED
    BY <1>2, <2>1 DEF ResponseInv, InsertionOwned
<1> QED
  BY <1>9, <1>13, <1>14, <1>15, <1>16, <1>17 DEF ResponseInv

\* The response is linked: its key was not there, and it fits beside the others.
LEMMA LinkKeeps ==
    ASSUME ResponseInv, NEW c \in CacheUsers, Link(c)
    PROVE  ResponseInv'
<1>1. PICK e \in Cells \ Linked :
         /\ entries' = [entries EXCEPT ![e] =
                           [key |-> call[c].key, bytes |-> call[c].bytes, users |-> 0]]
         /\ lru' = <<e>> \o RemoveFirst(lru, e)
  BY DEF Link, PushFront
<1>2. PICK n : n = call[c].bytes
  OBVIOUS
<1>3. PICK k : k = call[c].key
  OBVIOUS
<1>4. /\ call[c].at = "inserting" /\ usedBytes <= MaxBytes - n
      /\ usedBytes' = usedBytes + n
      /\ Become(c, Idle) /\ call' = [call EXCEPT ![c] = Idle]
  BY <1>2 DEF Link, RoomLeft, Become
<1>5. /\ entries \in [Cells -> EntryType \cup {NoEntry}] /\ usedBytes \in Nat
      /\ lru \in Seq(Cells) /\ Distinct(lru) /\ ToSet(lru) = Linked
      /\ call \in [CacheUsers -> CallType]
  BY DEF ResponseInv, ResponseTypeOK, LruListed, Lists, CallType
<1>6. /\ Linked \in SUBSET Cells /\ IsFiniteSet(Linked)
      /\ \A d \in Linked : /\ entries[d] \in EntryType
                           /\ entries[d].bytes \in Nat \ {0} /\ entries[d].users \in Nat
      /\ usedBytes = BytesAt(entries, Linked) /\ usedBytes <= MaxBytes
  BY TableFacts
<1>7. k \in ResponseKeys /\ n \in Sizes /\ n \in Nat /\ Matching(k) = {}
  <2>1. k \in ResponseKeys /\ n \in Sizes
    BY <1>2, <1>3, <1>4, <1>5, CallForms
  <2> QED
    BY <1>3, <1>4, <2>1, CacheAssumption DEF ResponseInv, InsertionOwned
<1>8. /\ entries'[e] = [key |-> k, bytes |-> n, users |-> 0]
      /\ \A d \in Cells : d # e => entries'[d] = entries[d]
  BY <1>1, <1>2, <1>3, <1>5
<1>9. entries'[e] \in EntryType
  BY <1>7, <1>8 DEF EntryType
<1>10. Linked' = Linked \cup {e}
  BY <1>1, <1>5, <1>8, <1>9, CacheAssumption DEF Linked
<1>11. LruListed'
  <2>1. RemoveFirst(lru, e) = lru
    BY <1>1, <1>5, RemoveFirstLists
  <2>2. <<e>> \in Seq(Cells) /\ Distinct(<<e>>) /\ ToSet(<<e>>) = {e}
    BY DEF Distinct, ToSet
  <2>3. Lists(Cells, <<e>> \o lru, {e} \cup Linked)
    BY <1>1, <1>5, <2>2, ConcatLists
  <2> QED
    BY <1>1, <1>10, <2>1, <2>3 DEF LruListed
<1>12. ResponseTypeOK'
  <2>1. entries' \in [Cells -> EntryType \cup {NoEntry}]
    BY <1>1, <1>5, <1>8, <1>9
  <2>2. lru' \in Seq(Cells)
    BY <1>11 DEF LruListed, Lists
  <2>3. usedBytes' \in Nat
    BY <1>4, <1>5, <1>7
  <2>4. call' \in [CacheUsers -> CallType]
    BY <1>4, <1>5 DEF CallType
  <2> QED
    BY <2>1, <2>2, <2>3, <2>4 DEF ResponseTypeOK, CallType
<1>13. UsersCounted'
  <2>1. \A d : Holders(d)' = Holders(d)
    BY <1>4, HoldersStay DEF ResponseInv, Idle
  <2>2. Holders(e) = {}
    BY <1>1 DEF ResponseInv, UsersCounted, HeldAlive
  <2>3. \A d \in Linked' : entries'[d].users = Cardinality(Holders(d))
    BY <1>1, <1>6, <1>8, <1>10, <2>2, FS_EmptySet DEF ResponseInv, UsersCounted, HeldAlive
  <2>4. HeldAlive'
    BY <1>10, <2>1, <2>3 DEF ResponseInv, UsersCounted, HeldAlive
  <2> QED
    BY <2>1, <2>4 DEF ResponseInv, UsersCounted
<1>14. KeysUnique'
  <2>1. \A d \in Linked : entries'[d].key = entries[d].key /\ entries[d].key # k
    BY <1>1, <1>6, <1>7, <1>8 DEF Matching
  <2> QED
    BY <1>8, <1>10, <2>1 DEF ResponseInv, KeysUnique
<1>15. InsertionOwned'
  BY <1>4, OwnerLeaves DEF Idle
<1>16. BytesAccounted'
  <2>1. /\ IsFiniteSet(Linked') /\ Linked' \in SUBSET Cells /\ Linked' \ {e} = Linked
        /\ e \in Linked'
    BY <1>1, <1>6, <1>10, FS_AddElement
  <2>2. \A d \in Linked' : entries'[d].bytes \in Nat
    BY <1>1, <1>6, <1>7, <1>8, <1>10
  <2>3. BytesAt(entries', Linked') = BytesAt(entries', Linked) + entries'[e].bytes
    BY <2>1, <2>2, BytesAdd
  <2>4. BytesAt(entries', Linked) = BytesAt(entries, Linked)
    <3>1. \A d \in Linked : entries'[d].bytes = entries[d].bytes
      BY <1>1, <1>6, <1>8
    <3> QED
      BY <1>6, <3>1, BytesSame
  <2>5. usedBytes' = BytesAt(entries', Linked')
    BY <1>4, <1>6, <1>8, <2>3, <2>4
  <2>6. usedBytes' <= MaxBytes
    BY <1>4, <1>5, <1>7, CacheAssumption
  <2> QED
    BY <2>5, <2>6, BytesNow DEF BytesAccounted
<1> QED
  BY <1>11, <1>12, <1>13, <1>14, <1>15, <1>16 DEF ResponseInv

\* Every step of a caller keeps the cache accounted.
LEMMA ResponseInvStep == ResponseInv /\ [ResponseNext]_responseVars => ResponseInv'
<1> SUFFICES ASSUME ResponseInv, [ResponseNext]_responseVars PROVE ResponseInv'
  OBVIOUS
<1>1. ASSUME NEW c \in CacheUsers, NEW k \in ResponseKeys, Acquire(c, k)
      PROVE  ResponseInv'
  BY <1>1, HitKeeps, MissKeeps DEF Acquire
<1>2. ASSUME NEW c \in CacheUsers, Release(c)
      PROVE  ResponseInv'
  BY <1>2, ReleaseKeeps
<1>3. ASSUME NEW c \in CacheUsers, Drop(c)
      PROVE  ResponseInv'
  BY <1>3, DropKeeps
<1>4. ASSUME NEW c \in CacheUsers, StartInsert(c)
      PROVE  ResponseInv'
  BY <1>4, StartInsertKeeps
<1>5. ASSUME NEW c \in CacheUsers, EvictVictim(c)
      PROVE  ResponseInv'
  BY <1>5, EvictKeeps
<1>6. ASSUME NEW c \in CacheUsers, GiveUp(c)
      PROVE  ResponseInv'
  BY <1>6, GiveUpKeeps
<1>7. ASSUME NEW c \in CacheUsers, Link(c)
      PROVE  ResponseInv'
  BY <1>7, LinkKeeps
<1>8. CASE UNCHANGED responseVars
  <2>1. entries' = entries /\ lru' = lru /\ usedBytes' = usedBytes /\ call' = call
    BY <1>8 DEF responseVars, storeVars
  <2>2. Linked' = Linked /\ \A e : Holders(e)' = Holders(e)
    BY <2>1 DEF Linked, Holders
  <2>3. ResponseTypeOK' /\ LruListed' /\ KeysUnique'
    BY <2>1, <2>2 DEF ResponseInv, ResponseTypeOK, LruListed, KeysUnique
  <2>4. UsersCounted'
    BY <2>1, <2>2 DEF ResponseInv, UsersCounted, HeldAlive
  <2>5. InsertionOwned'
    BY <2>1, <2>2 DEF ResponseInv, InsertionOwned, Matching
  <2>6. BytesAccounted'
    BY <2>1, <2>2, BytesNow DEF ResponseInv, BytesAccounted
  <2> QED
    BY <2>3, <2>4, <2>5, <2>6 DEF ResponseInv
<1> QED
  BY <1>1, <1>2, <1>3, <1>4, <1>5, <1>6, <1>7, <1>8 DEF ResponseNext

\* The table, the LRU list, the byte counter, the users of the entries and the insertions
\* agree in every state, whatever number of workers, keys and sizes there is.
THEOREM ResponseInvariant == ResponseSpec => []ResponseInv
<1> QED
  BY ResponseInvInit, ResponseInvStep, PTL DEF ResponseSpec

-----------------------------------------------------------------------------
(* What the cache promises *)

\* The variables have their types: no counter of the cache is ever negative.
THEOREM ResponseTypes == ResponseSpec => []ResponseTypeOK
<1>1. ResponseInv => ResponseTypeOK
  BY DEF ResponseInv
<1> QED
  BY <1>1, ResponseInvariant, PTL

\* used_bytes is the size of the linked entries and never exceeds max_bytes: the check
\* before the link makes the room it needs, and the subtraction of a victim never wraps.
THEOREM CacheBytesAccounted == ResponseSpec => []BytesAccounted
<1>1. ResponseInv => BytesAccounted
  BY DEF ResponseInv
<1> QED
  BY <1>1, ResponseInvariant, PTL

\* ei_response_cache_insert never frees an entry that a worker still sends.
THEOREM CacheHeldAlive == ResponseSpec => []HeldAlive
<1>1. ResponseInv => HeldAlive
  BY DEF ResponseInv, UsersCounted
<1> QED
  BY <1>1, ResponseInvariant, PTL

\* Workers that missed the same key together leave one entry of it, once in the LRU list.
THEOREM CacheOneResponsePerKey == ResponseSpec => []OneResponsePerKey
<1>1. ASSUME ResponseInv
      PROVE  OneResponsePerKey
  <2>1. lru \in Seq(Cells) /\ Distinct(lru) /\ ToSet(lru) = Linked
    BY <1>1 DEF ResponseInv, LruListed, Lists
  <2>2. Len(lru) = Cardinality(Linked)
    BY <2>1, ListCounted
  <2> QED
    BY <1>1, <2>1, <2>2 DEF ResponseInv, KeysUnique, OneResponsePerKey
<1> QED
  BY <1>1, ResponseInvariant, PTL

\* The walk from the tail finds a victim unless every entry is in use.
LEMMA VictimFound ==
    ASSUME ResponseInv, Victims = {}
    PROVE  InUse = Linked
<1>1. lru \in Seq(Cells) /\ ToSet(lru) = Linked
  BY DEF ResponseInv, LruListed, Lists
<1>2. \A e \in Linked : entries[e].users \in Nat
  BY TableFacts
<1> DEFINE U == {i \in 1 .. Len(lru) : entries[lru[i]].users = 0}
<1>3. CASE U = {}
  <2>1. \A e \in Linked : entries[e].users # 0
    BY <1>1, <1>3 DEF ToSet
  <2> QED
    BY <1>2, <2>1 DEF InUse
<1>4. CASE U # {}
  <2>1. PICK m \in U : \A j \in U : j <= m
    <3>1. Len(lru) \in Nat /\ U \in SUBSET (1 .. Len(lru))
      BY <1>1
    <3> HIDE DEF U
    <3> QED
      BY <1>4, <3>1, LastPlace
  <2>2. m \in 1 .. Len(lru) /\ entries[lru[m]].users = 0
    OBVIOUS
  <2>3. \A j \in m + 1 .. Len(lru) : j \notin U
    BY <1>1, <2>1, <2>2
  <2>4. \A j \in m + 1 .. Len(lru) : entries[lru[j]].users # 0
    BY <1>1, <2>2, <2>3
  <2>5. m \in Victims
    BY <1>1, <2>2, <2>4 DEF Victims
  <2> QED
    BY <2>5
<1> QED
  BY <1>3, <1>4

\* An insertion returns without its key in the cache only if the response is larger than
\* the room beside the entries in use.
LEMMA RoomMadeStep ==
    ASSUME ResponseInv, [ResponseNext]_responseVars, NEW c \in CacheUsers,
           call[c].at \in {"computed", "inserting"}, call'[c] = Idle,
           BytesOf(InUse) + call[c].bytes <= MaxBytes
    PROVE  \E e \in Linked' : entries'[e].key = call[c].key
<1>1. call \in [CacheUsers -> CallType] /\ Idle.at = "idle"
  BY DEF ResponseInv, ResponseTypeOK, CallType, Idle
<1>2. /\ Linked \in SUBSET Cells /\ IsFiniteSet(Linked)
      /\ \A d \in Linked : entries[d].bytes \in Nat
      /\ usedBytes = BytesAt(entries, Linked) /\ usedBytes \in Nat
  BY TableFacts
<1>3. call[c].bytes \in Nat
  BY <1>1, CallForms, CacheAssumption
<1>4. BytesOf(InUse) = BytesAt(entries, InUse) /\ BytesAt(entries, InUse) \in Nat
  <2>1. BytesOf(InUse) = BytesAt(entries, InUse)
    BY DEF BytesOf, BytesAt
  <2>2. IsFiniteSet(InUse) /\ InUse \in SUBSET Cells /\ \A d \in InUse : entries[d].bytes \in Nat
    BY <1>2, FS_Subset DEF InUse
  <2>3. \A d \in InUse : BytesIn(entries)[d] \in Nat
    BY <2>2 DEF BytesIn
  <2> QED
    BY <2>1, <2>2, <2>3, BytesSummed, SumNat
<1>5. ~ UNCHANGED responseVars
  BY <1>1 DEF responseVars, Idle
<1>6. ASSUME NEW d \in CacheUsers, NEW k \in ResponseKeys, Acquire(d, k)
      PROVE  FALSE
  <2>1. call[d].at = "idle" /\ \E s : call' = [call EXCEPT ![d] = s]
    BY <1>1, <1>6 DEF Acquire, Miss, Hit, Become
  <2> QED
    BY <1>1, <2>1
<1>7. ASSUME NEW d \in CacheUsers, Release(d)
      PROVE  FALSE
  <2>1. call[d].at = "holding" /\ call' = [call EXCEPT ![d] = Idle]
    BY <1>7 DEF Release, Become
  <2> QED
    BY <1>1, <2>1
<1>8. ASSUME NEW d \in CacheUsers, Drop(d)
      PROVE  \E e \in Linked' : entries'[e].key = call[c].key
  <2>1. d = c /\ entries' = entries
    BY <1>1, <1>8 DEF Drop, Become, storeVars
  <2>2. CASE TooLarge(d)
    BY <1>3, <1>4, <2>1, <2>2, CacheAssumption DEF TooLarge
  <2>3. CASE AlreadyThere(d)
    BY <2>1, <2>3 DEF AlreadyThere, Matching, Linked
  <2> QED
    BY <1>8, <2>2, <2>3 DEF Drop
<1>9. ASSUME NEW d \in CacheUsers, StartInsert(d)
      PROVE  FALSE
  <2>1. call' = [call EXCEPT ![d] = Inserting(call[d].key, call[d].bytes)]
    BY <1>9 DEF StartInsert, Become
  <2>2. Inserting(call[d].key, call[d].bytes).at = "inserting"
    BY DEF Inserting
  <2> QED
    BY <1>1, <2>1, <2>2
<1>10. ASSUME NEW d \in CacheUsers, EvictVictim(d)
       PROVE  FALSE
  BY <1>1, <1>10 DEF EvictVictim
<1>11. ASSUME NEW d \in CacheUsers, GiveUp(d)
       PROVE  FALSE
  <2>1. d = c
    BY <1>1, <1>11 DEF GiveUp, Become
  <2>2. InUse = Linked /\ ~RoomLeft(call[c].bytes)
    BY <1>11, <2>1, VictimFound DEF GiveUp
  <2>3. usedBytes + call[c].bytes <= MaxBytes
    BY <1>2, <1>4, <2>2
  <2> QED
    BY <1>2, <1>3, <2>2, <2>3, CacheAssumption DEF RoomLeft
<1>12. ASSUME NEW d \in CacheUsers, Link(d)
       PROVE  \E e \in Linked' : entries'[e].key = call[c].key
  <2>1. d = c /\ call[c].at = "inserting"
    BY <1>1, <1>12 DEF Link, Become
  <2>2. PICK e \in Cells \ Linked :
           entries' = [entries EXCEPT ![e] =
                         [key |-> call[c].key, bytes |-> call[c].bytes, users |-> 0]]
    BY <1>12, <2>1 DEF Link
  <2>3. entries'[e] = [key |-> call[c].key, bytes |-> call[c].bytes, users |-> 0]
    BY <2>2 DEF ResponseInv, ResponseTypeOK
  <2>4. entries'[e] \in EntryType
    <3>1. call[c].key \in ResponseKeys /\ call[c].bytes \in Sizes
      BY <1>1, <2>1, CallForms
    <3> QED
      BY <2>3, <3>1 DEF EntryType
  <2>5. e \in Linked'
    BY <2>4, CacheAssumption DEF Linked
  <2> QED
    BY <2>3, <2>5
<1> QED
  BY <1>5, <1>6, <1>7, <1>8, <1>9, <1>10, <1>11, <1>12 DEF ResponseNext

\* Only entries in use can make an insertion fail: a computed response that fits beside
\* them is found after the call, linked by it or by a faster worker.
THEOREM CacheRoomMade == ResponseSpec => RoomMade
<1>1. ResponseInv /\ [ResponseNext]_responseVars =>
         [\A c \in CacheUsers :
             /\ call[c].at \in {"computed", "inserting"} /\ call'[c] = Idle
             /\ BytesOf(InUse) + call[c].bytes <= MaxBytes
             => \E e \in Linked' : entries'[e].key = call[c].key]_responseVars
  BY RoomMadeStep
<1> QED
  BY <1>1, ResponseInvariant, PTL DEF ResponseSpec, RoomMade

=============================================================================
