--------------------------- MODULE PersistentCache ---------------------------
(***************************************************************************)
(* The exact cache on disk: load_persistent_cache, write_persistent_cache_  *)
(* locked and model_fingerprint (src/src/inference_service.c, server.c).    *)
(*                                                                         *)
(* An entry of the service is seen as a state and a vector per sequence; a  *)
(* vector names the model and the sequence it was computed from.  A file    *)
(* has a fingerprint, the count in its header and the records that can be   *)
(* read from it; a record that is cut off cannot.  The dump holds the       *)
(* service's mutex from its first write to the rename.                      *)
(***************************************************************************)
EXTENDS Integers, Sequences, FiniteSets, SequencesExt

CONSTANTS
    Keys,           \* token sequences
    Models,         \* model files a server may be started with
    PrefixHash,     \* what model_fingerprint computes of each
    CacheEntries,   \* config.cache_entries
    NoFile, NoVector

ASSUME PersistentCacheAssumption ==
    /\ DOMAIN PrefixHash = Models
    /\ CacheEntries \in Nat
    /\ IsFiniteSet(Keys)

VARIABLES
    model,          \* the model of the running server
    table,          \* state of the entry of each sequence
    vector,         \* its embedding, NoVector before it is written
    file,           \* at cache_path
    temp,           \* the temporary file of the dump
    dpc,            \* the dump: "idle", "records", "rename", or over: "done"
    left            \* entries of the bucket table it has not reached

cacheVars == <<model, table, vector, file, temp, dpc, left>>

States == {"absent", "PENDING", "READY"}
Vectors == Models \X Keys
Ready == {k \in Keys : table[k] = "READY"}

\* model_fingerprint: a hash of the size and the first 64 KiB of the file, which
\* different model files may share.
Fingerprint(mod) == PrefixHash[mod]
Fingerprints == {Fingerprint(mod) : mod \in Models}

\* The vector is what a model of this fingerprint computes for the sequence.
ComputedUnder(fingerprint, v, k) ==
    \E mod \in Models : Fingerprint(mod) = fingerprint /\ v = <<mod, k>>

NoEntries == [k \in Keys |-> "absent"]
NoVectors == [k \in Keys |-> NoVector]

CacheInit ==
    /\ model \in Models
    /\ table = NoEntries /\ vector = NoVectors
    /\ file = NoFile /\ temp = NoFile
    /\ dpc = "idle" /\ left = {}

-----------------------------------------------------------------------------
(* Loading, before the service has threads. *)

\* Mutant: the fingerprint is not compared.
AcceptedAlways(f) == f # NoFile

Accepted(f) == f # NoFile /\ f.fingerprint = Fingerprint(model)

\* Records are read while the header promises more, the table has room and the
\* next one is complete.
LoadedRecords(f) ==
    IF Accepted(f)
    THEN SubSeq(f.records, 1, Min({f.count, CacheEntries, Len(f.records)}))
    ELSE <<>>

Load ==
    LET loaded == LoadedRecords(file)
        record(k) == CHOOSE r \in ToSet(loaded) : r.key = k
    IN  /\ table' = [k \in Keys |-> IF \E r \in ToSet(loaded) : r.key = k THEN "READY" ELSE "absent"]
        /\ vector' = [k \in Keys |-> IF table'[k] = "READY" THEN record(k).vector ELSE NoVector]
        /\ UNCHANGED <<model, file, temp, dpc, left>>

-----------------------------------------------------------------------------
(* Entries while the server runs: InferenceService, seen from the cache.     *)

MayLock == dpc \in {"idle", "done"}

SubmitKey(k) ==
    /\ MayLock /\ table[k] = "absent"
    /\ table' = [table EXCEPT ![k] = "PENDING"]
    /\ UNCHANGED <<model, vector, file, temp, dpc, left>>

\* The wave writes the embedding before it takes the mutex and marks the entry.
Computes(k) ==
    /\ table[k] = "PENDING" /\ vector[k] = NoVector
    /\ vector' = [vector EXCEPT ![k] = <<model, k>>]
    /\ UNCHANGED <<model, table, file, temp, dpc, left>>

BecomesReady(k) ==
    /\ MayLock /\ table[k] = "PENDING" /\ vector[k] # NoVector
    /\ table' = [table EXCEPT ![k] = "READY"]
    /\ UNCHANGED <<model, vector, file, temp, dpc, left>>

\* Eviction, or the release of an entry whose execution failed.
Leaves(k) ==
    /\ MayLock
    /\ table[k] = "READY" \/ (table[k] = "PENDING" /\ vector[k] = NoVector)
    /\ table' = [table EXCEPT ![k] = "absent"]
    /\ vector' = [vector EXCEPT ![k] = NoVector]
    /\ UNCHANGED <<model, file, temp, dpc, left>>

-----------------------------------------------------------------------------
(* The dump *)

\* The header is written with a count of zero.
DumpBegin ==
    /\ dpc = "idle"
    /\ temp' = [fingerprint |-> Fingerprint(model), count |-> 0, records |-> <<>>]
    /\ left' = {k \in Keys : table[k] # "absent"}
    /\ dpc' = "records"
    /\ UNCHANGED <<model, table, vector, file>>

\* mkstemp or fdopen failed.
DumpCannotBegin ==
    /\ dpc = "idle"
    /\ dpc' = "done"
    /\ UNCHANGED <<model, table, vector, file, temp, left>>

\* Mutant: an entry is written in whatever state it is.
DumpAnyEntry(k) ==
    /\ dpc = "records" /\ k \in left
    /\ left' = left \ {k}
    /\ temp' = [temp EXCEPT !.records = Append(@, [key |-> k, vector |-> vector[k]])]
    /\ UNCHANGED <<model, table, vector, file, dpc>>

\* The next entry of the bucket table.
DumpEntry(k) ==
    /\ dpc = "records" /\ k \in left
    /\ left' = left \ {k}
    /\ temp' = IF table[k] = "READY"
               THEN [temp EXCEPT !.records = Append(@, [key |-> k, vector |-> vector[k]])]
               ELSE temp
    /\ UNCHANGED <<model, table, vector, file, dpc>>

\* Back to the header with the count, and close.
DumpCount ==
    /\ dpc = "records" /\ left = {}
    /\ temp' = [temp EXCEPT !.count = Len(temp.records)]
    /\ dpc' = "rename"
    /\ UNCHANGED <<model, table, vector, file, left>>

\* Mutant: the result of the writes is not looked at.
DumpFailsPublished ==
    /\ dpc \in {"records", "rename"}
    /\ file' = temp /\ temp' = NoFile
    /\ left' = {} /\ dpc' = "done"
    /\ UNCHANGED <<model, table, vector>>

\* A write, the seek, the close or the rename failed: the temporary file goes.
DumpFails ==
    /\ dpc \in {"records", "rename"}
    /\ temp' = NoFile
    /\ left' = {} /\ dpc' = "done"
    /\ UNCHANGED <<model, table, vector, file>>

DumpRename ==
    /\ dpc = "rename"
    /\ file' = temp
    /\ temp' = NoFile /\ dpc' = "done"
    /\ UNCHANGED <<model, table, vector, left>>

Dump ==
    \/ DumpBegin \/ DumpCannotBegin \/ DumpCount \/ DumpFails \/ DumpRename
    \/ \E k \in Keys : DumpEntry(k)

\* The process is gone.  A temporary file of an unfinished dump stays behind and
\* is never opened again.  Without an fsync before the rename a power failure
\* may leave a file whose last records are missing.
Ends(torn) ==
    /\ table' = NoEntries /\ vector' = NoVectors
    /\ temp' = NoFile /\ dpc' = "idle" /\ left' = {}
    /\ IF torn /\ file # NoFile
       THEN \E n \in 0 .. Len(file.records) :
               file' = [file EXCEPT !.records = SubSeq(@, 1, n)]
       ELSE UNCHANGED file
    /\ UNCHANGED model

\* Started again, with a model that may be another one.
NewModel ==
    /\ model' \in Models
    /\ UNCHANGED <<table, vector, file, temp, dpc, left>>

-----------------------------------------------------------------------------

Record == [key : Keys, vector : Vectors \cup {NoVector}]

IsFile(f) ==
    f = NoFile \/ (/\ f.fingerprint \in Fingerprints /\ f.count \in Nat
                   /\ f.records \in Seq(Record))

CacheTypeOK ==
    /\ model \in Models
    /\ table \in [Keys -> States]
    /\ vector \in [Keys -> Vectors \cup {NoVector}]
    /\ IsFile(file) /\ IsFile(temp)
    /\ dpc \in {"idle", "records", "rename", "done"}
    /\ left \subseteq Keys

\* What is served from the cache is what this model computes for this text: a
\* cache of a different model is never served.
VectorsGenuine == \A k \in Ready : vector[k] = <<model, k>>

\* What is served from the cache was computed for this text by this model, or by
\* one of its fingerprint, whatever files earlier runs, other models, failed
\* dumps and crashes have left.
VectorsOfFingerprint == \A k \in Ready : ComputedUnder(Fingerprint(model), vector[k], k)

\* The file is only replaced by the complete set of answered entries: neither a
\* failed write nor an entry in work gets into it.
FileReplacedWhole ==
    [][dpc' = "done" /\ file' # file =>
          /\ file'.fingerprint = Fingerprint(model)
          /\ file'.count = Len(file'.records)
          /\ ToSet(file'.records) = {[key |-> k, vector |-> vector[k]] : k \in Ready}]_cacheVars

=============================================================================
