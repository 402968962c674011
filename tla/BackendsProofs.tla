---------------------------- MODULE BackendsProofs ----------------------------
(***************************************************************************)
(* The life of an engine, for every model, option, shape and limit.        *)
(*                                                                         *)
(* Recorded graphs: what is stored was recorded for its shape in the       *)
(* workspace that is there, a shape is stored once, and kernels, replayed  *)
(* or not, run with the arguments of their call in that workspace.         *)
(*                                                                         *)
(* A replay is harmless because what is stored is current.  That is kept   *)
(* because a workspace is replaced only together with its graphs, and only *)
(* in front of the copies of a call: from there to the last kernel neither *)
(* the workspace nor the lengths move.  What is launched is therefore the  *)
(* call's own, and what is stored next is current as well.                 *)
(*                                                                         *)
(* Answers: every call of EmbeddingGemma 2, on the CPU and on CUDA, is     *)
(* answered with the embeddings of its own sequences, unless an allocation *)
(* of the engine failed.  The stages of its forward pass are followed by   *)
(* Gemma2Proofs; here the calls of an engine are, with their parts,        *)
(* copies, replays and failures.                                           *)
(***************************************************************************)
EXTENDS Backends, Gemma2Proofs

-----------------------------------------------------------------------------
(* Tables: sequences of entries, at most one for a shape *)

OnePerShape(t) == \A i, j \in DOMAIN t : t[i].lens = t[j].lens => i = j

\* A sequence is one of its own members.
LEMMA OwnMembers ==
    ASSUME NEW T, NEW t \in Seq(T)
    PROVE  t \in Seq({t[i] : i \in DOMAIN t})
<1>1. Len(t) \in Nat /\ DOMAIN t = 1 .. Len(t) /\ t = [i \in 1 .. Len(t) |-> t[i]]
  OBVIOUS
<1>2. t \in [1 .. Len(t) -> {t[i] : i \in DOMAIN t}]
  BY <1>1
<1> QED
  BY <1>1, <1>2, SeqDef

\* The first entry leaves.
LEMMA OldestLeaves ==
    ASSUME NEW T, NEW t \in Seq(T), OnePerShape(t), Len(t) # 0
    PROVE  /\ Tail(t) \in Seq(T) /\ OnePerShape(Tail(t)) /\ Len(Tail(t)) = Len(t) - 1
           /\ \A i \in DOMAIN Tail(t) : i + 1 \in DOMAIN t /\ Tail(t)[i] = t[i + 1]
<1>1. Len(t) \in Nat /\ DOMAIN t = 1 .. Len(t) /\ t # <<>>
  OBVIOUS
<1>2. /\ Tail(t) \in Seq(T) /\ Len(Tail(t)) = Len(t) - 1
      /\ \A i \in 1 .. Len(t) - 1 : Tail(t)[i] = t[i + 1]
  BY <1>1, HeadTailProperties
<1>3. DOMAIN Tail(t) = 1 .. Len(t) - 1
  BY <1>2
<1>4. \A i \in 1 .. Len(t) - 1 : i + 1 \in 1 .. Len(t)
  BY <1>1
<1>5. \A i, j \in 1 .. Len(t) - 1 : i + 1 = j + 1 => i = j
  BY <1>1
<1> QED
  BY <1>1, <1>2, <1>3, <1>4, <1>5 DEF OnePerShape

\* An entry for a new shape comes last.
LEMMA EntryAdded ==
    ASSUME NEW T, NEW t \in Seq(T), OnePerShape(t), NEW e \in T,
           \A i \in DOMAIN t : t[i].lens # e.lens
    PROVE  /\ Append(t, e) \in Seq(T) /\ OnePerShape(Append(t, e))
           /\ Len(Append(t, e)) = Len(t) + 1
<1>1. Len(t) \in Nat /\ DOMAIN t = 1 .. Len(t)
  OBVIOUS
<1>2. /\ Append(t, e) \in Seq(T) /\ Len(Append(t, e)) = Len(t) + 1
      /\ \A i \in 1 .. Len(t) : Append(t, e)[i] = t[i]
      /\ Append(t, e)[Len(t) + 1] = e
  BY AppendProperties
<1>3. DOMAIN Append(t, e) = 1 .. Len(t) + 1
  BY <1>2
<1>4. \A i \in 1 .. Len(t) + 1 : i \in 1 .. Len(t) \/ i = Len(t) + 1
  BY <1>1
<1> QED
  BY <1>1, <1>2, <1>3, <1>4 DEF OnePerShape

\* An entry that leaves its place leaves no other of its shape.
LEMMA EntryTaken ==
    ASSUME NEW T, NEW t \in Seq(T), OnePerShape(t), NEW i \in DOMAIN t
    PROVE  /\ RemoveAt(t, i) \in Seq(T) /\ OnePerShape(RemoveAt(t, i))
           /\ Len(RemoveAt(t, i)) = Len(t) - 1
           /\ \A j \in DOMAIN RemoveAt(t, i) : RemoveAt(t, i)[j].lens # t[i].lens
<1>1. Len(t) \in Nat /\ DOMAIN t = 1 .. Len(t) /\ i \in 1 .. Len(t)
  OBVIOUS
<1>2. /\ RemoveAt(t, i) \in Seq(T) /\ Len(RemoveAt(t, i)) = Len(t) - 1
      /\ \A j \in 1 .. Len(t) - 1 : RemoveAt(t, i)[j] = IF j < i THEN t[j] ELSE t[j + 1]
  BY <1>1, RemoveAtShifts
<1>3. DOMAIN RemoveAt(t, i) = 1 .. Len(t) - 1
  BY <1>2
<1> DEFINE from(j) == IF j < i THEN j ELSE j + 1
<1>4. \A j \in 1 .. Len(t) - 1 : from(j) \in 1 .. Len(t) /\ from(j) # i
  BY <1>1
<1>5. \A j, k \in 1 .. Len(t) - 1 : from(j) = from(k) => j = k
  BY <1>1
<1>6. \A j \in 1 .. Len(t) - 1 : RemoveAt(t, i)[j] = t[from(j)]
  BY <1>2
<1> HIDE DEF from
<1> QED
  BY <1>1, <1>2, <1>3, <1>4, <1>5, <1>6 DEF OnePerShape

-----------------------------------------------------------------------------
(* The inductive invariant *)

HasGraphs == opts.backend \in {"cuda", "xpu", "gemma2_cuda"}

Limit ==
    CASE opts.backend = "cuda" -> GraphLimit
      [] opts.backend = "xpu" -> XpuGraphLimit
      [] OTHER -> Gemma2GraphLimit

\* A shape has one entry, and an engine no more entries than it keeps.
GraphsKept == OnePerShape(graphs) /\ Len(graphs) <= Limit

Recorded == {graphs[i] : i \in DOMAIN graphs}

\* An entry of CUDA has no graph before its shape is seen again.
Entry(e) ==
    /\ e = [lens |-> e.lens, executable |-> e.executable]
    /\ \/ e.executable = [args |-> ArgumentsOf(e.lens), made |-> Addresses]
       \/ opts.backend = "cuda" /\ e.executable = None

Table ==
    /\ graphs \in Seq(Recorded)
    /\ \A e \in Recorded : Entry(e)
    /\ GraphsKept

Parts ==
    /\ HasGraphs => space = [tokens |-> space.tokens, batch |-> space.batch]
    /\ ~HasGraphs => graphs = <<>>

\* A call of EmbeddingGemma 2 keeps its parts and its graph apart.
Gemma2Run ==
    opts.backend = "gemma2_cuda" /\ phase \notin {"idle", "freed"} =>
        run = [parts |-> run.parts, executable |-> run.executable]

GraphInv == Table /\ Parts /\ KernelsCurrent /\ Gemma2Run

LEMMA LimitPositive ==
    Limit \in Nat /\ Limit >= 1
BY CudaKeepsGraphs, XpuKeepsGraphs, Gemma2KeepsGraphs DEF Limit

LEMMA LimitSame ==
    ASSUME opts' = opts
    PROVE  Limit' = Limit
BY DEF Limit

LEMMA EntrySame ==
    ASSUME opts' = opts, space' = space
    PROVE  /\ Addresses' = Addresses
           /\ \A ls : ArgumentsOf(ls)' = ArgumentsOf(ls)
           /\ \A e : Entry(e)' <=> Entry(e)
<1>1. Addresses' = Addresses
  BY DEF Addresses
<1>2. \A ls : ArgumentsOf(ls)' = ArgumentsOf(ls)
  BY DEF ArgumentsOf, CudaArguments, XpuArguments
<1> QED
  BY <1>1, <1>2 DEF Entry

\* A table of entries for the present workspace.
LEMMA TableChanges ==
    ASSUME opts' = opts, space' = space,
           NEW T, graphs' \in Seq(T), \A e \in T : Entry(e),
           OnePerShape(graphs'), Len(graphs') <= Limit
    PROVE  Table'
<1>1. graphs' \in Seq(Recorded')
  BY OwnMembers DEF Recorded
<1>2. \A e \in Recorded' : e \in T
  BY DEF Recorded
<1>3. \A e \in Recorded' : Entry(e)'
  BY <1>2, EntrySame
<1>4. OnePerShape(graphs)'
  BY DEF OnePerShape
<1>5. Len(graphs') <= Limit'
  BY LimitSame
<1> QED
  BY <1>1, <1>3, <1>4, <1>5 DEF Table, GraphsKept

LEMMA TableSame ==
    ASSUME Table, opts' = opts, space' = space, graphs' = graphs
    PROVE  Table'
BY TableChanges DEF Table, GraphsKept

\* With the workspace goes every graph.
LEMMA TableEmptied ==
    ASSUME opts' = opts, graphs' = <<>>
    PROVE  Table'
<1>1. graphs' \in Seq(Recorded') /\ Recorded' = {} /\ Len(graphs') = 0
  BY DEF Recorded
<1>2. OnePerShape(graphs)'
  BY DEF OnePerShape
<1>3. Limit' \in Nat
  BY LimitSame, LimitPositive
<1> QED
  BY <1>1, <1>2, <1>3 DEF Table, GraphsKept

\* There is room in t for one more entry.
LEMMA RoomMade ==
    ASSUME Table, NEW t, t = IF Len(graphs) >= Limit THEN Tail(graphs) ELSE graphs
    PROVE  /\ t \in Seq(Recorded) /\ OnePerShape(t) /\ Len(t) + 1 <= Limit
           /\ \A i \in DOMAIN t : \E j \in DOMAIN graphs : t[i] = graphs[j]
<1>1. /\ graphs \in Seq(Recorded) /\ OnePerShape(graphs) /\ Len(graphs) <= Limit
      /\ Limit \in Nat /\ Limit >= 1 /\ Len(graphs) \in Nat
  BY LimitPositive DEF Table, GraphsKept
<1>2. CASE Len(graphs) >= Limit
  <2>1. t = Tail(graphs) /\ Len(graphs) # 0
    BY <1>1, <1>2
  <2>2. /\ t \in Seq(Recorded) /\ OnePerShape(t) /\ Len(t) = Len(graphs) - 1
        /\ \A i \in DOMAIN t : i + 1 \in DOMAIN graphs /\ t[i] = graphs[i + 1]
    BY <1>1, <2>1, OldestLeaves
  <2>3. Len(t) + 1 <= Limit
    BY <1>1, <2>2
  <2> QED
    BY <2>2, <2>3
<1>3. CASE ~(Len(graphs) >= Limit)
  <2>1. t = graphs /\ Len(graphs) + 1 <= Limit
    BY <1>1, <1>3
  <2> QED
    BY <1>1, <2>1
<1> QED
  BY <1>2, <1>3

\* A sequence of some recorded entries takes one for another shape.
LEMMA EntryRecorded ==
    ASSUME Table, opts' = opts, space' = space,
           NEW t \in Seq(Recorded), OnePerShape(t), Len(t) + 1 <= Limit,
           NEW e, Entry(e), \A i \in DOMAIN t : t[i].lens # e.lens,
           graphs' = Append(t, e)
    PROVE  Table'
<1>1. PICK T : T = Recorded \cup {e}
  OBVIOUS
<1>2. t \in Seq(T) /\ e \in T
  <2>1. \A i \in 1 .. Len(t) : t[i] \in T
    BY <1>1
  <2>2. Len(t) \in Nat /\ t = [i \in 1 .. Len(t) |-> t[i]]
    OBVIOUS
  <2> QED
    BY <1>1, <2>1, <2>2, SeqDef
<1>3. /\ graphs' \in Seq(T) /\ OnePerShape(graphs') /\ Len(graphs') = Len(t) + 1
  BY <1>2, EntryAdded
<1>4. \A f \in T : Entry(f)
  BY <1>1 DEF Table, GraphsKept
<1> QED
  BY <1>3, <1>4, TableChanges

-----------------------------------------------------------------------------
(* Steps that leave the table, or empty it with the workspace *)

\* Neither the workspace nor the table moves, and no kernels are started.
LEMMA NothingRecorded ==
    ASSUME GraphInv, UNCHANGED <<opts, space, graphs>>,
           phase' # "run" \/ (phase = "run" /\ UNCHANGED <<lens, run>>),
           Gemma2Run'
    PROVE  GraphInv'
<1>1. Table'
  BY TableSame DEF GraphInv
<1>2. Parts'
  BY DEF GraphInv, Parts, HasGraphs
<1>3. KernelsCurrent'
  <2>1. CASE phase' # "run"
    BY <2>1 DEF KernelsCurrent
  <2>2. CASE phase = "run" /\ UNCHANGED <<lens, run>>
    <3>1. /\ opts.backend = "cuda" => run = CudaPresent
          /\ opts.backend = "xpu" => run = XpuPresent
          /\ opts.backend = "gemma2_cuda" => run.executable = Gemma2Present
      BY <2>2 DEF GraphInv, KernelsCurrent
    <3>2. Addresses' = Addresses
      BY EntrySame
    <3>3. /\ CudaPresent' = CudaPresent /\ XpuPresent' = XpuPresent
          /\ Gemma2Present' = Gemma2Present
      BY <2>2, <3>2 DEF CudaPresent, XpuPresent, Gemma2Present, CudaArguments, XpuArguments, Gemma2Key
    <3> QED
      BY <2>2, <3>1, <3>3 DEF KernelsCurrent
  <2> QED
    BY <2>1, <2>2
<1> QED
  BY <1>1, <1>2, <1>3 DEF GraphInv

\* The workspace is kept, or it is replaced or released and the graphs with it.
LEMMA WorkspaceSettled ==
    ASSUME GraphInv, HasGraphs, opts' = opts, phase' # "run", Gemma2Run',
           space' = [tokens |-> space'.tokens, batch |-> space'.batch],
           \/ space' = space /\ graphs' = graphs
           \/ graphs' = <<>>
    PROVE  GraphInv'
<1>1. Table'
  BY TableSame, TableEmptied DEF GraphInv
<1>2. Parts'
  BY DEF Parts, HasGraphs
<1>3. KernelsCurrent'
  BY DEF KernelsCurrent
<1> QED
  BY <1>1, <1>2, <1>3 DEF GraphInv

-----------------------------------------------------------------------------
(* CUDA *)

\* ensure_capacity keeps the workspace, or clears the graphs.
LEMMA CudaSettles ==
    ASSUME GraphInv, opts.backend = "cuda", NEW ls
    PROVE  /\ CudaSpace(ls) = [tokens |-> CudaSpace(ls).tokens, batch |-> CudaSpace(ls).batch]
           /\ \/ CudaSpace(ls) = space /\ CudaGraphs(ls) = graphs
              \/ CudaGraphs(ls) = <<>>
<1>1. space = [tokens |-> space.tokens, batch |-> space.batch]
  BY DEF GraphInv, Parts, HasGraphs
<1>2. CudaSpace(ls) = [tokens |-> CudaSpace(ls).tokens, batch |-> CudaSpace(ls).batch]
  BY DEF CudaSpace
<1>3. CASE CudaTokensTooFew(ls) \/ CudaBatchTooSmall(ls)
  BY <1>2, <1>3 DEF CudaGraphs
<1>4. CASE ~CudaTokensTooFew(ls) /\ ~CudaBatchTooSmall(ls)
  <2>1. /\ Ensured(space.tokens, Total(ls)) = space.tokens
        /\ Ensured(space.batch, Len(ls)) = space.batch
    BY <1>4 DEF Ensured, CudaTokensTooFew, CudaBatchTooSmall
  <2>2. CudaSpace(ls) = space
    BY <1>1, <2>1 DEF CudaSpace
  <2> QED
    BY <1>2, <1>4, <2>2 DEF CudaGraphs
<1> QED
  BY <1>3, <1>4

LEMMA CudaWorkspaceStep ==
    ASSUME GraphInv, opts.backend = "cuda", NEW ls,
           CudaPrepare(ls) \/ CudaTokensRefused(ls) \/ CudaBatchRefused(ls) \/ CudaReserve(ls)
    PROVE  GraphInv'
<1>1. HasGraphs
  BY DEF HasGraphs
<1>2. space = [tokens |-> space.tokens, batch |-> space.batch]
  BY <1>1 DEF GraphInv, Parts
<1>3. opts' = opts
  BY DEF CudaPrepare, CudaTokensRefused, CudaBatchRefused, CudaReserve
<1>4. phase' # "run"
  BY DEF CudaPrepare, CudaTokensRefused, CudaBatchRefused, CudaReserve, Refuse, Begin
<1>5. Gemma2Run'
  BY <1>3 DEF Gemma2Run
<1>6. space' = [tokens |-> space'.tokens, batch |-> space'.batch]
  BY <1>2, CudaSettles DEF CudaPrepare, CudaTokensRefused, CudaBatchRefused, CudaReserve
<1>7. (space' = space /\ graphs' = graphs) \/ graphs' = <<>>
  BY CudaSettles DEF CudaPrepare, CudaTokensRefused, CudaBatchRefused, CudaReserve
<1> QED
  BY <1>1, <1>3, <1>4, <1>5, <1>6, <1>7, WorkspaceSettled

LEMMA CudaFreeStep ==
    ASSUME GraphInv, opts.backend = "cuda", CudaFree
    PROVE  GraphInv'
<1>1. opts' = opts /\ phase' = "freed" /\ graphs' = <<>>
  BY DEF CudaFree
<1>2. space' = [tokens |-> Released, batch |-> Released]
  BY DEF CudaFree
<1>3. Gemma2Run'
  BY <1>1 DEF Gemma2Run
<1>4. HasGraphs
  BY DEF HasGraphs
<1>5. space' = [tokens |-> space'.tokens, batch |-> space'.batch]
  BY <1>2
<1> QED
  BY <1>1, <1>3, <1>4, <1>5, WorkspaceSettled

\* Steps between the copies and the answer that record nothing.
LEMMA CudaCallStep ==
    ASSUME GraphInv, opts.backend = "cuda",
           CudaUpload \/ CudaUploadFails \/ CudaRunLayer \/ CudaRunFails \/ CudaCopyResult
    PROVE  GraphInv'
<1>1. UNCHANGED <<opts, space, graphs>>
  BY DEF CudaUpload, CudaUploadFails, CudaRunLayer, CudaRunFails, CudaCopyResult
<1>2. phase' # "run" \/ (phase = "run" /\ UNCHANGED <<lens, run>>)
  BY DEF CudaUpload, CudaUploadFails, CudaRunLayer, CudaRunFails, CudaCopyResult, Refuse, Respond
<1>3. Gemma2Run'
  BY <1>1 DEF Gemma2Run
<1> QED
  BY <1>1, <1>2, <1>3, NothingRecorded

\* The kernels of a call are launched with what is present.
LEMMA CudaLaunched ==
    ASSUME GraphInv, opts.backend = "cuda", UNCHANGED <<opts, space, lens>>,
           Table', run' = CudaPresent
    PROVE  GraphInv'
<1>1. Parts'
  BY DEF GraphInv, Parts, HasGraphs
<1>2. Addresses' = Addresses
  BY EntrySame
<1>3. CudaPresent' = CudaPresent
  BY <1>2 DEF CudaPresent, CudaArguments
<1>4. KernelsCurrent'
  BY <1>3 DEF KernelsCurrent
<1>5. Gemma2Run'
  BY DEF Gemma2Run
<1> QED
  BY <1>1, <1>4, <1>5 DEF GraphInv

LEMMA CudaPresentCurrent ==
    ASSUME opts.backend = "cuda"
    PROVE  CudaPresent = [args |-> ArgumentsOf(lens), made |-> Addresses]
BY DEF CudaPresent, ArgumentsOf

LEMMA CudaFirstLaunchStep ==
    ASSUME GraphInv, opts.backend = "cuda", CudaFirstLaunch
    PROVE  GraphInv'
<1>1. PICK e : e = [lens |-> lens, executable |-> None]
  OBVIOUS
<1>2. PICK t : t = IF Len(graphs) >= Limit THEN Tail(graphs) ELSE graphs
  OBVIOUS
<1>3. /\ UNCHANGED <<opts, space, lens>> /\ run' = CudaPresent
      /\ CudaEntries = {} /\ graphs' = Append(t, e)
  BY <1>1, <1>2 DEF CudaFirstLaunch, CudaLaunching, Limit
<1>4. \A i \in DOMAIN graphs : graphs[i].lens # e.lens
  BY <1>1, <1>3 DEF CudaEntries
<1>5. Table
  BY DEF GraphInv
<1>6. /\ t \in Seq(Recorded) /\ OnePerShape(t) /\ Len(t) + 1 <= Limit
      /\ \A i \in DOMAIN t : \E j \in DOMAIN graphs : t[i] = graphs[j]
  BY <1>2, <1>5, RoomMade
<1>7. Entry(e)
  BY <1>1 DEF Entry
<1>8. \A i \in DOMAIN t : t[i].lens # e.lens
  BY <1>4, <1>6
<1>9. Table'
  BY <1>3, <1>5, <1>6, <1>7, <1>8, EntryRecorded
<1> QED
  BY <1>3, <1>9, CudaLaunched

\* The graph of an entry is made, or stays as it is.
LEMMA CudaEntryCaptured ==
    ASSUME GraphInv, opts.backend = "cuda", UNCHANGED <<opts, space>>,
           NEW i \in CudaEntries, NEW x \in {graphs[i].executable, CudaPresent},
           graphs' = [graphs EXCEPT ![i].executable = x]
    PROVE  Table'
<1>1. /\ graphs \in Seq(Recorded) /\ OnePerShape(graphs) /\ Len(graphs) <= Limit
      /\ \A e \in Recorded : Entry(e)
  BY DEF GraphInv, Table, GraphsKept
<1>2. i \in DOMAIN graphs /\ graphs[i].lens = lens /\ graphs[i] \in Recorded
  BY DEF CudaEntries, Recorded
<1>3. PICK e : e = [lens |-> lens, executable |-> x]
  OBVIOUS
<1>4. Entry(graphs[i])
  BY <1>1, <1>2
<1>5. graphs[i] = [lens |-> lens, executable |-> graphs[i].executable]
  BY <1>2, <1>4 DEF Entry
<1>6. [graphs[i] EXCEPT !.executable = x] = e
  BY <1>3, <1>5
<1>7. graphs' = [graphs EXCEPT ![i] = e]
  BY <1>6
<1>8. Entry(e)
  <2>1. CASE x = graphs[i].executable
    BY <1>3, <1>4, <1>5, <2>1
  <2>2. CASE x = CudaPresent
    BY <1>3, <2>2, CudaPresentCurrent DEF Entry
  <2> QED
    BY <2>1, <2>2
<1>9. PICK T : T = Recorded \cup {e}
  OBVIOUS
<1>10. /\ Len(graphs) \in Nat /\ DOMAIN graphs = 1 .. Len(graphs)
       /\ graphs' = [j \in 1 .. Len(graphs) |-> IF j = i THEN e ELSE graphs[j]]
  <2>1. Len(graphs) \in Nat /\ DOMAIN graphs = 1 .. Len(graphs)
    BY <1>1
  <2>2. graphs' = [j \in DOMAIN graphs |-> IF j = i THEN e ELSE graphs[j]]
    BY <1>7
  <2> QED
    BY <2>1, <2>2
<1>11. \A j \in 1 .. Len(graphs) : graphs'[j] \in T /\ graphs'[j].lens = graphs[j].lens
  BY <1>1, <1>2, <1>3, <1>9, <1>10
<1>12. graphs' \in Seq(T) /\ Len(graphs') = Len(graphs) /\ DOMAIN graphs' = 1 .. Len(graphs)
  <2>1. graphs' \in [1 .. Len(graphs) -> T]
    BY <1>10, <1>11
  <2>2. graphs' \in Seq(T)
    BY <1>10, <2>1, SeqDef
  <2>3. DOMAIN graphs' = 1 .. Len(graphs)
    BY <1>10
  <2> QED
    BY <1>10, <2>2, <2>3, LenProperties
<1>13. OnePerShape(graphs')
  BY <1>1, <1>10, <1>11, <1>12 DEF OnePerShape
<1>14. \A f \in T : Entry(f)
  BY <1>1, <1>8, <1>9
<1>15. Len(graphs') <= Limit
  BY <1>1, <1>12
<1> QED
  BY <1>12, <1>13, <1>14, <1>15, TableChanges

LEMMA CudaCaptureStep ==
    ASSUME GraphInv, opts.backend = "cuda", CudaCapture
    PROVE  GraphInv'
<1>1. PICK i \in CudaEntries : graphs' = [graphs EXCEPT ![i].executable = CudaPresent]
  BY DEF CudaCapture
<1>2. UNCHANGED <<opts, space, lens>> /\ run' = CudaPresent
  BY DEF CudaCapture, CudaLaunching
<1>3. Table'
  BY <1>1, <1>2, CudaEntryCaptured
<1> QED
  BY <1>2, <1>3, CudaLaunched

LEMMA CudaReplayStep ==
    ASSUME GraphInv, opts.backend = "cuda", CudaReplay
    PROVE  GraphInv'
<1>1. PICK i \in CudaEntries : graphs[i].executable # None /\ run' = graphs[i].executable
  BY DEF CudaReplay, CudaLaunching
<1>2. UNCHANGED <<opts, space, graphs, lens>>
  BY DEF CudaReplay
<1>3. Entry(graphs[i]) /\ graphs[i].lens = lens
  BY DEF GraphInv, Table, GraphsKept, Recorded, CudaEntries
<1>4. graphs[i].executable = CudaPresent
  BY <1>1, <1>3, CudaPresentCurrent DEF Entry
<1>5. Table'
  BY <1>2, TableSame DEF GraphInv
<1> QED
  BY <1>1, <1>2, <1>4, <1>5, CudaLaunched

LEMMA CudaExecuteFailsStep ==
    ASSUME GraphInv, opts.backend = "cuda", CudaExecuteFails
    PROVE  GraphInv'
<1>1. UNCHANGED <<opts, space>> /\ phase' = "idle"
  BY DEF CudaExecuteFails, Refuse
<1>2. PICK i \in CudaEntries :
         graphs' \in {graphs, [graphs EXCEPT ![i].executable = IF @ = None THEN CudaPresent ELSE @]}
  BY DEF CudaExecuteFails
<1>3. Table'
  <2>1. CASE graphs' = graphs
    BY <1>1, <2>1, TableSame DEF GraphInv
  <2>2. CASE graphs' # graphs
    <3>1. PICK x : x = IF graphs[i].executable = None THEN CudaPresent ELSE graphs[i].executable
      OBVIOUS
    <3>2. x \in {graphs[i].executable, CudaPresent}
      BY <3>1
    <3>3. graphs' = [graphs EXCEPT ![i].executable = x]
      BY <1>2, <2>2, <3>1
    <3> QED
      BY <1>1, <3>2, <3>3, CudaEntryCaptured
  <2> QED
    BY <2>1, <2>2
<1>4. Parts' /\ KernelsCurrent' /\ Gemma2Run'
  BY <1>1 DEF GraphInv, Parts, HasGraphs, KernelsCurrent, Gemma2Run
<1> QED
  BY <1>3, <1>4 DEF GraphInv

-----------------------------------------------------------------------------
(* XPU *)

LEMMA XpuSettles ==
    ASSUME GraphInv, opts.backend = "xpu", NEW ls
    PROVE  /\ XpuSpace(ls) = [tokens |-> XpuSpace(ls).tokens, batch |-> XpuSpace(ls).batch]
           /\ \/ XpuSpace(ls) = space /\ XpuGraphs(ls) = graphs
              \/ XpuGraphs(ls) = <<>>
<1>1. space = [tokens |-> space.tokens, batch |-> space.batch]
  BY DEF GraphInv, Parts, HasGraphs
<1>2. CASE XpuFits(ls)
  BY <1>1, <1>2 DEF XpuSpace, XpuGraphs
<1>3. CASE ~XpuFits(ls)
  BY <1>3 DEF XpuSpace, XpuGraphs
<1> QED
  BY <1>2, <1>3

LEMMA XpuWorkspaceStep ==
    ASSUME GraphInv, opts.backend = "xpu", NEW ls,
           XpuPrepare(ls) \/ XpuAllocationFails(ls) \/ XpuReserve(ls)
    PROVE  GraphInv'
<1>1. HasGraphs
  BY DEF HasGraphs
<1>2. opts' = opts
  BY DEF XpuPrepare, XpuAllocationFails, XpuReserve
<1>3. phase' # "run"
  BY DEF XpuPrepare, XpuAllocationFails, XpuReserve, Refuse, Begin
<1>4. Gemma2Run'
  BY <1>2 DEF Gemma2Run
<1>5. space' = [tokens |-> space'.tokens, batch |-> space'.batch]
  BY XpuSettles DEF XpuPrepare, XpuAllocationFails, XpuReserve, XpuRelease
<1>6. (space' = space /\ graphs' = graphs) \/ graphs' = <<>>
  BY XpuSettles DEF XpuPrepare, XpuAllocationFails, XpuReserve, XpuRelease
<1> QED
  BY <1>1, <1>2, <1>3, <1>4, <1>5, <1>6, WorkspaceSettled

LEMMA XpuFreeStep ==
    ASSUME GraphInv, opts.backend = "xpu", XpuFree
    PROVE  GraphInv'
<1>1. /\ opts' = opts /\ phase' = "freed" /\ graphs' = <<>>
      /\ space' = [tokens |-> Released, batch |-> Released]
  BY DEF XpuFree, XpuRelease
<1>2. HasGraphs /\ Gemma2Run'
  BY <1>1 DEF HasGraphs, Gemma2Run
<1>3. space' = [tokens |-> space'.tokens, batch |-> space'.batch]
  BY <1>1
<1> QED
  BY <1>1, <1>2, <1>3, WorkspaceSettled

LEMMA XpuCallStep ==
    ASSUME GraphInv, opts.backend = "xpu",
           XpuUpload \/ XpuUploadFails \/ XpuRecordRefused \/ XpuRunLayer \/ XpuRunFails \/ XpuCopyResult
    PROVE  GraphInv'
<1>1. UNCHANGED <<opts, space, graphs>>
  BY DEF XpuUpload, XpuUploadFails, XpuRecordRefused, XpuRunLayer, XpuRunFails, XpuCopyResult
<1>2. phase' # "run" \/ (phase = "run" /\ UNCHANGED <<lens, run>>)
  BY DEF XpuUpload, XpuUploadFails, XpuRecordRefused, XpuRunLayer, XpuRunFails, XpuCopyResult,
         Refuse, Respond
<1>3. Gemma2Run'
  BY <1>1 DEF Gemma2Run
<1> QED
  BY <1>1, <1>2, <1>3, NothingRecorded

LEMMA XpuLaunched ==
    ASSUME GraphInv, opts.backend = "xpu", UNCHANGED <<opts, space, lens>>,
           Table', run' = XpuPresent
    PROVE  GraphInv'
<1>1. Parts'
  BY DEF GraphInv, Parts, HasGraphs
<1>2. Addresses' = Addresses
  BY EntrySame
<1>3. XpuPresent' = XpuPresent
  BY <1>2 DEF XpuPresent, XpuArguments
<1>4. KernelsCurrent'
  BY <1>3 DEF KernelsCurrent
<1>5. Gemma2Run'
  BY DEF Gemma2Run
<1> QED
  BY <1>1, <1>4, <1>5 DEF GraphInv

LEMMA XpuPresentCurrent ==
    ASSUME opts.backend = "xpu"
    PROVE  XpuPresent = [args |-> ArgumentsOf(lens), made |-> Addresses]
BY DEF XpuPresent, ArgumentsOf

\* What a new graph does to the table, whether or not it could be submitted.
LEMMA XpuGraphStored ==
    ASSUME GraphInv, opts.backend = "xpu", UNCHANGED <<opts, space>>, XpuEntries = {},
           graphs' = Append(IF Len(graphs) = XpuGraphLimit THEN Tail(graphs) ELSE graphs,
                            [lens |-> lens, executable |-> XpuPresent])
    PROVE  Table'
<1>1. PICK e : e = [lens |-> lens, executable |-> XpuPresent]
  OBVIOUS
<1>2. PICK t : t = IF Len(graphs) >= Limit THEN Tail(graphs) ELSE graphs
  OBVIOUS
<1>3. Table
  BY DEF GraphInv
<1>4. (Len(graphs) = XpuGraphLimit) <=> Len(graphs) >= Limit
  <2>1. Limit = XpuGraphLimit
    BY DEF Limit
  <2>2. Len(graphs) \in Nat /\ Len(graphs) <= Limit /\ Limit \in Nat
    BY <1>3, LimitPositive DEF Table, GraphsKept
  <2> QED
    BY <2>1, <2>2
<1>5. graphs' = Append(t, e)
  BY <1>1, <1>2, <1>4
<1>6. \A i \in DOMAIN graphs : graphs[i].lens # e.lens
  BY <1>1 DEF XpuEntries
<1>7. /\ t \in Seq(Recorded) /\ OnePerShape(t) /\ Len(t) + 1 <= Limit
      /\ \A i \in DOMAIN t : \E j \in DOMAIN graphs : t[i] = graphs[j]
  BY <1>2, <1>3, RoomMade
<1>8. Entry(e)
  BY <1>1, XpuPresentCurrent DEF Entry
<1>9. \A i \in DOMAIN t : t[i].lens # e.lens
  BY <1>6, <1>7
<1> QED
  BY <1>3, <1>5, <1>7, <1>8, <1>9, EntryRecorded

\* A graph that is used again becomes the last of the table.
LEMMA XpuGraphUsed ==
    ASSUME GraphInv, opts.backend = "xpu", UNCHANGED <<opts, space>>, NEW i \in XpuEntries,
           graphs' = Append(RemoveAt(graphs, i), graphs[i])
    PROVE  Table' /\ graphs[i].executable = XpuPresent
<1>1. Table
  BY DEF GraphInv
<1>2. i \in DOMAIN graphs /\ graphs[i].lens = lens /\ graphs[i] \in Recorded
  BY DEF XpuEntries, Recorded
<1>3. PICK e : e = graphs[i]
  OBVIOUS
<1>4. Entry(e) /\ Entry(graphs[i])
  BY <1>1, <1>2, <1>3 DEF Table, GraphsKept
<1>5. graphs \in Seq(Recorded) /\ OnePerShape(graphs) /\ Len(graphs) <= Limit
  BY <1>1 DEF Table, GraphsKept
<1>6. PICK t : t = RemoveAt(graphs, i)
  OBVIOUS
<1>7. /\ t \in Seq(Recorded) /\ OnePerShape(t) /\ Len(t) = Len(graphs) - 1
      /\ \A j \in DOMAIN t : t[j].lens # e.lens
  BY <1>2, <1>3, <1>5, <1>6, EntryTaken
<1>8. Len(t) + 1 <= Limit
  <2>1. Len(graphs) \in Nat
    BY <1>5
  <2> QED
    BY <1>5, <1>7, <2>1
<1>9. graphs' = Append(t, e)
  BY <1>3, <1>6
<1>10. Table'
  BY <1>1, <1>4, <1>7, <1>8, <1>9, EntryRecorded
<1>11. graphs[i].executable = XpuPresent
  BY <1>2, <1>4, XpuPresentCurrent DEF Entry
<1> QED
  BY <1>10, <1>11

LEMMA XpuLaunchStep ==
    ASSUME GraphInv, opts.backend = "xpu", XpuLaunch \/ XpuRecord \/ XpuReplay
    PROVE  GraphInv'
<1>1. UNCHANGED <<opts, space, lens>>
  BY DEF XpuLaunch, XpuRecord, XpuReplay
<1>2. CASE XpuLaunch
  <2>1. graphs' = graphs /\ run' = XpuPresent
    BY <1>2 DEF XpuLaunch, XpuLaunching
  <2>2. Table'
    BY <1>1, <2>1, TableSame DEF GraphInv
  <2> QED
    BY <1>1, <2>1, <2>2, XpuLaunched
<1>3. CASE XpuRecord
  <2>1. /\ run' = XpuPresent /\ XpuEntries = {}
        /\ graphs' = Append(IF Len(graphs) = XpuGraphLimit THEN Tail(graphs) ELSE graphs,
                            [lens |-> lens, executable |-> XpuPresent])
    BY <1>3 DEF XpuRecord, XpuLaunching
  <2>2. Table'
    BY <1>1, <2>1, XpuGraphStored
  <2> QED
    BY <1>1, <2>1, <2>2, XpuLaunched
<1>4. CASE XpuReplay
  <2>1. PICK i \in XpuEntries :
           /\ graphs' = Append(RemoveAt(graphs, i), graphs[i])
           /\ run' = graphs[i].executable
    BY <1>4 DEF XpuReplay, XpuLaunching
  <2>2. Table' /\ graphs[i].executable = XpuPresent
    BY <1>1, <2>1, XpuGraphUsed
  <2> QED
    BY <1>1, <2>1, <2>2, XpuLaunched
<1> QED
  BY <1>2, <1>3, <1>4

LEMMA XpuExecuteFailsStep ==
    ASSUME GraphInv, opts.backend = "xpu", XpuExecuteFails
    PROVE  GraphInv'
<1>1. UNCHANGED <<opts, space>> /\ phase' = "idle"
  BY DEF XpuExecuteFails, Refuse
<1>2. \/ graphs' = graphs
      \/ /\ XpuEntries = {}
         /\ graphs' = Append(IF Len(graphs) = XpuGraphLimit THEN Tail(graphs) ELSE graphs,
                             [lens |-> lens, executable |-> XpuPresent])
      \/ \E i \in XpuEntries : graphs' = Append(RemoveAt(graphs, i), graphs[i])
  BY DEF XpuExecuteFails
<1>3. Table'
  BY <1>1, <1>2, TableSame, XpuGraphStored, XpuGraphUsed DEF GraphInv
<1>4. Parts' /\ KernelsCurrent' /\ Gemma2Run'
  BY <1>1 DEF GraphInv, Parts, HasGraphs, KernelsCurrent, Gemma2Run
<1> QED
  BY <1>3, <1>4 DEF GraphInv

-----------------------------------------------------------------------------
(* EmbeddingGemma 2 on CUDA *)

\* A step of a call that records nothing keeps the parts and the graph apart.
LEMMA Gemma2RunKept ==
    ASSUME Gemma2Run, opts' = opts, opts.backend = "gemma2_cuda",
           \/ phase' \in {"idle", "freed"}
           \/ phase \notin {"idle", "freed"} /\ run' = run
           \/ \E parts : run' = [run EXCEPT !.parts = parts] /\ phase \notin {"idle", "freed"}
           \/ \E parts, x : run' = [parts |-> parts, executable |-> x]
    PROVE  Gemma2Run'
<1>1. CASE phase' \in {"idle", "freed"}
  BY <1>1 DEF Gemma2Run
<1>2. CASE phase \notin {"idle", "freed"} /\ run' = run
  BY <1>2 DEF Gemma2Run
<1>3. CASE \E parts : run' = [run EXCEPT !.parts = parts] /\ phase \notin {"idle", "freed"}
  <2>1. PICK parts : run' = [run EXCEPT !.parts = parts] /\ phase \notin {"idle", "freed"}
    BY <1>3
  <2>2. PICK p, x : run = [parts |-> p, executable |-> x]
    BY <2>1 DEF Gemma2Run
  <2>3. run' = [parts |-> parts, executable |-> x]
    BY <2>1, <2>2
  <2> QED
    BY <2>3 DEF Gemma2Run
<1>4. CASE \E parts, x : run' = [parts |-> parts, executable |-> x]
  <2>1. PICK parts, x : run' = [parts |-> parts, executable |-> x]
    BY <1>4
  <2> QED
    BY <2>1 DEF Gemma2Run
<1> QED
  BY <1>1, <1>2, <1>3, <1>4

LEMMA Gemma2BeginStep ==
    ASSUME GraphInv, opts.backend = "gemma2_cuda", NEW ls, NEW parts, Gemma2Begin(ls, parts)
    PROVE  GraphInv'
<1>1. UNCHANGED <<opts, space, graphs>> /\ phase' = "next"
      /\ run' = [parts |-> parts, executable |-> None]
  BY DEF Gemma2Begin
<1>2. Gemma2Run'
  BY <1>1, Gemma2RunKept DEF GraphInv
<1>3. phase' # "run"
  BY <1>1
<1> QED
  BY <1>1, <1>2, <1>3, NothingRecorded

\* reserve keeps the workspace, or clears the graphs.
LEMMA Gemma2ReserveStep ==
    ASSUME GraphInv, opts.backend = "gemma2_cuda", Gemma2Reserve
    PROVE  GraphInv'
<1>1. opts' = opts /\ phase = "next" /\ phase' = "upload" /\ run' = run
  BY DEF Gemma2Reserve
<1>2. HasGraphs
  BY DEF HasGraphs
<1>3. space = [tokens |-> space.tokens, batch |-> space.batch]
  BY <1>2 DEF GraphInv, Parts
<1>4. Gemma2Run'
  BY <1>1, Gemma2RunKept DEF GraphInv
<1>5. phase' # "run"
  BY <1>1
<1>6. CASE Gemma2TooSmall(run.parts[1])
  <2>1. graphs' = <<>> /\ space' = Gemma2Space(run.parts[1], Torn)
    BY <1>6 DEF Gemma2Reserve
  <2>2. space' = [tokens |-> space'.tokens, batch |-> space'.batch]
    BY <2>1 DEF Gemma2Space
  <2> QED
    BY <1>1, <1>2, <1>4, <1>5, <2>1, <2>2, WorkspaceSettled
<1>7. CASE ~Gemma2TooSmall(run.parts[1])
  <2>1. graphs' = graphs /\ space' = space
    BY <1>7 DEF Gemma2Reserve
  <2>2. space' = [tokens |-> space'.tokens, batch |-> space'.batch]
    BY <1>3, <2>1
  <2> QED
    BY <1>1, <1>2, <1>4, <1>5, <2>1, <2>2, WorkspaceSettled
<1> QED
  BY <1>6, <1>7

\* An allocation that fails leaves no graphs either.
LEMMA Gemma2ReserveFailsStep ==
    ASSUME GraphInv, opts.backend = "gemma2_cuda", Gemma2ReserveFails
    PROVE  GraphInv'
<1>1. opts' = opts /\ phase' = "idle" /\ graphs' = <<>> /\ space' = Gemma2Space(run.parts[1], TRUE)
  BY DEF Gemma2ReserveFails, Refuse
<1>2. HasGraphs /\ Gemma2Run' /\ phase' # "run"
  BY <1>1 DEF HasGraphs, Gemma2Run
<1>3. space' = [tokens |-> space'.tokens, batch |-> space'.batch]
  BY <1>1 DEF Gemma2Space
<1> QED
  BY <1>1, <1>2, <1>3, WorkspaceSettled

LEMMA Gemma2FreeStep ==
    ASSUME GraphInv, opts.backend = "gemma2_cuda", Gemma2CudaFree
    PROVE  GraphInv'
<1>1. /\ opts' = opts /\ phase' = "freed" /\ graphs' = <<>>
      /\ space' = Gemma2Nothing(Torn)
  BY DEF Gemma2CudaFree
<1>2. HasGraphs /\ Gemma2Run'
  BY <1>1 DEF HasGraphs, Gemma2Run
<1>3. space' = [tokens |-> space'.tokens, batch |-> space'.batch]
  BY <1>1 DEF Gemma2Nothing
<1> QED
  BY <1>1, <1>2, <1>3, WorkspaceSettled

LEMMA Gemma2CallStep ==
    ASSUME GraphInv, opts.backend = "gemma2_cuda",
           \/ Gemma2UploadAll \/ Gemma2UploadFails \/ Gemma2RunLayer \/ Gemma2RunFails
           \/ Gemma2CopyResult \/ Gemma2Return
    PROVE  GraphInv'
<1>1. UNCHANGED <<opts, space, graphs>>
  BY DEF Gemma2UploadAll, Gemma2UploadFails, Gemma2RunLayer, Gemma2RunFails, Gemma2CopyResult,
         Gemma2Return
<1>2. phase' # "run" \/ (phase = "run" /\ UNCHANGED <<lens, run>>)
  BY DEF Gemma2UploadAll, Gemma2UploadFails, Gemma2RunLayer, Gemma2RunFails, Gemma2CopyResult,
         Gemma2Return, Gemma2Refuse, Refuse, Respond
<1>3. \/ phase' \in {"idle", "freed"}
      \/ phase \notin {"idle", "freed"} /\ run' = run
      \/ \E parts : run' = [run EXCEPT !.parts = parts] /\ phase \notin {"idle", "freed"}
  <2>1. CASE Gemma2UploadAll \/ Gemma2RunLayer
    BY <2>1 DEF Gemma2UploadAll, Gemma2RunLayer
  <2>2. CASE Gemma2UploadFails \/ Gemma2RunFails \/ Gemma2Return
    BY <2>2 DEF Gemma2UploadFails, Gemma2RunFails, Gemma2Return, Gemma2Refuse, Refuse, Respond
  <2>3. CASE Gemma2CopyResult
    <3>1. run' = [run EXCEPT !.parts = Tail(@)] /\ phase = "copy"
      BY <2>3 DEF Gemma2CopyResult
    <3>2. run' = [run EXCEPT !.parts = Tail(run.parts)]
      BY <3>1
    <3> QED
      BY <3>1, <3>2
  <2> QED
    BY <2>1, <2>2, <2>3
<1>4. Gemma2Run'
  BY <1>1, <1>3, Gemma2RunKept DEF GraphInv
<1> QED
  BY <1>1, <1>2, <1>4, NothingRecorded

LEMMA Gemma2Launched ==
    ASSUME GraphInv, opts.backend = "gemma2_cuda", UNCHANGED <<opts, space>>,
           phase = "execute", Table', run' = [run EXCEPT !.executable = Gemma2Present]
    PROVE  GraphInv'
<1>1. Parts'
  BY DEF GraphInv, Parts, HasGraphs
<1>2. Addresses' = Addresses
  BY EntrySame
<1>3. PICK p, x : run = [parts |-> p, executable |-> x]
  BY DEF GraphInv, Gemma2Run
<1>4. PICK y : y = Gemma2Present
  OBVIOUS
<1>5. run' = [parts |-> p, executable |-> y]
  BY <1>3, <1>4
<1>6. run'.parts = run.parts /\ run'.executable = Gemma2Present
  BY <1>3, <1>4, <1>5
<1>7. Gemma2Present' = Gemma2Present
  BY <1>2, <1>6 DEF Gemma2Present, Gemma2Key
<1>8. KernelsCurrent'
  BY <1>6, <1>7 DEF KernelsCurrent
<1>9. Gemma2Run'
  BY <1>5 DEF Gemma2Run
<1> QED
  BY <1>1, <1>8, <1>9 DEF GraphInv

LEMMA Gemma2PresentCurrent ==
    ASSUME opts.backend = "gemma2_cuda"
    PROVE  Gemma2Present = [args |-> ArgumentsOf(Gemma2Key), made |-> Addresses]
BY DEF Gemma2Present, ArgumentsOf

\* Room is made, and then a graph stored.
LEMMA Gemma2GraphStored ==
    ASSUME GraphInv, opts.backend = "gemma2_cuda", UNCHANGED <<opts, space>>, Gemma2Entries = {},
           graphs' \in {Gemma2Room, Gemma2Captured}
    PROVE  Table'
<1>1. PICK e : e = [lens |-> Gemma2Key, executable |-> Gemma2Present]
  OBVIOUS
<1>2. PICK t : t = IF Len(graphs) >= Limit THEN Tail(graphs) ELSE graphs
  OBVIOUS
<1>3. Table
  BY DEF GraphInv
<1>4. t = Gemma2Room
  BY <1>2 DEF Gemma2Room, Limit
<1>5. graphs' = t \/ graphs' = Append(t, e)
  BY <1>1, <1>4 DEF Gemma2Captured
<1>6. \A i \in DOMAIN graphs : graphs[i].lens # e.lens
  BY <1>1 DEF Gemma2Entries
<1>7. /\ t \in Seq(Recorded) /\ OnePerShape(t) /\ Len(t) + 1 <= Limit
      /\ \A i \in DOMAIN t : \E j \in DOMAIN graphs : t[i] = graphs[j]
  BY <1>2, <1>3, RoomMade
<1>8. Entry(e)
  BY <1>1, Gemma2PresentCurrent DEF Entry
<1>9. \A i \in DOMAIN t : t[i].lens # e.lens
  BY <1>6, <1>7
<1>10. CASE graphs' = t
  <2>1. Len(t) \in Nat /\ Len(t) <= Limit
    BY <1>7, LimitPositive
  <2>2. \A f \in Recorded : Entry(f)
    BY <1>3 DEF Table, GraphsKept
  <2> QED
    BY <1>7, <1>10, <2>1, <2>2, TableChanges
<1>11. CASE graphs' = Append(t, e)
  BY <1>3, <1>7, <1>8, <1>9, <1>11, EntryRecorded
<1> QED
  BY <1>5, <1>10, <1>11

LEMMA Gemma2LaunchStep ==
    ASSUME GraphInv, opts.backend = "gemma2_cuda", Gemma2Direct \/ Gemma2Capture \/ Gemma2Replay
    PROVE  GraphInv'
<1>1. UNCHANGED <<opts, space>> /\ phase = "execute"
  BY DEF Gemma2Direct, Gemma2Capture, Gemma2Replay
<1>2. CASE Gemma2Direct
  <2>1. graphs' = graphs /\ run' = [run EXCEPT !.executable = Gemma2Present]
    BY <1>2 DEF Gemma2Direct, Gemma2Launching
  <2>2. Table'
    BY <1>1, <2>1, TableSame DEF GraphInv
  <2> QED
    BY <1>1, <2>1, <2>2, Gemma2Launched
<1>3. CASE Gemma2Capture
  <2>1. /\ run' = [run EXCEPT !.executable = Gemma2Present]
        /\ Gemma2Entries = {} /\ graphs' = Gemma2Captured
    BY <1>3 DEF Gemma2Capture, Gemma2Launching
  <2>2. Table'
    BY <1>1, <2>1, Gemma2GraphStored
  <2> QED
    BY <1>1, <2>1, <2>2, Gemma2Launched
<1>4. CASE Gemma2Replay
  <2>1. PICK i \in Gemma2Entries : run' = [run EXCEPT !.executable = graphs[i].executable]
    BY <1>4 DEF Gemma2Replay, Gemma2Launching
  <2>2. graphs' = graphs
    BY <1>4 DEF Gemma2Replay
  <2>3. Entry(graphs[i]) /\ graphs[i].lens = Gemma2Key
    BY DEF GraphInv, Table, GraphsKept, Recorded, Gemma2Entries
  <2>4. graphs[i].executable = Gemma2Present
    BY <2>3, Gemma2PresentCurrent DEF Entry
  <2>5. Table'
    BY <1>1, <2>2, TableSame DEF GraphInv
  <2> QED
    BY <1>1, <2>1, <2>4, <2>5, Gemma2Launched
<1> QED
  BY <1>2, <1>3, <1>4

LEMMA Gemma2ExecuteFailsStep ==
    ASSUME GraphInv, opts.backend = "gemma2_cuda", Gemma2ExecuteFails
    PROVE  GraphInv'
<1>1. UNCHANGED <<opts, space>> /\ phase' = "idle"
  BY DEF Gemma2ExecuteFails, Gemma2Refuse, Refuse
<1>2. \/ graphs' = graphs
      \/ Gemma2Entries = {} /\ graphs' \in {Gemma2Room, Gemma2Captured}
  BY DEF Gemma2ExecuteFails
<1>3. Table'
  BY <1>1, <1>2, TableSame, Gemma2GraphStored DEF GraphInv
<1>4. Parts' /\ KernelsCurrent' /\ Gemma2Run'
  BY <1>1 DEF GraphInv, Parts, HasGraphs, KernelsCurrent, Gemma2Run
<1> QED
  BY <1>3, <1>4 DEF GraphInv

-----------------------------------------------------------------------------
(* The CPU engines record nothing *)

LEMMA CpuStep ==
    ASSUME GraphInv, ~HasGraphs, UNCHANGED <<opts, graphs>>
    PROVE  GraphInv'
<1>1. graphs' = <<>>
  BY DEF GraphInv, Parts
<1>2. Table'
  BY <1>1, TableEmptied
<1>3. Parts' /\ KernelsCurrent' /\ Gemma2Run'
  BY <1>1 DEF Parts, HasGraphs, KernelsCurrent, Gemma2Run
<1> QED
  BY <1>2, <1>3 DEF GraphInv

-----------------------------------------------------------------------------
(* Every step *)

LEMMA GraphInit ==
    ASSUME Init
    PROVE  GraphInv
<1>1. graphs = <<>> /\ phase = "idle"
  BY DEF Init, CudaCreate, XpuCreate, CpuCreate, Gemma2CudaCreate, Gemma2CpuCreate
<1>2. HasGraphs => space = [tokens |-> space.tokens, batch |-> space.batch]
  BY DEF Init, CudaCreate, XpuCreate, CpuCreate, Gemma2CudaCreate, Gemma2CpuCreate, Gemma2Nothing, HasGraphs
<1>3. graphs \in Seq(Recorded) /\ Recorded = {} /\ Len(graphs) = 0
  BY <1>1 DEF Recorded
<1>4. OnePerShape(graphs)
  BY <1>1 DEF OnePerShape
<1>5. Table
  BY <1>3, <1>4, LimitPositive DEF Table, GraphsKept
<1>6. Parts
  BY <1>1, <1>2 DEF Parts
<1> QED
  BY <1>1, <1>5, <1>6 DEF GraphInv, KernelsCurrent, Gemma2Run

LEMMA CudaStep ==
    ASSUME GraphInv, opts.backend = "cuda", CudaNext \/ CudaFree
    PROVE  GraphInv'
BY CudaWorkspaceStep, CudaFreeStep, CudaCallStep, CudaFirstLaunchStep, CudaCaptureStep,
   CudaReplayStep, CudaExecuteFailsStep DEF CudaNext

LEMMA XpuStep ==
    ASSUME GraphInv, opts.backend = "xpu", XpuNext \/ XpuFree
    PROVE  GraphInv'
BY XpuWorkspaceStep, XpuFreeStep, XpuCallStep, XpuLaunchStep, XpuExecuteFailsStep DEF XpuNext

LEMMA Gemma2CudaStep ==
    ASSUME GraphInv, opts.backend = "gemma2_cuda", Gemma2CudaNext \/ Gemma2CudaFree
    PROVE  GraphInv'
BY Gemma2BeginStep, Gemma2ReserveStep, Gemma2ReserveFailsStep, Gemma2FreeStep, Gemma2CallStep, Gemma2LaunchStep,
   Gemma2ExecuteFailsStep DEF Gemma2CudaNext

LEMMA CpuSteps ==
    ASSUME GraphInv, ~HasGraphs,
           CpuNext \/ CpuFree \/ Gemma2CpuNext \/ Gemma2CpuFree
    PROVE  GraphInv'
<1>1. CASE CpuNext \/ CpuFree
  <2>1. UNCHANGED <<opts, graphs>>
    BY <1>1 DEF CpuNext, CpuFree, CpuBegin, CpuReserve, CpuStart, CpuRunLayer, CpuReturn
  <2> QED
    BY <2>1, CpuStep
<1>2. CASE Gemma2CpuNext \/ Gemma2CpuFree
  <2>1. UNCHANGED <<opts, graphs>>
    BY <1>2 DEF Gemma2CpuNext, Gemma2CpuFree, Gemma2Begin, Gemma2CpuRefuse, Gemma2CpuStart,
                Gemma2CpuRunLayer, Gemma2Return
  <2> QED
    BY <2>1, CpuStep
<1> QED
  BY <1>1, <1>2

LEMMA GraphStep ==
    ASSUME GraphInv, [Next]_vars
    PROVE  GraphInv'
<1>1. CASE UNCHANGED vars \/ Over
  <2>1. UNCHANGED <<opts, space, graphs, phase, lens, run>>
    BY <1>1 DEF Over, vars
  <2>2. Gemma2Run'
    BY <2>1 DEF GraphInv, Gemma2Run
  <2>3. phase' # "run" \/ (phase = "run" /\ UNCHANGED <<lens, run>>)
    BY <2>1
  <2> QED
    BY <2>1, <2>2, <2>3, NothingRecorded
<1>2. CASE Reject
  <2>1. UNCHANGED <<opts, space, graphs, phase>> /\ phase = "idle"
    BY <1>2 DEF Reject
  <2>2. Gemma2Run'
    BY <2>1 DEF Gemma2Run
  <2>3. phase' # "run"
    BY <2>1
  <2> QED
    BY <2>1, <2>2, <2>3, NothingRecorded
<1>3. CASE opts.backend = "cuda" /\ (CudaNext \/ CudaFree)
  BY <1>3, CudaStep
<1>4. CASE opts.backend = "xpu" /\ (XpuNext \/ XpuFree)
  BY <1>4, XpuStep
<1>5. CASE opts.backend = "cpu" /\ (CpuNext \/ CpuFree)
  <2>1. ~HasGraphs
    BY <1>5 DEF HasGraphs
  <2> QED
    BY <1>5, <2>1, CpuSteps
<1>6. CASE opts.backend = "gemma2_cuda" /\ (Gemma2CudaNext \/ Gemma2CudaFree)
  BY <1>6, Gemma2CudaStep
<1>7. CASE opts.backend = "gemma2_cpu" /\ (Gemma2CpuNext \/ Gemma2CpuFree)
  <2>1. ~HasGraphs
    BY <1>7 DEF HasGraphs
  <2> QED
    BY <1>7, <2>1, CpuSteps
<1> QED
  BY <1>1, <1>2, <1>3, <1>4, <1>5, <1>6, <1>7 DEF Next

\* What an engine records, and what its kernels run with.
THEOREM GraphInvariant == Spec => []GraphInv
<1>1. Init => GraphInv
  BY GraphInit
<1>2. GraphInv /\ [Next]_vars => GraphInv'
  BY GraphStep
<1> QED
  BY <1>1, <1>2, PTL DEF Spec

\* A stored graph never outlives the workspace it was recorded in, and has the
\* arguments of its shape.
THEOREM GraphsAreCurrent == Spec => []GraphsCurrent
<1>1. GraphInv => GraphsCurrent
  BY DEF GraphInv, Table, GraphsKept, Recorded, Entry, GraphsCurrent
<1> QED
  BY <1>1, GraphInvariant, PTL

\* No kernel runs with the arguments of another call or in a workspace that was freed.
THEOREM KernelsAreCurrent == Spec => []KernelsCurrent
<1>1. GraphInv => KernelsCurrent
  BY DEF GraphInv
<1> QED
  BY <1>1, GraphInvariant, PTL

\* A shape is recorded once, and no more shapes than an engine keeps.
THEOREM GraphsAreKept == Spec => []GraphsKept
<1>1. GraphInv => GraphsKept
  BY DEF GraphInv, Table
<1> QED
  BY <1>1, GraphInvariant, PTL

-----------------------------------------------------------------------------
(* EmbeddingGemma 2 on the CPU: the engine *)

\* The present part, between two stages.
Gemma2CpuRuns ==
    /\ run.parts # <<>> /\ stage \in 0 .. LayerCount + 1
    /\ Gemma2CpuReady(opts, mem, PartTokens, PartLens)
    /\ stage = 0 => Fed(mem, run.parts[1].from, PartTokens)
    /\ stage # 0 => Carries(mem, "x", "x", stage, PartTokens)
    /\ stage \in Layers => Carries(mem, "ple", "ple", 1, PartTokens)

\* The reference graph takes one sequence at a time.
Gemma2CpuBatches == opts.fast \/ \A i \in DOMAIN run.parts : run.parts[i].batch = 1

\* What holds in every phase.
Gemma2CpuEngine ==
    /\ DOMAIN mem = Gemma2Context \cup Gemma2Caller
    /\ phase \in {"idle", "next", "run", "freed"}
    /\ phase \in {"next", "run"} => Gemma2Call /\ Gemma2CpuBatches
    /\ phase = "run" => Gemma2CpuRuns

\* What the engine keeps: the rows of the present part, the answers so far, and the last one.
Gemma2CpuInv == calls \in Nat /\ Gemma2CpuEngine /\ EmbeddingsMatch

\* A new engine has answered nothing.
LEMMA Gemma2CpuInit ==
    ASSUME Gemma2CpuCreate
    PROVE  Gemma2CpuInv
BY DEF Gemma2CpuCreate, Gemma2CpuInv, Gemma2CpuEngine, EmbeddingsMatch

\* A step that ends the call, with its answer or without one.
LEMMA Gemma2CpuIdles ==
    ASSUME Gemma2CpuInv, phase' \in {"idle", "freed"}, DOMAIN mem' = DOMAIN mem, calls' \in Nat, EmbeddingsMatch'
    PROVE  Gemma2CpuInv'
BY DEF Gemma2CpuInv, Gemma2CpuEngine

\* A call begins with all of its parts left.
LEMMA Gemma2CpuBegins ==
    ASSUME Gemma2CpuInv, NEW ls \in Shapes, NEW from \in {"ids", "inputs"},
           Gemma2Begin(ls, Gemma2CpuParts(ls, from))
    PROVE  Gemma2CpuInv'
<1>1. ls \in Seq(Nat)
  BY ShapesAreLengths
<1>2. PICK parts : parts = Gemma2CpuParts(ls, from)
  OBVIOUS
<1>3. /\ Valid(ls) /\ calls' = calls + 1 /\ lens' = ls /\ run' = [parts |-> parts, executable |-> None]
      /\ phase' = "next" /\ answer' = None /\ opts' = opts /\ DOMAIN mem' = DOMAIN mem
  BY <1>2 DEF Gemma2Begin, Begin
<1>4. Gemma2Left(parts, ls, 0, from)
  <2>1. CASE opts.fast
    BY <1>1, <1>2, <2>1, WholeLeft DEF Gemma2CpuParts
  <2>2. CASE ~opts.fast
    BY <1>1, <1>2, <2>2, EachLeft DEF Gemma2CpuParts
  <2> QED
    BY <2>1, <2>2
<1>5. opts.fast \/ \A i \in DOMAIN parts : parts[i].batch = 1
  BY <1>1, <1>2, EachLeft DEF Gemma2CpuParts
<1>6. run'.parts = parts /\ run'.executable = None
  BY <1>3
<1>7. Gemma2Call'
  <2>1. Valid(lens)'
    BY <1>3 DEF Valid
  <2>2. Gemma2Due(run.parts, mem, 0, from)'
    BY <1>3, <1>4, <1>6, Gemma2NothingDone DEF Gemma2Due
  <2>3. run' = [parts |-> run'.parts, executable |-> run'.executable]
    BY <1>3, <1>6
  <2> QED
    BY <1>1, <1>3, <2>1, <2>2, <2>3 DEF Gemma2Call
<1>8. Gemma2CpuBatches'
  BY <1>3, <1>5, <1>6 DEF Gemma2CpuBatches
<1>9. calls' \in Nat
  BY <1>3 DEF Gemma2CpuInv
<1> QED
  BY <1>3, <1>7, <1>8, <1>9 DEF Gemma2CpuInv, Gemma2CpuEngine, EmbeddingsMatch

\* When no part is left, the result is the answer.
LEMMA Gemma2CpuReturns ==
    ASSUME Gemma2CpuInv, Gemma2Return
    PROVE  Gemma2CpuInv'
<1>1. phase = "next" /\ run.parts = <<>> /\ phase' = "idle" /\ UNCHANGED <<mem, calls, lens>>
      /\ answer' = [s \in 1 .. Len(lens) |-> At(mem, "result", s - 1)]
  BY DEF Gemma2Return, Respond
<1>2. answer' = Reference(calls, lens)
  BY <1>1, Gemma2AllDone DEF Gemma2CpuInv, Gemma2CpuEngine
<1>3. EmbeddingsMatch'
  BY <1>1, <1>2 DEF EmbeddingsMatch
<1> QED
  BY <1>1, <1>3, Gemma2CpuIdles DEF Gemma2CpuInv

\* A call of too many tokens, and the end of the engine.
LEMMA Gemma2CpuRefuses ==
    ASSUME Gemma2CpuInv, Gemma2CpuRefuse \/ Gemma2CpuFree
    PROVE  Gemma2CpuInv'
<1>1. CASE Gemma2CpuRefuse
  <2>1. phase' = "idle" /\ answer' = Failed /\ mem' = mem /\ calls' = calls
    BY <1>1 DEF Gemma2CpuRefuse
  <2> QED
    BY <2>1, Gemma2CpuIdles DEF Gemma2CpuInv, EmbeddingsMatch
<1>2. CASE Gemma2CpuFree
  <2>1. phase' = "freed" /\ UNCHANGED <<answer, calls, lens>> /\ DOMAIN mem' = DOMAIN mem
    BY <1>2 DEF Gemma2CpuFree
  <2>2. EmbeddingsMatch'
    BY <2>1 DEF Gemma2CpuInv, EmbeddingsMatch
  <2> QED
    BY <2>1, <2>2, Gemma2CpuIdles DEF Gemma2CpuInv
<1> QED
  BY <1>1, <1>2

\* A call that is turned down.
LEMMA Gemma2CpuRejects ==
    ASSUME Gemma2CpuInv, Reject
    PROVE  Gemma2CpuInv'
<1>1. phase' = "idle" /\ answer' = Failed /\ mem' = mem /\ calls' = calls + 1
  BY DEF Reject
<1> QED
  BY <1>1, Gemma2CpuIdles DEF Gemma2CpuInv, EmbeddingsMatch

\* What a call is does not change while it runs.
LEMMA Gemma2CallKept ==
    ASSUME Gemma2Call, UNCHANGED <<calls, lens>>, run' = [run EXCEPT !.parts = run'.parts],
           NEW done, NEW from, Gemma2Due(run'.parts, mem', done, from)
    PROVE  Gemma2Call'
<1>1. PICK p, x : run = [parts |-> p, executable |-> x]
  BY DEF Gemma2Call
<1>2. PICK q : q = run'.parts
  OBVIOUS
<1>3. run' = [parts |-> q, executable |-> x]
  BY <1>1, <1>2
<1>4. run' = [parts |-> run'.parts, executable |-> run'.executable]
  BY <1>3
<1>5. Gemma2Due(run.parts, mem, done, from)'
  BY DEF Gemma2Due
<1>6. Valid(lens)' /\ lens' \in Seq(Nat)
  BY DEF Gemma2Call, Valid
<1> QED
  BY <1>4, <1>5, <1>6 DEF Gemma2Call

\* A buffer of another name can change.
LEMMA Gemma2DueKept ==
    ASSUME NEW parts, NEW m, NEW w, w["result"] = m["result"], NEW done, NEW from, Gemma2Due(parts, m, done, from)
    PROVE  Gemma2Due(parts, w, done, from)
BY DEF Gemma2Due, Answered, At

\* The present part depends on the call alone.
LEMMA Gemma2PartSame ==
    ASSUME UNCHANGED <<calls, lens, run>>
    PROVE  PartTokens' = PartTokens /\ PartLens' = PartLens
BY DEF PartTokens, PartLens, PartRows, FirstRow

\* A part begins with its tokens, and where its sequences are.
LEMMA Gemma2CpuStarted ==
    ASSUME Gemma2CpuInv, Gemma2CpuStart
    PROVE  Gemma2CpuInv'
<1>1. /\ phase = "next" /\ phase' = "run" /\ stage' = 0 /\ run.parts # <<>>
      /\ UNCHANGED <<opts, calls, lens, run, answer>>
  BY DEF Gemma2CpuStart
<1>2. Gemma2Call /\ Gemma2CpuBatches /\ calls \in Nat /\ DOMAIN mem = Gemma2Context \cup Gemma2Caller
  BY <1>1 DEF Gemma2CpuInv, Gemma2CpuEngine
<1>3. PICK done, b, from : Gemma2PartIs(done, b, from)
  BY <1>1, <1>2, Gemma2PartKnown
<1>4. run.parts[1].from = from /\ from \in {"ids", "inputs"} /\ Packs(PartTokens, calls, done, PartLens)
  BY <1>3 DEF Gemma2PartIs, Gemma2Due, PartOf
<1>5. PICK c : c = Gemma2CpuMemory(run.parts[1].tokens)
  OBVIOUS
<1>6. DOMAIN c = DOMAIN mem /\ c["result"] = mem["result"]
  <2>1. "result" \notin Gemma2Context /\ "result" \in DOMAIN mem
    BY <1>2 DEF Gemma2Context, Gemma2Caller
  <2> QED
    BY <1>5, <2>1 DEF Gemma2CpuMemory
<1>7. PICK m : m = [c EXCEPT ![from] = PartTokens]
  OBVIOUS
<1>8. from \in DOMAIN c /\ from # "result" /\ from \notin {"lo", "hi", "pos"}
  BY <1>2, <1>4, <1>6 DEF Gemma2Caller
<1>9. DOMAIN m = DOMAIN mem /\ m["result"] = mem["result"] /\ m[from] = PartTokens
  BY <1>6, <1>7, <1>8
<1>10. Fed(m, from, PartTokens)
  BY <1>9 DEF Fed, At
<1>11. {"lo", "hi", "pos"} \subseteq DOMAIN m
  BY <1>2, <1>9 DEF Gemma2Context
<1>12. /\ DOMAIN mem' = DOMAIN mem /\ mem'["result"] = mem["result"] /\ Fed(mem', from, PartTokens)
       /\ Gemma2CpuReady(opts, mem', PartTokens, PartLens)
  <2>1. CASE opts.fast
    <3>1. PICK w : w = Copied(m, <<<<"lo", RowStarts>>, <<"hi", RowStops>>, <<"pos", RowPositions>>>>)
      OBVIOUS
    <3>2. mem' = w
      BY <1>4, <1>5, <1>7, <2>1, <3>1 DEF Gemma2CpuStart
    <3>3. Gemma2Copies(m, w)
      BY <1>11, <3>1, CopiesRows
    <3>4. Bounded(w, PartLens) /\ Placed(w, "pos", PartTokens)
      BY <1>3, <3>3, CopiesPlaced
    <3>5. DOMAIN w = DOMAIN m /\ w["result"] = m["result"] /\ w[from] = m[from]
      <4>1. "result" \in DOMAIN m /\ from \in DOMAIN m
        BY <1>2, <1>6, <1>8, <1>9 DEF Gemma2Caller
      <4> QED
        BY <1>8, <3>3, <4>1 DEF Gemma2Copies
    <3>6. Fed(w, from, PartTokens)
      BY <1>10, <3>5 DEF Fed, At
    <3>7. "pos" \in DOMAIN w /\ DOMAIN w = Gemma2Context \cup Gemma2Caller
      BY <1>2, <1>9, <1>11, <3>5
    <3> QED
      BY <1>9, <2>1, <3>2, <3>4, <3>5, <3>6, <3>7 DEF Gemma2CpuReady
  <2>2. CASE ~opts.fast
    <3>1. mem' = m
      BY <1>4, <1>5, <1>7, <2>2 DEF Gemma2CpuStart
    <3>2. Len(PartLens) = 1
      <4>1. 1 \in DOMAIN run.parts
        <5>1. IsList(run.parts)
          BY <1>3 DEF Gemma2PartIs, Gemma2Due, Gemma2Left
        <5>2. PICK G : run.parts \in Seq(G)
          BY <5>1 DEF IsList
        <5> QED
          BY <1>1, <5>2
      <4>2. run.parts[1].batch = 1
        BY <1>2, <2>2, <4>1 DEF Gemma2CpuBatches
      <4> QED
        BY <1>3, <4>2 DEF Gemma2PartIs, PartOf
    <3>3. Placed(m, "row", PartTokens)
      BY <1>4, <3>2, RowsPlaced
    <3> QED
      BY <1>2, <1>9, <1>10, <2>2, <3>1, <3>2, <3>3 DEF Gemma2CpuReady
  <2> QED
    BY <2>1, <2>2
<1>13. PartTokens' = PartTokens /\ PartLens' = PartLens
  BY <1>1, Gemma2PartSame
<1>14. Gemma2Due(run'.parts, mem', done, from)
  <2>1. Gemma2Due(run.parts, mem, done, from)
    BY <1>3 DEF Gemma2PartIs
  <2> QED
    BY <1>1, <1>12, <2>1, Gemma2DueKept
<1>15. Gemma2Call'
  <2>1. run' = [run EXCEPT !.parts = run'.parts]
    <3>1. PICK p, x : run = [parts |-> p, executable |-> x]
      BY <1>2 DEF Gemma2Call
    <3> QED
      BY <1>1, <3>1
  <2> QED
    BY <1>1, <1>2, <1>14, <2>1, Gemma2CallKept
<1>16. Gemma2CpuBatches'
  BY <1>1, <1>2 DEF Gemma2CpuBatches
<1>17. Gemma2CpuRuns'
  <2>1. 0 \in 0 .. LayerCount + 1 /\ 0 \notin Layers
    BY LayersAreCounted DEF Layers
  <2> QED
    BY <1>1, <1>4, <1>12, <1>13, <2>1 DEF Gemma2CpuRuns
<1>18. EmbeddingsMatch'
  BY <1>1 DEF Gemma2CpuInv, EmbeddingsMatch
<1> QED
  BY <1>1, <1>2, <1>12, <1>15, <1>16, <1>17, <1>18 DEF Gemma2CpuInv, Gemma2CpuEngine

\* A stage hands the next its inputs, the last one answers the part.
LEMMA Gemma2CpuRunsOn ==
    ASSUME Gemma2CpuInv, Gemma2CpuRunLayer
    PROVE  Gemma2CpuInv'
<1>1. /\ phase = "run" /\ stage' = stage + 1 /\ UNCHANGED <<opts, calls, lens, answer>>
      /\ mem' = FoldLeft(Gemma2!Execution!Run, mem, Gemma2!CpuEmbed(opts, run.parts[1], stage))
      /\ IF stage = LayerCount + 1
         THEN phase' = "next" /\ run' = [run EXCEPT !.parts = Tail(@)]
         ELSE UNCHANGED <<phase, run>>
  BY DEF Gemma2CpuRunLayer
<1>2. /\ Gemma2Call /\ Gemma2CpuBatches /\ Gemma2CpuRuns /\ calls \in Nat
      /\ DOMAIN mem = Gemma2Context \cup Gemma2Caller
  BY <1>1 DEF Gemma2CpuInv, Gemma2CpuEngine
<1>3. PICK done, b, from : Gemma2PartIs(done, b, from)
  BY <1>2, Gemma2PartKnown DEF Gemma2CpuRuns
<1>4. PICK T, ls, part, l, m : T = PartTokens /\ ls = PartLens /\ part = run.parts[1] /\ l = stage /\ m = mem
  OBVIOUS
<1>5. /\ Packs(T, calls, done, ls) /\ \A s \in DOMAIN ls : ls[s] # 0
      /\ part.tokens = Total(ls) /\ part.batch = Len(ls) /\ part.offsets = Offsets(ls) /\ part.first = done
  BY <1>3, <1>4 DEF Gemma2PartIs, PartOf
<1>6. /\ Gemma2CpuReady(opts, m, T, ls) /\ l \in 0 .. LayerCount + 1 /\ (l = 0 => Fed(m, part.from, T))
      /\ (l # 0 => Carries(m, "x", "x", l, T)) /\ (l \in Layers => Carries(m, "ple", "ple", 1, T))
  BY <1>2, <1>4 DEF Gemma2CpuRuns
<1>7. PICK w : /\ w = FoldLeft(Gemma2!Execution!Run, m, Gemma2!CpuEmbed(opts, part, l))
               /\ l # LayerCount + 1 =>
                      /\ Steady(m, w)
                      /\ Carries(w, "x", "x", l + 1, T) /\ Carries(w, "ple", "ple", 1, T)
               /\ l = LayerCount + 1 => Answers(m, w, "result", calls, done, ls)
  BY <1>5, <1>6, Gemma2CpuStage
<1>8. mem' = w
  BY <1>1, <1>4, <1>7
<1>9. EmbeddingsMatch'
  BY <1>1 DEF Gemma2CpuInv, EmbeddingsMatch
<1>10. LayerCount \in Nat /\ Layers = 1 .. LayerCount
  BY LayersAreCounted DEF Layers
<1>11. CASE l # LayerCount + 1
  <2>1. UNCHANGED <<phase, run>> /\ PartTokens' = T /\ PartLens' = ls
    BY <1>1, <1>4, <1>11, Gemma2PartSame
  <2>2. Steady(m, w) /\ Carries(w, "x", "x", l + 1, T) /\ Carries(w, "ple", "ple", 1, T)
    BY <1>7, <1>11
  <2>3. DOMAIN w = DOMAIN m /\ w["result"] = m["result"]
    <3>1. "result" \in DOMAIN m \cap Settled
      BY <1>2, <1>4 DEF Settled, Gemma2Caller
    <3> QED
      BY <2>2, <3>1 DEF Steady
  <2>4. Gemma2CpuReady(opts, w, T, ls)
    BY <1>6, <2>2, CpuReadySteady
  <2>5. l + 1 \in 0 .. LayerCount + 1 /\ l + 1 # 0
    BY <1>6, <1>10, <1>11
  <2>6. Gemma2CpuRuns'
    BY <1>1, <1>2, <1>4, <1>8, <2>1, <2>2, <2>4, <2>5 DEF Gemma2CpuRuns
  <2>7. Gemma2Due(run'.parts, mem', done, from)
    <3>1. Gemma2Due(run.parts, mem, done, from)
      BY <1>3 DEF Gemma2PartIs
    <3> QED
      BY <1>4, <1>8, <2>1, <2>3, <3>1, Gemma2DueKept
  <2>8. run' = [run EXCEPT !.parts = run'.parts]
    <3>1. PICK p, x : run = [parts |-> p, executable |-> x]
      BY <1>2 DEF Gemma2Call
    <3> QED
      BY <2>1, <3>1
  <2>9. Gemma2Call'
    BY <1>1, <1>2, <2>7, <2>8, Gemma2CallKept
  <2>10. Gemma2CpuBatches'
    BY <1>1, <1>2, <2>1 DEF Gemma2CpuBatches
  <2> QED
    BY <1>1, <1>2, <1>4, <1>8, <1>9, <2>1, <2>3, <2>6, <2>9, <2>10 DEF Gemma2CpuInv, Gemma2CpuEngine
<1>12. CASE l = LayerCount + 1
  <2>1. PICK p, x : run = [parts |-> p, executable |-> x]
    BY <1>2 DEF Gemma2Call
  <2>2. /\ phase' = "next" /\ run' = [parts |-> Tail(p), executable |-> x] /\ run.parts = p /\ run'.parts = Tail(p)
        /\ run' = [run EXCEPT !.parts = run'.parts]
    BY <1>1, <1>4, <1>12, <2>1
  <2>3. Answers(mem, mem', "result", calls, done, PartLens)
    BY <1>4, <1>7, <1>8, <1>12
  <2>4. PICK d : d = done + b
    OBVIOUS
  <2>5. Gemma2Due(run'.parts, mem', d, from)
    BY <1>3, <2>2, <2>3, <2>4, Gemma2PartAnswered
  <2>6. Gemma2Call'
    BY <1>1, <1>2, <2>2, <2>5, Gemma2CallKept
  <2>7. Gemma2CpuBatches'
    <3>1. PICK G : p \in Seq(G)
      BY <1>3, <2>2 DEF Gemma2PartIs, Gemma2Due, Gemma2Left, IsList
    <3>2. p # <<>>
      BY <1>2, <2>2 DEF Gemma2CpuRuns
    <3>3. \A i \in DOMAIN Tail(p) : i + 1 \in DOMAIN p /\ Tail(p)[i] = p[i + 1]
      BY <3>1, <3>2
    <3>4. opts.fast \/ \A i \in DOMAIN p : p[i].batch = 1
      BY <1>2, <2>2 DEF Gemma2CpuBatches
    <3>5. opts.fast \/ \A i \in DOMAIN Tail(p) : Tail(p)[i].batch = 1
      BY <3>3, <3>4
    <3> QED
      BY <1>1, <2>2, <3>5 DEF Gemma2CpuBatches
  <2>8. DOMAIN mem' = DOMAIN mem
    BY <2>3 DEF Answers
  <2> QED
    BY <1>1, <1>2, <1>9, <2>2, <2>6, <2>7, <2>8 DEF Gemma2CpuInv, Gemma2CpuEngine
<1> QED
  BY <1>11, <1>12

\* No step of the engine loses any of that.
LEMMA Gemma2CpuSteps ==
    ASSUME Gemma2CpuInv, opts.backend = "gemma2_cpu", [Next]_vars
    PROVE  Gemma2CpuInv'
<1>1. CASE UNCHANGED vars
  <2>1. UNCHANGED <<opts, mem, phase, stage, calls, lens, run, answer>>
    BY <1>1 DEF vars
  <2>2. PartTokens' = PartTokens /\ PartLens' = PartLens
    BY <2>1, Gemma2PartSame
  <2>3. Gemma2Call => Gemma2Call'
    BY <2>1 DEF Gemma2Call, Gemma2Due, Valid
  <2>4. Gemma2CpuRuns => Gemma2CpuRuns'
    BY <2>1, <2>2 DEF Gemma2CpuRuns
  <2> QED
    BY <2>1, <2>3, <2>4 DEF Gemma2CpuInv, Gemma2CpuEngine, Gemma2CpuBatches, EmbeddingsMatch
<1>2. CASE Reject
  BY <1>2, Gemma2CpuRejects
<1>3. CASE Gemma2CpuNext \/ Gemma2CpuFree
  BY <1>3, Gemma2CpuBegins, Gemma2CpuReturns, Gemma2CpuRefuses, Gemma2CpuStarted, Gemma2CpuRunsOn DEF Gemma2CpuNext
<1> QED
  BY <1>1, <1>2, <1>3 DEF Next, Over

-----------------------------------------------------------------------------
(* EmbeddingGemma 2 on CUDA: the engine *)

\* The present part, from its reservation to the copy of its result.
Gemma2CudaPart ==
    /\ phase # "next" => run.parts # <<>>
    /\ phase = "execute" => Gemma2CudaAt(mem, PartTokens, PartLens, run.parts[1].from, 0)
    /\ phase = "run" => /\ stage \in 0 .. LayerCount + 1
                        /\ Gemma2CudaAt(mem, PartTokens, PartLens, run.parts[1].from, stage)
    /\ phase = "copy" => Gemma2Means16(mem, calls, run.parts[1].first, PartLens)

\* What holds in every phase.
Gemma2CudaEngine ==
    /\ DOMAIN mem = Gemma2CudaNames
    /\ phase \in {"idle", "next", "upload", "execute", "run", "copy", "freed"}
    /\ phase \notin {"idle", "freed"} => Gemma2Call /\ Gemma2CudaPart

\* What the engine keeps: the rows of the present part, the answers so far, and the last one.
Gemma2CudaInv == calls \in Nat /\ Gemma2CudaEngine /\ EmbeddingsMatch

\* reserve allocates every buffer but the result.
LEMMA Gemma2Allocates ==
    ASSUME NEW m, "result" \in DOMAIN m, DOMAIN m \subseteq Gemma2CudaNames,
           NEW tokens, NEW batch, NEW w, w = Overlaid(Gemma2Buffers(tokens, batch), m)
    PROVE  DOMAIN w = Gemma2CudaNames /\ w["result"] = m["result"]
<1>1. PICK v : v = Gemma2Buffers(tokens, batch)
  OBVIOUS
<1>2. DOMAIN v = Gemma2TokenBuffers \cup {"offsets", "pooled"}
  BY <1>1 DEF Gemma2Buffers
<1>3. "result" \notin DOMAIN v
  BY <1>2 DEF Gemma2TokenBuffers, Gemma2Upload
<1>4. w = Overlaid(v, m)
  BY <1>1
<1> QED
  BY <1>2, <1>3, <1>4 DEF Overlaid, Gemma2CudaNames

\* A new engine has answered nothing.
LEMMA Gemma2CudaInit ==
    ASSUME Gemma2CudaCreate
    PROVE  Gemma2CudaInv
<1>1. PICK m : m = [result |-> Fresh(0)]
  OBVIOUS
<1>2. DOMAIN m = {"result"}
  BY <1>1
<1>3. mem = Overlaid(Gemma2Buffers(0, 0), m)
  BY <1>1 DEF Gemma2CudaCreate
<1>4. DOMAIN mem = Gemma2CudaNames
  <2>1. "result" \in DOMAIN m /\ DOMAIN m \subseteq Gemma2CudaNames
    BY <1>2 DEF Gemma2CudaNames
  <2> QED
    BY <1>3, <2>1, Gemma2Allocates
<1> QED
  BY <1>4 DEF Gemma2CudaCreate, Gemma2CudaInv, Gemma2CudaEngine, EmbeddingsMatch

\* Intact or not, an engine that an allocation failed in stays one.
LEMMA TornForever ==
    ASSUME Torn, [Next]_vars
    PROVE  Torn'
<1>1. opts.backend = "gemma2_cuda" /\ space.tokens.torn
  BY DEF Torn
<1>2. CASE UNCHANGED vars \/ Over \/ Reject
  <2>1. UNCHANGED <<opts, space>>
    BY <1>2 DEF vars, Over, Reject
  <2> QED
    BY <1>1, <2>1 DEF Torn
<1>3. CASE Gemma2Reserve
  <2>1. opts' = opts /\ (space' = space \/ space' = Gemma2Space(run.parts[1], Torn))
    BY <1>3 DEF Gemma2Reserve
  <2>2. CASE space' = space
    BY <1>1, <2>1, <2>2 DEF Torn
  <2>3. CASE space' = Gemma2Space(run.parts[1], Torn)
    <3>1. space'.tokens.torn = Torn
      BY <2>3 DEF Gemma2Space
    <3> QED
      BY <1>1, <2>1, <3>1 DEF Torn
  <2> QED
    BY <2>1, <2>2, <2>3
<1>4. CASE Gemma2ReserveFails
  BY <1>1, <1>4 DEF Gemma2ReserveFails, Gemma2Space, Torn
<1>5. CASE Gemma2CudaFree
  <2>1. opts' = opts /\ space' = Gemma2Nothing(Torn)
    BY <1>5 DEF Gemma2CudaFree
  <2>2. space'.tokens.torn
    BY <1>1, <2>1 DEF Gemma2Nothing, Torn
  <2> QED
    BY <1>1, <2>1, <2>2 DEF Torn
<1>6. CASE Gemma2CudaNext /\ ~Gemma2Reserve /\ ~Gemma2ReserveFails
  <2>1. UNCHANGED <<opts, space>>
    BY <1>6 DEF Gemma2CudaNext, Gemma2Begin, Gemma2UploadAll, Gemma2UploadFails, Gemma2Direct, Gemma2Capture,
                Gemma2Replay, Gemma2ExecuteFails, Gemma2RunLayer, Gemma2RunFails, Gemma2CopyResult, Gemma2Return
  <2> QED
    BY <1>1, <2>1 DEF Torn
<1> QED
  BY <1>1, <1>2, <1>3, <1>4, <1>5, <1>6 DEF Next

\* A step that ends the call, with its answer or without one.
LEMMA Gemma2CudaIdles ==
    ASSUME Gemma2CudaInv, phase' \in {"idle", "freed"}, DOMAIN mem' = DOMAIN mem, calls' \in Nat, EmbeddingsMatch'
    PROVE  Gemma2CudaInv'
BY DEF Gemma2CudaInv, Gemma2CudaEngine

\* A call begins with all of its parts left.
LEMMA Gemma2CudaBegins ==
    ASSUME Gemma2CudaInv, NEW ls \in Shapes, NEW from \in {"ids", "inputs"},
           NEW parts, Gemma2Left(parts, ls, 0, from), Gemma2Begin(ls, parts)
    PROVE  Gemma2CudaInv'
<1>1. ls \in Seq(Nat)
  BY ShapesAreLengths
<1>2. /\ Valid(ls) /\ calls' = calls + 1 /\ lens' = ls /\ run' = [parts |-> parts, executable |-> None]
      /\ phase' = "next" /\ answer' = None /\ DOMAIN mem' = DOMAIN mem
  BY DEF Gemma2Begin, Begin
<1>3. run'.parts = parts /\ run'.executable = None
  BY <1>2
<1>4. Gemma2Call'
  <2>1. Valid(lens)'
    BY <1>2 DEF Valid
  <2>2. Gemma2Due(run.parts, mem, 0, from)'
    BY <1>2, <1>3, Gemma2NothingDone DEF Gemma2Due
  <2>3. run' = [parts |-> run'.parts, executable |-> run'.executable]
    BY <1>2, <1>3
  <2> QED
    BY <1>1, <1>2, <2>1, <2>2, <2>3 DEF Gemma2Call
<1>5. calls' \in Nat
  BY <1>2 DEF Gemma2CudaInv
<1>6. Gemma2CudaPart'
  BY <1>2 DEF Gemma2CudaPart
<1> QED
  BY <1>2, <1>4, <1>5, <1>6 DEF Gemma2CudaInv, Gemma2CudaEngine, EmbeddingsMatch

\* When no part is left, the result is the answer.
LEMMA Gemma2CudaReturns ==
    ASSUME Gemma2CudaInv, Gemma2Return
    PROVE  Gemma2CudaInv'
<1>1. phase = "next" /\ run.parts = <<>> /\ phase' = "idle" /\ UNCHANGED <<mem, calls, lens>>
      /\ answer' = [s \in 1 .. Len(lens) |-> At(mem, "result", s - 1)]
  BY DEF Gemma2Return, Respond
<1>2. answer' = Reference(calls, lens)
  BY <1>1, Gemma2AllDone DEF Gemma2CudaInv, Gemma2CudaEngine
<1>3. EmbeddingsMatch'
  BY <1>1, <1>2 DEF EmbeddingsMatch
<1> QED
  BY <1>1, <1>3, Gemma2CudaIdles DEF Gemma2CudaInv

\* Uploads, launches and copies that fail, a call turned down, and the end of the engine.
LEMMA Gemma2CudaEndsCall ==
    ASSUME Gemma2CudaInv,
           Gemma2UploadFails \/ Gemma2ExecuteFails \/ Gemma2RunFails \/ Reject \/ Gemma2CudaFree
    PROVE  Gemma2CudaInv'
<1>1. CASE Gemma2UploadFails
  <2>1. phase' = "idle" /\ answer' = Failed /\ calls' = calls
    BY <1>1 DEF Gemma2UploadFails, Gemma2Refuse, Refuse
  <2>2. PICK k \in 0 .. Len(Gemma2Uploads) - 1 : mem' = Copied(mem, SubSeq(Gemma2Uploads, 1, k))
    BY <1>1 DEF Gemma2UploadFails
  <2>3. PICK s : s = Gemma2Uploads
    OBVIOUS
  <2>4. DOMAIN Copied(mem, SubSeq(s, 1, k)) = DOMAIN mem
    <3>1. PICK a, b, c : a = <<"lo", RowStarts>> /\ b = <<"hi", RowStops>> /\ c = <<"pos", RowPositions>>
      OBVIOUS
    <3>2. PICK d, e : d = <<"offsets", run.parts[1].offsets>> /\ e = <<run.parts[1].from, PartTokens>>
      OBVIOUS
    <3>3. s = <<a, b, c, d, e>>
      BY <2>3, <3>1, <3>2 DEF Gemma2Uploads
    <3>4. k \in 0 .. Len(s) - 1
      BY <2>3
    <3>5. PICK m : m = mem
      OBVIOUS
    <3>6. PICK G : G = {a, b, c, d, e}
      OBVIOUS
    <3>7. s \in Seq(G)
      BY <3>3, <3>6
    <3>8. PICK t : t = SubSeq(s, 1, k)
      OBVIOUS
    <3>9. t \in Seq(G)
      BY <3>4, <3>7, <3>8
    <3>10. DOMAIN Copied(m, t) = DOMAIN m
      BY <3>9, CopiesKeep
    <3> QED
      BY <3>5, <3>8, <3>10
  <2> QED
    BY <2>1, <2>2, <2>3, <2>4, Gemma2CudaIdles DEF Gemma2CudaInv, EmbeddingsMatch
<1>2. CASE Gemma2ExecuteFails \/ Gemma2RunFails
  <2>1. phase' = "idle" /\ answer' = Failed /\ mem' = mem /\ calls' = calls
    BY <1>2 DEF Gemma2ExecuteFails, Gemma2RunFails, Gemma2Refuse, Refuse
  <2> QED
    BY <2>1, Gemma2CudaIdles DEF Gemma2CudaInv, EmbeddingsMatch
<1>3. CASE Reject
  <2>1. phase' = "idle" /\ answer' = Failed /\ mem' = mem /\ calls' = calls + 1
    BY <1>3 DEF Reject
  <2> QED
    BY <2>1, Gemma2CudaIdles DEF Gemma2CudaInv, EmbeddingsMatch
<1>4. CASE Gemma2CudaFree
  <2>1. phase' = "freed" /\ UNCHANGED <<answer, calls, lens>> /\ mem' = Overlaid(Gemma2Buffers(0, 0), mem)
    BY <1>4 DEF Gemma2CudaFree
  <2>2. EmbeddingsMatch'
    BY <2>1 DEF Gemma2CudaInv, EmbeddingsMatch
  <2>3. DOMAIN mem' = DOMAIN mem
    <3>1. DOMAIN mem = Gemma2CudaNames
      BY DEF Gemma2CudaInv, Gemma2CudaEngine
    <3>2. "result" \in DOMAIN mem /\ DOMAIN mem \subseteq Gemma2CudaNames
      BY <3>1 DEF Gemma2CudaNames
    <3> QED
      BY <2>1, <3>1, <3>2, Gemma2Allocates
  <2> QED
    BY <2>1, <2>2, <2>3, Gemma2CudaIdles DEF Gemma2CudaInv
<1> QED
  BY <1>1, <1>2, <1>3, <1>4

\* What a call is stays, whatever the kernels are called with.
LEMMA Gemma2CallOn ==
    ASSUME Gemma2Call, UNCHANGED <<calls, lens>>, run' = [parts |-> run'.parts, executable |-> run'.executable],
           NEW done, NEW from, Gemma2Due(run'.parts, mem', done, from)
    PROVE  Gemma2Call'
<1>1. Gemma2Due(run.parts, mem, done, from)'
  BY DEF Gemma2Due
<1>2. Valid(lens)' /\ lens' \in Seq(Nat)
  BY DEF Gemma2Call, Valid
<1> QED
  BY <1>1, <1>2 DEF Gemma2Call

\* A step of the present part that leaves the result alone.
LEMMA Gemma2PartGoesOn ==
    ASSUME Gemma2CudaInv, phase \notin {"idle", "freed"}, UNCHANGED <<calls, lens, answer>>,
           run' = [parts |-> run.parts, executable |-> run'.executable],
           DOMAIN mem' = DOMAIN mem, mem'["result"] = mem["result"],
           phase' \in {"upload", "execute", "run", "copy"}, Gemma2CudaPart'
    PROVE  Gemma2CudaInv'
<1>1. Gemma2Call /\ calls \in Nat /\ EmbeddingsMatch /\ DOMAIN mem = Gemma2CudaNames
  BY DEF Gemma2CudaInv, Gemma2CudaEngine
<1>2. PICK done, from : Gemma2Due(run.parts, mem, done, from)
  BY <1>1 DEF Gemma2Call
<1>3. PICK p, x : p = run.parts /\ x = run'.executable
  OBVIOUS
<1>4. run' = [parts |-> p, executable |-> x]
  BY <1>3
<1>5. run'.parts = p /\ run' = [parts |-> run'.parts, executable |-> run'.executable]
  BY <1>4
<1>6. Gemma2Due(run'.parts, mem', done, from)
  BY <1>2, <1>3, <1>5, Gemma2DueKept
<1>7. Gemma2Call'
  BY <1>1, <1>5, <1>6, Gemma2CallOn
<1>8. EmbeddingsMatch'
  BY <1>1 DEF EmbeddingsMatch
<1> QED
  BY <1>1, <1>7, <1>8 DEF Gemma2CudaInv, Gemma2CudaEngine

\* The rows and the lengths of a part do not depend on the graph that runs.
LEMMA Gemma2PartStays ==
    ASSUME UNCHANGED <<calls, lens>>, run'.parts = run.parts
    PROVE  PartTokens' = PartTokens /\ PartLens' = PartLens
BY DEF PartTokens, PartLens, PartRows, FirstRow

\* A new workspace keeps what is done of the call.
LEMMA Gemma2CudaReserves ==
    ASSUME Gemma2CudaInv, Gemma2Reserve
    PROVE  Gemma2CudaInv'
<1>1. /\ phase = "next" /\ phase' = "upload" /\ run.parts # <<>>
      /\ UNCHANGED <<calls, lens, run, answer>>
      /\ \/ mem' = mem
         \/ mem' = Overlaid(Gemma2Buffers(space'.tokens.capacity, space'.batch.capacity), mem)
  BY DEF Gemma2Reserve, Gemma2Grown
<1>2. DOMAIN mem = Gemma2CudaNames /\ Gemma2Call
  BY <1>1 DEF Gemma2CudaInv, Gemma2CudaEngine
<1>3. DOMAIN mem' = DOMAIN mem /\ mem'["result"] = mem["result"]
  <2>1. "result" \in DOMAIN mem /\ DOMAIN mem \subseteq Gemma2CudaNames
    BY <1>2 DEF Gemma2CudaNames
  <2>2. PICK t, b : t = space'.tokens.capacity /\ b = space'.batch.capacity
    OBVIOUS
  <2>3. PICK m, w : m = mem /\ w = mem'
    OBVIOUS
  <2>4. CASE w = m
    BY <2>3, <2>4
  <2>5. CASE w = Overlaid(Gemma2Buffers(t, b), m)
    <3>1. "result" \in DOMAIN m /\ DOMAIN m \subseteq Gemma2CudaNames
      BY <2>1, <2>3
    <3>2. DOMAIN w = Gemma2CudaNames /\ w["result"] = m["result"]
      BY <2>5, <3>1, Gemma2Allocates
    <3> QED
      BY <1>2, <2>3, <3>2
  <2> QED
    BY <1>1, <2>2, <2>3, <2>4, <2>5
<1>4. run' = [parts |-> run.parts, executable |-> run'.executable]
  <2>1. PICK p, x : run = [parts |-> p, executable |-> x]
    BY <1>2 DEF Gemma2Call
  <2>2. run' = [parts |-> p, executable |-> x]
    BY <1>1, <2>1
  <2> QED
    BY <2>1, <2>2
<1>5. Gemma2CudaPart'
  BY <1>1 DEF Gemma2CudaPart
<1> QED
  BY <1>1, <1>3, <1>4, <1>5, Gemma2PartGoesOn

\* After its copies a part has its tokens, and where its sequences are.
LEMMA Gemma2CudaUploads ==
    ASSUME Gemma2CudaInv, ~Torn, Gemma2UploadAll
    PROVE  Gemma2CudaInv'
<1>1. /\ phase = "upload" /\ phase' = "execute" /\ mem' = Copied(mem, Gemma2Uploads)
      /\ UNCHANGED <<calls, lens, run, answer>>
  BY DEF Gemma2UploadAll, Gemma2Leaves
<1>2. DOMAIN mem = Gemma2CudaNames /\ Gemma2Call /\ calls \in Nat /\ run.parts # <<>>
  BY <1>1 DEF Gemma2CudaInv, Gemma2CudaEngine, Gemma2CudaPart
<1>3. PICK done, n, from : Gemma2PartIs(done, n, from)
  BY <1>2, Gemma2PartKnown
<1>4. PICK m : m = mem
  OBVIOUS
<1>5. PICK w : /\ w = Copied(m, Gemma2Uploads) /\ w["result"] = m["result"]
               /\ Gemma2CudaReady(w, PartTokens, PartLens) /\ Fed(w, from, PartTokens)
  BY <1>2, <1>3, <1>4, UploadsReady
<1>6. mem' = w
  BY <1>1, <1>4, <1>5
<1>7. run = [parts |-> run.parts, executable |-> run.executable]
  BY <1>2 DEF Gemma2Call
<1>8. PICK T, ls : T = PartTokens /\ ls = PartLens
  OBVIOUS
<1>9. PartTokens' = T /\ PartLens' = ls /\ run'.parts = run.parts
  BY <1>1, <1>8, Gemma2PartStays
<1>10. run.parts[1].from = from
  BY <1>3 DEF Gemma2PartIs, PartOf
<1>11. 0 \notin Layers /\ 0 # LayerCount + 1
  BY LayersAreCounted DEF Layers
<1>12. Gemma2CudaAt(w, T, ls, from, 0)
  BY <1>5, <1>8, <1>11 DEF Gemma2CudaAt
<1>13. Gemma2CudaPart'
  <2>1. Gemma2CudaAt(mem', PartTokens', PartLens', run'.parts[1].from, 0)
    BY <1>6, <1>9, <1>10, <1>12
  <2> QED
    BY <1>1, <1>2, <2>1 DEF Gemma2CudaPart
<1>14. DOMAIN mem' = DOMAIN mem /\ mem'["result"] = mem["result"]
  BY <1>2, <1>4, <1>5, <1>6 DEF Gemma2CudaReady
<1>15. run' = [parts |-> run.parts, executable |-> run'.executable]
  BY <1>1, <1>7
<1> QED
  BY <1>1, <1>13, <1>14, <1>15, Gemma2PartGoesOn

\* Captured, replayed or neither, the kernels begin with the embedding.
LEMMA Gemma2CudaLaunches ==
    ASSUME Gemma2CudaInv, Gemma2Direct \/ Gemma2Capture \/ Gemma2Replay
    PROVE  Gemma2CudaInv'
<1>1. /\ phase = "execute" /\ phase' = "run" /\ stage' = 0
      /\ UNCHANGED <<mem, calls, lens, answer>>
      /\ \E x : run' = [run EXCEPT !.executable = x]
  BY DEF Gemma2Direct, Gemma2Capture, Gemma2Replay, Gemma2Launching
<1>2. /\ Gemma2Call /\ run.parts # <<>>
      /\ Gemma2CudaAt(mem, PartTokens, PartLens, run.parts[1].from, 0)
  BY <1>1 DEF Gemma2CudaInv, Gemma2CudaEngine, Gemma2CudaPart
<1>3. PICK p, y : run = [parts |-> p, executable |-> y]
  BY <1>2 DEF Gemma2Call
<1>4. PICK x : run' = [run EXCEPT !.executable = x]
  BY <1>1
<1>5. run' = [parts |-> p, executable |-> x] /\ run.parts = p
  BY <1>3, <1>4
<1>6. run'.parts = run.parts /\ run' = [parts |-> run.parts, executable |-> run'.executable]
  BY <1>5
<1>7. PartTokens' = PartTokens /\ PartLens' = PartLens
  BY <1>1, <1>6, Gemma2PartStays
<1>8. 0 \in 0 .. LayerCount + 1
  BY LayersAreCounted
<1>9. Gemma2CudaPart'
  BY <1>1, <1>2, <1>6, <1>7, <1>8 DEF Gemma2CudaPart
<1> QED
  BY <1>1, <1>6, <1>9, Gemma2PartGoesOn

\* A stage of the kernels, which were called for this part and write to the workspace
\* that is there.
LEMMA Gemma2CudaRunsOn ==
    ASSUME Gemma2CudaInv, ~Torn, KernelsCurrent, opts.backend = "gemma2_cuda", Gemma2RunLayer
    PROVE  Gemma2CudaInv'
<1>1. /\ phase = "run" /\ stage' = stage + 1 /\ UNCHANGED <<opts, calls, lens, run, answer>>
      /\ phase' = IF stage = LayerCount + 1 THEN "copy" ELSE "run"
  BY DEF Gemma2RunLayer
<1>2. run.executable = Gemma2Present
  BY <1>1 DEF KernelsCurrent
<1>3. PICK b : b = Gemma2Key
  OBVIOUS
<1>4. run.executable.args = b /\ run.executable.made = Addresses
  BY <1>2, <1>3 DEF Gemma2Present
<1>5. mem' = FoldLeft(Gemma2!Execution!Run, mem, Gemma2!CudaForward(opts, b, stage))
  BY <1>4 DEF Gemma2RunLayer, Gemma2Leaves
<1>6. /\ DOMAIN mem = Gemma2CudaNames /\ Gemma2Call /\ calls \in Nat /\ run.parts # <<>>
      /\ stage \in 0 .. LayerCount + 1
      /\ Gemma2CudaAt(mem, PartTokens, PartLens, run.parts[1].from, stage)
  BY <1>1 DEF Gemma2CudaInv, Gemma2CudaEngine, Gemma2CudaPart
<1>7. PICK done, n, from : Gemma2PartIs(done, n, from)
  BY <1>6, Gemma2PartKnown
<1>8. PICK T, ls, l, m, o : T = PartTokens /\ ls = PartLens /\ l = stage /\ m = mem /\ o = opts
  OBVIOUS
<1>9. /\ Packs(T, calls, done, ls) /\ \A s \in DOMAIN ls : ls[s] # 0
      /\ b.tokens = Total(ls) /\ b.batch = Len(ls) /\ b.from = from
      /\ run.parts[1].from = from /\ run.parts[1].first = done
  BY <1>3, <1>7, <1>8 DEF Gemma2PartIs, PartOf, Gemma2Key
<1>10. l \in 0 .. LayerCount + 1 /\ Gemma2CudaAt(m, T, ls, b.from, l)
  BY <1>6, <1>8, <1>9
<1>11. PICK w : /\ w = FoldLeft(Gemma2!Execution!Run, m, Gemma2!CudaForward(o, b, l)) /\ Steady(m, w)
                /\ l # LayerCount + 1 => Gemma2CudaAt(w, T, ls, b.from, l + 1)
                /\ l = LayerCount + 1 => Gemma2Means16(w, calls, done, ls)
  BY <1>9, <1>10, Gemma2CudaStage
<1>12. mem' = w
  BY <1>5, <1>8, <1>11
<1>13. DOMAIN mem' = DOMAIN mem /\ mem'["result"] = mem["result"]
  <2>1. "result" \in DOMAIN m \cap Settled
    BY <1>6, <1>8 DEF Gemma2CudaNames, Settled
  <2> QED
    BY <1>8, <1>11, <1>12, <2>1 DEF Steady
<1>14. PartTokens' = T /\ PartLens' = ls /\ run' = run
  BY <1>1, <1>8, Gemma2PartStays
<1>15. Gemma2CudaPart'
  <2>1. CASE l = LayerCount + 1
    <3>1. phase' = "copy"
      BY <1>1, <1>8, <2>1
    <3>2. Gemma2Means16(mem', calls', run'.parts[1].first, PartLens')
      BY <1>1, <1>9, <1>11, <1>12, <1>14, <2>1
    <3> QED
      BY <1>6, <1>14, <3>1, <3>2 DEF Gemma2CudaPart
  <2>2. CASE l # LayerCount + 1
    <3>1. phase' = "run"
      BY <1>1, <1>8, <2>2
    <3>2. stage' = l + 1 /\ l + 1 \in 0 .. LayerCount + 1
      BY <1>1, <1>8, <1>10, <2>2, LayersAreCounted
    <3>3. Gemma2CudaAt(mem', PartTokens', PartLens', run'.parts[1].from, stage')
      BY <1>9, <1>11, <1>12, <1>14, <2>2, <3>2
    <3> QED
      BY <1>6, <1>14, <3>1, <3>2, <3>3 DEF Gemma2CudaPart
  <2> QED
    BY <2>1, <2>2
<1>16. run' = [parts |-> run.parts, executable |-> run'.executable]
  BY <1>6, <1>14 DEF Gemma2Call
<1>17. phase' \in {"upload", "execute", "run", "copy"}
  BY <1>1
<1> QED
  BY <1>1, <1>13, <1>15, <1>16, <1>17, Gemma2PartGoesOn

\* The copy of the means is the answer to the part.
LEMMA Gemma2ResultCopied ==
    ASSUME NEW m, "result" \in DOMAIN m, NEW call, NEW first \in Nat, NEW ls, Len(ls) \in Nat,
           Gemma2Means16(m, call, first, ls), NEW n, n = Len(ls),
           NEW w, w = Write(m, "result", [s \in first .. first + n - 1 |-> At(m, "pooled", s - first)])
    PROVE  Answers(m, w, "result", call, first, ls)
<1>1. PICK D : D = first .. first + n - 1
  OBVIOUS
<1>2. PICK F : F = [s \in D |-> At(m, "pooled", s - first)]
  OBVIOUS
<1>3. DOMAIN F = D /\ \A s \in D : F[s] = At(m, "pooled", s - first)
  BY <1>2
<1>4. w = Write(m, "result", F)
  BY <1>1, <1>2
<1>5. /\ Keeps(m, w, "result") /\ \A r \in D : At(w, "result", r) = F[r]
      /\ \A r : r \notin D => At(w, "result", r) = At(m, "result", r)
  BY <1>3, <1>4, Written
<1>6. ASSUME NEW s \in 0 .. n - 1
      PROVE  At(w, "result", first + s) = Embedding(call, first + s, ls[s + 1])
  <2>1. PICK r : r = first + s /\ r \in D /\ r - first = s
    BY <1>1
  <2>2. At(w, "result", r) = At(m, "pooled", s)
    BY <1>3, <1>5, <2>1
  <2>3. At(m, "pooled", s) = Embedding(call, first + s, ls[s + 1])
    BY <1>6 DEF Gemma2Means16
  <2> QED
    BY <2>1, <2>2, <2>3
<1>7. ASSUME NEW r, \A s \in 0 .. n - 1 : r # first + s
      PROVE  At(w, "result", r) = At(m, "result", r)
  <2>1. r \notin D
    <3> SUFFICES ASSUME r \in D PROVE FALSE
      OBVIOUS
    <3>1. PICK s : s = r - first /\ s \in 0 .. n - 1 /\ r = first + s
      BY <1>1
    <3> QED
      BY <1>7, <3>1
  <2> QED
    BY <1>5, <2>1
<1>8. DOMAIN w = DOMAIN m
  BY <1>5 DEF Keeps
<1> QED
  BY <1>6, <1>7, <1>8 DEF Answers

\* The means of a part are answers to the call.
LEMMA Gemma2CudaCopies ==
    ASSUME Gemma2CudaInv, Gemma2CopyResult
    PROVE  Gemma2CudaInv'
<1>1. phase = "copy" /\ phase' = "next" /\ UNCHANGED <<calls, lens, answer>> /\ run' = [run EXCEPT !.parts = Tail(@)]
  BY DEF Gemma2CopyResult
<1>2. /\ DOMAIN mem = Gemma2CudaNames /\ Gemma2Call /\ calls \in Nat /\ run.parts # <<>> /\ EmbeddingsMatch
      /\ Gemma2Means16(mem, calls, run.parts[1].first, PartLens)
  BY <1>1 DEF Gemma2CudaInv, Gemma2CudaEngine, Gemma2CudaPart
<1>3. PICK done, n, from : Gemma2PartIs(done, n, from)
  BY <1>2, Gemma2PartKnown
<1>4. PICK m, w, call, ls : m = mem /\ w = mem' /\ call = calls /\ ls = PartLens
  OBVIOUS
<1>5. /\ run.parts[1].first = done /\ run.parts[1].batch = n /\ Len(ls) = n /\ n \in Nat /\ done \in Nat
  BY <1>3, <1>4 DEF Gemma2PartIs, PartOf
<1>6. w = Write(m, "result", [s \in done .. done + n - 1 |-> At(m, "pooled", s - done)])
  BY <1>4, <1>5 DEF Gemma2CopyResult
<1>7. "result" \in DOMAIN m
  BY <1>2, <1>4 DEF Gemma2CudaNames
<1>8. Gemma2Means16(m, call, done, ls) /\ Len(ls) \in Nat
  BY <1>2, <1>4, <1>5
<1>9. Answers(m, w, "result", call, done, ls)
  BY <1>5, <1>6, <1>7, <1>8, Gemma2ResultCopied
<1>10. Answers(mem, w, "result", calls, done, PartLens)
  BY <1>4, <1>9
<1>11. Gemma2Due(Tail(run.parts), w, done + n, from)
  BY <1>3, <1>10, Gemma2PartAnswered
<1>12. PICK p, x : run = [parts |-> p, executable |-> x]
  BY <1>2 DEF Gemma2Call
<1>13. run' = [parts |-> Tail(p), executable |-> x] /\ run.parts = p
  BY <1>1, <1>12
<1>14. run'.parts = Tail(run.parts) /\ run' = [parts |-> run'.parts, executable |-> run'.executable]
  BY <1>13
<1>15. PICK d : d = done + n
  OBVIOUS
<1>16. Gemma2Due(run'.parts, mem', d, from)
  BY <1>4, <1>11, <1>14, <1>15
<1>17. Gemma2Call'
  BY <1>1, <1>2, <1>14, <1>16, Gemma2CallOn
<1>18. DOMAIN mem' = DOMAIN mem
  BY <1>4, <1>9 DEF Answers
<1>19. Gemma2CudaPart' /\ EmbeddingsMatch'
  BY <1>1, <1>2 DEF Gemma2CudaPart, EmbeddingsMatch
<1> QED
  BY <1>1, <1>2, <1>17, <1>18, <1>19 DEF Gemma2CudaInv, Gemma2CudaEngine

\* No step of the engine loses any of that.
LEMMA Gemma2CudaSteps ==
    ASSUME Gemma2CudaInv, ~Torn, KernelsCurrent, opts.backend = "gemma2_cuda", [Next]_vars
    PROVE  Torn' \/ Gemma2CudaInv'
<1>1. CASE UNCHANGED vars
  <2>1. UNCHANGED <<mem, phase, stage, calls, lens, run, answer>>
    BY <1>1 DEF vars
  <2>2. PartTokens' = PartTokens /\ PartLens' = PartLens
    BY <2>1, Gemma2PartSame
  <2>3. Gemma2Call => Gemma2Call'
    BY <2>1 DEF Gemma2Call, Gemma2Due, Valid
  <2>4. Gemma2CudaPart => Gemma2CudaPart'
    BY <2>1, <2>2 DEF Gemma2CudaPart
  <2> QED
    BY <2>1, <2>3, <2>4 DEF Gemma2CudaInv, Gemma2CudaEngine, EmbeddingsMatch
<1>2. CASE Reject \/ Gemma2CudaFree
  BY <1>2, Gemma2CudaEndsCall
<1>3. CASE \E ls \in Shapes : Gemma2Begin(ls, WaveParts(ls))
  <2>1. PICK ls \in Shapes : Gemma2Begin(ls, WaveParts(ls))
    BY <1>3
  <2>2. PICK parts : parts = WaveParts(ls)
    OBVIOUS
  <2>3. Gemma2Left(parts, ls, 0, "ids") /\ Gemma2Begin(ls, parts)
    BY <2>1, <2>2, WavesLeft, ShapesAreLengths
  <2> QED
    BY <2>3, Gemma2CudaBegins
<1>4. CASE \E ls \in Shapes : Len(ls) = 1 /\ Gemma2Begin(ls, <<PartOf(ls, "inputs", 0)>>)
  <2>1. PICK ls \in Shapes : Gemma2Begin(ls, <<PartOf(ls, "inputs", 0)>>)
    BY <1>4
  <2>2. PICK parts : parts = <<PartOf(ls, "inputs", 0)>>
    OBVIOUS
  <2>3. Gemma2Left(parts, ls, 0, "inputs") /\ Gemma2Begin(ls, parts)
    BY <2>1, <2>2, WholeLeft, ShapesAreLengths
  <2> QED
    BY <2>3, Gemma2CudaBegins
<1>5. CASE Gemma2CudaNext /\ ~(\E ls \in Shapes : Gemma2Begin(ls, WaveParts(ls)))
           /\ ~(\E ls \in Shapes : Len(ls) = 1 /\ Gemma2Begin(ls, <<PartOf(ls, "inputs", 0)>>))
           /\ ~Gemma2ReserveFails
  BY <1>5, Gemma2CudaReserves, Gemma2CudaUploads, Gemma2CudaEndsCall, Gemma2CudaLaunches, Gemma2CudaRunsOn,
     Gemma2CudaCopies, Gemma2CudaReturns DEF Gemma2CudaNext
<1>6. CASE Gemma2ReserveFails
  BY <1>6 DEF Gemma2ReserveFails, Gemma2Space, Torn
<1>7. Gemma2CudaNext \/ Gemma2CudaFree \/ Reject \/ UNCHANGED vars
  BY DEF Next, Over
<1> QED
  BY <1>1, <1>2, <1>3, <1>4, <1>5, <1>6, <1>7

-----------------------------------------------------------------------------
(* EmbeddingGemma 2: what its engines answer *)

\* An engine has its options for life.
LEMMA OptionsStay ==
    ASSUME [Next]_vars
    PROVE  opts' = opts
<1>1. CASE UNCHANGED vars \/ Over \/ Reject
  BY <1>1 DEF vars, Over, Reject
<1>2. CASE CudaNext \/ CudaFree
  BY <1>2 DEF CudaNext, CudaFree, CudaPrepare, CudaTokensRefused, CudaBatchRefused, CudaReserve, CudaUpload,
              CudaUploadFails, CudaFirstLaunch, CudaCapture, CudaReplay, CudaExecuteFails, CudaRunLayer,
              CudaRunFails, CudaCopyResult
<1>3. CASE XpuNext \/ XpuFree
  BY <1>3 DEF XpuNext, XpuFree, XpuPrepare, XpuAllocationFails, XpuReserve, XpuUpload, XpuUploadFails,
              XpuLaunch, XpuRecord, XpuRecordRefused, XpuReplay, XpuExecuteFails, XpuRunLayer, XpuRunFails,
              XpuCopyResult
<1>4. CASE CpuNext \/ CpuFree
  BY <1>4 DEF CpuNext, CpuFree, CpuBegin, CpuReserve, CpuStart, CpuRunLayer, CpuReturn
<1>5. CASE Gemma2CudaNext \/ Gemma2CudaFree
  BY <1>5 DEF Gemma2CudaNext, Gemma2CudaFree, Gemma2Begin, Gemma2Reserve, Gemma2UploadAll, Gemma2UploadFails,
              Gemma2Direct, Gemma2Capture, Gemma2Replay, Gemma2ExecuteFails, Gemma2RunLayer, Gemma2RunFails,
              Gemma2CopyResult, Gemma2Return, Gemma2ReserveFails
<1>6. CASE Gemma2CpuNext \/ Gemma2CpuFree
  BY <1>6 DEF Gemma2CpuNext, Gemma2CpuFree, Gemma2Begin, Gemma2CpuRefuse, Gemma2CpuStart, Gemma2CpuRunLayer,
              Gemma2Return
<1> QED
  BY <1>1, <1>2, <1>3, <1>4, <1>5, <1>6 DEF Next

\* What the engines of EmbeddingGemma 2 keep.
Gemma2Inv ==
    /\ opts.backend = "gemma2_cpu" => Gemma2CpuInv
    /\ opts.backend = "gemma2_cuda" => Torn \/ Gemma2CudaInv

\* A new engine keeps all of it.
LEMMA Gemma2Init ==
    ASSUME Init
    PROVE  Gemma2Inv
BY Gemma2CpuInit, Gemma2CudaInit DEF Init, Gemma2Inv

\* And so does every step.
LEMMA Gemma2Step ==
    ASSUME GraphInv, Gemma2Inv, [Next]_vars
    PROVE  Gemma2Inv'
<1>1. opts' = opts
  BY OptionsStay
<1>2. CASE opts.backend = "gemma2_cpu"
  <2>1. Gemma2CpuInv
    BY <1>2 DEF Gemma2Inv
  <2>2. Gemma2CpuInv'
    BY <1>2, <2>1, Gemma2CpuSteps
  <2>3. opts'.backend # "gemma2_cuda"
    BY <1>1, <1>2
  <2> QED
    BY <2>2, <2>3 DEF Gemma2Inv
<1>3. CASE opts.backend = "gemma2_cuda"
  <2>1. (Torn \/ Gemma2CudaInv) /\ KernelsCurrent
    BY <1>3 DEF Gemma2Inv, GraphInv
  <2>2. Torn' \/ Gemma2CudaInv'
    BY <1>3, <2>1, Gemma2CudaSteps, TornForever
  <2>3. opts'.backend # "gemma2_cpu"
    BY <1>1, <1>3
  <2> QED
    BY <2>2, <2>3 DEF Gemma2Inv
<1>4. CASE opts.backend \notin {"gemma2_cpu", "gemma2_cuda"}
  <2>1. opts'.backend \notin {"gemma2_cpu", "gemma2_cuda"}
    BY <1>1, <1>4
  <2> QED
    BY <2>1 DEF Gemma2Inv
<1> QED
  BY <1>2, <1>3, <1>4

\* Every call of an EmbeddingGemma 2 engine, on the CPU or on CUDA, is refused or answered
\* with the embeddings of its own sequences: for every number of layers, window, option and
\* shape, however the call is split into waves, whichever workspace and graphs earlier calls
\* left behind, and whatever copies, kernels, captures and launches failed before.  The one
\* exception is a CUDA engine that an allocation failed in: backends_exceptions shows what
\* becomes of one.
THEOREM Gemma2Answers == Spec => [](opts.backend \in {"gemma2_cpu", "gemma2_cuda"} => SoundCallsMatch)
<1>1. Init => Gemma2Inv
  BY Gemma2Init
<1>2. GraphInv /\ Gemma2Inv /\ [Next]_vars => Gemma2Inv'
  BY Gemma2Step
<1>3. Gemma2Inv => (opts.backend \in {"gemma2_cpu", "gemma2_cuda"} => SoundCallsMatch)
  BY DEF Gemma2Inv, Gemma2CpuInv, Gemma2CudaInv, SoundCallsMatch
<1> QED
  BY <1>1, <1>2, <1>3, GraphInvariant, PTL DEF Spec

===============================================================================
