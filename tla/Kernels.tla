------------------------------- MODULE Kernels -------------------------------
(***************************************************************************)
(* What the launches of a forward pass do to the buffers, one after the     *)
(* other, for a backend whose attention kernels read KeysOf, and the model   *)
(* that the other constants describe.                                       *)
(***************************************************************************)
EXTENDS RowMemory

\* The rows of K and V that every query row of an attention kernel reads:
\* [query rows -> sets of key rows].
CONSTANT KeysOf(_, _)

\* What a weight, a rotation, attention and pooling make of the rows they read.
CONSTANTS RowResult(_, _, _), Rotated(_, _, _, _, _), Attended(_, _, _), Pooled(_)

\* One launch.
Run(mem, g) ==
    CASE g.op = "map" ->
            Write(mem, g.to, [r \in g.rows |->
                IF g.whole THEN RowResult(g.f, g.l, [i \in DOMAIN g.from |-> At(mem, g.from[i], r)])
                ELSE Garbage])
      [] g.op = "embed" ->
            Write(mem, "x", [r \in g.rows |->
                IF At(mem, g.from, r) = Garbage THEN Garbage ELSE Quantity("x", 1, At(mem, g.from, r))])
      [] g.op = "rotate" ->
            Write(mem, g.to, [r \in g.rows |->
                LET position == IF g.positions = "row" THEN r ELSE At(mem, g.positions, r)
                IN  Rotated(g.f, g.l, At(mem, g.from, r), position, g.swa)])
      [] g.op = "attend" ->
            LET keys == KeysOf(mem, g)
            IN  Write(mem, g.to, [r \in DOMAIN keys |->
                    Attended(g.l, At(mem, g.q, r),
                             {<<At(mem, g.k, k), At(mem, g.v, k)>> : k \in keys[r]})])
      [] g.op = "pool" ->
            Write(mem, g.to, [s \in g.rows |->
                Pooled({At(mem, g.from, r) : r \in mem.offsets[s] .. mem.offsets[s + 1] - 1})])
      [] g.op = "mean" ->
            Write(mem, "result", [s \in {g.first + i : i \in DOMAIN g.spans} |->
                Pooled({At(mem, g.from, r) : r \in g.spans[s - g.first]})])

=============================================================================
