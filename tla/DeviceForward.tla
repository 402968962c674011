---------------------------- MODULE DeviceForward ----------------------------
(***************************************************************************)
(* What the kernels of the CUDA backend (src/src/engine_cuda.cu) and of the    *)
(* XPU backend (src/src/engine_xpu.cpp) have in common: grids of warps or      *)
(* subgroups, combined projections, and attention by tiles of queries.      *)
(* Every launch writes whole rows; where a kernel splits a row over warps,   *)
(* the geometry says which rows get all their columns.                      *)
(***************************************************************************)
EXTENDS ForwardGraph, SequencesExt

CONSTANT WarpsPerBlock      \* kWarpsPerBlock, kSubgroupsPerWorkgroup: rows of a block

-----------------------------------------------------------------------------
(* Launch geometry *)

Blocks(tasks) == (tasks + WarpsPerBlock - 1) \div WarpsPerBlock

\* The rows a grid for n rows reaches; the tokens all of whose tasks a grid for
\* n tokens of so many tasks reaches.
GridRows(n) == {r \in 0 .. n - 1 : r < Blocks(n) * WarpsPerBlock}
TaskRows(n, width) == {r \in 0 .. n - 1 : (r + 1) * width <= Blocks(n * width) * WarpsPerBlock}

\* Tasks of a token in the kernels that split a row over warps.
Heads == 3
Width == 5

-----------------------------------------------------------------------------
(* Projections *)

CombinedQkv == <<"combined_q", "combined_k", "combined_v">>
CombinedUpGate == <<"combined_up", "combined_gate">>

ProjectAll(weights, l, from, tos, rows) ==
    [i \in DOMAIN weights |-> Map(weights[i], l, <<from>>, tos[i], rows)]

Rotations(l, froms, tos, rows) ==
    <<Rotate("attn_q_norm", l, froms[1], tos[1], IsSwa(l), rows),
      Rotate("attn_k_norm", l, froms[2], tos[2], IsSwa(l), rows)>>

-----------------------------------------------------------------------------
(* Attention.  The kernels find the sequences of the batch in device arrays, *)
(* the paths with a GEMM in the offsets of the host.                        *)

Half(window) == window \div 2

FirstKey(query, start, window) ==
    IF window # 0 /\ query > start + Half(window) THEN query - Half(window) ELSE start
StopKey(query, stop, window) ==
    IF window # 0 THEN Min({stop, query + Half(window) + 1}) ELSE stop

\* A warp per query and head, for the sequences below a limit.
PackedKeys(m, arg) ==
    LET start(q) == m.offsets[m.sequence_ids[q]]
        stop(q) == m.offsets[m.sequence_ids[q] + 1]
    IN  [q \in {q \in TaskRows(arg.tokens, Heads) : stop(q) - start(q) < arg.limit} |->
            FirstKey(q, start(q), arg.window) .. StopKey(q, stop(q), arg.window) - 1]

\* A tile of the queries of a sequence of n tokens, and the keys it multiplies.
QueryTile(o, n, window) ==
    IF window # 0 /\ n >= o.banded_min /\ o.swa_tile # 0 THEN o.swa_tile ELSE n
TileQueries(o, n, window, first) == first .. Min({n, first + QueryTile(o, n, window)}) - 1

\* A mutant: no keys behind the tile.
TileKeysBefore(o, n, window, first) ==
    IF window # 0 /\ QueryTile(o, n, window) < n
    THEN (IF first > Half(window) THEN first - Half(window) ELSE 0) ..
         Max(TileQueries(o, n, window, first))
    ELSE 0 .. n - 1

\* Half a window on either side of the queries.
TileKeys(o, n, window, first) ==
    IF window # 0 /\ QueryTile(o, n, window) < n
    THEN (IF first > Half(window) THEN first - Half(window) ELSE 0) ..
         Min({n, Max(TileQueries(o, n, window, first)) + 1 + Half(window)}) - 1
    ELSE 0 .. n - 1

\* What the softmax leaves of them.
SoftmaxKeys(keys, query, n, window) ==
    {k \in keys : FirstKey(query, 0, window) <= k /\ k < StopKey(query, n, window)}

TileAttention(o, l, start, n, first, q, k, v, to) ==
    LET window == WindowOf(l)
        keys == TileKeys(o, n, window, first)
    IN  Attend(l, "tile", q, k, v, to,
            [r \in {start + query : query \in TileQueries(o, n, window, first)} |->
                {start + key : key \in SoftmaxKeys(keys, r - start, n, window)}])

\* The first queries of the tiles.
Tiles(o, n, window) ==
    LET tile == QueryTile(o, n, window)
    IN  [i \in 1 .. (n + tile - 1) \div tile |-> (i - 1) * tile]

\* The longest and the shortest sequence of a call.
Longest(lens) == Max(ToSet(lens))
Shortest(lens) == Min(ToSet(lens))

\* The sequences of b that are long enough, in order.
LongSequences(b, minimum) ==
    SelectSeq([s \in 1 .. b.batch |->
                  [start |-> b.offsets[s - 1], n |-> b.offsets[s] - b.offsets[s - 1]]],
              LAMBDA s : s.n >= minimum)

=============================================================================
