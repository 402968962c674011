----------------------------- MODULE MCResponseCache -----------------------------
(* Three workers and four keys; the cache has room for four small responses *)
(* or one large one, and the largest never fits.                            *)
EXTENDS ResponseCache, TLC

Symmetric == Permutations(CacheUsers) \cup Permutations(ResponseKeys) \cup Permutations(Cells)

=============================================================================
