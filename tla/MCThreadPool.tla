------------------------------ MODULE MCThreadPool ------------------------------
(* A pool of two workers, called for one, two or three ranges, or for none. *)
EXTENDS ThreadPool

SmallRequests ==
    {[count |-> 3, grain |-> 1], [count |-> 3, grain |-> 2], [count |-> 2, grain |-> 0],
     [count |-> 1, grain |-> 4]}

AnyLimits == {0, 1, 2}

=============================================================================
