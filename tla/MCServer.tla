------------------------------- MODULE MCServer -------------------------------
(* Small instances of Server for TLC. *)
EXTENDS Server

CONSTANTS c1, c2, c3, w1, w2, k1, k2, a, b, d

Plain == [head |-> 0, body |-> 0, valid |-> TRUE, keep |-> TRUE, key |-> None]
Posted == [Plain EXCEPT !.head = 1, !.body = 1]
Final == [Plain EXCEPT !.keep = FALSE]
Invalid == [Plain EXCEPT !.valid = FALSE]
Long == [Plain EXCEPT !.head = 3]
Text(k) == [Final EXCEPT !.key = k]

Config(workers, capacity, slots, requests, runs, scripts) ==
    [workers |-> workers, capacity |-> capacity, slots |-> slots, requests |-> requests,
     persistent |-> runs > 1, lives |-> runs, scripts |-> scripts]

\* The files of a and b have one size and begin alike.
MCHash == a :> 1 @@ b :> 1 @@ d :> 2

\* Texts, a stop or a crash, and a second life.
MCTwoLives == {Config({w1}, 1, 0, 1, 2, c1 :> <<Text(k1)>> @@ c2 :> <<Text(k2)>>)}

\* More connections than the ring and the worker take; pipelined requests on two
\* workers that share one keep-alive slot; bad requests behind good ones; texts,
\* a stop or a crash, and a second life.
MCLayouts == {
    Config({w1}, 1, 0, 2, 1, c1 :> <<Final>> @@ c2 :> <<Final>> @@ c3 :> <<Final>>),
    Config({w1, w2}, 2, 1, 2, 1, c1 :> <<Posted, Plain, Plain>> @@ c2 :> <<Plain, Plain>>),
    Config({w1}, 1, 1, 3, 1, c1 :> <<Posted, Long>> @@ c2 :> <<Plain, Invalid>>)}
    \cup MCTwoLives
=============================================================================
