---------------------------- MODULE MCMediaEngine ----------------------------
(* Small instances of MediaEngine for TLC. *)
EXTENDS MediaEngine

CONSTANTS r1, r2, r3, w

\* The CPU backend; CUDA with two slots; Metal with the audio batcher only; and
\* Metal with three finishes for a batcher that takes two at a time.
MCLayouts == {
    [slots |-> 0, batching |-> {}, workers |-> {r1, r2, r3},
     plans |-> {<<>>, <<"image">>}],
    [slots |-> 2, batching |-> {}, workers |-> {r1, r2}, plans |-> {<<"image">>}],
    [slots |-> 2, batching |-> {"audio"}, workers |-> {r1, r2},
     plans |-> {<<"audio">>, <<"image">>}],
    [slots |-> 1, batching |-> {"finish", "audio"}, workers |-> {r1, r2},
     plans |-> {<<"audio", "audio">>}],
    [slots |-> 1, batching |-> {"finish", "audio"}, workers |-> {r1, r2, r3},
     plans |-> {<<>>}]}
=============================================================================
