---------------------------- MODULE MCMediaDecode ----------------------------
(* Small instances of MediaDecode for TLC. *)
EXTENDS MediaDecode, TLC

CONSTANTS t1, t2

\* Three characters: two digits and one that is none.
MCDigits == 0 :> 10 @@ 1 :> 11
Good == [fast |-> <<0, 1>>, tail |-> TRUE]
Bad == [fast |-> <<0, 2>>, tail |-> TRUE]
BadTail == [fast |-> <<1>>, tail |-> FALSE]
MCVideos == {<<Good, Good>>, <<Good, Bad, BadTail>>}
=============================================================================
