----------------------------- MODULE MediaDecode -----------------------------
(***************************************************************************)
(* The frames of a video, decoded by several threads: video_decode_all      *)
(* (src/src/http_media.h) and the base64 decoder every thread calls          *)
(* (decode, src/src/media.c), whose lookup table is built by the first       *)
(* caller without a lock.                                                   *)
(*                                                                         *)
(* A payload is the sequence of characters that are looked up in the table  *)
(* followed by the class of its last quad, which is decoded without it.     *)
(* Memory is sequentially consistent: weaker orders only add behaviours.    *)
(***************************************************************************)
EXTENDS Integers, Sequences, FiniteSets

CONSTANTS
    Threads,        \* the request's thread and the workers it starts
    Caller,         \* the request's thread
    Characters,     \* 0 .. n, the indices of the table
    Digits,         \* b64digit: [subset of Characters -> 0 .. 63]
    Videos,         \* sequences of payloads to explore
    Invalid,        \* 0xFF
    Refused, Unset  \* results: decode returned NULL; not decoded yet

VARIABLES
    frames, next,           \* of the video_decode_job
    results,                \* the prepared frames
    table, tableReady,      \* statics of decode
    pc, frame, cell, read   \* per thread: where, which frame, table cell, digits read

vars == <<frames, next, results, table, tableReady, pc, frame, cell, read>>

Init ==
    /\ frames \in Videos
    /\ next = 1
    /\ results = [f \in DOMAIN frames |-> Unset]
    /\ table = [c \in Characters |-> 0] /\ tableReady = FALSE
    /\ \E started \in SUBSET (Threads \ {Caller}) :        \* pthread_create may fail
          pc = [t \in Threads |-> IF t \in started \cup {Caller} THEN "take" ELSE "joined"]
    /\ frame = [t \in Threads |-> 0] /\ cell = [t \in Threads |-> 0]
    /\ read = [t \in Threads |-> <<>>]

Goto(t, l) == pc' = [pc EXCEPT ![t] = l]

\* atomic_fetch_add on the index of the next frame.
Take(t) ==
    /\ pc[t] = "take"
    /\ next' = next + 1
    /\ frame' = [frame EXCEPT ![t] = next]
    /\ Goto(t, IF next \in DOMAIN frames THEN "test" ELSE "joined")
    /\ UNCHANGED <<frames, results, table, tableReady, cell, read>>

TestReady(t) ==
    /\ pc[t] = "test"
    /\ Goto(t, IF tableReady THEN "quads" ELSE "clear")
    /\ read' = [read EXCEPT ![t] = <<>>]
    /\ UNCHANGED <<frames, next, results, table, tableReady, frame, cell>>

Clear(t) ==
    /\ pc[t] = "clear"
    /\ table' = [c \in Characters |-> Invalid]
    /\ cell' = [cell EXCEPT ![t] = 0]
    /\ Goto(t, "fill")
    /\ UNCHANGED <<frames, next, results, tableReady, frame, read>>

Fill(t) ==
    /\ pc[t] = "fill" /\ cell[t] \in Characters
    /\ table' = IF cell[t] \in DOMAIN Digits
                THEN [table EXCEPT ![cell[t]] = Digits[cell[t]]] ELSE table
    /\ cell' = [cell EXCEPT ![t] = @ + 1]
    /\ UNCHANGED <<frames, next, results, tableReady, pc, frame, read>>

SetReady(t) ==
    /\ pc[t] = "fill" /\ cell[t] \notin Characters
    /\ tableReady' = TRUE
    /\ Goto(t, "quads")
    /\ UNCHANGED <<frames, next, results, table, frame, cell, read>>

Payload(t) == frames[frame[t]]

Finish(t, result) ==
    /\ results' = [results EXCEPT ![frame[t]] = result]
    /\ Goto(t, "take")
    /\ UNCHANGED <<frames, next, table, tableReady, frame, cell>>

\* One character of the quads before the last.
Lookup(t) ==
    /\ pc[t] = "quads" /\ Len(read[t]) < Len(Payload(t).fast)
    /\ LET digit == table[Payload(t).fast[Len(read[t]) + 1]]
       IN  \/ /\ digit # Invalid
              /\ read' = [read EXCEPT ![t] = Append(@, digit)]
              /\ UNCHANGED <<frames, next, results, table, tableReady, pc, frame, cell>>
           \/ digit = Invalid /\ Finish(t, Refused) /\ UNCHANGED read

\* The last quad, with b64digit itself.
LastQuad(t) ==
    /\ pc[t] = "quads" /\ Len(read[t]) = Len(Payload(t).fast)
    /\ Finish(t, IF Payload(t).tail THEN read[t] ELSE Refused)
    /\ UNCHANGED read

Decode(t) == TestReady(t) \/ Clear(t) \/ Fill(t) \/ SetReady(t) \/ Lookup(t) \/ LastQuad(t)

\* video_decode_all returns when every thread it started has.
Over == (\A t \in Threads : pc[t] = "joined") /\ UNCHANGED vars

Next == Over \/ \E t \in Threads : Take(t) \/ Decode(t)

Spec == Init /\ [][Next]_vars

-----------------------------------------------------------------------------

\* What a payload decodes to when one thread decodes it.
Decoded(p) ==
    IF p.tail /\ \A n \in DOMAIN p.fast : p.fast[n] \in DOMAIN Digits
    THEN [n \in DOMAIN p.fast |-> Digits[p.fast[n]]]
    ELSE Refused

\* A payload decodes to its bytes, and only an invalid one is refused, whoever
\* else decodes at the time.
DecodeDeterministic ==
    \A f \in DOMAIN frames : results[f] \in {Unset, Decoded(frames[f])}

=============================================================================
