----------------------------- MODULE HttpFrontend -----------------------------
(***************************************************************************)
(* Connections of src/src/server.c: the accept loop with its stop flag, the  *)
(* ring of accepted sockets, the HTTP workers with their keep-alive slots,    *)
(* and read_request's framing of pipelined requests.                        *)
(*                                                                         *)
(* What a client sends is a script of requests.  Each request i is a stream *)
(* of units: <<"head", i>> (part of its header), <<"end", i>> (the empty    *)
(* line) and <<"body", i>>; recv returns any number of them at a time.       *)
(***************************************************************************)
EXTENDS Integers, Sequences, FiniteSets, SequencesExt

CONSTANTS
    Connections,
    Workers,        \* HTTP worker threads
    Layouts,        \* configurations and clients to explore, see LayoutType
    MaxHeader,      \* MAX_HEADER_BYTES, in units
    Chunk,          \* the receive buffer, in units
    None            \* no connection, no key

\* A configuration: workers, max_queue, keepalive_connections,
\* keepalive_max_requests, whether a cache path is given, and the scripts of the clients: sequences of
\* requests, each with the units of its header and body, whether its framing
\* headers are acceptable, whether its client wants to keep the connection, and
\* the text it wants embedded.
LayoutType(l) ==
    /\ l.workers \subseteq Workers
    /\ l.capacity \in Nat \ {0} /\ l.slots \in Nat /\ l.requests \in Nat
    /\ l.persistent \in BOOLEAN
    /\ DOMAIN l.scripts \subseteq Connections
    /\ \A c \in DOMAIN l.scripts :
          /\ Len(l.scripts[c]) \in Nat
          /\ \A i \in 1 .. Len(l.scripts[c]) :
                l.scripts[c][i].head \in Nat /\ l.scripts[c][i].body \in Nat

ASSUME FrontendAssumption ==
    /\ \A l \in Layouts : LayoutType(l)
    /\ MaxHeader \in Nat \ {0} /\ Chunk \in Nat \ {0}
    /\ None \notin Connections
    /\ IsFiniteSet(Connections) /\ IsFiniteSet(Workers)

VARIABLES
    layout,         \* the configuration, fixed
    \* main thread
    mpc,            \* "load", "test", "calling", "accept", "push", "dump", "down"
    stop,           \* g_stop_requested
    late,           \* history: connections accepted since the signal
    accepted,       \* the socket the main thread holds
    \* kernel
    fresh,          \* connections not made yet
    backlog,        \* made, not accepted
    stream,         \* units a client has sent that were not received
    closed,         \* connections over
    \* ring: fds, head, count
    fds, head, count,
    \* workers
    wpc, conn, kept, served, current, active,
    buffer,         \* connection->buffered, per connection
    replies         \* history: what each client was answered

mainVars == <<mpc, stop, late, accepted>>
kernelVars == <<fresh, backlog, stream, closed>>
ringVars == <<fds, head, count>>
workerVars == <<conn, kept, served, current, active>>
frontVars == <<layout, mainVars, kernelVars, ringVars, wpc, workerVars, buffer, replies>>

Clients == DOMAIN layout.scripts
Script(c) == layout.scripts[c]
Cap == layout.capacity

Units(c, i) ==
    [n \in 1 .. Script(c)[i].head |-> <<"head", i>>] \o <<<<"end", i>>>>
        \o [n \in 1 .. Script(c)[i].body |-> <<"body", i>>]

\* The stream of the requests from the i-th on.
StreamFrom(c, i) ==
    LET from[n \in 1 .. Len(Script(c)) + 1] ==
            IF n > Len(Script(c)) THEN <<>> ELSE Units(c, n) \o from[n + 1]
    IN  from[i]

FrontInit ==
    /\ layout \in Layouts
    /\ mpc = "load" /\ stop = FALSE /\ late = 0 /\ accepted = None
    /\ fresh = Clients /\ backlog = <<>> /\ closed = {}
    /\ stream = [c \in Connections |-> IF c \in Clients THEN StreamFrom(c, 1) ELSE <<>>]
    /\ fds = [n \in 0 .. Cap - 1 |-> None] /\ head = 0 /\ count = 0
    /\ wpc = [w \in Workers |-> "pop"]
    /\ conn = [w \in Workers |-> None] /\ kept = [w \in Workers |-> FALSE]
    /\ served = [w \in Workers |-> 0] /\ current = [w \in Workers |-> 0]
    /\ active = 0
    /\ buffer = [c \in Connections |-> <<>>]
    /\ replies = [c \in Connections |-> <<>>]

-----------------------------------------------------------------------------
(* The main thread *)

MainGoto(l) == mpc' = l

Connect(c) ==
    /\ c \in fresh
    /\ fresh' = fresh \ {c} /\ backlog' = Append(backlog, c)
    /\ UNCHANGED <<layout, mainVars, stream, closed, ringVars, wpc, workerVars, buffer, replies>>

\* Mutant: the loop does not look at the flag.
MainTestForever ==
    /\ mpc = "test"
    /\ MainGoto("calling")
    /\ UNCHANGED <<layout, stop, late, accepted, kernelVars, ringVars, wpc, workerVars, buffer, replies>>

MainTest ==
    /\ mpc = "test"
    /\ MainGoto(IF stop THEN "dump" ELSE "calling")
    /\ UNCHANGED <<layout, stop, late, accepted, kernelVars, ringVars, wpc, workerVars, buffer, replies>>

\* accept() is entered: from here on a signal interrupts it.
MainCalls ==
    /\ mpc = "calling"
    /\ MainGoto("accept")
    /\ UNCHANGED <<layout, stop, late, accepted, kernelVars, ringVars, wpc, workerVars, buffer, replies>>

\* handle_stop_signal, installed with a cache path.  Of a process-directed signal
\* POSIX lets any thread run the handler; accept() returns EINTR if it was this one.
Signal ==
    /\ layout.persistent
    /\ mpc \in {"test", "calling", "accept", "push"} /\ ~stop
    /\ stop' = TRUE
    /\ MainGoto(mpc) \/ (mpc = "accept" /\ MainGoto("test"))
    /\ UNCHANGED <<layout, late, accepted, kernelVars, ringVars, wpc, workerVars, buffer, replies>>

Accept ==
    /\ mpc = "accept" /\ backlog # <<>>
    /\ accepted' = Head(backlog) /\ backlog' = Tail(backlog)
    /\ late' = IF stop THEN late + 1 ELSE late
    /\ MainGoto("push")
    /\ UNCHANGED <<layout, stop, fresh, stream, closed, ringVars, wpc, workerVars, buffer, replies>>

\* pthread_cond_signal(&queue->ready).  Mutant: it is forgotten.
NobodySignalled == UNCHANGED wpc

WorkerSignalled ==
    \/ \E w \in Workers : wpc[w] = "wait" /\ wpc' = [wpc EXCEPT ![w] = "pop"]
    \/ (\A w \in Workers : wpc[w] # "wait") /\ UNCHANGED wpc

\* Mutant: a full ring is not refused.
PushedAlways == TRUE

HasRoom == count # Cap

\* socket_queue_try_push.
Push ==
    /\ mpc = "push" /\ HasRoom
    /\ fds' = [fds EXCEPT ![(head + count) % Cap] = accepted]
    /\ count' = count + 1
    /\ WorkerSignalled
    /\ accepted' = None /\ MainGoto("test")
    /\ UNCHANGED <<layout, stop, late, kernelVars, head, workerVars, buffer, replies>>

\* The ring is full: 503, and the connection is closed.
Refuse ==
    /\ mpc = "push" /\ ~HasRoom
    /\ replies' = [replies EXCEPT ![accepted] = Append(@, [status |-> 503, request |-> 0, keep |-> FALSE])]
    /\ closed' = closed \cup {accepted}
    /\ accepted' = None /\ MainGoto("test")
    /\ UNCHANGED <<layout, stop, late, fresh, backlog, stream, ringVars, wpc, workerVars, buffer>>

Main == MainTest \/ MainCalls \/ Accept \/ Push \/ Refuse

-----------------------------------------------------------------------------
(* Workers *)

Goto(w, l) == wpc' = [wpc EXCEPT ![w] = l]

\* socket_queue_pop.
Wait(w) ==
    /\ wpc[w] = "pop" /\ count = 0
    /\ Goto(w, "wait")
    /\ UNCHANGED <<layout, mainVars, kernelVars, ringVars, workerVars, buffer, replies>>

Pop(w) ==
    /\ wpc[w] = "pop" /\ count > 0
    /\ conn' = [conn EXCEPT ![w] = fds[head]]
    /\ fds' = [fds EXCEPT ![head] = None]
    /\ head' = (head + 1) % Cap
    /\ count' = count - 1
    /\ Goto(w, "slot")
    /\ UNCHANGED <<layout, mainVars, kernelVars, kept, served, current, active, buffer, replies>>

\* keepalive_limiter_try_acquire.
TakeSlot(w) ==
    LET take == layout.requests > 1 /\ active < layout.slots
    IN  /\ wpc[w] = "slot"
        /\ kept' = [kept EXCEPT ![w] = take]
        /\ active' = IF take THEN active + 1 ELSE active
        /\ Goto(w, "read")
        /\ UNCHANGED <<layout, mainVars, kernelVars, ringVars, conn, served, current, buffer, replies>>

\* find_header_end: where the first header of the buffer ends, 0 if it does not.
HeaderEnd(s) ==
    IF \E n \in DOMAIN s : s[n][1] = "end"
    THEN CHOOSE n \in DOMAIN s : s[n][1] = "end" /\ \A o \in 1 .. n - 1 : s[o][1] # "end"
    ELSE 0

\* The request whose header is complete.
First(c) == buffer[c][HeaderEnd(buffer[c])][2]
Framed(c) == Script(c)[First(c)]
BodyThere(c) == Len(buffer[c]) - HeaderEnd(buffer[c]) >= Framed(c).body

\* read_request needs more units.
Wanting(c) ==
    \/ HeaderEnd(buffer[c]) = 0
    \/ HeaderEnd(buffer[c]) # 0 /\ Framed(c).valid /\ ~BodyThere(c)

Reply(w, status, i, keep) ==
    replies' = [replies EXCEPT ![conn[w]] =
                    Append(@, [status |-> status, request |-> i, keep |-> keep])]

\* recv returned units; a header that grows past the limit is refused.
Receive(w) ==
    LET c == conn[w]
    IN  /\ wpc[w] = "read" /\ stream[c] # <<>>
        /\ Wanting(c)
        /\ \E n \in 1 .. (IF Chunk < Len(stream[c]) THEN Chunk ELSE Len(stream[c])) :
              /\ buffer' = [buffer EXCEPT ![c] = @ \o SubSeq(stream[c], 1, n)]
              /\ stream' = [stream EXCEPT ![c] = SubSeq(@, n + 1, Len(@))]
        /\ IF HeaderEnd(buffer[c]) = 0 /\ HeaderEnd(buffer'[c]) = 0 /\ Len(buffer'[c]) > MaxHeader
           THEN Reply(w, 400, 0, FALSE) /\ Goto(w, "leave")
           ELSE UNCHANGED <<replies, wpc>>
        /\ UNCHANGED <<layout, mainVars, fresh, backlog, closed, ringVars, workerVars>>

\* The receive timeout passed, or the client closed its side or reset the
\* connection; only a buffer that is not empty is worth an answer.
Silence(w) ==
    LET c == conn[w]
    IN  /\ wpc[w] = "read"
        /\ Wanting(c)
        /\ IF buffer[c] = <<>> THEN UNCHANGED replies ELSE Reply(w, 400, 0, FALSE)
        /\ Goto(w, "leave")
        /\ UNCHANGED <<layout, mainVars, kernelVars, ringVars, workerVars, buffer>>

\* Content-Length or Transfer-Encoding is not acceptable.
BadFraming(w) ==
    LET c == conn[w]
    IN  /\ wpc[w] = "read" /\ HeaderEnd(buffer[c]) # 0 /\ ~Framed(c).valid
        /\ Reply(w, 400, 0, FALSE)
        /\ Goto(w, "leave")
        /\ UNCHANGED <<layout, mainVars, kernelVars, ringVars, workerVars, buffer>>

\* Mutant: what was received behind the request is dropped.
ReadAll(w) ==
    LET c == conn[w]
    IN  /\ wpc[w] = "read" /\ HeaderEnd(buffer[c]) # 0 /\ Framed(c).valid /\ BodyThere(c)
        /\ current' = [current EXCEPT ![w] = First(c)]
        /\ buffer' = [buffer EXCEPT ![c] = <<>>]
        /\ Goto(w, "handle")
        /\ UNCHANGED <<layout, mainVars, kernelVars, ringVars, conn, kept, served, active, replies>>

\* The request is complete; what follows it stays for the next call.
ReadRequest(w) ==
    LET c == conn[w]
        consumed == HeaderEnd(buffer[c]) + Framed(c).body
    IN  /\ wpc[w] = "read" /\ HeaderEnd(buffer[c]) # 0 /\ Framed(c).valid /\ BodyThere(c)
        /\ current' = [current EXCEPT ![w] = First(c)]
        /\ buffer' = [buffer EXCEPT ![c] = SubSeq(@, consumed + 1, Len(@))]
        /\ Goto(w, "handle")
        /\ UNCHANGED <<layout, mainVars, kernelVars, ringVars, conn, kept, served, active, replies>>

Asked(w) == Script(conn[w])[current[w]]

\* handle_client: one answer, and on with the connection or off.  A 400 of the
\* handlers, a 404 or a 500 keeps the connection like a 200.
Answer(w) ==
    LET keep == kept[w] /\ served[w] + 1 < layout.requests /\ Asked(w).keep
    IN  /\ wpc[w] = "handle"
        /\ Reply(w, 200, current[w], keep)
        /\ served' = [served EXCEPT ![w] = @ + 1]
        /\ current' = [current EXCEPT ![w] = 0]
        /\ Goto(w, IF keep THEN "read" ELSE "leave")
        /\ UNCHANGED <<layout, mainVars, kernelVars, ringVars, conn, kept, active, buffer>>

\* keepalive_limiter_release.
GiveSlot(w) ==
    /\ wpc[w] = "leave"
    /\ active' = IF kept[w] THEN active - 1 ELSE active
    /\ kept' = [kept EXCEPT ![w] = FALSE]
    /\ Goto(w, "close")
    /\ UNCHANGED <<layout, mainVars, kernelVars, ringVars, conn, served, current, buffer, replies>>

\* The buffer is freed and the socket closed.
Close(w) ==
    /\ wpc[w] = "close"
    /\ closed' = closed \cup {conn[w]}
    /\ buffer' = [buffer EXCEPT ![conn[w]] = <<>>]
    /\ stream' = [stream EXCEPT ![conn[w]] = <<>>]
    /\ conn' = [conn EXCEPT ![w] = None]
    /\ served' = [served EXCEPT ![w] = 0]
    /\ Goto(w, "pop")
    /\ UNCHANGED <<layout, mainVars, fresh, backlog, ringVars, kept, current, active, replies>>

\* Every step of a worker but the handling of a request.
Working(w) ==
    \/ Wait(w) \/ Pop(w) \/ TakeSlot(w) \/ Receive(w) \/ BadFraming(w)
    \/ ReadRequest(w) \/ GiveSlot(w) \/ Close(w)

\* The process is gone and the kernel closes its connections.
AllClosed ==
    /\ mpc' = "down" /\ stop' = FALSE /\ late' = 0 /\ accepted' = None
    /\ closed' = Clients \ fresh /\ backlog' = <<>>
    /\ stream' = [c \in Connections |-> IF c \in fresh THEN stream[c] ELSE <<>>]
    /\ fds' = [n \in 0 .. Cap - 1 |-> None] /\ head' = 0 /\ count' = 0
    /\ wpc' = [w \in Workers |-> "pop"]
    /\ conn' = [w \in Workers |-> None] /\ kept' = [w \in Workers |-> FALSE]
    /\ served' = [w \in Workers |-> 0] /\ current' = [w \in Workers |-> 0]
    /\ active' = 0
    /\ buffer' = [c \in Connections |-> <<>>]
    /\ UNCHANGED <<layout, fresh, replies>>

-----------------------------------------------------------------------------
(* Properties *)

\* How often a connection is in the hands of the kernel, the main thread, the
\* ring and the workers.
Places(c) ==
    LET one(b) == IF b THEN 1 ELSE 0
    IN  one(c \in fresh) + one(c \in closed) + one(accepted = c)
        + Cardinality({n \in DOMAIN backlog : backlog[n] = c})
        + Cardinality({n \in 0 .. count - 1 : fds[(head + n) % Cap] = c})
        + Cardinality({w \in Workers : conn[w] = c})

\* A connection is in one place, is never lost and never served by two workers,
\* and a keep-alive slot is taken exactly while its worker keeps a connection.
ConnectionsAccounted ==
    /\ \A c \in Clients : Places(c) = 1
    /\ active = Cardinality({w \in Workers : kept[w]}) /\ active <= layout.slots

\* The requests a client has got an answer to, or has one in work for.
Answered(c) == Cardinality({n \in DOMAIN replies[c] : replies[c][n].status = 200})
InWork(c) == Cardinality({w \in Workers : conn[w] = c /\ wpc[w] = "handle"})

\* Requests that arrive in any pieces, several in one or one in several, are
\* answered one by one in their order: behind the answered ones the buffer and
\* the network hold exactly the rest.  The last answer, and only it, may say
\* that the connection ends, and no error is answered before it.
AnswersInOrder ==
    \A c \in Clients :
        /\ c \notin closed => buffer[c] \o stream[c] = StreamFrom(c, Answered(c) + InWork(c) + 1)
        /\ \A n \in DOMAIN replies[c] :
              /\ replies[c][n].status = 200 => replies[c][n].request = n
              /\ n < Len(replies[c]) => replies[c][n].keep

=============================================================================
