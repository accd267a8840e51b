--------------------------- MODULE IncomingMessage ---------------------------
(***************************************************************************)
(* The incoming messages of an http::Server: how Parser (http/parser.h)    *)
(* feeds them, how they pause and resume (http/incoming_message.h), and    *)
(* how they are recycled through a FreeList (detail/free_list.h) when both *)
(* the server, in OutgoingOnFinish (http/server.h), and the application's  *)
(* ServerRequest (http/server_request.h) have done with them.              *)
(*                                                                         *)
(* Requests arrive on several connections, each with its own parser.  The  *)
(* application registers listeners for 'data', 'end' and 'close' of each   *)
(* request; an event is given with the request whose parser caused it.     *)
(* Chunk k of a body is the number k, its end is Chunks + 1.               *)
(***************************************************************************)
EXTENDS Naturals, Sequences, FiniteSets, SequencesExt

CONSTANTS
  Conns,        \* the connections
  MaxRequests,  \* bound: requests, of all connections
  Chunks,       \* chunks of each body
  MaxFree,      \* the limit of the FreeList
  MaxPauses,    \* bound: calls of pause()
  ReadsAll,     \* a request is answered only after its 'end'
  Nulls         \* toPtr<Buffer> may give null for a Buffer::CPtr

ASSUME ConstantsAssumption ==
  /\ IsFiniteSet(Conns) /\ MaxRequests \in Nat /\ Chunks \in Nat
  /\ MaxFree \in Nat /\ MaxPauses \in Nat
  /\ ReadsAll \in BOOLEAN /\ Nulls \in BOOLEAN

Request == 1..MaxRequests
Object  == 1..MaxRequests    \* at most one new message for each request
None    == 0
EOF     == Chunks + 1
Close   == Chunks + 2
Chunk   == [of: Request, k: 1..EOF]

Message == [
  paused: BOOLEAN,             \* PAUSED
  endEmitted: BOOLEAN,         \* END_EMITTED
  unused: BOOLEAN,             \* UNUSED
  pendings: Seq(Chunk),        \* pendings_
  onData: SUBSET Request,      \* listeners, by the request they were
  onEnd: SUBSET Request,       \* registered for
  onClose: SUBSET Request]

Connection == [
  state: {"idle", "body", "closed"},  \* of http_parser, and the socket
  incoming: 0..MaxRequests,           \* incoming_ of the parser
  request: 0..MaxRequests,            \* the request it parses
  k: 0..Chunks,                       \* chunks of it so far
  incomings: Seq(Object)]             \* incomings_ of the server

VARIABLES
  message,    \* the messages that were created, by their number
  free,       \* incomingMessageList()
  conn,       \* the connections
  ticks,      \* EmitPending functions queued by nextTick()
  running,    \* the message whose EmitPending runs, or None
  objectOf,   \* the message of each request so far
  held,       \* requests whose ServerRequest the application holds
  pauses,     \* calls of pause()
  got,        \* history: the events each request's listeners have got
  cut,        \* history: requests that lost a chunk which was pending
  broken      \* an assertion has failed

incomingVars == <<message, free, conn, ticks, running, objectOf, held, pauses, got,
          cut, broken>>

Listening == Seq([of: Request, k: 1..Close])
RequestOf(o) == Max({q \in DOMAIN objectOf : objectOf[q] = o})   \* the latest
Ended(q) == \E i \in DOMAIN got[q] : got[q][i].k = EOF

-----------------------------------------------------------------------------
(* Emitting: what the listeners of a set of requests have got then. *)
Gets(listeners, event) ==
  [q \in DOMAIN got |-> IF q \in listeners THEN Append(got[q], event)
                        ELSE got[q]]

(* emitData() and emitEnd(): 'end' only once, and no 'data' after it. *)
EmitTo(m, event) ==
  IF event.k # EOF THEN [msg |-> m, to |-> m.onData]
  ELSE IF m.endEmitted THEN [msg |-> m, to |-> {}]
  ELSE [msg |-> [m EXCEPT !.endEmitted = TRUE, !.onData = {}, !.onEnd = {}],
        to  |-> m.onEnd]

(* Mutant: what is pending does not hold back what comes. *)
ReceiveNow(m, event) ==
  IF m.paused
  THEN [msg |-> [m EXCEPT !.pendings = Append(@, event)], to |-> {}]
  ELSE EmitTo(m, event)

(* onBody() and onMessageComplete(): a chunk or the end is emitted, or     *)
(* left pending while the message is paused or others are pending.         *)
Receive(m, event) ==
  IF m.paused \/ m.pendings # <<>>
  THEN [msg |-> [m EXCEPT !.pendings = Append(@, event)], to |-> {}]
  ELSE EmitTo(m, event)

(* setNewSocket(): nothing removes the listeners. *)
SetNewSocket(m) ==
  [m EXCEPT !.paused = FALSE, !.endEmitted = FALSE, !.unused = FALSE,
            !.pendings = <<>>]

NewMessage == [paused |-> FALSE, endEmitted |-> FALSE, unused |-> FALSE,
               pendings |-> <<>>, onData |-> {}, onEnd |-> {}, onClose |-> {}]

-----------------------------------------------------------------------------
(* The event loop: socket data, ticks and 'close'. *)
Turn == running = None

(* The parser begins with request q in message o. *)
Parses(r, o, q) ==
  [r EXCEPT !.state = "body", !.incoming = o, !.request = q, !.k = 0,
            !.incomings = Append(@, o)]

(* onHeadersComplete() and ParserOnIncoming; the application registers its *)
(* listeners for the new request.                                          *)
HeadersComplete(c) ==
  LET q == Len(objectOf) + 1
      o == IF free = <<>> THEN Len(message) + 1 ELSE Head(free)
      m == IF free = <<>> THEN NewMessage ELSE SetNewSocket(message[o])
      l == [m EXCEPT !.onData = @ \cup {q}, !.onEnd = @ \cup {q},
                     !.onClose = @ \cup {q}]
  IN  /\ Turn /\ conn[c].state = "idle" /\ q <= MaxRequests
      /\ message' = IF free = <<>> THEN Append(message, l)
                    ELSE [message EXCEPT ![o] = l]
      /\ free' = IF free = <<>> THEN <<>> ELSE Tail(free)
      /\ conn' = [conn EXCEPT ![c] = Parses(@, o, q)]
      /\ objectOf' = Append(objectOf, o)
      /\ held' = held \cup {q}
      /\ got' = Append(got, <<>>)
      /\ UNCHANGED <<ticks, running, cut, broken, pauses>>

(* The parser of c hands an event to its message. *)
Feed(c, k) ==
  LET o == conn[c].incoming
      e == [of |-> conn[c].request, k |-> k]
      r == Receive(message[o], e)
  IN  /\ message' = [message EXCEPT ![o] = r.msg]
      /\ got' = Gets(r.to, e)

OnBody(c) ==
  /\ Turn /\ conn[c].state = "body" /\ conn[c].k < Chunks
  /\ Feed(c, conn[c].k + 1)
  /\ conn' = [conn EXCEPT ![c].k = @ + 1]
  /\ UNCHANGED <<free, ticks, running, objectOf, held, cut, broken, pauses>>

OnMessageComplete(c) ==
  /\ Turn /\ conn[c].state = "body" /\ conn[c].k = Chunks
  /\ Feed(c, EOF)
  /\ conn' = [conn EXCEPT ![c].state = "idle"]
  /\ UNCHANGED <<free, ticks, running, objectOf, held, cut, broken, pauses>>

(* EmitPending runs, and emits what is pending unless a listener pauses    *)
(* the message again.                                                      *)
EmitPending ==
  /\ Turn /\ ticks # <<>>
  /\ running' = Head(ticks) /\ ticks' = Tail(ticks)
  /\ UNCHANGED <<message, free, conn, objectOf, held, got, cut, broken, pauses>>

(* onBody() pushed a Buffer::CPtr.  What EmitPending takes it out with may *)
(* not give a Buffer::Ptr: a null is what stands for the end.              *)
ToPtr(e) == {e} \cup IF Nulls THEN {[e EXCEPT !.k = EOF]} ELSE {}

(* The chunk e that was pending of the running message is emitted, or what *)
(* has become of it is: anything but a chunk is taken for the end.         *)
TakesOut(e, chunk) ==
  LET r == EmitTo([message[running] EXCEPT !.pendings = Tail(@)], chunk)
  IN  /\ message' = [message EXCEPT ![running] = r.msg]
      /\ got' = Gets(r.to, chunk)
      /\ broken' = (broken \/ (chunk.k = EOF /\ r.msg.pendings # <<>>))
      /\ cut' = IF chunk = e THEN cut ELSE cut \cup {RequestOf(running)}
      /\ UNCHANGED <<free, conn, ticks, running, objectOf, held, pauses>>

(* Mutant: the loop of EmitPending does not look whether it is paused. *)
EmitNextAnyway ==
  /\ running # None /\ message[running].pendings # <<>>
  /\ LET e == Head(message[running].pendings)
     IN  \E chunk \in ToPtr(e) : TakesOut(e, chunk)

EmitNext ==
  /\ running # None
  /\ ~message[running].paused /\ message[running].pendings # <<>>
  /\ LET e == Head(message[running].pendings)
     IN  \E chunk \in ToPtr(e) : TakesOut(e, chunk)

EmitPendingEnds ==
  /\ running # None
  /\ message[running].paused \/ message[running].pendings = <<>>
  /\ running' = None
  /\ UNCHANGED <<message, free, conn, ticks, objectOf, held, got, cut, broken, pauses>>

(* abortIncoming(): no 'data' and 'end' after 'close'. *)
Aborted(m) == [m EXCEPT !.onClose = {}, !.onData = {}, !.onEnd = {}]

(* SocketOnClose: the parser is freed and the requests that were not       *)
(* answered get 'close'.                                                   *)
SocketOnClose(c) ==
  LET aborted == Range(conn[c].incomings)
  IN  /\ Turn /\ conn[c].state # "closed"
      /\ conn' = [conn EXCEPT ![c] = [@ EXCEPT !.state = "closed",
                              !.incoming = None, !.incomings = <<>>]]
      /\ message' = [o \in DOMAIN message |->
           IF o \in aborted THEN Aborted(message[o]) ELSE message[o]]
      /\ got' = [q \in DOMAIN got |->
           LET o == objectOf[q]
           IN  IF o \in aborted /\ q \in message[o].onClose
               THEN Append(got[q], [of |-> RequestOf(o), k |-> Close])
               ELSE got[q]]
      /\ UNCHANGED <<free, ticks, running, objectOf, held, cut, broken, pauses>>

-----------------------------------------------------------------------------
(* The application, in a listener or by itself. *)

(* Mutant: the first of the two to be done frees the message. *)
ReleaseEagerly(o) ==
  /\ message' = [message EXCEPT ![o].unused = TRUE]
  /\ free' = IF Len(free) < MaxFree THEN Append(free, o) ELSE free

(* One of the two that use a message is done with it: the second frees it. *)
Release(o) ==
  IF message[o].unused
  THEN /\ free' = IF Len(free) < MaxFree THEN Append(free, o) ELSE free
       /\ message' = message
  ELSE /\ message' = [message EXCEPT ![o].unused = TRUE]
       /\ free' = free

(* The oldest request of c is answered: OutgoingOnFinish. *)
Answer(c) ==
  /\ conn[c].incomings # <<>>
  /\ ReadsAll => Ended(RequestOf(Head(conn[c].incomings)))
  /\ Release(Head(conn[c].incomings))
  /\ conn' = [conn EXCEPT ![c].incomings = Tail(@)]
  /\ UNCHANGED <<ticks, running, objectOf, held, got, cut, broken, pauses>>

(* ~ServerRequest() *)
Drop(q) ==
  /\ q \in held
  /\ held' = held \ {q}
  /\ Release(objectOf[q])
  /\ UNCHANGED <<conn, ticks, running, objectOf, got, cut, broken, pauses>>

Pause(q) ==
  /\ q \in held /\ ~message[objectOf[q]].paused /\ pauses < MaxPauses
  /\ message' = [message EXCEPT ![objectOf[q]].paused = TRUE]
  /\ pauses' = pauses + 1
  /\ UNCHANGED <<free, conn, ticks, running, objectOf, held, got, cut, broken>>

(* resume() and emitPending() *)
Resume(q) ==
  LET o == objectOf[q]
  IN  /\ q \in held /\ message[o].paused
      /\ message' = [message EXCEPT ![o].paused = FALSE]
      /\ ticks' = IF message[o].pendings = <<>> THEN ticks ELSE Append(ticks, o)
      /\ UNCHANGED <<free, conn, running, objectOf, held, got, cut, broken, pauses>>

-----------------------------------------------------------------------------
IncomingInit ==
  /\ message = <<>> /\ free = <<>>
  /\ conn = [c \in Conns |-> [state |-> "idle", incoming |-> None,
                              request |-> None, k |-> 0, incomings |-> <<>>]]
  /\ ticks = <<>> /\ running = None
  /\ objectOf = <<>> /\ held = {} /\ pauses = 0 /\ got = <<>> /\ cut = {} /\ broken = FALSE

IncomingNext ==
  \/ \E c \in Conns : \/ HeadersComplete(c)
                      \/ OnBody(c)
                      \/ OnMessageComplete(c)
                      \/ SocketOnClose(c)
                      \/ Answer(c)
  \/ EmitPending
  \/ EmitNext
  \/ EmitPendingEnds
  \/ \E q \in held : Drop(q) \/ Pause(q) \/ Resume(q)

-----------------------------------------------------------------------------
(* Properties. *)

(* A message is in the FreeList at most once, and then no request that is  *)
(* held or not answered uses it.                                           *)
FreeIsUnused ==
  /\ \A i, j \in DOMAIN free : free[i] = free[j] => i = j
  /\ \A i \in DOMAIN free :
       /\ \A q \in held : objectOf[q] # free[i]
       /\ \A c \in Conns : \A j \in DOMAIN conn[c].incomings :
            conn[c].incomings[j] # free[i]

(* Another request lost a chunk in the same message before: its parser may *)
(* still be at its body when the message is recycled.                      *)
Spoilt(q) == \E p \in cut : p < q /\ objectOf[p] = objectOf[q]

(* The listeners of a request get the data of its own body, chunk by       *)
(* chunk, then 'end' once, and nothing when the connection has closed      *)
(* before that, whatever is paused, resumed and recycled.  When EmitPending *)
(* takes a pending chunk for the end, that request gets its 'end' in the   *)
(* place of that chunk and nothing more of its body, and only the requests *)
(* that get the same message later suffer too.  What is pending of a       *)
(* message that is not paused is on its way.                               *)
DataInOrder ==
  /\ \A q \in DOMAIN got : ~Spoilt(q) =>
       /\ \A i \in DOMAIN got[q] :
            LET data == {j \in 1..i : got[q][j].k # Close}
            IN  i \in data =>
                  \/ got[q][i] = [of |-> q, k |-> Cardinality(data)]
                  \/ q \in cut /\ got[q][i].k = EOF
       /\ \A i, j \in DOMAIN got[q] :
            i < j /\ got[q][i].k \in {EOF, Close} => got[q][j].k = Close
  /\ \A o \in DOMAIN message :
       ~message[o].paused /\ message[o].pendings # <<>> =>
         running = o \/ \E i \in DOMAIN ticks : ticks[i] = o

(* Nothing is emitted while a message is paused. *)
SilentWhilePaused ==
  [][\A q \in DOMAIN got :
       (/\ message[objectOf[q]].paused
        /\ \A p \in DOMAIN objectOf : objectOf[p] = objectOf[q] => p <= q)
       => \A i \in DOMAIN got'[q] : i > Len(got[q]) => got'[q][i].k = Close]_incomingVars

(* The assertion of EmitPending: nothing is pending behind the end. *)
NoAssertionFails == ~broken
=============================================================================
