----------------------------- MODULE HttpServer -----------------------------
(***************************************************************************)
(* One connection of an http::Server (detail/http/server.h) and the        *)
(* responses of its requests (the server side of OutgoingMessage,          *)
(* detail/http/outgoing_message.h).                                        *)
(*                                                                         *)
(* Requests may arrive before the earlier ones are answered: the response  *)
(* that owns the socket (httpMessage_) writes to it, the others collect    *)
(* their output until OutgoingOnFinish assigns the socket to them.  The    *)
(* application answers in any order, also from the listeners that          *)
(* abortIncoming() calls.                                                  *)
(*                                                                         *)
(* A part of a response is a number; a response is right if its parts go   *)
(* out in the order in which the application said them.  All calls use the *)
(* default encoding.  HTTP_ALLOW_HALF_OPEN, which nothing sets, is left    *)
(* out.                                                                    *)
(***************************************************************************)
EXTENDS Naturals, Sequences, FiniteSets

CONSTANTS
  MaxRequests,   \* bound: requests of the connection
  MaxChunks,     \* bound: chunks of a response
  Kinds,         \* what the application writes: "str", "buf"
  Heads,         \* how it frames a body, and whether it closes the connection
  PeerEnds,      \* the peer may end its side
  Requests       \* whether a request keeps the connection alive, its response
                 \* has a body, and it says Expect: 100-continue

ASSUME ConstantsAssumption ==
  /\ MaxRequests \in Nat /\ MaxChunks \in Nat
  /\ Kinds \subseteq {"str", "buf"} /\ PeerEnds \in BOOLEAN
  /\ Heads \subseteq [framing: {"length", "chunked"}, close: BOOLEAN]
  /\ Requests \subseteq [keep: BOOLEAN, body: BOOLEAN, expect: BOOLEAN]

Request == 1..MaxRequests
None == 0

(* The parts: the interim response, the header, up to three pieces of each *)
(* chunk (its length, its data and a line end) and the last chunk.         *)
Interim == 0
Header  == 1
Piece(c, i) == 3 * c + i - 1
Last == 3 * (MaxChunks + 1)
Part == 0..Last

(* What is sent in one go: a string, which may be joined of several parts, *)
(* or a buffer.                                                            *)
Data == [kind: {"str", "buf"}, parts: Seq(Part)]
Str(parts) == [kind |-> "str", parts |-> parts]
Buf(parts) == [kind |-> "buf", parts |-> parts]

Response == [
  hasSocket: BOOLEAN,    \* socket_ is set
  listening: BOOLEAN,    \* OutgoingOnFinish is registered
  keepAlive: BOOLEAN,    \* SHOULD_KEEP_ALIVE
  hasBody: BOOLEAN,      \* HAS_BODY
  header: BOOLEAN,       \* header_ is set
  headerSent: BOOLEAN,   \* HEADER_SENT
  chunked: BOOLEAN,      \* CHUNKED_ENCODING
  last: BOOLEAN,         \* LAST
  finished: BOOLEAN,     \* FINISHED
  output: Seq(Data),     \* output_
  doubled: BOOLEAN,      \* history: buffer() has kept a string twice
  chunks: Nat,           \* history: the chunks that were written
  said: Seq(Part)]       \* history: the parts that were said

Conn == [
  \* the socket
  writable: BOOLEAN,     \* writable()
  ended: BOOLEAN,        \* nothing more is read
  destroyed: BOOLEAN,
  closed: BOOLEAN,       \* it emits or has emitted 'close'
  http: 0..MaxRequests,  \* httpMessage_
  \* the arrays of ServerOnConnection
  incomings: Seq(Request),
  outgoings: Seq(Request),
  response: Seq(Response),
  \* where the handlers are
  assigning: 0..MaxRequests,            \* the argument of assignSocket()
  aborting: {"no", "onEnd", "onClose"}, \* the caller of abortIncoming()
  \* history
  aborted: BOOLEAN,                     \* a request has been aborted
  wire: Seq(Request \X Data),           \* what was written to the socket
  answered: Seq(Request \X (0..MaxRequests)),  \* response, request
  broken: BOOLEAN]                      \* an assertion has failed

VARIABLE conn

-----------------------------------------------------------------------------
(* OutgoingMessage: operators from a connection to a connection.           *)

Direct(c, r) == c.response[r].hasSocket /\ c.http = r /\ c.writable

Joins(output, data) ==
  output # <<>> /\ data.kind = "str" /\ output[Len(output)].kind = "str"
Joined(output, data) == [output EXCEPT ![Len(output)].parts = @ \o data.parts]

(* buffer(): a string is appended to a string at the end of output_, and   *)
(* is then also pushed.                                                    *)
Buffer(output, data) ==
  Append(IF Joins(output, data) THEN Joined(output, data) ELSE output, data)

(* Mutant: what was buffered is not written first. *)
WriteRawPassing(c, r, data) ==
  IF data.parts = <<>> THEN c
  ELSE IF Direct(c, r) THEN [c EXCEPT !.wire = Append(@, <<r, data>>)]
  ELSE [c EXCEPT !.response[r].output = Buffer(@, data),
                 !.response[r].doubled =
                   @ \/ Joins(c.response[r].output, data)]

WriteRaw(c, r, data) ==
  LET out == Append(c.response[r].output, data)
  IN  IF data.parts = <<>> THEN c
      ELSE IF Direct(c, r)
      THEN [c EXCEPT !.wire = @ \o [i \in DOMAIN out |-> <<r, out[i]>>],
                     !.response[r].output = <<>>]
      ELSE [c EXCEPT !.response[r].output = Buffer(@, data),
                     !.response[r].doubled =
                       @ \/ Joins(c.response[r].output, data)]

(* send(): the header goes with the first data. *)
Send(c, r, data) ==
  LET sent == [c EXCEPT !.response[r].headerSent = TRUE]
  IN  IF c.response[r].headerSent THEN WriteRaw(c, r, data)
      ELSE IF data.kind = "str"
      THEN WriteRaw(sent, r, Str(<<Header>> \o data.parts))
      ELSE WriteRaw([sent EXCEPT !.response[r].output =
                                   <<Str(<<Header>>)>> \o @], r, data)

(* storeHeader(): the body is chunked without a Content-Length, and the    *)
(* connection ends with the response if either side says so.               *)
StoreHeader(m, head) ==
  [m EXCEPT !.header = TRUE,
            !.chunked = m.hasBody /\ head.framing = "chunked",
            !.last = m.last \/ head.close \/ ~m.keepAlive]

(* writeHead(), by the application or by implicitHeader(), once. *)
WriteHead(c, r, head) ==
  LET m == StoreHeader(c.response[r], head)
  IN  IF c.response[r].header THEN c
      ELSE [c EXCEPT !.response[r] = [m EXCEPT !.said = Append(@, Header)]]

Pieces(c, r) ==
  LET n == c.response[r].chunks + 1
  IN  IF c.response[r].chunked THEN <<Piece(n, 0), Piece(n, 1), Piece(n, 2)>>
      ELSE <<Piece(n, 1)>>

(* The history of a chunk. *)
Say(c, r) ==
  [c EXCEPT !.response[r].chunks = @ + 1,
            !.response[r].said = @ \o Pieces(c, r)]

(* write() of the next chunk. *)
Write(c, r, kind) ==
  LET s == Say(c, r)
      p == Pieces(c, r)
  IN  IF ~c.response[r].hasBody THEN c
      ELSE IF c.response[r].chunked /\ kind = "buf"
      THEN Send(Send(Send(s, r, Str(<<p[1]>>)), r, Buf(<<p[2]>>)),
                r, Str(<<p[3]>>))
      ELSE Send(s, r, [kind |-> kind, parts |-> p])

(* detachSocket() and removeAllListeners(). *)
Detach(c, r) ==
  [c EXCEPT !.http = None, !.response[r].hasSocket = FALSE,
            !.response[r].listening = FALSE,
            !.broken = @ \/ c.http # r]

(* After the last response destroySoon(), after another the next response  *)
(* is assigned the socket.                                                 *)
AssignNext(c, r) ==
  IF c.response[r].last THEN [c EXCEPT !.writable = FALSE]
  ELSE IF c.outgoings = <<>> THEN c
  ELSE [c EXCEPT !.assigning = Head(c.outgoings), !.outgoings = Tail(@)]

(* OutgoingOnFinish: the oldest request is answered, the response gives    *)
(* the socket up, and the next one gets it.  With no request left the      *)
(* result of shift() is null, and is dereferenced: None in answered.       *)
Finish(c, r) ==
  LET none == c.incomings = <<>>
      s == [c EXCEPT
              !.answered = Append(@, <<r, IF none THEN None
                                          ELSE Head(c.incomings)>>),
              !.incomings = IF none THEN @ ELSE Tail(@)]
  IN  IF c.response[r].listening THEN AssignNext(Detach(s, r), r) ELSE c

(* end(), with data unless kind is "none".  hot: header, data and last     *)
(* chunk are written as one string.                                        *)
End(c, r, kind) ==
  LET m   == c.response[r]
      k   == IF m.hasBody THEN kind ELSE "none"
      ender == IF m.chunked THEN <<Last>> ELSE <<>>
      hot == ~m.headerSent /\ k = "str" /\ m.output = <<>> /\ Direct(c, r)
      s   == IF hot
             THEN [Say(c, r) EXCEPT
                     !.wire = Append(@, <<r, Str(<<Header>> \o Pieces(c, r)
                                                 \o ender)>>),
                     !.response[r].headerSent = TRUE]
             ELSE Send(IF k = "none" THEN c ELSE Write(c, r, k), r, Str(ender))
      e   == [s EXCEPT !.response[r].finished = TRUE,
                       !.response[r].said = @ \o ender]
  IN  IF e.response[r].output = <<>> /\ e.http = r THEN Finish(e, r) ELSE e

(* Mutant: a response that is finished is flushed, but does not finish. *)
FlushOnly(c, r) ==
  LET out == c.response[r].output
  IN  IF ~c.writable THEN c
      ELSE [c EXCEPT !.wire = @ \o [i \in DOMAIN out |-> <<r, out[i]>>],
                     !.response[r].output = <<>>]

(* flush(): the output is written, and the response may now be finished. *)
Flush(c, r) ==
  LET out == c.response[r].output
      f   == [c EXCEPT !.wire = @ \o [i \in DOMAIN out |-> <<r, out[i]>>],
                       !.response[r].output = <<>>]
  IN  IF out # <<>> /\ ~c.writable THEN c
      ELSE IF c.response[r].finished THEN Finish(f, r) ELSE f

(* assignSocket() *)
AssignSocket(c) ==
  LET r == c.assigning
  IN  Flush([c EXCEPT !.assigning = None, !.http = r,
                      !.response[r].hasSocket = TRUE,
                      !.broken = @ \/ c.http # None], r)

-----------------------------------------------------------------------------
(* Actions.  Nothing happens while assignSocket() is to be called. *)
Ready == conn.assigning = None
Idle  == Ready /\ conn.aborting = "no"

(* clear(), or the constructor. *)
Cleared == [
  hasSocket |-> FALSE, listening |-> FALSE, keepAlive |-> TRUE,
  hasBody |-> TRUE, header |-> FALSE, headerSent |-> FALSE, chunked |-> FALSE,
  last |-> FALSE, finished |-> FALSE, output |-> <<>>,
  doubled |-> FALSE, chunks |-> 0, said |-> <<>>]

(* createInServer(), with OutgoingOnFinish. *)
NewResponse(request) ==
  [Cleared EXCEPT !.listening = TRUE, !.keepAlive = request.keep,
                  !.hasBody = request.body]

(* Mutant: a new response takes the socket from another. *)
QueueStealing(c, r) ==
  [c EXCEPT !.http = r, !.response[r].hasSocket = TRUE]

(* A new response gets the socket if it is free; it has no output yet. *)
Queue(c, r) ==
  IF c.http # None THEN [c EXCEPT !.outgoings = Append(@, r)]
  ELSE [c EXCEPT !.http = r, !.response[r].hasSocket = TRUE]

(* ParserOnIncoming, without listeners for 'checkContinue'. *)
ParserOnIncoming ==
  /\ Idle /\ ~conn.ended /\ Len(conn.response) < MaxRequests
  /\ \E request \in Requests :
       LET r == Len(conn.response) + 1
           c == Queue([conn EXCEPT !.incomings = Append(@, r),
                                   !.response = Append(@, NewResponse(request))],
                      r)
       IN  conn' = IF request.expect
                   THEN WriteRaw([c EXCEPT !.response[r].said = <<Interim>>],
                                 r, Str(<<Interim>>))
                   ELSE c

(* The application writes to a response and ends it, at any time. *)
AppWrites ==
  /\ Ready
  /\ \E r \in DOMAIN conn.response, kind \in Kinds, head \in Heads :
       /\ ~conn.response[r].finished /\ conn.response[r].chunks < MaxChunks
       /\ conn' = Write(WriteHead(conn, r, head), r, kind)

AppEnds ==
  /\ Ready
  /\ \E r \in DOMAIN conn.response, kind \in Kinds \cup {"none"},
        head \in Heads :
       /\ ~conn.response[r].finished
       /\ kind # "none" => conn.response[r].chunks < MaxChunks
       /\ conn' = End(WriteHead(conn, r, head), r, kind)

DoAssignSocket == ~Ready /\ conn' = AssignSocket(conn)

(* SocketOnEnd: a parser error if the peer ended in the middle of a        *)
(* request, abortIncoming() and end() otherwise.                           *)
SocketOnEnd ==
  /\ PeerEnds /\ Idle /\ ~conn.ended
  /\ \/ conn' = [conn EXCEPT !.ended = TRUE, !.aborting = "onEnd"]
     \/ conn' = [conn EXCEPT !.ended = TRUE, !.destroyed = TRUE,
                             !.writable = FALSE]

(* One turn of the loop of abortIncoming(); its listeners come after it. *)
AbortIncoming ==
  /\ Ready /\ conn.aborting # "no" /\ conn.incomings # <<>>
  /\ conn' = [conn EXCEPT !.incomings = Tail(@), !.aborted = TRUE]

(* Its end: SocketOnEnd ends the socket, and after SocketOnClose comes     *)
(* EmitClose of the response with the socket.                              *)
AbortIncomingEnds ==
  /\ Ready /\ conn.aborting # "no" /\ conn.incomings = <<>>
  /\ conn' = IF conn.aborting = "onEnd"
             THEN [conn EXCEPT !.aborting = "no", !.writable = FALSE]
             ELSE [conn EXCEPT !.aborting = "no",
                     !.response = [r \in DOMAIN @ |->
                        IF r = conn.http THEN [@[r] EXCEPT !.listening = FALSE]
                        ELSE @[r]]]

(* destroy(), by the application, after a timeout, an error or a shutdown. *)
SocketDestroyed ==
  /\ Ready /\ ~conn.destroyed
  /\ conn' = [conn EXCEPT !.destroyed = TRUE, !.ended = TRUE, !.writable = FALSE]

SocketOnClose ==
  /\ Idle /\ conn.destroyed /\ ~conn.closed
  /\ conn' = [conn EXCEPT !.closed = TRUE, !.aborting = "onClose"]

Init ==
  conn = [writable |-> TRUE, ended |-> FALSE, destroyed |-> FALSE,
          closed |-> FALSE, http |-> None, incomings |-> <<>>,
          outgoings |-> <<>>, response |-> <<>>, assigning |-> None,
          aborting |-> "no", aborted |-> FALSE, wire |-> <<>>, answered |-> <<>>,
          broken |-> FALSE]

Next ==
  \/ ParserOnIncoming
  \/ AppWrites
  \/ AppEnds
  \/ DoAssignSocket
  \/ SocketOnEnd
  \/ AbortIncoming
  \/ AbortIncomingEnds
  \/ SocketDestroyed
  \/ SocketOnClose

vars == <<conn>>
Spec == Init /\ [][Next]_vars

-----------------------------------------------------------------------------
(* Properties. *)

(* Responses go out in the order of the requests, none begins before those *)
(* before it have been ended, and none goes out after the last one of the  *)
(* connection.  A response that finishes answers its own request, in       *)
(* whatever order the responses are ended and handed the socket, until     *)
(* abortIncoming() takes a request away.  The socket and its response know *)
(* each other, as assignSocket() and detachSocket() assert.                *)
InRequestOrder ==
  /\ ~conn.broken /\ \A r \in DOMAIN conn.response :
       conn.response[r].hasSocket <=> conn.http = r
  /\ \A i, j \in DOMAIN conn.wire : i < j => conn.wire[i][1] <= conn.wire[j][1]
  /\ \A i \in DOMAIN conn.wire : \A r \in 1..(conn.wire[i][1] - 1) :
       conn.response[r].finished /\ ~conn.response[r].last
  /\ ~conn.aborted =>
       \A i \in DOMAIN conn.answered : conn.answered[i][1] = conn.answered[i][2]

(* What of response r is in a sequence of data. *)
PartsOf(r, datas) ==
  LET upTo[n \in 0..Len(datas)] ==
        IF n = 0 THEN <<>>
        ELSE upTo[n - 1] \o (IF datas[n][1] = r THEN datas[n][2].parts
                                    ELSE <<>>)
  IN  upTo[Len(datas)]

(* Response r is on the wire, or buffered behind it, as the application   *)
(* said it: no part is lost, doubled or moved before another.              *)
IsAsSaid(r) ==
  LET out == conn.response[r].output
      buffered == PartsOf(r, [i \in DOMAIN out |-> <<r, out[i]>>])
      header == IF conn.response[r].header /\ ~conn.response[r].headerSent
                THEN <<Header>> ELSE <<>>
  IN  PartsOf(r, conn.wire) \o buffered \o header = conn.response[r].said

(* Every response reaches the peer as the application said it, whichever   *)
(* of its pieces waited for the socket.                                    *)
AsSaid == \A r \in DOMAIN conn.response : IsAsSaid(r)

(* The same but for the responses that buffer() has spoiled (line 485) and *)
(* those to Expect: 100-continue, whose header send() puts first.          *)
AsSaidUnlessDoubled ==
  \A r \in DOMAIN conn.response :
    conn.response[r].doubled \/ Head(conn.response[r].said \o <<Header>>) = Interim
      \/ IsAsSaid(r)

(* No response is stuck: while the socket is writable and no handler runs, *)
(* the one that has the socket is unfinished and has written all its       *)
(* output, and none waits when none has it.                                *)
NoneStuck ==
  Idle /\ conn.writable =>
    IF conn.http = None THEN conn.outgoings = <<>>
    ELSE ~conn.response[conn.http].finished
         /\ conn.response[conn.http].output = <<>>

=============================================================================
