------------------------------ MODULE HttpAgent ------------------------------
(***************************************************************************)
(* http::Agent (detail/http/agent.h) and the client half of                *)
(* OutgoingMessage: requests to a host share at most MaxSockets sockets    *)
(* and wait for one; a socket whose response has ended is handed to the    *)
(* next request.                                                           *)
(*                                                                         *)
(* Each action is a call of the application, a callback of net::Socket or  *)
(* one entry of the queue of process::nextTick().  What a callback calls,  *)
(* listeners included, is a chain of operators on the record W of all      *)
(* variables.  The application keeps its ClientRequests; the server sends  *)
(* nothing beyond the response it owes.                                    *)
(***************************************************************************)
EXTENDS Naturals, Sequences, FiniteSets, SequencesExt

CONSTANTS
  Req,         \* the requests, positive numbers
  Hosts,       \* the names the agent makes of host and port
  MaxSockets,  \* maxSockets_
  Host(_),     \* the name each request is for
  MaxOdd       \* bound: aborts, pauses, failures, upgrades and illegal responses

ASSUME AgentAssumption ==
  /\ IsFiniteSet(Req) /\ Req \subseteq Nat \ {0}
  /\ MaxSockets \in Nat \ {0} /\ MaxOdd \in Nat /\ \A r \in Req : Host(r) \in Hosts

None == 0

VARIABLES
  sockets,   \* sockets_: the sockets of each name
  waiting,   \* requests_: the requests that wait for one
  sock,      \* every socket created so far
  req,       \* every request, with its response
  ticks,     \* the queue of process::nextTick()
  odd        \* how much of MaxOdd there was

vars == <<sockets, waiting, sock, req, ticks, odd>>

W == [sockets |-> sockets, waiting |-> waiting, sock |-> sock, req |-> req, ticks |-> ticks]

Becomes(new) ==
  \E w \in {new} :
    /\ sockets' = w.sockets /\ waiting' = w.waiting
    /\ sock' = w.sock /\ req' = w.req /\ ticks' = w.ticks

Usual == odd' = odd
Oddly(n) == odd + n <= MaxOdd /\ odd' = odd + n
Count(bools) == Cardinality({i \in DOMAIN bools : bools[i]})

NewRequest ==
  [made |-> FALSE, socket |-> None, parser |-> FALSE, aborting |-> FALSE,
   res |-> "none",      \* res_: "none", "reading", "complete" or "upgraded"
   keep |-> TRUE,       \* SHOULD_KEEP_ALIVE
   paused |-> FALSE, pending |-> FALSE, readable |-> TRUE,
   hadError |-> FALSE,
   errors |-> 0, ends |-> 0, closes |-> 0,  \* events its listeners got
   dead |-> FALSE]      \* history: its socket was destroyed when it was handed

(* state: "connecting", "open", "ending" (DESTROY_SOON with writes in      *)
(* flight), "destroyed", "closed" or "taken" (upgraded).                   *)
NewSocket(name) ==
  [name |-> name, state |-> "connecting", eof |-> FALSE, inFlight |-> FALSE,
   message |-> None,    \* httpMessage()
   parser  |-> None,    \* parser(): the request whose OnSocket made it
   hooks   |-> FALSE,   \* onData and onEnd are set
   listens |-> None,    \* whose SocketCloseListener and -ErrorListener it has
   agent   |-> TRUE]    \* it has OnFree, OnClose and OnRemove

Tick(kind, r, s) == [kind |-> kind, req |-> r, sock |-> s]

SetSock(w, s, new) == [w EXCEPT !.sock[s] = new]
SetReq(w, r, new)  == [w EXCEPT !.req[r] = new]
NextTick(w, t)     == [w EXCEPT !.ticks = Append(@, t)]
Writable(w, s)     == w.sock[s].state \in {"connecting", "open"}

-----------------------------------------------------------------------------
(* net::Socket, as NetSocket has it: destroy(), destroySoon(). *)

Destroy(w, s, err) ==
  LET gone == SetSock(w, s, [w.sock[s] EXCEPT !.state = "destroyed"])
      told == IF err THEN NextTick(gone, Tick("error", None, s)) ELSE gone
  IN  IF w.sock[s].state \in {"destroyed", "closed"} THEN w
      ELSE NextTick(told, Tick("close", None, s))

DestroySoon(w, s) ==
  IF w.sock[s].state \in {"open", "ending"} /\ w.sock[s].inFlight
  THEN SetSock(w, s, [w.sock[s] EXCEPT !.state = "ending"])
  ELSE Destroy(w, s, FALSE)

-----------------------------------------------------------------------------
(* The agent. *)

(* createSocket(): connects a new socket. *)
CreateSocket(w, name) ==
  [w EXCEPT !.sock = Append(@, NewSocket(name)),
            !.sockets[name] = Append(@, Len(w.sock) + 1)]

(* OutgoingMessage::onSocket() *)
HandTo(w, r, s) ==
  NextTick([w EXCEPT !.req[r].dead = w.sock[s].state \in {"destroyed", "closed"}],
           Tick("onSocket", r, s))

(* Mutant: the request stays in requests_. *)
FreeKeeping(w, s) ==
  LET name == w.sock[s].name
      rs   == w.waiting[name]
  IN  IF rs # <<>> THEN HandTo(w, Head(rs), s) ELSE Destroy(w, s, FALSE)

(* The socket's "free" (OnFree) and the agent's (Free): the socket is for  *)
(* the request that waits longest, or it is destroyed.                     *)
Free(w, s) ==
  LET name == w.sock[s].name
      rs   == w.waiting[name]
  IN  IF rs # <<>>
      THEN HandTo([w EXCEPT !.waiting[name] = Tail(rs)], Head(rs), s)
      ELSE Destroy(w, s, FALSE)

(* Mutant: nothing takes the place of the socket. *)
RemoveSocketOnly(w, s) ==
  LET name == w.sock[s].name IN [w EXCEPT !.sockets[name] = RemoveFirst(@, s)]

(* removeSocket(): another socket takes its place if a request waits. *)
RemoveSocket(w, s) ==
  LET name == w.sock[s].name
      less == [w EXCEPT !.sockets[name] = RemoveFirst(@, s)]
  IN  IF w.waiting[name] # <<>>
      THEN Free(CreateSocket(less, name), Len(w.sock) + 1)
      ELSE less

(* addRequest() *)
AddRequest(w, r) ==
  LET name == Host(r)
  IN  IF Len(w.sockets[name]) < MaxSockets
      THEN HandTo(CreateSocket(w, name), r, Len(w.sock) + 1)
      ELSE [w EXCEPT !.waiting[name] = Append(@, r)]

-----------------------------------------------------------------------------
(* Requests and responses. *)

ErrorEvent(w, r) == [w EXCEPT !.req[r].errors = @ + 1]
HadError(w, r)   == [w EXCEPT !.req[r].errors = @ + 1, !.req[r].hadError = TRUE]

(* freeParser(), with Parser::free(). *)
FreeParser(w, s, r) ==
  [w EXCEPT !.sock[s].parser = None, !.sock[s].hooks = FALSE, !.req[r].parser = FALSE]

(* ResponseOnEnd *)
ResponseOnEnd(w, r) ==
  LET s == w.req[r].socket
      unheard == [w EXCEPT !.sock[s].listens = None]
  IN  IF ~w.req[r].keep
      THEN IF Writable(w, s) THEN DestroySoon(w, s) ELSE w
      ELSE IF w.sock[s].agent THEN Free(unheard, s) ELSE unheard

(* emitEnd(): once only; the listeners of the application come first, and  *)
(* may abort.  An upgrade has no ResponseOnEnd.                            *)
EmitEnd(w, r, aborts) ==
  LET told == [w EXCEPT !.req[r].ends = @ + 1]
      then == IF aborts THEN Destroy(told, w.req[r].socket, FALSE) ELSE told
  IN  IF w.req[r].ends > 0 THEN w
      ELSE IF w.req[r].res = "upgraded" THEN told ELSE ResponseOnEnd(then, r)

(* Parser::onMessageComplete() *)
MessageComplete(w, r, aborts) ==
  LET done == [w EXCEPT !.req[r].res = "complete"]
  IN  IF w.req[r].paused \/ w.req[r].pending
      THEN [done EXCEPT !.req[r].pending = TRUE]
      ELSE EmitEnd([done EXCEPT !.req[r].readable = FALSE], r, aborts)

(* OnSocket: the request has its socket, and flushes what it has into it;  *)
(* an abort() that waited comes after that.                                *)
OnSocket(w, r, s) ==
  LET freed == IF w.sock[s].parser # None THEN FreeParser(w, s, r) ELSE w
      bound == SetReq(
        SetSock(freed, s, [freed.sock[s] EXCEPT
          !.parser = r, !.message = r, !.hooks = TRUE, !.listens = r,
          !.inFlight = @ \/ Writable(w, s)]),
        r, [freed.req[r] EXCEPT !.socket = s, !.parser = TRUE])
  IN  IF w.req[r].aborting /\ Writable(w, s) THEN Destroy(bound, s, FALSE) ELSE bound

(* parser->finish(): a response without a length is complete with the end  *)
(* of its stream, one that has a length is cut off.                        *)
Finish(w, r, aborts, cut) ==
  IF w.req[r].res = "reading" /\ ~w.req[r].keep /\ ~cut
  THEN MessageComplete(w, r, aborts) ELSE w

(* Mutant: HAD_ERROR is not set. *)
SocketOnEndUnmarked(w, s, aborts, cut) ==
  LET r    == w.sock[s].message
      told == IF w.req[r].res = "none" THEN ErrorEvent(w, r) ELSE w
      done == Finish(told, r, aborts, cut)
  IN  IF ~w.sock[s].hooks THEN w ELSE Destroy(FreeParser(done, s, r), s, FALSE)

(* SocketOnEnd *)
SocketOnEnd(w, s, aborts, cut) ==
  LET r    == w.sock[s].message
      told == IF w.req[r].res = "none" THEN HadError(w, r) ELSE w
      done == Finish(told, r, aborts, cut)
  IN  IF ~w.sock[s].hooks THEN w ELSE Destroy(FreeParser(done, s, r), s, FALSE)

(* SocketErrorListener *)
SocketError(w, s, cut) ==
  LET r    == w.sock[s].message
      told == HadError(w, r)
  IN  IF w.sock[s].listens = None THEN w
      ELSE IF w.sock[s].parser # None
           THEN FreeParser(Finish(told, r, FALSE, cut), s, r) ELSE told

(* SocketCloseListener: a response that was not read to its end is         *)
(* aborted, and ends (IncomingEmitClose), at once or, when chunks are      *)
(* pending, in a tick; a request without a response has an error.          *)
SocketClose(w, s, cut) ==
  LET r     == w.sock[s].message
      q     == w.req[r]
      told  == [w EXCEPT !.req[r].closes = @ + 1]
      ended == IF q.res # "none" /\ q.readable
               THEN IF q.pending THEN NextTick(told, Tick("emitClose", r, s))
                    ELSE EmitEnd(told, r, FALSE)
               ELSE IF q.res = "none" /\ ~q.hadError THEN ErrorEvent(told, r)
               ELSE told
  IN  IF w.sock[s].listens = None THEN w
      ELSE IF ended.req[r].parser
           THEN FreeParser(Finish(ended, r, FALSE, cut), s, r) ELSE ended

(* "close" and "destroy" of net::Socket: OnClose of the agent, then the    *)
(* listener of the request; then all listeners are removed.                *)
SocketCloses(w, s, cut) ==
  LET removed == IF w.sock[s].agent
                 THEN NextTick(RemoveSocket(w, s), Tick("socketFree", None, s)) ELSE w
      heard   == SocketClose(removed, s, cut)
  IN  SetSock(heard, s, [heard.sock[s] EXCEPT
        !.state = "closed", !.agent = FALSE, !.listens = None])

(* EmitPending, of resume() or of the SocketCloseListener.  A pending      *)
(* chunk that is null when it is taken out (a Buffer::CPtr, asked for as a *)
(* Buffer::Ptr) passes for the end: the response ends before it is read.   *)
EmitPending(w, r, null) ==
  IF w.req[r].paused \/ ~w.req[r].pending THEN w
  ELSE IF w.req[r].res # "complete" /\ ~null THEN [w EXCEPT !.req[r].pending = FALSE]
  ELSE EmitEnd([w EXCEPT !.req[r].pending = FALSE, !.req[r].readable = FALSE], r, FALSE)

-----------------------------------------------------------------------------
(* The application. *)

(* createInClient() *)
MakeRequest(r) ==
  /\ ~req[r].made /\ \A q \in Req : q < r => req[q].made
  /\ Usual
  /\ Becomes(AddRequest([W EXCEPT !.req[r].made = TRUE], r))

(* abort(): on the socket, or, by deferToConnect(), when there is one. *)
Abort(r) ==
  /\ req[r].made /\ ~req[r].aborting /\ Oddly(1)
  /\ LET marked == [W EXCEPT !.req[r].aborting = TRUE]
     IN  Becomes(IF req[r].socket # None
                 THEN Destroy(marked, req[r].socket, FALSE) ELSE marked)

(* resume() of the response. *)
Resume(r) ==
  /\ req[r].paused /\ Usual
  /\ LET on == [W EXCEPT !.req[r].paused = FALSE]
     IN  Becomes(IF req[r].pending
                 THEN NextTick(on, Tick("emitPending", r, None)) ELSE on)

-----------------------------------------------------------------------------
(* Callbacks of net::Socket. *)

Connects(s) ==
  /\ sock[s].state = "connecting" /\ Usual
  /\ Becomes(SetSock(W, s, [sock[s] EXCEPT !.state = "open"]))

(* The connection or a read fails. *)
SocketFails(s) ==
  /\ sock[s].state \in {"connecting", "open", "ending"} /\ Oddly(1)
  /\ Becomes(Destroy(W, s, TRUE))

WritesDone(s) ==
  /\ sock[s].state \in {"open", "ending"} /\ sock[s].inFlight /\ Usual
  /\ LET done == [W EXCEPT !.sock[s].inFlight = FALSE]
     IN  Becomes(IF sock[s].state = "ending" THEN Destroy(done, s, FALSE) ELSE done)

Reads(s) == sock[s].state \in {"open", "ending"} /\ ~sock[s].eof

(* The end of the stream: end() and with it destroySoon(), and the hook. *)
PeerEnds(s, aborts, cut) ==
  /\ Reads(s) /\ Oddly(Count(<<aborts, cut>>))
  /\ LET ended == [W EXCEPT !.sock[s].eof = TRUE]
         gone  == IF sock[s].state = "ending" THEN Destroy(ended, s, FALSE)
                  ELSE DestroySoon(ended, s)
     IN  Becomes(SocketOnEnd(gone, s, aborts, cut))

(* SocketOnData: a response begins (ParserOnIncomingClient).  The parser   *)
(* of a response that is read whole at once is not freed: the message it   *)
(* had before was none.                                                    *)
Responds(s, keep, pauses, whole, aborts) ==
  LET r == sock[s].message
      begun == [W EXCEPT !.req[r].res = "reading", !.req[r].keep = keep,
                         !.req[r].paused = pauses]
  IN  /\ Reads(s) /\ sock[s].hooks /\ req[r].res = "none"
      /\ aborts => whole /\ ~pauses
      /\ Oddly(Count(<<aborts, pauses>>))
      /\ Becomes(IF whole THEN MessageComplete(begun, r, aborts) ELSE begun)

(* SocketOnData: the body goes on, to the listeners or to what is pending. *)
Continues(s) ==
  LET r == sock[s].message
  IN  /\ Reads(s) /\ sock[s].hooks /\ req[r].res = "reading"
      /\ req[r].paused /\ ~req[r].pending /\ Usual
      /\ Becomes([W EXCEPT !.req[r].pending = TRUE])

(* SocketOnData: the response is complete. *)
Completes(s, aborts) ==
  LET r == sock[s].message
  IN  /\ Reads(s) /\ sock[s].hooks /\ req[r].res = "reading"
      /\ aborts => ~req[r].paused /\ ~req[r].pending
      /\ Oddly(Count(<<aborts>>))
      /\ Becomes(FreeParser(MessageComplete(W, r, aborts), s, r))

(* SocketOnData: no response that can be parsed, or what is left of one    *)
(* that ended before it was read and let its socket go.                    *)
IsIllegal(s) ==
  LET r == sock[s].message
  IN  /\ Reads(s) /\ sock[s].hooks /\ req[r].res # "complete" /\ Oddly(1)
      /\ Becomes(HadError(Destroy(FreeParser(W, s, r), s, FALSE), r))

(* SocketOnData: an upgrade, which the application takes or has no         *)
(* listener for.  It is noticed with the read after that of its header.    *)
Upgrades(s, taken) ==
  LET r    == sock[s].message
      gone == RemoveSocket(W, s)
      mine == SetReq(
        SetSock(gone, s, [gone.sock[s] EXCEPT
          !.agent = FALSE, !.listens = None, !.state = "taken"]),
        r, [gone.req[r] EXCEPT !.closes = @ + 1])
      left == IF taken THEN mine ELSE Destroy(W, s, FALSE)
  IN  /\ sock[s].state = "open" /\ ~sock[s].eof /\ sock[s].hooks /\ req[r].res = "none"
      /\ Oddly(1)
      /\ Becomes(FreeParser([left EXCEPT !.req[r].res = "upgraded"], s, r))

-----------------------------------------------------------------------------
(* process::nextTick() *)

(* What an entry of the queue does: OnSocket, EmitError, EmitClose,        *)
(* SocketFree or EmitPending.                                              *)
Called(w, t, cut, null) ==
  CASE t.kind = "onSocket"    -> OnSocket(w, t.req, t.sock)
    [] t.kind = "error"       -> SocketError(w, t.sock, cut)
    [] t.kind = "close"       -> SocketCloses(w, t.sock, cut)
    [] t.kind = "socketFree"  -> [w EXCEPT !.sock[t.sock].parser = None]
    [] t.kind = "emitPending" -> EmitPending(w, t.req, null)
    [] t.kind = "emitClose"   -> EmitEnd(EmitPending(w, t.req, null), t.req, FALSE)

CallTick(cut, null) ==
  /\ ticks # <<>> /\ Usual
  /\ Becomes(Called([W EXCEPT !.ticks = Tail(ticks)], Head(ticks), cut, null))

AgentInit ==
  /\ sockets = [n \in Hosts |-> <<>>] /\ waiting = [n \in Hosts |-> <<>>]
  /\ sock = <<>> /\ req = [r \in Req |-> NewRequest] /\ ticks = <<>>
  /\ odd = 0

SocketEvent(s) ==
  \/ Connects(s) \/ SocketFails(s) \/ IsIllegal(s) \/ Continues(s)
  \/ \E aborts, cut \in BOOLEAN : PeerEnds(s, aborts, cut)
  \/ \E aborts \in BOOLEAN : Completes(s, aborts)
  \/ \E keep, pauses, whole, aborts \in BOOLEAN : Responds(s, keep, pauses, whole, aborts)
  \/ \E taken \in BOOLEAN : Upgrades(s, taken)

AgentNext ==
  \/ \E cut, null \in BOOLEAN : CallTick(cut, null)
  \/ \E r \in Req : MakeRequest(r) \/ Abort(r) \/ Resume(r)
  \/ \E s \in DOMAIN sock : SocketEvent(s) \/ WritesDone(s)

Progress ==
  \/ \E cut, null \in BOOLEAN : CallTick(cut, null)
  \/ \E s \in DOMAIN sock : SocketEvent(s) \/ WritesDone(s)
  \/ \E r \in Req : Resume(r)

(* The loop goes on while there are ticks to call, sockets that libuv has  *)
(* to tell of, or paused responses, which are resumed.                     *)
AgentSpec == AgentInit /\ [][AgentNext]_vars /\ WF_vars(Progress)

-----------------------------------------------------------------------------
(* Properties. *)

(* A name never has more sockets than it may, and requests wait only while *)
(* it has that many: no slot is lost, whatever way a socket goes.          *)
WaitingMeansFull ==
  \A n \in Hosts :
    /\ Len(sockets[n]) <= MaxSockets
    /\ waiting[n] # <<>> => Len(sockets[n]) = MaxSockets

(* The requests that have, or are about to get, the socket s. *)
HandedTo(s) == {k \in DOMAIN ticks : ticks[k].kind = "onSocket" /\ ticks[k].sock = s}

(* A request is in one place: it waits, is handed a socket, or has one.  A *)
(* socket is handed to one request at a time, and only when the response   *)
(* of the one before has ended.                                            *)
OneEach ==
  /\ \A s \in DOMAIN sock :
       /\ Cardinality(HandedTo(s)) <= 1
       /\ HandedTo(s) # {} /\ sock[s].message # None => req[sock[s].message].ends = 1
  /\ \A r \in Req :
       Cardinality({k \in DOMAIN waiting[Host(r)] : waiting[Host(r)][k] = r})
       + Cardinality({k \in DOMAIN ticks : ticks[k].kind = "onSocket" /\ ticks[k].req = r})
       + (IF req[r].socket # None THEN 1 ELSE 0) = IF req[r].made THEN 1 ELSE 0

(* A request is told of one error at most, of its close and the end of its *)
(* response once, and a request that has neither response nor error by     *)
(* the time of its close is told so then.                                  *)
ToldOnce ==
  \A r \in Req :
    /\ req[r].errors <= 1 /\ req[r].ends <= 1 /\ req[r].closes <= 1
    /\ req[r].closes = 1 => req[r].res # "none" \/ req[r].errors = 1

(* Every request is answered or told that it will not be, unless the       *)
(* socket that it was handed was destroyed already.  Requests are finitely *)
(* many and what they are told is not taken back, so that this is: in the  *)
(* end no request that was made is left without.                           *)
RequestsSettle ==
  <>[](\A r \in Req :
         req[r].made => \/ req[r].ends = 1 \/ req[r].errors = 1 \/ req[r].closes = 1
                        \/ req[r].dead)
=============================================================================
