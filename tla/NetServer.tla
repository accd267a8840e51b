----------------------------- MODULE NetServer ------------------------------
(***************************************************************************)
(* net::Server (include/libnode/detail/net/server.h): listening, accepting *)
(* connections up to a limit, counting them down when they close, and      *)
(* announcing its own 'close' when the last one is gone.                   *)
(*                                                                         *)
(* The sockets it accepts are taken at their promise, the module           *)
(* Connection: they are destroyed once, for a reason the server does not   *)
(* see, and emit 'close' from the queue of process::nextTick, which they   *)
(* share with the server.  As in NetSocket, a handler is an operator from  *)
(* a state to a state, and a listener of the application may call the      *)
(* server in the middle of one.                                            *)
(***************************************************************************)
EXTENDS Naturals, Sequences, FiniteSets

CONSTANTS
  Clients,      \* the connections peers may make
  Calls,        \* the calls the application makes (a subset of AllCalls)
  Limits,       \* values it gives to setMaxConnections()
  MaxListens    \* bound: calls of listen()

Event == {"listening", "connection", "error", "close"}

OwnTick == {"EmitListening", "EmitError", "EmitClose"}
Tick    == [of: {"server"}, do: OwnTick] \cup [of: Clients]

Assertion == {"OnDestroy: !handle_", "OnDestroy: !connections_"}

(* Calls of the application.  A listen() may fail because of the host, the *)
(* bind or the uv_listen.  It is "relisten" after a close() that has been  *)
(* accepted, "listen" before; close() is "closeIdle" without a handle.     *)
NoCall == [op |-> "none"]
Results == {"ok", "badHost", "bindFails", "listenFails"}
AllCalls == [op: {"listen", "relisten"}, result: Results]
              \cup [op: {"close", "closeIdle", "release"}]
              \cup [op: {"setMaxConnections"}, max: Limits]
              \cup [op: {"destroy"}, client: Clients]

ASSUME ClientsAssumption == IsFiniteSet(Clients) /\ "server" \notin Clients
ASSUME CallsAssumption   == Calls \subseteq AllCalls
ASSUME BoundsAssumption  == Limits \subseteq Nat /\ MaxListens \in Nat

VARIABLES
  \* the Server object
  handle,          \* handle_ is not NULL
  connections,     \* connections_
  maxConnections,  \* maxConnections_, 0 for no limit
  listening,       \* the application's listeners are registered
  selfRef,         \* the OnDestroy listener, which holds the Server alive
  held,            \* the application holds a Server::Ptr
  \* its sockets and the event loop
  life,            \* of each client: as in Connection, or "none" before
  ticks,           \* the queue of process::nextTick
  draining,        \* callbacks left in the firing under way
  \* history
  listens,         \* calls of listen()
  closings,        \* calls of close() that returned true
  heard,           \* how often the application has heard each event
  broken           \* the assertions of server.h that have failed

vars == <<handle, connections, maxConnections, listening, selfRef, held,
          life, ticks, draining, listens, closings, heard, broken>>

Now == [handle |-> handle, connections |-> connections,
        maxConnections |-> maxConnections, listening |-> listening,
        selfRef |-> selfRef, held |-> held, life |-> life, ticks |-> ticks,
        draining |-> draining, listens |-> listens, closings |-> closings,
        heard |-> heard, broken |-> broken]

GoTo(t) ==
  /\ handle' = t.handle /\ connections' = t.connections
  /\ maxConnections' = t.maxConnections /\ listening' = t.listening
  /\ selfRef' = t.selfRef /\ held' = t.held /\ life' = t.life
  /\ ticks' = t.ticks /\ draining' = t.draining
  /\ listens' = t.listens /\ closings' = t.closings
  /\ heard' = t.heard /\ broken' = t.broken

Assert(s, holds, a) == IF holds THEN s ELSE [s EXCEPT !.broken = @ \cup {a}]

ServerTick(do)  == [of |-> "server", do |-> do]
NextTick(s, do) == [s EXCEPT !.ticks = Append(@, ServerTick(do))]

-----------------------------------------------------------------------------
(* The operations of the server. *)

RemoveAllListeners(s) == [s EXCEPT !.listening = FALSE, !.selfRef = FALSE]

Hear(s, ev) == IF s.listening THEN [s EXCEPT !.heard[ev] = @ + 1] ELSE s

(* Mutants: close is announced at once; with no look at the connections.   *)
EmitCloseNow(s) == IF s.handle \/ s.connections # 0
                   THEN s ELSE Hear(s, "close")
EmitCloseUnlessListen(s)  == IF s.handle THEN s ELSE NextTick(s, "EmitClose")

EmitCloseIfDrained(s) ==
  IF s.handle \/ s.connections # 0 THEN s ELSE NextTick(s, "EmitClose")

(* listen(): a host that is not an IP address is reported at once, the     *)
(* other failures with nextTick.                                           *)
Listen(s, result) ==
  LET t == [s EXCEPT !.listens = @ + 1]
  IN  CASE s.handle -> t
        [] ~s.handle /\ result = "badHost" -> Hear(t, "error")
        [] ~s.handle /\ result \in {"bindFails", "listenFails"} ->
             NextTick(t, "EmitError")
        [] ~s.handle /\ result = "ok" ->
             NextTick([t EXCEPT !.handle = TRUE], "EmitListening")

Close(s) ==
  IF ~s.handle THEN RemoveAllListeners(s)
  ELSE EmitCloseIfDrained([s EXCEPT !.handle = FALSE, !.closings = @ + 1])

(* destroy() of a socket that emits 'close' to the server's listener. *)
DestroySocket(s, i) ==
  IF s.life[i] # "open" THEN s
  ELSE [s EXCEPT !.life[i] = "destroyed", !.ticks = Append(@, [of |-> i])]

(* What the model lets the application do. *)
Permitted(s, c) ==
  CASE c.op = "listen"    -> s.listens < MaxListens /\ s.closings = 0
    [] c.op = "relisten"  -> s.listens < MaxListens /\ s.closings > 0
    [] c.op = "close"     -> s.handle
    [] c.op = "closeIdle" -> ~s.handle
    \* the limit is not lowered below the connections there are
    [] c.op = "setMaxConnections" -> c.max = 0 \/ s.connections <= c.max
    [] OTHER -> TRUE

Perform(s, c) ==
  CASE c.op \in {"listen", "relisten"}  -> Listen(s, c.result)
    [] c.op \in {"close", "closeIdle"}  -> Close(s)
    [] c.op = "setMaxConnections" -> [s EXCEPT !.maxConnections = c.max]
    [] c.op = "destroy"           -> DestroySocket(s, c.client)
    [] c.op = "release"           -> [s EXCEPT !.held = FALSE]
    [] OTHER                      -> s

(* emit() of an event of the server, whose listener makes the call c. *)
Emit(s, ev, c) ==
  IF s.listening /\ Permitted(Hear(s, ev), c)
  THEN Perform(Hear(s, ev), c)
  ELSE Hear(s, ev)

-----------------------------------------------------------------------------
(* Callbacks.  c is the call made by a listener of the application.        *)

Full(s) == s.maxConnections # 0 /\ s.connections >= s.maxConnections

(* Mutant: the connection is not counted. *)
AcceptUncounted(s, i, c) ==
  IF Full(s) THEN s
  ELSE Emit([s EXCEPT !.life[i] = "open"], "connection", c)

(* OnConnection with a client handle: over the limit it is closed at once. *)
Accept(s, i, c) ==
  IF Full(s) THEN s
  ELSE Emit([s EXCEPT !.connections = @ + 1, !.life[i] = "open"],
            "connection", c)

(* OnConnection without one: libuv reports a failure to accept. *)
AcceptFails(s, c) == Emit(s, "error", c)

(* Mutant: the count goes down after it has been looked at. *)
RemoveLate(s) ==
  LET t == EmitCloseIfDrained(s) IN [t EXCEPT !.connections = @ - 1]

(* RemoveConnection, the server's listener to the close of a socket. *)
RemoveConnection(s) == EmitCloseIfDrained([s EXCEPT !.connections = @ - 1])

(* EmitClose of a socket: the server's listener was registered first, and  *)
(* a listener of the application may call the server.                      *)
SocketCloses(s, i, c) ==
  LET t == RemoveConnection([s EXCEPT !.life[i] = "closed"])
  IN  IF Permitted(t, c) THEN Perform(t, c) ELSE t

OnDestroy(s) ==
  IF ~s.selfRef THEN s
  ELSE RemoveAllListeners(
         Assert(Assert(s, ~s.handle, "OnDestroy: !handle_"),
                s.connections = 0, "OnDestroy: !connections_"))

RunTick(s, tick, c) ==
  IF tick.of # "server" THEN SocketCloses(s, tick.of, c)
  ELSE CASE tick.do = "EmitListening" -> Emit(s, "listening", c)
         [] tick.do = "EmitError"     -> Emit(s, "error", c)
         [] tick.do = "EmitClose"     -> OnDestroy(Emit(s, "close", c))

-----------------------------------------------------------------------------
Init ==
  /\ handle = FALSE /\ connections = 0 /\ maxConnections = 0
  /\ listening = TRUE /\ selfRef = TRUE /\ held = TRUE
  /\ life = [i \in Clients |-> "none"]
  /\ ticks = <<>> /\ draining = 0
  /\ listens = 0 /\ closings = 0
  /\ heard = [e \in Event |-> 0]
  /\ broken = {}

Reactions == Calls \cup {NoCall}

Idle == draining = 0

AppCall(c) ==
  /\ Idle /\ held /\ Permitted(Now, c)
  /\ GoTo(Perform(Now, c))

OnConnection(i, c) ==
  /\ Idle /\ handle /\ life[i] = "none"
  /\ GoTo(Accept(Now, i, c))

(* Bounded: as many failures as calls of listen(). *)
OnConnectionError(c) ==
  /\ Idle /\ handle /\ heard["error"] < MaxListens
  /\ GoTo(AcceptFails(Now, c))

(* The peer, a failure or the application ends the connection. *)
SocketDies(i) ==
  /\ Idle /\ life[i] = "open"
  /\ GoTo(DestroySocket(Now, i))

FireNextTick ==
  /\ Idle /\ ticks # <<>>
  /\ GoTo([Now EXCEPT !.draining = Len(ticks)])

NextTickCallback(c) ==
  /\ ~Idle
  /\ GoTo(RunTick([Now EXCEPT !.ticks = Tail(@), !.draining = @ - 1],
                  Head(ticks), c))

AnyNextTickCallback == \E c \in Reactions : NextTickCallback(c)

Next ==
  \/ \E c \in Calls : AppCall(c)
  \/ \E i \in Clients, c \in Reactions : OnConnection(i, c)
  \/ \E c \in Reactions : OnConnectionError(c)
  \/ \E i \in Clients : SocketDies(i)
  \/ FireNextTick
  \/ AnyNextTickCallback

Spec == Init /\ [][Next]_vars

(* The loop keeps turning: its timers fire. *)
FairSpec == Spec /\ WF_vars(FireNextTick) /\ WF_vars(AnyNextTickCallback)

-----------------------------------------------------------------------------
(* Properties. *)

(* Every variable has its type. *)
TypeOK ==
  /\ handle \in BOOLEAN /\ listening \in BOOLEAN
  /\ selfRef \in BOOLEAN /\ held \in BOOLEAN
  /\ connections \in Nat
  /\ maxConnections \in Limits \cup {0}
  /\ life \in [Clients -> {"none", "open", "destroyed", "closed"}]
  /\ ticks \in Seq(Tick)
  /\ draining \in 0..Len(ticks)
  /\ listens \in Nat /\ closings \in Nat
  /\ heard \in [Event -> Nat]
  /\ broken \in SUBSET Assertion

(* The sockets that have been announced and have not announced their end. *)
Live == {i \in Clients : life[i] \in {"open", "destroyed"}}

(* connections_ counts the sockets the server has accepted and that have   *)
(* not emitted close, also while they wait for the next tick.              *)
ConnectionsMatch == connections = Cardinality(Live)

(* A 'close' on its way, which detaches every listener of the server,      *)
(* means that nothing is left to listen to.                                *)
CloseOnlyWhenDrained ==
  (\E k \in DOMAIN ticks : ticks[k] = ServerTick("EmitClose"))
    => ~handle /\ Live = {}

(* OnDestroy finds no handle and no connection (lines 334 and 335). *)
AssertionsHold == broken = {}

(* 'close' is the last thing the application hears: no error, connection   *)
(* or listening event that was deferred or raced with close() follows it.  *)
CloseIsLast == [][heard["close"] > 0 => heard' = heard]_vars

(* When nobody holds the Server, no callback is left that would use it     *)
(* through its raw pointer: its own, or those of its sockets.              *)
NoUseAfterFree ==
  ~selfRef /\ ~held =>
    Live = {} /\ \A k \in DOMAIN ticks : ticks[k].of # "server"

(* A server that was closed, and whose sockets are gone, announces it,     *)
(* whichever of the two came last.                                         *)
DrainedCloses == closings > 0 /\ ~handle /\ Live = {} ~> heard["close"] > 0
=============================================================================
