----------------------------- MODULE NetSocket -----------------------------
(***************************************************************************)
(* The life of one net::Socket (include/libnode/detail/net/socket.h): the  *)
(* flags, the queue of writes made while connecting, the libuv requests in *)
(* flight, and the callbacks it defers with process::nextTick.             *)
(*                                                                         *)
(* libnode is single threaded, so a libuv callback runs to its end.  What  *)
(* interleaves is the order in which the loop delivers callbacks, and what *)
(* the application does: it may call the socket at any time and, from a    *)
(* listener, in the middle of a handler.  A handler is therefore an        *)
(* operator from a state to a state (a record with a field for each        *)
(* variable), so that a handler that calls another one composes them, and  *)
(* a call made by a listener is applied at the point of the emit.          *)
(*                                                                         *)
(* socket timeouts (timer_, active()) are not part of this module: without *)
(* setTimeout() they do nothing.  No caller in the library passes a write  *)
(* callback, so cb is null throughout.                                     *)
(***************************************************************************)
EXTENDS Naturals, Sequences, FiniteSets

CONSTANTS
  Calls,        \* the calls the application makes (a subset of AllCalls)
  Sizes,        \* lengths of the buffers it writes
  MaxWrites,    \* bound: write calls on one connection
  MaxOpened,    \* bound: uv handles the socket ever owns
  SizeMax       \* the largest value of Size, which is unsigned

Flag == {"READABLE", "WRITABLE", "CONNECTING", "PAUSED", "GOT_EOF",
         "DESTROYED", "DESTROY_SOON", "SHUTDOWN", "SHUTDOWN_QUEUED",
         "ERROR_EMITTED", "ALLOW_HALF_OPEN"}

Event == {"connect", "end", "error", "close"}

Tick == {"EmitError", "EmitErrorAndDestroy", "EmitClose"}

Assertion == {"OnRead: !GOT_EOF",
              "AfterShutdown: SHUTDOWN", "AfterShutdown: !WRITABLE",
              "AfterConnect: CONNECTING", "connect: CONNECTING",
              "OnDestroy: !handle_", "OnDestroy: DESTROYED"}

NoHandle == 0            \* handle_ == NULL
Handles  == 1..MaxOpened
NoData   == <<>>         \* end() without data; <<n>> is a buffer of length n

(* A call of the application, with what libuv answers to it: ok is whether *)
(* uv_write or uv_tcp_connect returns 0, shutOk whether uv_shutdown does.  *)
NoCall == [op |-> "none"]
AllCalls ==
  [op: {"write"}, size: Sizes, ok: BOOLEAN]
    \cup [op: {"end"}, data: {NoData} \cup {<<n>> : n \in Sizes},
          ok: BOOLEAN, shutOk: BOOLEAN]
    \cup [op: {"connect", "reconnect", "reopen"}, lookup: BOOLEAN, ok: BOOLEAN]
    \cup [op: {"pause", "resume", "resumeAfterEof", "destroy", "destroySoon",
                "release"}]

ASSUME CallsAssumption == Calls \subseteq AllCalls
ASSUME BoundsAssumption ==
  /\ Sizes \subseteq Nat
  /\ MaxWrites \in Nat
  /\ MaxOpened \in Nat \ {0}
  /\ SizeMax \in Nat \ {0}

VARIABLES
  \* the Socket object
  flags,       \* flags_
  handle,      \* handle_
  pending,     \* pendingWriteReqs_
  connQ,       \* connectBufQueue_: sequence of [id, size]
  listening,   \* the application's listeners are registered
  selfRef,     \* the OnDestroy listener, which holds the Socket alive
  held,        \* the application holds a Socket::Ptr
  \* the event loop
  ticks,       \* the socket's callbacks in the queue of process::nextTick
  draining,    \* callbacks left in the NextTick firing under way
  lookups,     \* handles whose AfterLookup has not been called
  connects,    \* handles with a uv_connect_t in flight
  writes,      \* uv_write_t in flight: set of [h, id]
  shutdowns,   \* handles with a uv_shutdown_t in flight
  reading,     \* uv_read_start is in force on handle_
  eof,         \* libuv has read the end of the stream of handle_
  \* history
  opened,      \* handles created so far
  issued,      \* write calls on this connection
  sent,        \* their ids, in the order they were handed to libuv
  destroys,    \* calls of destroy() that found the socket not destroyed
  heard,       \* how often the application has heard each event
  broken,      \* the assertions of socket.h that have failed
  crossed      \* nextTick fired between a uv_close and what it calls back

vars == <<flags, handle, pending, connQ, listening, selfRef, held, ticks,
          draining, lookups, connects, writes, shutdowns, reading, eof,
          opened, issued, sent, destroys, heard, broken, crossed>>

(* The state as a record, and the step to the state t. *)
Now == [flags |-> flags, handle |-> handle, pending |-> pending,
        connQ |-> connQ, listening |-> listening, selfRef |-> selfRef,
        held |-> held, ticks |-> ticks, draining |-> draining,
        lookups |-> lookups, connects |-> connects, writes |-> writes,
        shutdowns |-> shutdowns, reading |-> reading, eof |-> eof,
        opened |-> opened, issued |-> issued, sent |-> sent,
        destroys |-> destroys, heard |-> heard, broken |-> broken,
        crossed |-> crossed]

GoTo(t) ==
  /\ flags' = t.flags /\ handle' = t.handle /\ pending' = t.pending
  /\ connQ' = t.connQ /\ listening' = t.listening /\ selfRef' = t.selfRef
  /\ held' = t.held /\ ticks' = t.ticks /\ draining' = t.draining
  /\ lookups' = t.lookups /\ connects' = t.connects /\ writes' = t.writes
  /\ shutdowns' = t.shutdowns /\ reading' = t.reading /\ eof' = t.eof
  /\ opened' = t.opened /\ issued' = t.issued /\ sent' = t.sent
  /\ destroys' = t.destroys /\ heard' = t.heard /\ broken' = t.broken
  /\ crossed' = t.crossed

(* Flags::hasFlag, setFlag and unsetFlag, on a set of flags. *)
Has(s, f)   == f \in s.flags
Set(s, F)   == [s EXCEPT !.flags = @ \cup F]
Unset(s, F) == [s EXCEPT !.flags = @ \ F]

(* assert(holds): recorded when it fails; a release build goes on. *)
Assert(s, holds, a) == IF holds THEN s ELSE [s EXCEPT !.broken = @ \cup {a}]

-----------------------------------------------------------------------------
(* The operations of the socket. *)

ConnectQueueCleanUp(s) == [Unset(s, {"CONNECTING"}) EXCEPT !.connQ = <<>>]

(* Mutant: uv_close() is not called. *)
HandleNotClosed(s) == [s EXCEPT !.handle = NoHandle]

(* uv_close() and setOnRead(null): nothing more is read. *)
CloseHandle(s) == [s EXCEPT !.handle = NoHandle, !.reading = FALSE]

FireErrorCallbacks(s, err) ==
  IF err /\ ~Has(s, "ERROR_EMITTED")
  THEN [Set(s, {"ERROR_EMITTED"}) EXCEPT !.ticks = Append(@, "EmitError")]
  ELSE s

(* Mutants: destroy() without 'close', and with 'close' queued before      *)
(* 'error'.                                                                *)
DestroySilently(s, err) ==
  LET t == CloseHandle(Unset(ConnectQueueCleanUp(s), {"READABLE", "WRITABLE"}))
  IN  IF Has(s, "DESTROYED") THEN s
      ELSE [Set(FireErrorCallbacks(t, err), {"DESTROYED"})
              EXCEPT !.destroys = @ + 1]
CloseBeforeError(s, err) ==
  LET t == CloseHandle(Unset(ConnectQueueCleanUp(s), {"READABLE", "WRITABLE"}))
      u == [Set(t, {"DESTROYED"}) EXCEPT !.ticks = Append(@, "EmitClose"),
                                         !.destroys = @ + 1]
  IN  IF Has(s, "DESTROYED") THEN s ELSE FireErrorCallbacks(u, err)

(* destroy(err, null): err is whether there is an error. *)
DestroyWith(s, err) ==
  LET t == CloseHandle(Unset(ConnectQueueCleanUp(s), {"READABLE", "WRITABLE"}))
      u == FireErrorCallbacks(t, err)
  IN  IF Has(s, "DESTROYED") THEN s
      ELSE [Set(u, {"DESTROYED"}) EXCEPT !.ticks = Append(@, "EmitClose"),
                                         !.destroys = @ + 1]

Destroy(s) == DestroyWith(s, FALSE)

DestroySoon(s) ==
  LET t == Set(Unset(s, {"WRITABLE"}), {"DESTROY_SOON"})
  IN  IF Has(s, "DESTROYED") THEN s
      ELSE IF s.pending # 0 THEN t ELSE Destroy(t)

(* writeBuffer(): the request is handed to libuv, or the socket dies. *)
WriteBuffer(s, id, ok) ==
  IF s.handle = NoHandle \/ ~ok
  THEN DestroyWith(s, TRUE)
  ELSE [s EXCEPT !.pending = @ + 1,
                 !.writes = @ \cup {[h |-> s.handle, id |-> id]},
                 !.sent = Append(@, id)]

(* write(): queued while connecting.  There is no test of WRITABLE. *)
Write(s, size, ok) ==
  LET id == s.issued + 1
      t  == [s EXCEPT !.issued = id]
  IN  IF Has(s, "CONNECTING")
      THEN [t EXCEPT !.connQ = Append(@, [id |-> id, size |-> size])]
      ELSE WriteBuffer(t, id, ok)

WriteData(s, data, ok) ==
  IF data = NoData THEN s ELSE Write(s, data[1], ok)

End(s, data, ok, shutOk) ==
  LET queued == IF Has(s, "CONNECTING") /\ ~Has(s, "SHUTDOWN_QUEUED")
                THEN Set(Unset(WriteData(s, data, ok), {"WRITABLE"}),
                         {"SHUTDOWN_QUEUED"})
                ELSE s
      written == WriteData(Unset(queued, {"WRITABLE"}), data, ok)
      shut    == Set(written, {"SHUTDOWN"})
  IN  IF ~Has(queued, "WRITABLE") THEN queued
      ELSE IF ~Has(written, "READABLE") THEN DestroySoon(written)
      ELSE IF shutOk
           THEN [shut EXCEPT !.shutdowns = @ \cup {shut.handle}]
           ELSE DestroyWith(shut, TRUE)

Pause(s) ==
  LET t == Set(s, {"PAUSED"})
  IN  IF s.handle # NoHandle /\ ~Has(s, "CONNECTING")
      THEN [t EXCEPT !.reading = FALSE] ELSE t

Resume(s) ==
  LET t == Unset(s, {"PAUSED"})
  IN  IF s.handle # NoHandle /\ ~Has(s, "CONNECTING")
      THEN [t EXCEPT !.reading = TRUE] ELSE t

(* connect(self, handle, ...) on the uv handle h: bind and connect. *)
ConnectHandle(s, h, ok) ==
  LET t == Assert(s, Has(s, "CONNECTING"), "connect: CONNECTING")
  IN  IF ok THEN [t EXCEPT !.connects = @ \cup {h}]
            ELSE DestroyWith(t, TRUE)

(* Mutant: the counter of the last connection is kept. *)
InitKeepsPending(s, h) ==
  [s EXCEPT !.handle = h, !.flags = {},
            !.reading = FALSE, !.eof = FALSE, !.issued = 0, !.sent = <<>>,
            !.destroys = 0, !.heard = [e \in Event |-> 0]]

(* initSocketHandle() on a socket that has just been given the handle h.   *)
(* The history is that of the connection, so it starts again.              *)
InitSocketHandle(s, h) ==
  [s EXCEPT !.handle = h, !.flags = {}, !.pending = 0,
            !.reading = FALSE, !.eof = FALSE, !.issued = 0, !.sent = <<>>,
            !.destroys = 0, !.heard = [e \in Event |-> 0]]

(* connect(), by the application, which registers its listeners with it.  *)
Connect(s, lookup, ok) ==
  LET h == s.opened + 1
      t == IF Has(s, "DESTROYED") \/ s.handle = NoHandle
           THEN [InitSocketHandle(s, h) EXCEPT !.opened = h]
           ELSE s
      u == [Set(t, {"CONNECTING", "WRITABLE"}) EXCEPT !.listening = TRUE]
  IN  IF lookup THEN [u EXCEPT !.lookups = @ \cup {u.handle}]
                ELSE ConnectHandle(u, u.handle, ok)

-----------------------------------------------------------------------------
(* Calls of the application. *)

Fits(s, n) == s.issued + n <= MaxWrites

(* Nothing is left of the last connection: not a callback, not a lookup. *)
Settled(s) ==
  /\ s.handle = NoHandle /\ ~s.selfRef /\ s.ticks = <<>> /\ s.lookups = {}
  /\ s.connects = {} /\ s.writes = {} /\ s.shutdowns = {}

(* What the model lets the application do: the bounds, and which sequences *)
(* of calls it makes.  connect() is "connect" when it is the first use of  *)
(* the socket, "reopen" when the last connection has settled, "reconnect"  *)
(* at any other time.  "resume" comes before the end of the stream.        *)
Permitted(s, c) ==
  CASE c.op = "write"   -> Fits(s, 1)
    [] c.op = "end"     -> Fits(s, Len(c.data))
    [] c.op = "connect" -> s.opened = 0 /\ ~Has(s, "DESTROYED")
    [] c.op = "reconnect" -> s.opened \in 1..(MaxOpened - 1)
    [] c.op = "reopen"  -> s.opened \in 1..(MaxOpened - 1) /\ Settled(s)
    [] c.op = "resume"  -> ~s.eof
    [] OTHER            -> TRUE

Perform(s, c) ==
  CASE c.op = "write"       -> Write(s, c.size, c.ok)
    [] c.op = "end"         -> End(s, c.data, c.ok, c.shutOk)
    [] c.op \in {"connect", "reconnect", "reopen"} ->
         Connect(s, c.lookup, c.ok)
    [] c.op = "pause"       -> Pause(s)
    [] c.op \in {"resume", "resumeAfterEof"} -> Resume(s)
    [] c.op = "destroy"     -> Destroy(s)
    [] c.op = "destroySoon" -> DestroySoon(s)
    [] c.op = "release"     -> [s EXCEPT !.held = FALSE]
    [] OTHER                -> s

(* emit() of an event, whose listener makes the call c.  While a listener  *)
(* runs a callback is under way: the connection has not settled.           *)
Listener(s, c) ==
  IF s.listening /\ c.op # "reopen" /\ Permitted(s, c) THEN Perform(s, c) ELSE s

Emit(s, ev, c) ==
  IF s.listening
  THEN Listener([s EXCEPT !.heard[ev] = @ + 1], c)
  ELSE s

-----------------------------------------------------------------------------
(* Callbacks of libuv and of nextTick.  c is the call made by a listener.  *)

Idle == draining = 0     \* no NextTick firing is under way

(* OnRead with data: the event itself leaves the socket as it is. *)
OnReadData(s, c) == Listener(s, c)

OnReadEof(s, c) ==
  LET t == [Set(Unset(Assert(s, ~Has(s, "GOT_EOF"), "OnRead: !GOT_EOF"),
                      {"READABLE"}),
                {"GOT_EOF"})
              EXCEPT !.reading = FALSE, !.eof = TRUE]
      u == IF Has(t, "WRITABLE") THEN t ELSE Destroy(t)
      v(shutOk) == IF Has(u, "ALLOW_HALF_OPEN") THEN u
                   ELSE End(u, NoData, TRUE, shutOk)
  IN  {Emit(v(shutOk), "end", c) : shutOk \in BOOLEAN}

OnReadError(s) == DestroyWith(s, TRUE)

AfterShutdown(s, h) ==
  LET t == Assert(Assert([s EXCEPT !.shutdowns = @ \ {h}],
                         Has(s, "SHUTDOWN"), "AfterShutdown: SHUTDOWN"),
                  ~Has(s, "WRITABLE"), "AfterShutdown: !WRITABLE")
  IN  IF ~Has(t, "DESTROYED") /\ (Has(t, "GOT_EOF") \/ ~Has(t, "READABLE"))
      THEN Destroy(t) ELSE t

(* Mutant: it counts twice. *)
DecrementTwice(n) == IF n = 0 THEN SizeMax ELSE n - 2

(* pendingWriteReqs_-- on an unsigned Size. *)
Decrement(n) == IF n = 0 THEN SizeMax ELSE n - 1

(* Mutant: DESTROY_SOON is not looked at. *)
AfterWriteKeepsOpen(s, w, ok, c) ==
  LET t == [s EXCEPT !.writes = @ \ {w}]
      u == [t EXCEPT !.pending = Decrement(@)]
  IN  IF Has(t, "DESTROYED") THEN t
      ELSE IF ~ok THEN DestroyWith(t, TRUE)
      ELSE IF u.pending = 0 THEN Listener(u, c)
      ELSE u

AfterWrite(s, w, ok, c) ==
  LET t == [s EXCEPT !.writes = @ \ {w}]
      u == [t EXCEPT !.pending = Decrement(@)]
      drained == IF u.pending = 0 THEN Listener(u, c) ELSE u
  IN  IF Has(t, "DESTROYED") THEN t
      ELSE IF ~ok THEN DestroyWith(t, TRUE)
      ELSE IF drained.pending = 0 /\ Has(drained, "DESTROY_SOON")
           THEN Destroy(drained)
      ELSE drained

(* The loop of AfterConnect over connectBufQueue: writes[i] is accepted by *)
(* libuv for i < bad.  Once a write has destroyed the socket the others    *)
(* find no handle and change nothing.                                      *)
Flush(s, bad) ==
  LET n == IF bad \in DOMAIN s.connQ THEN bad - 1 ELSE Len(s.connQ)
      t == [s EXCEPT
              !.pending = @ + n,
              !.writes = @ \cup {[h |-> s.handle, id |-> s.connQ[i].id] :
                                   i \in 1..n},
              !.sent = @ \o [i \in 1..n |-> s.connQ[i].id]]
  IN  IF n < Len(s.connQ) THEN DestroyWith(t, TRUE) ELSE t

(* connectQueueSize_, the sum of the lengths, is not 0. *)
QueueSized(s) == \E i \in DOMAIN s.connQ : s.connQ[i].size # 0

(* Mutant: 'connect' is heard first. *)
EmitAndFlush(s, bad, c) ==
  LET e == Emit(s, "connect", c)
  IN  IF QueueSized(e) THEN ConnectQueueCleanUp(Flush(e, bad)) ELSE e

(* The writes queued while connecting go out before 'connect' is heard. *)
FlushAndEmit(s, bad, c) ==
  LET f == IF QueueSized(s) THEN ConnectQueueCleanUp(Flush(s, bad)) ELSE s
  IN  Emit(f, "connect", c)

(* The end() made while connecting. *)
EndQueued(s, shutOk) ==
  IF Has(s, "SHUTDOWN_QUEUED")
  THEN End(Unset(s, {"SHUTDOWN_QUEUED"}), NoData, TRUE, shutOk) ELSE s

(* A connected uv handle is both readable and writable. *)
AfterConnect(s, h, ok, bad, c, shutOk) ==
  LET t == [s EXCEPT !.connects = @ \ {h}]
      a == Unset(Assert(t, Has(t, "CONNECTING"), "AfterConnect: CONNECTING"),
                 {"CONNECTING"})
      b == [Set(a, {"READABLE", "WRITABLE"})
              EXCEPT !.reading = @ \/ ~Has(a, "PAUSED")]
  IN  IF Has(t, "DESTROYED") THEN t
      ELSE IF ~ok THEN DestroyWith(ConnectQueueCleanUp(a), TRUE)
      ELSE EndQueued(FlushAndEmit(b, bad, c), shutOk)

(* Mutant: a late answer of the lookup is not recognised. *)
AfterLookupUnguarded(s, h, err, ok) ==
  LET t == [s EXCEPT !.lookups = @ \ {h}]
  IN  IF err THEN [t EXCEPT !.ticks = Append(@, "EmitErrorAndDestroy")]
      ELSE ConnectHandle(t, h, ok)

(* AfterLookup has kept the uv handle h (tcp_) since connect(). *)
AfterLookup(s, h, err, ok) ==
  LET t == [s EXCEPT !.lookups = @ \ {h}]
  IN  IF ~Has(t, "CONNECTING") THEN t
      ELSE IF err THEN [t EXCEPT !.ticks = Append(@, "EmitErrorAndDestroy")]
      ELSE ConnectHandle(t, h, ok)

OnDestroy(s) ==
  IF ~s.selfRef THEN s
  ELSE [Assert(Assert(s, s.handle = NoHandle, "OnDestroy: !handle_"),
               Has(s, "DESTROYED"), "OnDestroy: DESTROYED")
          EXCEPT !.listening = FALSE, !.selfRef = FALSE]

RunTick(s, tick, c) ==
  CASE tick = "EmitError"           -> Emit(s, "error", c)
    [] tick = "EmitErrorAndDestroy" -> Destroy(Emit(s, "error", c))
    [] tick = "EmitClose"           -> OnDestroy(Emit(s, "close", c))

-----------------------------------------------------------------------------
(* The initial states and the actions.                                     *)

(* Socket::create() by the application, or OnConnection of net::Server for *)
(* an accepted handle, which sets the flags and starts to read.            *)
(* initSocketHandle() has cleared ALLOW_HALF_OPEN, whatever create() got.  *)
Init ==
  \E accepted \in BOOLEAN :
    /\ flags = IF accepted THEN {"READABLE", "WRITABLE"} ELSE {}
    /\ handle = IF accepted THEN 1 ELSE NoHandle
    /\ reading = accepted
    /\ opened = IF accepted THEN 1 ELSE 0
    /\ pending = 0 /\ connQ = <<>>
    /\ listening = TRUE /\ selfRef = TRUE /\ held = TRUE
    /\ ticks = <<>> /\ draining = 0
    /\ lookups = {} /\ connects = {} /\ writes = {} /\ shutdowns = {}
    /\ eof = FALSE /\ issued = 0 /\ sent = <<>> /\ destroys = 0
    /\ heard = [e \in Event |-> 0]
    /\ broken = {} /\ crossed = FALSE

Reactions == Calls \cup {NoCall}

AppCall(c) ==
  /\ Idle /\ held /\ Permitted(Now, c)
  /\ GoTo(Perform(Now, c))

ReadData(c) ==
  /\ Idle /\ reading /\ ~eof
  /\ GoTo(OnReadData(Now, c))

ReadEof(c) ==
  /\ Idle /\ reading
  /\ \E t \in OnReadEof(Now, c) : GoTo(t)

ReadError ==
  /\ Idle /\ reading
  /\ GoTo(OnReadError(Now))

(* A request of a handle that is no longer the socket's was cancelled by   *)
(* uv_close; a write may have completed just before that.                  *)
ConnectDone(h, ok, bad, c, shutOk) ==
  /\ Idle /\ h \in connects /\ (ok => h = handle)
  /\ GoTo(AfterConnect(Now, h, ok, bad, c, shutOk))

WriteDone(w, ok, c) ==
  /\ Idle /\ w \in writes
  /\ \A v \in writes : v.h = w.h => w.id <= v.id
  /\ GoTo(AfterWrite(Now, w, ok, c))

ShutdownDone(h) ==
  /\ Idle /\ h \in shutdowns
  /\ \A w \in writes : w.h # h
  /\ GoTo(AfterShutdown(Now, h))

LookupDone(h, err, ok) ==
  /\ Idle /\ h \in lookups
  /\ GoTo(AfterLookup(Now, h, err, ok))

(* uv_close() calls back the requests it cancels before the loop comes to  *)
(* its timers again, unless a timer that another user of nextTick has      *)
(* started is due in between.                                              *)
Cancelled ==
  connects \cup shutdowns \cup {w.h : w \in writes} \subseteq {handle}

(* A timer of nextTick fires: it runs the callbacks queued by now. *)
FireNextTick ==
  /\ Idle /\ ticks # <<>>
  /\ GoTo([Now EXCEPT !.draining = Len(ticks), !.crossed = @ \/ ~Cancelled])

NextTickCallback(c) ==
  /\ ~Idle
  /\ GoTo(RunTick([Now EXCEPT !.ticks = Tail(@), !.draining = @ - 1],
                  Head(ticks), c))

AnyConnectDone ==
  \E h \in connects, ok \in BOOLEAN, shutOk \in BOOLEAN, c \in Reactions :
    \E bad \in 0..Len(connQ) : ConnectDone(h, ok, bad, c, shutOk)
AnyWriteDone ==
  \E w \in writes, ok \in BOOLEAN, c \in Reactions : WriteDone(w, ok, c)
AnyShutdownDone == \E h \in shutdowns : ShutdownDone(h)
AnyLookupDone ==
  \E h \in lookups, err \in BOOLEAN, ok \in BOOLEAN : LookupDone(h, err, ok)
AnyNextTickCallback == \E c \in Reactions : NextTickCallback(c)

Next ==
  \/ \E c \in Calls : AppCall(c)
  \/ \E c \in Reactions : ReadData(c)
  \/ \E c \in Reactions : ReadEof(c)
  \/ ReadError
  \/ AnyConnectDone
  \/ AnyWriteDone
  \/ AnyShutdownDone
  \/ AnyLookupDone
  \/ FireNextTick
  \/ AnyNextTickCallback

Spec == Init /\ [][Next]_vars

(* libuv completes every request it has accepted, and the loop keeps       *)
(* turning: its timers fire.  Nothing is assumed of the application or of  *)
(* the peer.                                                               *)
Fairness ==
  /\ WF_vars(AnyConnectDone)
  /\ WF_vars(AnyWriteDone)
  /\ WF_vars(AnyShutdownDone)
  /\ WF_vars(AnyLookupDone)
  /\ WF_vars(FireNextTick)
  /\ WF_vars(AnyNextTickCallback)

FairSpec == Spec /\ Fairness

-----------------------------------------------------------------------------
(* Properties.                                                             *)

(* Every variable has its type. *)
TypeOK ==
  /\ flags \in SUBSET Flag
  /\ handle \in {NoHandle} \cup Handles
  /\ pending \in Nat
  /\ connQ \in Seq([id: Nat, size: Sizes])
  /\ listening \in BOOLEAN /\ selfRef \in BOOLEAN /\ held \in BOOLEAN
  /\ ticks \in Seq(Tick)
  /\ draining \in 0..Len(ticks)
  /\ lookups \in SUBSET Handles
  /\ connects \in SUBSET Handles
  /\ writes \in SUBSET [h: Handles, id: Nat]
  /\ shutdowns \in SUBSET Handles
  /\ reading \in BOOLEAN /\ eof \in BOOLEAN
  /\ opened \in 0..MaxOpened
  /\ issued \in Nat
  /\ sent \in Seq(Nat)
  /\ destroys \in Nat
  /\ heard \in [Event -> Nat]
  /\ broken \in SUBSET Assertion
  /\ crossed \in BOOLEAN

(* The assertions of socket.h hold (lines 450, 462, 642, 689, 690, 751,    *)
(* 932 and 933), in whatever order libuv delivers its callbacks.           *)
AssertionsHold == broken = {}

(* handle_ is dereferenced without a test where one of these flags is set  *)
(* (end() line 132, AfterConnect line 780): it is never NULL there.        *)
NoNullHandle ==
  flags \cap {"READABLE", "WRITABLE", "CONNECTING"} # {} => handle # NoHandle

(* A destroyed socket keeps nothing: no handle, no flag that lets a call   *)
(* through, no queued write (destroy(), lines 555-564).                    *)
TornDown ==
  "DESTROYED" \in flags =>
    /\ handle = NoHandle /\ ~reading
    /\ flags \cap {"READABLE", "WRITABLE", "CONNECTING"} = {}
    /\ connQ = <<>>

(* The bookkeeping is right: no assertion fails, and pendingWriteReqs_, on *)
(* which destroySoon() decides, counts the writes of the handle that libuv *)
(* has not answered, until the socket is destroyed.                        *)
PendingMatches ==
  /\ AssertionsHold
  /\ "DESTROYED" \notin flags =>
       pending = Cardinality({w \in writes : w.h = handle})

Count(t) == Cardinality({i \in DOMAIN ticks : ticks[i] = t})

(* A connection is destroyed once, however many calls and callbacks try,   *)
(* and that is announced by exactly one 'close'; 'error' is emitted at     *)
(* most once, and before 'close'.                                          *)
CloseOnceAfterError ==
  /\ destroys <= 1
  /\ destroys = heard["close"] + Count("EmitClose")
  /\ heard["error"] + Count("EmitError") + Count("EmitErrorAndDestroy") <= 1
  /\ \A i, j \in DOMAIN ticks :
       ticks[i] = "EmitClose" /\ ticks[j] # "EmitClose" => j < i
  /\ heard["close"] > 0 => Count("EmitError") = 0

(* Buffers reach libuv in the order of the calls of write(), whether they  *)
(* were queued while connecting or not.  While the socket is not destroyed *)
(* no write is lost: it was handed to libuv or it is queued, and after the *)
(* connection is made only buffers of length 0 can be left in the queue    *)
(* (AfterConnect tests its size).                                          *)
WritesInOrder ==
  /\ \A i, j \in DOMAIN sent : i < j => sent[i] < sent[j]
  /\ \A i \in DOMAIN connQ, j \in DOMAIN sent :
       connQ[i].size > 0 => sent[j] < connQ[i].id
  /\ "DESTROYED" \notin flags =>
       /\ \A n \in 1..issued : \/ \E i \in DOMAIN sent : sent[i] = n
                               \/ \E i \in DOMAIN connQ : connQ[i].id = n
       /\ "CONNECTING" \notin flags =>
            \A i \in DOMAIN connQ : connQ[i].size = 0

(* No callback is left that would use the Socket, which they hold by a raw *)
(* pointer, when nobody holds it any more.  This is about its first        *)
(* connection: OnDestroy() has taken the listener that holds the Socket,   *)
(* and an application that connects it again has to hold it itself.  It    *)
(* does not hold when a timer of another user of nextTick runs OnDestroy() *)
(* before libuv has called the cancelled requests back (crossed).          *)
NoUseAfterFree ==
  ~selfRef /\ ~held /\ lookups = {} /\ opened <= 1 /\ ~crossed =>
    /\ connects = {} /\ writes = {} /\ shutdowns = {}
    /\ ticks = <<>> /\ ~reading

(* Once destroyed, a socket starts nothing: no request, no callback, no    *)
(* second destruction, whichever late answer or call comes (the tests of   *)
(* DESTROYED, of handle_ and of CONNECTING in the callbacks), unless the    *)
(* application connects it again.                                          *)
DestroyedIsFinal ==
  []["DESTROYED" \in flags /\ opened' = opened =>
       /\ "DESTROYED" \in flags' /\ destroys' = destroys
       /\ connects' \subseteq connects /\ writes' \subseteq writes
       /\ shutdowns' \subseteq shutdowns /\ Len(ticks') <= Len(ticks)]_vars

(* What was put off takes effect: destroySoon() destroys the socket once   *)
(* its writes are done, also when listeners keep calling it, and an end()  *)
(* made while connecting takes effect when the connection is made, unless  *)
(* the socket is destroyed.                                                *)
PutOffTakesEffect ==
  /\ "DESTROY_SOON" \in flags ~> "DESTROYED" \in flags
  /\ "SHUTDOWN_QUEUED" \in flags ~>
       flags \cap {"SHUTDOWN", "DESTROY_SOON", "DESTROYED"} # {}

(* The socket keeps the promise its users count on: seen from outside,     *)
(* through its 'close' event, it is a Connection, and 'close' does follow  *)
(* every destruction.                                                      *)
Promised == INSTANCE Connection
              WITH life <- IF "DESTROYED" \notin flags THEN "open"
                           ELSE IF heard["close"] = 0 THEN "destroyed"
                           ELSE "closed"
KeepsPromise == Promised!FairPromise
=============================================================================
