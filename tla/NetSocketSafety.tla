-------------------------- MODULE NetSocketSafety --------------------------
(* More proofs about NetSocket: what holds when the application connects   *)
(* the socket again only once its last connection has settled and does not *)
(* resume reading after the end of the stream, for every set of such calls *)
(* and every bound.                                                        *)
EXTENDS NetSocketProofs, FiniteSetTheorems

Orderly == \A c \in Calls : c.op \notin {"reconnect", "resumeAfterEof"}

Dead(s) == "DESTROYED" \in s.flags
Connecting(s) == "CONNECTING" \in s.flags

Increasing(q) == \A i, j \in DOMAIN q : i < j => q[i] < q[j]

(* How often 'error' has been heard or is going to be. *)
ErrorQueued(s) ==
  s.ticks \in {<<"EmitErrorAndDestroy">>, <<"EmitErrorAndDestroy", "EmitClose">>,
               <<"EmitError", "EmitClose">>}
Errors(s) == s.heard["error"] + (IF ErrorQueued(s) THEN 1 ELSE 0)

(* The queue and what was sent are the writes 1..issued, in this order. *)
Queued(s) ==
  /\ Len(s.connQ) + Len(s.sent) = s.issued
  /\ \A i \in DOMAIN s.connQ : s.connQ[i].id = i
  /\ \A j \in DOMAIN s.sent : s.sent[j] = Len(s.connQ) + j

(* The requests in flight are those of the handle. *)
Matched(s) ==
  /\ IsFiniteSet(s.writes)
  /\ s.pending = Cardinality(s.writes)
  /\ \A w \in s.writes : w.h = s.handle /\ w.id <= s.issued
  /\ s.shutdowns \subseteq {s.handle}

(* A socket on its way to be connected: at most one of a lookup, a connect *)
(* request and a failed lookup is pending, and nothing else is.            *)
LiveConnecting(s) ==
  /\ ~s.reading /\ "GOT_EOF" \notin s.flags
  /\ s.writes = {} /\ s.shutdowns = {} /\ s.sent = <<>>
  /\ s.connects \subseteq {s.handle} /\ s.lookups \subseteq {s.handle}
  /\ s.connects = {} \/ s.lookups = {}
  /\ Errors(s) = 1 => s.connects = {} /\ s.lookups = {}
  /\ "SHUTDOWN_QUEUED" \in s.flags => "WRITABLE" \notin s.flags

(* A socket that is connected, or that has not been used yet. *)
LiveSettled(s) ==
  /\ s.connects = {} /\ s.lookups = {} /\ Errors(s) = 0
  /\ \A i \in DOMAIN s.connQ : s.connQ[i].size = 0

(* A socket that is not destroyed has announced nothing. *)
Unannounced(s) ==
  /\ s.listening
  /\ s.destroys = 0 /\ s.heard["close"] = 0
  /\ s.ticks \in {<<>>, <<"EmitErrorAndDestroy">>}
  /\ Errors(s) <= 1

Live(s) ==
  /\ Unannounced(s)
  /\ Queued(s)
  /\ Matched(s)
  /\ s.shutdowns # {} => "WRITABLE" \notin s.flags
  /\ s.reading => "GOT_EOF" \notin s.flags
  /\ "GOT_EOF" \in s.flags => s.eof
  /\ s.handle = NoHandle => s.opened = 0 /\ s.connQ = <<>>
  /\ IF Connecting(s) THEN LiveConnecting(s) ELSE LiveSettled(s)

(* A destroyed socket has announced it, or is going to, once. *)
Announced(s) ==
  /\ s.ticks \in {<<>>, <<"EmitClose">>, <<"EmitError", "EmitClose">>,
                  <<"EmitErrorAndDestroy", "EmitClose">>}
  /\ s.destroys = 1
  /\ s.heard["close"] = (IF s.ticks = <<>> THEN 1 ELSE 0)
  /\ Errors(s) <= 1
  /\ ~s.listening => s.ticks = <<>> /\ ~s.selfRef

(* The inductive invariant of a handler. *)
Good(s) ==
  /\ Inv(s)
  /\ s.broken = {}
  /\ Increasing(s.sent)
  /\ s.opened = 0 => s.handle = NoHandle
  /\ s.shutdowns # {} => "SHUTDOWN" \in s.flags
  /\ IF Dead(s) THEN Announced(s) ELSE Live(s)

NoRequests(s) == s.connects = {} /\ s.writes = {} /\ s.shutdowns = {}

(* And what it owes to the order in which the loop runs the handlers. *)
Turns(s) ==
  /\ s.draining > 0 => s.draining = Len(s.ticks)
  /\ s.draining > 0 /\ Dead(s) /\ ~s.crossed => NoRequests(s)
  /\ ~s.selfRef /\ s.opened <= 1 =>
       /\ Dead(s) /\ s.ticks = <<>>
       /\ ~s.crossed => NoRequests(s)

-----------------------------------------------------------------------------
(* What the operators that change several fields do to each of them. *)

LEMMA DestroyWithIs ==
  ASSUME NEW s \in State, NEW err \in BOOLEAN, ~Dead(s)
  PROVE  LET r == DestroyWith(s, err) IN
         /\ r.flags = (s.flags \ {"CONNECTING", "READABLE", "WRITABLE"})
                       \cup (IF err THEN {"ERROR_EMITTED"} ELSE {})
                       \cup {"DESTROYED"}
         /\ r.handle = NoHandle /\ r.connQ = <<>> /\ r.reading = FALSE
         /\ r.destroys = s.destroys + 1
         /\ r.ticks = Append(IF err /\ "ERROR_EMITTED" \notin s.flags
                             THEN Append(s.ticks, "EmitError") ELSE s.ticks,
                             "EmitClose")
         /\ r.pending = s.pending /\ r.listening = s.listening
         /\ r.selfRef = s.selfRef /\ r.held = s.held
         /\ r.draining = s.draining /\ r.lookups = s.lookups
         /\ r.connects = s.connects /\ r.writes = s.writes
         /\ r.shutdowns = s.shutdowns /\ r.eof = s.eof
         /\ r.opened = s.opened /\ r.issued = s.issued /\ r.sent = s.sent
         /\ r.heard = s.heard /\ r.broken = s.broken
         /\ r.crossed = s.crossed
<1> DEFINE q == ConnectQueueCleanUp(s)
           t == CloseHandle(Unset(q, {"READABLE", "WRITABLE"}))
           u == FireErrorCallbacks(t, err)
           r == DestroyWith(s, err)
<1>1. q = [s EXCEPT !.flags = s.flags \ {"CONNECTING"}, !.connQ = <<>>]
  BY DEF ConnectQueueCleanUp, Unset, State
<1> HIDE DEF q
<1>2. t = [q EXCEPT !.flags = q.flags \ {"READABLE", "WRITABLE"}, !.handle = NoHandle, !.reading = FALSE]
  BY <1>1 DEF CloseHandle, Unset, State
<1> DEFINE F == s.flags \ {"CONNECTING", "READABLE", "WRITABLE"}
<1>3. t = [s EXCEPT !.flags = F, !.connQ = <<>>, !.handle = NoHandle, !.reading = FALSE]
  <2>1. q.flags \ {"READABLE", "WRITABLE"} = F
    BY <1>1 DEF State
  <2> HIDE DEF F, t
  <2>2. QED BY <1>1, <1>2, <2>1 DEF State
<1> HIDE DEF t
<1>4. u = IF err /\ "ERROR_EMITTED" \notin s.flags
          THEN [t EXCEPT !.flags = t.flags \cup {"ERROR_EMITTED"}, !.ticks = Append(s.ticks, "EmitError")]
          ELSE t
  BY <1>3 DEF FireErrorCallbacks, Set, State, Has
<1> HIDE DEF u
<1>5. r = [u EXCEPT !.flags = u.flags \cup {"DESTROYED"}, !.ticks = Append(u.ticks, "EmitClose"), !.destroys = u.destroys + 1]
  BY <1>3, <1>4 DEF DestroyWith, Set, State, Has, Dead, u, t, q
<1> HIDE DEF r
<1>6. QED BY <1>3, <1>4, <1>5 DEF State, r

LEMMA DestroyKeeps ==
  ASSUME NEW s \in State, NEW err \in BOOLEAN
  PROVE  DestroyWith(s, err).opened = s.opened
<1>1. CASE Dead(s)
  BY <1>1 DEF DestroyWith, Has, Dead
<1>2. CASE ~Dead(s)
  BY <1>2, DestroyWithIs
<1>3. QED  BY <1>1, <1>2

LEMMA AssertIs ==
  ASSUME NEW s \in State, NEW holds \in BOOLEAN, NEW a
  PROVE  LET b == IF holds THEN s.broken ELSE s.broken \cup {a}
         IN  Assert(s, holds, a) = [s EXCEPT !.broken = b]
<1>1. s = [s EXCEPT !.broken = s.broken]
  BY DEF State
<1>2. QED  BY <1>1 DEF Assert

LEMMA OnDestroyKeeps ==
  ASSUME NEW s \in State
  PROVE  LET r == OnDestroy(s) IN
         /\ r.flags = s.flags /\ r.destroys = s.destroys
         /\ r.connects = s.connects /\ r.writes = s.writes
         /\ r.shutdowns = s.shutdowns /\ r.ticks = s.ticks
         /\ r.opened = s.opened /\ r.heard = s.heard
         /\ r.draining = s.draining /\ r.crossed = s.crossed
         /\ r.selfRef = FALSE
         /\ r.sent = s.sent /\ r.handle = s.handle
         /\ r.listening = (s.listening /\ ~s.selfRef)
         /\ s.handle = NoHandle /\ Dead(s) => r.broken = s.broken
<1> DEFINE h == s.handle = NoHandle
           d == Has(s, "DESTROYED")
           a == Assert(s, h, "OnDestroy: !handle_")
           b == Assert(a, d, "OnDestroy: DESTROYED")
           t == [b EXCEPT !.listening = FALSE, !.selfRef = FALSE]
           x == IF h THEN s.broken ELSE s.broken \cup {"OnDestroy: !handle_"}
           y == IF d THEN a.broken ELSE a.broken \cup {"OnDestroy: DESTROYED"}
<1>1. h \in BOOLEAN /\ d \in BOOLEAN /\ d = Dead(s)
  BY DEF Has, Dead
<1>2. CASE ~s.selfRef
  BY <1>2 DEF OnDestroy, State
<1>3. CASE s.selfRef
  <2>1. OnDestroy(s) = t
    BY <1>3 DEF OnDestroy
  <2>2. s.handle = NoHandle /\ Dead(s) => x = s.broken /\ y = a.broken
    BY <1>1
  <2> HIDE DEF h, d
  <2>3. a = [s EXCEPT !.broken = x]
    BY <1>1, AssertIs
  <2> HIDE DEF x
  <2>4. b = IF d THEN a ELSE [a EXCEPT !.broken = y]
    BY DEF Assert
  <2> HIDE DEF a, y
  <2>5. b = [s EXCEPT !.broken = IF d THEN x ELSE y]
    BY <2>3, <2>4 DEF State
  <2> HIDE DEF b
  <2>6. QED  BY <1>1, <1>3, <2>1, <2>2, <2>5, ZenonT(40) DEF State
<1>4. s.selfRef \in BOOLEAN
  BY DEF State
<1>5. QED  BY <1>2, <1>3, <1>4

(* The socket that connect() starts with, on a handle of its own. *)
Started(s) ==
  [s EXCEPT !.flags = {"CONNECTING", "WRITABLE"}, !.handle = s.opened + 1,
            !.pending = 0, !.listening = TRUE, !.reading = FALSE,
            !.eof = FALSE, !.opened = s.opened + 1, !.issued = 0,
            !.sent = <<>>, !.destroys = 0, !.heard = [e \in Event |-> 0]]

LEMMA StartedState ==
  ASSUME NEW s \in State, s.opened < MaxOpened
  PROVE  Started(s) \in State /\ s.opened + 1 \in Handles
<1>1. s.opened + 1 \in Handles /\ s.opened + 1 \in 0..MaxOpened
  BY BoundsAssumption DEF State, Handles
<1>2. <<>> \in Seq(Nat) /\ [e \in Event |-> 0] \in [Event -> Nat]
  OBVIOUS
<1>3. {"CONNECTING", "WRITABLE"} \in SUBSET Flag
  BY DEF Flag
<1>4. QED  BY <1>1, <1>2, <1>3, ZenonT(40) DEF State, Started

LEMMA ConnectIs ==
  ASSUME NEW s \in State, s.opened < MaxOpened,
         s.handle = NoHandle \/ Dead(s),
         NEW lookup \in BOOLEAN, NEW ok \in BOOLEAN
  PROVE  LET u == Started(s)
             h == s.opened + 1
         IN  Connect(s, lookup, ok) =
               IF lookup THEN [u EXCEPT !.lookups = s.lookups \cup {h}]
               ELSE IF ok THEN [u EXCEPT !.connects = s.connects \cup {h}]
               ELSE DestroyWith(u, TRUE)
<1> DEFINE h == s.opened + 1
           i == [InitSocketHandle(s, h) EXCEPT !.opened = h]
           t == IF Has(s, "DESTROYED") \/ s.handle = NoHandle THEN i ELSE s
           u == [Set(t, {"CONNECTING", "WRITABLE"}) EXCEPT !.listening = TRUE]
<1>1. t = i
  BY DEF Has, Dead
<1>2. i = [s EXCEPT !.handle = h, !.flags = {}, !.pending = 0,
                    !.reading = FALSE, !.eof = FALSE, !.issued = 0,
                    !.sent = <<>>, !.destroys = 0,
                    !.heard = [e \in Event |-> 0], !.opened = h]
  BY DEF InitSocketHandle, State
<1> HIDE DEF t, i
<1>3. u = [i EXCEPT !.flags = i.flags \cup {"CONNECTING", "WRITABLE"},
                    !.listening = TRUE]
  BY <1>1, <1>2 DEF Set, State
<1>4. i.flags \cup {"CONNECTING", "WRITABLE"} = {"CONNECTING", "WRITABLE"}
  BY <1>2 DEF State
<1> DEFINE F == {"CONNECTING", "WRITABLE"}
           Z == [e \in Event |-> 0]
<1>5. u = Started(s)
  <2>1. u = [i EXCEPT !.flags = F, !.listening = TRUE]
    BY <1>3, <1>4
  <2>2. Started(s) =
          [s EXCEPT !.flags = F, !.handle = h,
            !.pending = 0, !.listening = TRUE, !.reading = FALSE,
            !.eof = FALSE, !.opened = h, !.issued = 0,
            !.sent = <<>>, !.destroys = 0, !.heard = Z]
    BY DEF Started
  <2>3. i = [s EXCEPT !.handle = h, !.flags = {}, !.pending = 0,
                    !.reading = FALSE, !.eof = FALSE, !.issued = 0,
                    !.sent = <<>>, !.destroys = 0,
                    !.heard = Z, !.opened = h]
    BY <1>2
  <2> HIDE DEF u, F, Z, h
  <2>4. QED  BY <2>1, <2>2, <2>3, ZenonT(40) DEF State
<1>6. u.handle = h /\ u.lookups = s.lookups /\ u.connects = s.connects
      /\ u.flags = F
  BY <1>5 DEF Started, State
<1>7. Connect(s, lookup, ok) =
        IF lookup THEN [u EXCEPT !.lookups = u.lookups \cup {u.handle}]
                  ELSE ConnectHandle(u, u.handle, ok)
  BY DEF Connect, u, t, i
<1> HIDE DEF u, h
<1>8. Assert(u, Has(u, "CONNECTING"), "connect: CONNECTING") = u
  BY <1>6 DEF Assert, Has
<1>9. ConnectHandle(u, h, ok) =
        IF ok THEN [u EXCEPT !.connects = u.connects \cup {h}]
              ELSE DestroyWith(u, TRUE)
  BY <1>8 DEF ConnectHandle
<1>10. QED  BY <1>5, <1>6, <1>7, <1>9 DEF h

-----------------------------------------------------------------------------
(* A destroyed socket: what a call or a late answer changes of it. *)

Inert(s, r) ==
  /\ Dead(r) /\ r.handle = s.handle /\ r.pending = s.pending
  /\ "SHUTDOWN" \in s.flags => "SHUTDOWN" \in r.flags
  /\ r.listening = s.listening /\ r.selfRef = s.selfRef
  /\ r.ticks = s.ticks /\ r.draining = s.draining
  /\ r.lookups = s.lookups /\ r.connects = s.connects
  /\ r.writes = s.writes /\ r.shutdowns = s.shutdowns
  /\ r.opened = s.opened /\ r.sent = s.sent /\ r.destroys = s.destroys
  /\ r.heard = s.heard /\ r.broken = s.broken /\ r.crossed = s.crossed

ConnectOps == {"connect", "reconnect", "reopen"}

LEMMA WriteDead ==
  ASSUME NEW s, Inv(s), Dead(s), NEW size \in Sizes, NEW ok \in BOOLEAN
  PROVE  Inert(s, Write(s, size, ok))
<1> DEFINE t == [s EXCEPT !.issued = s.issued + 1]
<1>1. s \in State /\ s.handle = NoHandle /\ "CONNECTING" \notin s.flags
  BY DEF Inv, Dead, Usable
<1>2. t.handle = NoHandle /\ t.flags = s.flags
  BY <1>1 DEF State
<1>3. Write(s, size, ok) = t
  BY <1>1, <1>2 DEF Write, WriteBuffer, DestroyWith, Has, Dead
<1>4. Inert(s, t)
  BY <1>1 DEF State, Inert, Dead
<1>5. QED  BY <1>3, <1>4

LEMMA PerformDead ==
  ASSUME NEW s, Inv(s), Dead(s), NEW c \in AllCalls \cup {NoCall},
         c.op \notin ConnectOps
  PROVE  Inert(s, Perform(s, c))
<1> DEFINE P(f) == [s EXCEPT !.flags = f]
<1>1. /\ s \in State /\ s.handle = NoHandle
      /\ "CONNECTING" \notin s.flags /\ "WRITABLE" \notin s.flags
  BY DEF Inv, Dead, Usable
<1>2. ASSUME NEW f, "DESTROYED" \in f,
             "SHUTDOWN" \in s.flags => "SHUTDOWN" \in f
      PROVE Inert(s, P(f))
  BY <1>1, <1>2 DEF State, Inert, Dead
<1>3. Inert(s, s)
  BY DEF Inert
<1>4. CASE c.op = "write"
  <2>1. c.size \in Sizes /\ c.ok \in BOOLEAN
    BY <1>4 DEF AllCalls, NoCall
  <2>2. QED  BY <1>4, <2>1, WriteDead DEF Perform
<1>5. CASE c.op = "end"
  <2>1. Perform(s, c) = s
    BY <1>1, <1>5 DEF Perform, End, Has
  <2>2. QED  BY <1>3, <2>1
<1>6. CASE c.op = "pause"
  <2>1. Perform(s, c) = P(s.flags \cup {"PAUSED"})
    BY <1>1, <1>6 DEF Perform, Pause, Set
  <2>2. QED  BY <1>2, <2>1 DEF Dead
<1>7. CASE c.op \in {"resume", "resumeAfterEof"}
  <2>1. Perform(s, c) = P(s.flags \ {"PAUSED"})
    BY <1>1, <1>7 DEF Perform, Resume, Unset
  <2>2. QED  BY <1>2, <2>1 DEF Dead
<1>8. CASE c.op \in {"destroy", "destroySoon"}
  <2>1. Perform(s, c) = s
    BY <1>8 DEF Perform, Destroy, DestroyWith, DestroySoon, Has, Dead
  <2>2. QED  BY <1>3, <2>1
<1>9. CASE c.op = "release"
  <2>1. Perform(s, c) = [s EXCEPT !.held = FALSE]
    BY <1>9 DEF Perform
  <2>2. Inert(s, [s EXCEPT !.held = FALSE])
    BY <1>1 DEF State, Inert, Dead
  <2>3. QED  BY <2>1, <2>2
<1>10. CASE c.op = "none"
  BY <1>3, <1>10 DEF Perform
<1>11. QED
  BY <1>4, <1>5, <1>6, <1>7, <1>8, <1>9, <1>10
  DEF AllCalls, NoCall, ConnectOps

(* A call on a destroyed socket that connects it takes a new handle. *)
LEMMA ReconnectDead ==
  ASSUME NEW s, Inv(s), Dead(s), NEW c \in AllCalls \cup {NoCall},
         c.op \in ConnectOps, Permitted(s, c)
  PROVE  Perform(s, c).opened = s.opened + 1
<1>1. c.lookup \in BOOLEAN /\ c.ok \in BOOLEAN
  BY DEF AllCalls, NoCall, ConnectOps
<1>2. s \in State /\ s.opened < MaxOpened
  BY BoundsAssumption DEF ConnectOps, Permitted, Inv, State, Dead, Has
<1> DEFINE u == Started(s)
<1>3. u \in State /\ u.opened = s.opened + 1
  <2>1. u \in State
    BY <1>2, StartedState
  <2>2. QED  BY <1>2, <2>1 DEF Started, State
<1>4. DestroyWith(u, TRUE).opened = u.opened
  BY <1>3, DestroyKeeps
<1>5. Perform(s, c) = Connect(s, c.lookup, c.ok)
  BY DEF Perform, ConnectOps
<1> HIDE DEF u
<1>6. /\ [u EXCEPT !.lookups = s.lookups \cup {s.opened + 1}].opened = u.opened
      /\ [u EXCEPT !.connects = s.connects \cup {s.opened + 1}].opened = u.opened
  BY <1>3 DEF State
<1>7. QED  BY <1>1, <1>2, <1>3, <1>4, <1>5, <1>6, ConnectIs DEF u

LEMMA ListenerDead ==
  ASSUME NEW s, Inv(s), Dead(s), NEW c \in AllCalls \cup {NoCall}
  PROVE  \/ Inert(s, Listener(s, c))
         \/ Listener(s, c).opened = s.opened + 1 /\ c.op \in ConnectOps
<1>1. Inert(s, s)
  BY DEF Inert
<1>2. QED  BY <1>1, PerformDead, ReconnectDead DEF Listener

(* emit(): the event is heard, and its listener makes a call. *)
Heard(s, ev) == [s EXCEPT !.heard = [s.heard EXCEPT ![ev] = s.heard[ev] + 1]]

LEMMA HeardInv ==
  ASSUME NEW s, Inv(s), NEW ev \in Event
  PROVE  /\ Inv(Heard(s, ev))
         /\ [s EXCEPT !.heard[ev] = @ + 1] = Heard(s, ev)
<1> DEFINE hd == [s.heard EXCEPT ![ev] = s.heard[ev] + 1]
           t == [s EXCEPT !.heard = hd]
<1>1. s \in State /\ hd \in [Event -> Nat]
  BY DEF Inv, State
<1>2. [s EXCEPT !.heard[ev] = @ + 1] = t
  OBVIOUS
<1> HIDE DEF hd
<1>3. t \in State
  BY <1>1 DEF State
<1>4. /\ t.flags = s.flags /\ t.handle = s.handle /\ t.connQ = s.connQ
      /\ t.reading = s.reading /\ t.draining = s.draining /\ t.ticks = s.ticks
  BY <1>1 DEF State
<1>5. Inv(t)
  BY <1>3, <1>4 DEF Inv, Usable
<1>6. QED  BY <1>2, <1>5 DEF Heard, hd

LEMMA HeardIs ==
  ASSUME NEW s \in State, NEW ev \in Event
  PROVE  LET t == Heard(s, ev) IN
         /\ t.heard[ev] = s.heard[ev] + 1
         /\ \A e \in Event : e # ev => t.heard[e] = s.heard[e]
         /\ t.flags = s.flags /\ t.handle = s.handle /\ t.pending = s.pending
         /\ t.connQ = s.connQ /\ t.listening = s.listening
         /\ t.selfRef = s.selfRef /\ t.held = s.held /\ t.ticks = s.ticks
         /\ t.draining = s.draining /\ t.lookups = s.lookups
         /\ t.connects = s.connects /\ t.writes = s.writes
         /\ t.shutdowns = s.shutdowns /\ t.reading = s.reading
         /\ t.eof = s.eof /\ t.opened = s.opened /\ t.issued = s.issued
         /\ t.sent = s.sent /\ t.destroys = s.destroys
         /\ t.broken = s.broken /\ t.crossed = s.crossed
BY DEF Heard, State

LEMMA EmitDead ==
  ASSUME NEW s, Inv(s), Dead(s), NEW ev \in Event,
         NEW c \in AllCalls \cup {NoCall}
  PROVE  LET t == IF s.listening THEN Heard(s, ev) ELSE s IN
         /\ Inv(t) /\ Dead(t) /\ t.opened = s.opened
         /\ \/ Inert(t, Emit(s, ev, c))
            \/ Emit(s, ev, c).opened = s.opened + 1 /\ c.op \in ConnectOps
<1> DEFINE t == Heard(s, ev)
<1>1. Inv(t) /\ t.flags = s.flags /\ t.opened = s.opened
  BY HeardInv, HeardIs DEF Inv
<1>2. Emit(s, ev, c) = IF s.listening THEN Listener(t, c) ELSE s
  BY HeardInv DEF Emit
<1>3. Dead(t) /\ Inert(s, s)
  BY <1>1 DEF Inert, Dead
<1> HIDE DEF t
<1>4. QED  BY <1>1, <1>2, <1>3, ListenerDead DEF t

(* A step from a destroyed socket starts nothing. *)
NothingStarted(s, r) ==
  /\ Dead(r) /\ r.destroys = s.destroys
  /\ r.connects \subseteq s.connects /\ r.writes \subseteq s.writes
  /\ r.shutdowns \subseteq s.shutdowns /\ Len(r.ticks) <= Len(s.ticks)

(* The state from which a callback of nextTick runs. *)
Popped(s) == [s EXCEPT !.ticks = Tail(s.ticks), !.draining = s.draining - 1]

LEMMA PoppedIs ==
  ASSUME NEW s, Inv(s), s.draining # 0
  PROVE  LET t == Popped(s) IN
         /\ Inv(t) /\ Head(s.ticks) \in Tick
         /\ t.ticks = Tail(s.ticks) /\ Len(t.ticks) = Len(s.ticks) - 1
         /\ t.draining = s.draining - 1 /\ t.flags = s.flags
         /\ t.handle = s.handle /\ t.pending = s.pending
         /\ t.connQ = s.connQ /\ t.listening = s.listening
         /\ t.selfRef = s.selfRef /\ t.held = s.held
         /\ t.lookups = s.lookups /\ t.connects = s.connects
         /\ t.writes = s.writes /\ t.shutdowns = s.shutdowns
         /\ t.reading = s.reading /\ t.eof = s.eof /\ t.opened = s.opened
         /\ t.issued = s.issued /\ t.sent = s.sent
         /\ t.destroys = s.destroys /\ t.heard = s.heard
         /\ t.broken = s.broken /\ t.crossed = s.crossed
<1> DEFINE t == Popped(s)
<1>1. s \in State /\ s.ticks \in Seq(Tick) /\ s.draining \in Nat
      /\ s.draining <= Len(s.ticks)
  BY DEF Inv, State
<1>2. Len(s.ticks) \in Nat /\ s.ticks # <<>>
  BY <1>1
<1>3. Head(s.ticks) \in Tick /\ Tail(s.ticks) \in Seq(Tick)
      /\ Len(Tail(s.ticks)) = Len(s.ticks) - 1 /\ s.draining - 1 \in Nat
  BY <1>1, <1>2
<1>4. t \in State
  BY <1>1, <1>3 DEF State, Popped
<1>5. /\ t.ticks = Tail(s.ticks) /\ t.draining = s.draining - 1
      /\ t.flags = s.flags
      /\ t.handle = s.handle /\ t.pending = s.pending
      /\ t.connQ = s.connQ /\ t.listening = s.listening
      /\ t.selfRef = s.selfRef /\ t.held = s.held
      /\ t.lookups = s.lookups /\ t.connects = s.connects
      /\ t.writes = s.writes /\ t.shutdowns = s.shutdowns
      /\ t.reading = s.reading /\ t.eof = s.eof /\ t.opened = s.opened
      /\ t.issued = s.issued /\ t.sent = s.sent
      /\ t.destroys = s.destroys /\ t.heard = s.heard
      /\ t.broken = s.broken /\ t.crossed = s.crossed
  BY <1>1 DEF State, Popped
<1> HIDE DEF t
<1>6. t.draining <= Len(t.ticks)
  BY <1>1, <1>2, <1>3, <1>5
<1>7. Inv(t)
  BY <1>4, <1>5, <1>6 DEF Inv, Usable
<1>8. QED  BY <1>3, <1>5, <1>7 DEF t

LEMMA TickDead ==
  ASSUME NEW s, Inv(s), Dead(s), s.draining # 0,
         NEW c \in AllCalls \cup {NoCall}
  PROVE  LET r == RunTick(Popped(s), Head(s.ticks), c) IN
         \/ r.opened = s.opened + 1 /\ c.op \in ConnectOps
         \/ NothingStarted(s, r)
<1> DEFINE p == Popped(s)
           r == RunTick(p, Head(s.ticks), c)
<1>1. /\ Inv(p) /\ Dead(p) /\ Head(s.ticks) \in Tick /\ p.opened = s.opened
      /\ p.connects = s.connects /\ p.writes = s.writes
      /\ p.shutdowns = s.shutdowns /\ p.destroys = s.destroys
      /\ Len(p.ticks) = Len(s.ticks) - 1 /\ Len(s.ticks) \in Nat
  <2>1. s.ticks \in Seq(Tick)
    BY DEF Inv, State
  <2>2. Len(s.ticks) \in Nat
    BY <2>1
  <2>3. QED  BY <2>2, PoppedIs DEF Dead
<1> HIDE DEF p
<1>2. PICK ev \in Event :
        r \in {Emit(p, ev, c), Destroy(Emit(p, ev, c)),
               OnDestroy(Emit(p, ev, c))}
  BY <1>1 DEF RunTick, Tick, Event
<1> DEFINE e == Emit(p, ev, c)
<1>3. Inv(e) /\ e \in State
  BY <1>1, <1>2, EmitInv DEF Inv
<1> DEFINE t == IF p.listening THEN Heard(p, ev) ELSE p
<1>4. \/ Inert(t, e)
      \/ e.opened = s.opened + 1 /\ c.op \in ConnectOps
  BY <1>1, <1>2, EmitDead
<1>5. /\ t.opened = p.opened /\ t.connects = p.connects
      /\ t.writes = p.writes /\ t.shutdowns = p.shutdowns
      /\ t.destroys = p.destroys /\ t.ticks = p.ticks
  BY <1>1, HeardIs DEF Inv
<1>9. r \in {e, Destroy(e), OnDestroy(e)}
  BY <1>2
<1> HIDE DEF t, r, e
<1>6. CASE e.opened = s.opened + 1 /\ c.op \in ConnectOps
  <2>1. Destroy(e).opened = e.opened /\ OnDestroy(e).opened = e.opened
    BY <1>3, DestroyKeeps, OnDestroyKeeps DEF Destroy
  <2>2. r.opened = s.opened + 1
    BY <1>6, <1>9, <2>1
  <2>3. QED  BY <1>6, <2>2 DEF r, p
<1>7. CASE Inert(t, e)
  <2>1. Destroy(e) = e
    BY <1>7 DEF Destroy, DestroyWith, Has, Inert, Dead
  <2>2. /\ OnDestroy(e).flags = e.flags /\ OnDestroy(e).destroys = e.destroys
        /\ OnDestroy(e).connects = e.connects /\ OnDestroy(e).writes = e.writes
        /\ OnDestroy(e).shutdowns = e.shutdowns
        /\ OnDestroy(e).ticks = e.ticks
    BY <1>3, OnDestroyKeeps
  <2>3. NothingStarted(s, e)
    BY <1>1, <1>5, <1>7 DEF Inert, NothingStarted
  <2>4. NothingStarted(s, OnDestroy(e))
    BY <2>2, <2>3 DEF NothingStarted, Dead
  <2>5. NothingStarted(s, r)
    BY <1>9, <2>1, <2>3, <2>4
  <2>6. QED  BY <2>5 DEF r, p
<1>8. QED  BY <1>4, <1>6, <1>7

LEMMA AnswerDead ==
  ASSUME NEW s, Inv(s), Dead(s)
  PROVE  /\ \A h, ok, bad, c, shutOk :
              AfterConnect(s, h, ok, bad, c, shutOk)
                = [s EXCEPT !.connects = s.connects \ {h}]
         /\ \A w, ok, c :
              AfterWrite(s, w, ok, c) = [s EXCEPT !.writes = s.writes \ {w}]
         /\ \A h, err, ok :
              AfterLookup(s, h, err, ok)
                = [s EXCEPT !.lookups = s.lookups \ {h}]
<1>1. s \in State /\ "CONNECTING" \notin s.flags
  BY DEF Inv, Dead, Usable
<1>2. /\ \A h : [s EXCEPT !.connects = s.connects \ {h}].flags = s.flags
      /\ \A w : [s EXCEPT !.writes = s.writes \ {w}].flags = s.flags
      /\ \A h : [s EXCEPT !.lookups = s.lookups \ {h}].flags = s.flags
  BY <1>1 DEF State
<1>3. QED
  BY <1>1, <1>2 DEF AfterConnect, AfterWrite, AfterLookup, Has, Dead

LEMMA AfterShutdownDead ==
  ASSUME NEW s, Inv(s), Dead(s), NEW h
  PROVE  LET r == AfterShutdown(s, h) IN
         /\ r.shutdowns = s.shutdowns \ {h}
         /\ r.flags = s.flags /\ r.handle = s.handle /\ r.ticks = s.ticks
         /\ r.connects = s.connects /\ r.writes = s.writes
         /\ r.lookups = s.lookups /\ r.destroys = s.destroys
         /\ r.listening = s.listening /\ r.selfRef = s.selfRef
         /\ r.sent = s.sent /\ r.heard = s.heard /\ r.opened = s.opened
         /\ r.draining = s.draining /\ r.crossed = s.crossed
         /\ "SHUTDOWN" \in s.flags => r.broken = s.broken
<1> DEFINE q == [s EXCEPT !.shutdowns = s.shutdowns \ {h}]
           a == Assert(q, Has(s, "SHUTDOWN"), "AfterShutdown: SHUTDOWN")
           t == Assert(a, ~Has(s, "WRITABLE"), "AfterShutdown: !WRITABLE")
           b == IF Has(s, "SHUTDOWN") THEN s.broken
                ELSE s.broken \cup {"AfterShutdown: SHUTDOWN"}
<1>1. s \in State /\ ~Has(s, "WRITABLE")
  BY DEF Inv, Dead, Usable, Has
<1>2. q.flags = s.flags /\ q.broken = s.broken /\ t = a
  BY <1>1 DEF State, Assert
<1>3. a = IF Has(s, "SHUTDOWN") THEN q
          ELSE [q EXCEPT !.broken = q.broken \cup {"AfterShutdown: SHUTDOWN"}]
  BY DEF Assert
<1>4. AfterShutdown(s, h) =
        IF ~Has(t, "DESTROYED") /\ (Has(t, "GOT_EOF") \/ ~Has(t, "READABLE"))
        THEN Destroy(t) ELSE t
  BY DEF AfterShutdown
<1> HIDE DEF a, t
<1>5. a.flags = s.flags
  BY <1>1, <1>2, <1>3 DEF State
<1>6. AfterShutdown(s, h) = a
  BY <1>2, <1>4, <1>5 DEF Has, Dead
<1>7. CASE Has(s, "SHUTDOWN")
  BY <1>1, <1>3, <1>6, <1>7 DEF State
<1>8. CASE ~Has(s, "SHUTDOWN")
  <2> DEFINE B == s.broken \cup {"AfterShutdown: SHUTDOWN"}
  <2>1. a = [q EXCEPT !.broken = B]
    BY <1>2, <1>3, <1>8
  <2> HIDE DEF B
  <2>2. QED  BY <1>1, <1>6, <1>8, <2>1 DEF State, Has
<1>9. QED  BY <1>7, <1>8

LEMMA GoToNow ==
  ASSUME NEW t, t \in State, GoTo(t)
  PROVE  Now' = t
<1>1. t = [flags |-> t.flags, handle |-> t.handle, pending |-> t.pending,
           connQ |-> t.connQ, listening |-> t.listening,
           selfRef |-> t.selfRef, held |-> t.held, ticks |-> t.ticks,
           draining |-> t.draining, lookups |-> t.lookups,
           connects |-> t.connects, writes |-> t.writes,
           shutdowns |-> t.shutdowns, reading |-> t.reading, eof |-> t.eof,
           opened |-> t.opened, issued |-> t.issued, sent |-> t.sent,
           destroys |-> t.destroys, heard |-> t.heard, broken |-> t.broken,
           crossed |-> t.crossed]
  BY DEF State
<1>2. QED  BY <1>1 DEF GoTo, Now

LEMMA InertStartsNothing ==
  ASSUME NEW s, NEW r, Len(s.ticks) \in Nat, Inert(s, r)
  PROVE  NothingStarted(s, r)
BY DEF Inert, NothingStarted

(* From a destroyed socket, every action starts nothing or is a call of    *)
(* connect(), by the application or by a listener, which takes a handle.   *)
LEMMA StepDead ==
  Inv(Now) /\ Dead(Now) /\ Next =>
    \/ opened' # opened
    \/ NothingStarted(Now, Now')
<1> SUFFICES ASSUME Inv(Now), Dead(Now), Next
             PROVE  opened' # opened \/ NothingStarted(Now, Now')
  OBVIOUS
<1> USE CallsAssumption
<1>1. /\ Now \in State /\ ~reading /\ draining \in Nat /\ ticks \in Seq(Tick)
      /\ opened \in Nat
  BY DEF Inv, State, Now, Dead
<1>0. Len(ticks) \in Nat /\ Now.ticks = ticks /\ Now.opened = opened
  BY <1>1 DEF Now
<1>2. ASSUME NEW r, GoTo(r)
      PROVE  /\ NothingStarted(Now, r) => NothingStarted(Now, Now')
             /\ r.opened # opened => opened' # opened
  BY <1>2 DEF GoTo, Now, NothingStarted, Dead
<1>3. ASSUME NEW c \in Calls, AppCall(c)
      PROVE  opened' # opened \/ NothingStarted(Now, Now')
  <2> DEFINE r == Perform(Now, c)
  <2>1. GoTo(r) /\ Permitted(Now, c)
    BY <1>3 DEF AppCall
  <2>2. CASE c.op \in ConnectOps
    <3>1. r.opened = opened + 1
      BY <1>0, <2>1, <2>2, ReconnectDead
    <3> HIDE DEF r
    <3>2. QED  BY <1>1, <1>2, <2>1, <3>1
  <2>3. CASE c.op \notin ConnectOps
    <3>1. Inert(Now, r)
      BY <2>3, PerformDead
    <3>2. NothingStarted(Now, r)
      BY <1>0, <3>1, InertStartsNothing
    <3> HIDE DEF r
    <3>3. QED  BY <1>2, <2>1, <3>2
  <2>4. QED  BY <2>2, <2>3
<1>4. ASSUME NEW c \in Reactions, ReadData(c) \/ ReadEof(c)  PROVE FALSE
  BY <1>1, <1>4 DEF ReadData, ReadEof
<1>5. ~ReadError
  BY <1>1 DEF ReadError
<1>6. ASSUME AnyConnectDone  PROVE NothingStarted(Now, Now')
  <2>1. PICK h \in connects, ok \in BOOLEAN, shutOk \in BOOLEAN, c \in Reactions,
             bad \in 0..Len(connQ) : ConnectDone(h, ok, bad, c, shutOk)
    BY <1>6 DEF AnyConnectDone
  <2> DEFINE r == [Now EXCEPT !.connects = Now.connects \ {h}]
  <2>2. GoTo(r)
    <3>1. AfterConnect(Now, h, ok, bad, c, shutOk) = r
      BY AnswerDead
    <3>2. GoTo(AfterConnect(Now, h, ok, bad, c, shutOk))
      BY <2>1 DEF ConnectDone
    <3>3. QED  BY <3>1, <3>2
  <2>3. NothingStarted(Now, r)
    BY <1>0, <1>1 DEF NothingStarted, Dead, State
  <2>4. QED  BY <1>2, <2>2, <2>3
<1>7. ASSUME AnyWriteDone  PROVE NothingStarted(Now, Now')
  <2>1. PICK w \in writes, ok \in BOOLEAN, c \in Reactions : WriteDone(w, ok, c)
    BY <1>7 DEF AnyWriteDone
  <2> DEFINE r == [Now EXCEPT !.writes = Now.writes \ {w}]
  <2>2. GoTo(r)
    <3>1. AfterWrite(Now, w, ok, c) = r
      BY AnswerDead
    <3>2. GoTo(AfterWrite(Now, w, ok, c))
      BY <2>1 DEF WriteDone
    <3>3. QED  BY <3>1, <3>2
  <2>3. NothingStarted(Now, r)
    BY <1>0, <1>1 DEF NothingStarted, Dead, State
  <2>4. QED  BY <1>2, <2>2, <2>3
<1>8. ASSUME AnyLookupDone  PROVE NothingStarted(Now, Now')
  <2>1. PICK h \in lookups, err \in BOOLEAN, ok \in BOOLEAN :
             LookupDone(h, err, ok)
    BY <1>8 DEF AnyLookupDone
  <2> DEFINE r == [Now EXCEPT !.lookups = Now.lookups \ {h}]
  <2>2. GoTo(r)
    <3>1. AfterLookup(Now, h, err, ok) = r
      BY AnswerDead
    <3>2. GoTo(AfterLookup(Now, h, err, ok))
      BY <2>1 DEF LookupDone
    <3>3. QED  BY <3>1, <3>2
  <2>3. NothingStarted(Now, r)
    BY <1>0, <1>1 DEF NothingStarted, Dead, State
  <2>4. QED  BY <1>2, <2>2, <2>3
<1>9. ASSUME AnyShutdownDone  PROVE NothingStarted(Now, Now')
  <2>1. PICK h \in shutdowns : GoTo(AfterShutdown(Now, h))
    BY <1>9 DEF AnyShutdownDone, ShutdownDone
  <2> DEFINE r == AfterShutdown(Now, h)
  <2>2. /\ r.shutdowns = shutdowns \ {h}
        /\ r.flags = flags /\ r.connects = connects /\ r.writes = writes
        /\ r.destroys = destroys /\ r.ticks = ticks
    BY AfterShutdownDead DEF Now
  <2> HIDE DEF r
  <2>3. NothingStarted(Now, r)
    BY <1>1, <2>2 DEF NothingStarted, Dead, Now
  <2>4. QED  BY <1>2, <2>1, <2>3 DEF r
<1>10. ASSUME FireNextTick  PROVE NothingStarted(Now, Now')
  BY <1>1, <1>10 DEF FireNextTick, GoTo, Now, NothingStarted, Dead
<1>11. ASSUME AnyNextTickCallback
       PROVE  opened' # opened \/ NothingStarted(Now, Now')
  <2>1. PICK c \in Reactions : NextTickCallback(c)
    BY <1>11 DEF AnyNextTickCallback
  <2> DEFINE r == RunTick(Popped(Now), Head(Now.ticks), c)
  <2>2. Now.draining # 0 /\ GoTo(r)
    BY <2>1 DEF NextTickCallback, Idle, Popped, Now
  <2>3. r.opened = Now.opened + 1 \/ NothingStarted(Now, r)
    BY <2>2, TickDead DEF Reactions
  <2>4. Now.opened \in Nat /\ Now.opened = opened
    BY DEF Inv, State, Now
  <2> HIDE DEF r
  <2>5. QED  BY <1>2, <2>2, <2>3, <2>4
<1>12. QED
  BY <1>3, <1>4, <1>5, <1>6, <1>7, <1>8, <1>9, <1>10, <1>11 DEF Next

(* Once destroyed, a socket starts nothing, whatever the application calls *)
(* and whichever late answer comes, until it is connected on a new handle: *)
(* for every set of calls, those that connect it again at any time too.    *)
THEOREM NothingAfterDestroy == Spec => DestroyedIsFinal
<1>1. Inv(Now) /\ [Next]_vars =>
        ["DESTROYED" \in flags /\ opened' = opened =>
           /\ "DESTROYED" \in flags' /\ destroys' = destroys
           /\ connects' \subseteq connects /\ writes' \subseteq writes
           /\ shutdowns' \subseteq shutdowns /\ Len(ticks') <= Len(ticks)]_vars
  <2> SUFFICES ASSUME Inv(Now), Next, "DESTROYED" \in flags, opened' = opened
      PROVE  /\ "DESTROYED" \in flags' /\ destroys' = destroys
             /\ connects' \subseteq connects /\ writes' \subseteq writes
             /\ shutdowns' \subseteq shutdowns /\ Len(ticks') <= Len(ticks)
    OBVIOUS
  <2>1. NothingStarted(Now, Now')
    BY StepDead DEF Dead, Now
  <2>2. QED  BY <2>1 DEF NothingStarted, Dead, Now
<1>2. QED  BY <1>1, Invariance, PTL DEF Spec, DestroyedIsFinal

-----------------------------------------------------------------------------
(* The forms of the queue of nextTick. *)

LEMMA SameElements ==
  ASSUME NEW S, NEW q \in Seq(S), NEW r \in Seq(S), Len(q) = Len(r),
         \A i \in 1..Len(q) : q[i] = r[i]
  PROVE  q = r
OBVIOUS

LEMMA PushedSecond ==
  ASSUME NEW x, NEW y
  PROVE  Append(<<x>>, y) = <<x, y>>
<1> DEFINE S == {x, y}
           q == Append(<<x>>, y)
           r == <<x, y>>
<1>1. <<x>> \in Seq(S) /\ r \in Seq(S)
  OBVIOUS
<1>2. q \in Seq(S)
  BY <1>1
<1>3. Len(q) = 2 /\ Len(r) = 2
  OBVIOUS
<1>4. q[1] = x /\ q[2] = y /\ r[1] = x /\ r[2] = y
  OBVIOUS
<1> HIDE DEF q, r
<1>5. \A i \in 1..Len(q) : q[i] = r[i]
  BY <1>3, <1>4
<1>6. q = r
  BY <1>1, <1>2, <1>3, <1>5, SameElements
<1>7. QED  BY <1>6 DEF q, r

LEMMA Pushed ==
  /\ Append(<<>>, "EmitErrorAndDestroy") = <<"EmitErrorAndDestroy">>
  /\ Append(<<>>, "EmitClose") = <<"EmitClose">>
  /\ Append(<<"EmitErrorAndDestroy">>, "EmitClose")
       = <<"EmitErrorAndDestroy", "EmitClose">>
  /\ Append(Append(<<>>, "EmitError"), "EmitClose")
       = <<"EmitError", "EmitClose">>
<1>1. ASSUME NEW x  PROVE Append(<<>>, x) = <<x>>
  OBVIOUS
<1>2. QED  BY <1>1, PushedSecond

LEMMA Taken ==
  /\ \A x : Head(<<x>>) = x /\ Tail(<<x>>) = <<>> /\ Len(<<x>>) = 1
  /\ \A x, y : Head(<<x, y>>) = x /\ Tail(<<x, y>>) = <<y>> /\ Len(<<x, y>>) = 2
  /\ Len(<<>>) = 0
<1>1. ASSUME NEW x  PROVE Head(<<x>>) = x /\ Tail(<<x>>) = <<>> /\ Len(<<x>>) = 1
  OBVIOUS
<1>2. ASSUME NEW x, NEW y
      PROVE  Head(<<x, y>>) = x /\ Len(<<x, y>>) = 2
  OBVIOUS
<1>3. ASSUME NEW x, NEW y  PROVE Tail(<<x, y>>) = <<y>>
  OBVIOUS
<1>4. Len(<<>>) = 0
  OBVIOUS
<1>5. QED  BY <1>1, <1>2, <1>3, <1>4

LEMMA Different ==
  /\ \A x : <<>> # <<x>>
  /\ \A x, y : <<>> # <<x, y>>
  /\ \A x, y, z : <<x>> # <<y, z>>
  /\ \A x, y : <<x>> = <<y>> => x = y
  /\ \A x, y, z, w : <<x, y>> = <<z, w>> => x = z /\ y = w
<1>1. \A x : Len(<<x>>) = 1
  OBVIOUS
<1>2. \A x, y : Len(<<x, y>>) = 2
  OBVIOUS
<1>3. Len(<<>>) = 0
  OBVIOUS
<1>4. \A x : <<x>>[1] = x
  OBVIOUS
<1>5. \A x, y : <<x, y>>[1] = x /\ <<x, y>>[2] = y
  OBVIOUS
<1>6. QED  BY <1>1, <1>2, <1>3, <1>4, <1>5, Zenon

(* Which of the forms says that 'error' is to come. *)
LEMMA ErrorForms ==
  ASSUME NEW s
  PROVE  /\ s.ticks = <<>> => ~ErrorQueued(s)
         /\ s.ticks = <<"EmitClose">> => ~ErrorQueued(s)
         /\ s.ticks = <<"EmitErrorAndDestroy">> => ErrorQueued(s)
         /\ s.ticks = <<"EmitErrorAndDestroy", "EmitClose">> => ErrorQueued(s)
         /\ s.ticks = <<"EmitError", "EmitClose">> => ErrorQueued(s)
<1>1. \A x \in {"EmitErrorAndDestroy", "EmitError"} : x # "EmitClose"
  OBVIOUS
<1>2. QED  BY <1>1, Different DEF ErrorQueued

(* What an operation on a socket that is not destroyed leaves alone. *)
Kept(s, r) ==
  /\ r.draining = s.draining /\ r.crossed = s.crossed
  /\ r.selfRef = s.selfRef /\ r.opened >= s.opened
  /\ r.heard["close"] = s.heard["close"]

LEMMA DestroyLive ==
  ASSUME NEW s, Inv(s), ~Dead(s), NEW err \in BOOLEAN,
         s.broken = {}, Increasing(s.sent), Unannounced(s),
         s.shutdowns # {} => "SHUTDOWN" \in s.flags,
         err => Errors(s) = 0
  PROVE  LET r == DestroyWith(s, err) IN
         Good(r) /\ Dead(r) /\ Kept(s, r) /\ r.opened = s.opened
<1> DEFINE r == DestroyWith(s, err)
<1>1. s \in State /\ s.heard["error"] \in Nat /\ s.heard["close"] = 0
      /\ s.opened \in Nat
  <2>1. s \in State
    BY DEF Inv
  <2>2. s.heard["error"] \in Nat /\ s.opened \in Nat
    BY <2>1 DEF State, Event
  <2>3. QED  BY <2>1, <2>2 DEF Unannounced
<1>2. /\ Dead(r) /\ r.handle = NoHandle /\ r.destroys = s.destroys + 1
      /\ r.ticks = Append(IF err /\ "ERROR_EMITTED" \notin s.flags
                          THEN Append(s.ticks, "EmitError") ELSE s.ticks,
                          "EmitClose")
      /\ r.listening = s.listening /\ r.selfRef = s.selfRef
      /\ r.draining = s.draining /\ r.opened = s.opened
      /\ r.heard = s.heard /\ r.broken = s.broken /\ r.crossed = s.crossed
      /\ r.sent = s.sent /\ r.shutdowns = s.shutdowns
      /\ "SHUTDOWN" \in s.flags => "SHUTDOWN" \in r.flags
  BY <1>1, DestroyWithIs, ZenonT(40) DEF Dead
<1>3. Inv(r)
  BY DestroyWithInv
<1> HIDE DEF r
<1>4. Announced(r)
  <2>1. s.ticks \in {<<>>, <<"EmitErrorAndDestroy">>}
        /\ s.listening /\ s.destroys = 0
    BY DEF Unannounced
  <2>2. CASE s.ticks = <<>>
    <3>1. r.ticks \in {<<"EmitClose">>, <<"EmitError", "EmitClose">>}
      BY <1>2, <2>2, Pushed
    <3>2. ErrorQueued(r) => err
      BY <1>2, <2>2, Pushed, Different, ErrorForms
    <3>3. ~ErrorQueued(s)
      BY <2>2, ErrorForms
    <3>4. Errors(r) <= 1
      BY <1>1, <1>2, <3>2, <3>3 DEF Errors, Unannounced
    <3>5. r.ticks # <<>>
      BY <3>1, Different
    <3>6. QED  BY <1>1, <1>2, <2>1, <3>1, <3>4, <3>5 DEF Announced
  <2>3. CASE s.ticks = <<"EmitErrorAndDestroy">>
    <3>1. ErrorQueued(s)
      BY <2>3, ErrorForms
    <3>2. s.heard["error"] = 0 /\ ~err
      BY <1>1, <3>1 DEF Errors, Unannounced
    <3>3. r.ticks = <<"EmitErrorAndDestroy", "EmitClose">>
      BY <1>2, <2>3, <3>2, Pushed
    <3>4. Errors(r) <= 1
      BY <1>1, <1>2, <3>2 DEF Errors
    <3>5. r.ticks # <<>>
      BY <3>3, Different
    <3>6. r.destroys = 1 /\ r.heard["close"] = 0 /\ r.listening
      BY <1>1, <1>2, <2>1
    <3>7. QED  BY <3>3, <3>4, <3>5, <3>6 DEF Announced
  <2>4. QED  BY <2>1, <2>2, <2>3
<1>5. Good(r)
  BY <1>2, <1>3, <1>4 DEF Good
<1>6. Kept(s, r)
  BY <1>1, <1>2 DEF Kept
<1>7. QED  BY <1>2, <1>5, <1>6 DEF r

LEMMA InertGood ==
  ASSUME NEW s, NEW r, Good(s), Dead(s), Inert(s, r), Inv(r)
  PROVE  Good(r) /\ Kept(s, r)
<1>1. Announced(r)
  BY DEF Good, Inert, Announced, Errors, ErrorQueued
<1>2. s.opened \in Nat
  BY DEF Good, Inv, State
<1>3. QED  BY <1>1, <1>2 DEF Good, Inert, Kept

-----------------------------------------------------------------------------
(* The operations on a socket that is not destroyed. *)

LEMMA GoodTypes ==
  ASSUME NEW s, Good(s)
  PROVE  /\ s \in State /\ s.opened \in Nat /\ s.draining \in Nat
         /\ s.heard["error"] \in Nat /\ s.heard["close"] \in Nat
         /\ s.issued \in Nat /\ s.pending \in Nat
         /\ s.sent \in Seq(Nat) /\ s.connQ \in Seq([id: Nat, size: Sizes])
         /\ Len(s.sent) \in Nat /\ Len(s.connQ) \in Nat
         /\ s.handle \in {NoHandle} \cup Handles
<1>1. s \in State
  BY DEF Good, Inv
<1>2. /\ s.opened \in Nat /\ s.draining \in Nat
      /\ s.issued \in Nat /\ s.pending \in Nat
      /\ s.sent \in Seq(Nat) /\ s.connQ \in Seq([id: Nat, size: Sizes])
      /\ s.handle \in {NoHandle} \cup Handles
  BY <1>1 DEF State
<1>3. s.heard["error"] \in Nat /\ s.heard["close"] \in Nat
  BY <1>1 DEF State, Event
<1>4. QED  BY <1>1, <1>2, <1>3

LEMMA KeptAll ==
  ASSUME NEW s, NEW t, NEW r, Good(s), Good(t), Good(r)
  PROVE  /\ Kept(s, s)
         /\ Kept(s, t) /\ Kept(t, r) => Kept(s, r)
BY GoodTypes DEF Kept

SameButFlags(s, r) ==
  /\ r.handle = s.handle /\ r.pending = s.pending /\ r.connQ = s.connQ
  /\ r.listening = s.listening /\ r.selfRef = s.selfRef
  /\ r.ticks = s.ticks /\ r.draining = s.draining
  /\ r.lookups = s.lookups /\ r.connects = s.connects
  /\ r.writes = s.writes /\ r.shutdowns = s.shutdowns
  /\ r.eof = s.eof /\ r.opened = s.opened /\ r.issued = s.issued
  /\ r.sent = s.sent /\ r.destroys = s.destroys /\ r.heard = s.heard
  /\ r.broken = s.broken /\ r.crossed = s.crossed

LEMMA SetIs ==
  ASSUME NEW s \in State, NEW F
  PROVE  /\ SameButFlags(s, Set(s, F)) /\ Set(s, F).flags = s.flags \cup F
         /\ Set(s, F).reading = s.reading
         /\ SameButFlags(s, Unset(s, F)) /\ Unset(s, F).flags = s.flags \ F
         /\ Unset(s, F).reading = s.reading
BY DEF State, Set, Unset, SameButFlags

(* The flags that may change without more. *)
FlagsLive(s, f) ==
  /\ "DESTROYED" \notin f
  /\ "CONNECTING" \in f <=> Connecting(s)
  /\ "GOT_EOF" \in f <=> "GOT_EOF" \in s.flags
  /\ "SHUTDOWN" \in s.flags => "SHUTDOWN" \in f
  /\ "WRITABLE" \in f => "WRITABLE" \in s.flags
  /\ "SHUTDOWN_QUEUED" \in f /\ "CONNECTING" \in f =>
       "SHUTDOWN_QUEUED" \in s.flags \/ "WRITABLE" \notin f

LEMMA FlagsGood ==
  ASSUME NEW s, Good(s), ~Dead(s), NEW r, Inv(r), SameButFlags(s, r),
         FlagsLive(s, r.flags),
         r.reading => "GOT_EOF" \notin s.flags /\ ~Connecting(s)
  PROVE  Good(r) /\ ~Dead(r) /\ Kept(s, r) /\ r.opened = s.opened
<1>1. Live(s)
  BY DEF Good
<1>2. ~Dead(r) /\ (Connecting(r) <=> Connecting(s))
  BY DEF Dead, Connecting, FlagsLive
<1>3. Errors(r) = Errors(s) /\ Unannounced(r)
  BY <1>1 DEF SameButFlags, Errors, ErrorQueued, Unannounced, Live
<1>4. Queued(r) /\ Matched(r)
  BY <1>1 DEF SameButFlags, Queued, Matched, Live
<1>5. ASSUME Connecting(s)  PROVE LiveConnecting(r)
  <2>1. LiveConnecting(s)
    BY <1>1, <1>5 DEF Live
  <2>2. QED
    BY <1>3, <1>5, <2>1
    DEF SameButFlags, LiveConnecting, FlagsLive, Connecting
<1>6. ASSUME ~Connecting(s)  PROVE LiveSettled(r)
  BY <1>1, <1>3, <1>6 DEF SameButFlags, LiveSettled, Live
<1>7. r.shutdowns # {} => "SHUTDOWN" \in r.flags /\ "WRITABLE" \notin r.flags
  BY <1>1 DEF SameButFlags, FlagsLive, Live, Good
<1>8. /\ r.reading => "GOT_EOF" \notin r.flags
      /\ "GOT_EOF" \in r.flags => r.eof
      /\ r.handle = NoHandle => r.opened = 0 /\ r.connQ = <<>>
  BY <1>1 DEF SameButFlags, FlagsLive, Live
<1>9. Live(r)
  BY <1>2, <1>3, <1>4, <1>5, <1>6, <1>7, <1>8 DEF Live
<1>10. Good(r)
  BY <1>2, <1>7, <1>9 DEF Good, SameButFlags
<1>11. QED  BY <1>2, <1>10, GoodTypes DEF SameButFlags, Kept

(* What reading says of the flags. *)
LEMMA ReadingLive ==
  ASSUME NEW s, Good(s), ~Dead(s), s.reading
  PROVE  "GOT_EOF" \notin s.flags /\ ~Connecting(s)
BY DEF Good, Live, LiveConnecting

LEMMA DestroyGood ==
  ASSUME NEW s, Good(s), NEW err \in BOOLEAN,
         ~Dead(s) /\ err => ~Connecting(s)
  PROVE  LET r == DestroyWith(s, err) IN
         Good(r) /\ Dead(r) /\ Kept(s, r) /\ r.opened = s.opened
<1>1. CASE Dead(s)
  BY <1>1, KeptAll DEF DestroyWith, Has, Dead
<1>2. CASE ~Dead(s)
  <2>1. err => Errors(s) = 0
    BY <1>2 DEF Good, Live, LiveSettled
  <2>2. /\ Inv(s) /\ s.broken = {} /\ Increasing(s.sent) /\ Unannounced(s)
        /\ s.shutdowns # {} => "SHUTDOWN" \in s.flags
    BY <1>2 DEF Good, Live
  <2>3. QED  BY <1>2, <2>1, <2>2, DestroyLive
<1>3. QED  BY <1>1, <1>2

LEMMA DestroySoonGood ==
  ASSUME NEW s, Good(s), ~Dead(s)
  PROVE  Good(DestroySoon(s)) /\ Kept(s, DestroySoon(s))
<1> DEFINE a == Unset(s, {"WRITABLE"})
           t == Set(a, {"DESTROY_SOON"})
<1>1. Inv(a) /\ SameButFlags(s, a) /\ a.flags = s.flags \ {"WRITABLE"}
      /\ a.reading = s.reading
  BY GoodTypes, SetIs, UnsetInv DEF Good
<1> HIDE DEF a
<1>2. Inv(t) /\ SameButFlags(a, t) /\ t.flags = a.flags \cup {"DESTROY_SOON"}
      /\ t.reading = a.reading
  BY <1>1, SetIs, SetInv DEF Inv, Flag
<1> HIDE DEF t
<1>3. Good(t) /\ Kept(s, t)
  <2>1. SameButFlags(s, t)
    BY <1>1, <1>2 DEF SameButFlags
  <2>2. FlagsLive(s, t.flags)
    BY <1>1, <1>2 DEF FlagsLive, Connecting, Dead
  <2>3. QED  BY <1>1, <1>2, <2>1, <2>2, ReadingLive, FlagsGood
<1>4. Good(Destroy(t)) /\ Kept(t, Destroy(t))
  BY <1>3, DestroyGood DEF Destroy
<1>5. DestroySoon(s) \in {t, Destroy(t)}
  BY DEF DestroySoon, t, a, Has, Dead
<1>6. QED  BY <1>3, <1>4, <1>5, KeptAll

LEMMA DestroySoonKeeps ==
  ASSUME NEW s, Good(s), ~Dead(s)
  PROVE  DestroySoon(s).opened = s.opened
<1> DEFINE a == Unset(s, {"WRITABLE"})
           t == Set(a, {"DESTROY_SOON"})
<1>1. a \in State /\ a.opened = s.opened
  BY GoodTypes, SetIs, UnsetInv DEF Good, Inv, SameButFlags
<1> HIDE DEF a
<1>2. t.opened = s.opened /\ t \in State
  BY <1>1, SetIs DEF SameButFlags, Set, State, Flag
<1>3. Destroy(t).opened = s.opened
  BY <1>2, DestroyKeeps DEF Destroy
<1>4. QED  BY <1>2, <1>3 DEF DestroySoon, a

LEMMA PushedElement ==
  ASSUME NEW S, NEW q \in Seq(S), NEW x \in S
  PROVE  /\ Append(q, x) \in Seq(S) /\ Len(Append(q, x)) = Len(q) + 1
         /\ Append(q, x)[Len(q) + 1] = x
         /\ \A i \in DOMAIN q : Append(q, x)[i] = q[i]
         /\ \A i \in DOMAIN Append(q, x) : i \in DOMAIN q \/ i = Len(q) + 1
         /\ \A i \in DOMAIN q : i \in Nat /\ i <= Len(q)
OBVIOUS

LEMMA WriteQueuedGood ==
  ASSUME NEW s, Good(s), ~Dead(s), Connecting(s),
         NEW size \in Sizes, NEW ok \in BOOLEAN
  PROVE  LET r == Write(s, size, ok) IN
         /\ Good(r) /\ Kept(s, r) /\ r.opened = s.opened
         /\ r.flags = s.flags
<1> DEFINE id == s.issued + 1
           x == [id |-> id, size |-> size]
           q == Append(s.connQ, x)
           r == [s EXCEPT !.issued = id, !.connQ = q]
<1>1. s \in State /\ id \in Nat /\ s.connQ \in Seq([id: Nat, size: Sizes])
      /\ s.issued \in Nat /\ Len(s.connQ) \in Nat /\ s.opened \in Nat
  <2>1. /\ s \in State /\ s.connQ \in Seq([id: Nat, size: Sizes])
        /\ s.issued \in Nat /\ Len(s.connQ) \in Nat /\ s.opened \in Nat
    BY GoodTypes, Zenon
  <2>2. id \in Nat
    BY <2>1
  <2>3. QED  BY <2>1, <2>2
<1>0. x \in [id: Nat, size: Sizes] /\ x.id = id
  BY <1>1
<1>2. Write(s, size, ok) = r
  BY <1>1 DEF Write, Connecting, Has, State
<1>3. Inv(r)
  BY <1>2, WriteInv DEF Good
<1>4. /\ Len(q) = Len(s.connQ) + 1
      /\ q[Len(s.connQ) + 1].id = id
      /\ \A i \in DOMAIN s.connQ : q[i] = s.connQ[i]
      /\ \A i \in DOMAIN q : i \in DOMAIN s.connQ \/ i = Len(s.connQ) + 1
  BY <1>0, <1>1, PushedElement
<1> HIDE DEF q, x
<1>5. /\ r.issued = id /\ r.connQ = q /\ r.flags = s.flags
      /\ r.reading = s.reading /\ r.handle = s.handle
      /\ r.pending = s.pending
      /\ r.listening = s.listening /\ r.selfRef = s.selfRef
      /\ r.ticks = s.ticks /\ r.draining = s.draining
      /\ r.lookups = s.lookups /\ r.connects = s.connects
      /\ r.writes = s.writes /\ r.shutdowns = s.shutdowns
      /\ r.eof = s.eof /\ r.opened = s.opened
      /\ r.sent = s.sent /\ r.destroys = s.destroys /\ r.heard = s.heard
      /\ r.broken = s.broken /\ r.crossed = s.crossed
  BY <1>1 DEF State
<1> HIDE DEF r
<1>6. Live(s) /\ LiveConnecting(s) /\ s.sent = <<>> /\ s.writes = {}
  BY DEF Good, Live, LiveConnecting
<1>7. Errors(r) = Errors(s) /\ Unannounced(r)
  BY <1>5, <1>6 DEF Errors, ErrorQueued, Unannounced, Live
<1>8. Queued(r)
  <2>1. Len(s.connQ) = s.issued /\ Len(s.sent) = 0
    <3>1. Len(s.sent) = 0
      BY <1>6
    <3>2. QED  BY <1>1, <1>6, <3>1 DEF Live, Queued
  <2>2. Len(r.connQ) + Len(r.sent) = r.issued
    BY <1>1, <1>4, <1>5, <2>1
  <2>3. \A i \in DOMAIN r.connQ : r.connQ[i].id = i
    BY <1>4, <1>5, <1>6, <2>1 DEF Live, Queued
  <2>4. \A j \in DOMAIN r.sent : FALSE
    BY <1>5, <1>6
  <2>5. QED  BY <2>2, <2>3, <2>4 DEF Queued
<1>9. Matched(r)
  BY <1>5, <1>6 DEF Matched, Live
<1>10. LiveConnecting(r) /\ Connecting(r)
  BY <1>5, <1>6, <1>7 DEF LiveConnecting, Connecting
<1>14. r.handle # NoHandle
  BY <1>3, <1>10 DEF Inv, Usable, Connecting
<1>11. Live(r)
  BY <1>5, <1>6, <1>7, <1>8, <1>9, <1>10, <1>14 DEF Live
<1>12. Good(r)
  BY <1>3, <1>5, <1>11 DEF Good, Dead
<1>13. QED  BY <1>1, <1>2, <1>5, <1>12, GoodTypes DEF Kept

LEMMA OneMore ==
  ASSUME NEW a \in Nat, NEW b \in Nat, NEW n \in Nat, a + b = n
  PROVE  a + (b + 1) = n + 1
OBVIOUS

LEMMA WriteNowGood ==
  ASSUME NEW s, Good(s), ~Dead(s), ~Connecting(s),
         NEW size \in Sizes, NEW ok \in BOOLEAN
  PROVE  LET r == Write(s, size, ok) IN
         /\ Good(r) /\ Kept(s, r) /\ r.opened = s.opened
         /\ Dead(r) \/ r.flags = s.flags
<1> DEFINE id == s.issued + 1
           t == [s EXCEPT !.issued = id]
           y == [h |-> s.handle, id |-> id]
           p == s.pending + 1
           w == s.writes \cup {y}
           q == Append(s.sent, id)
           r == [s EXCEPT !.issued = id, !.pending = p, !.writes = w,
                          !.sent = q]
<1>1. /\ s \in State /\ id \in Nat /\ s.issued \in Nat /\ s.sent \in Seq(Nat)
      /\ Len(s.sent) \in Nat /\ Len(s.connQ) \in Nat /\ s.opened \in Nat
  BY GoodTypes
<1>2. /\ t.flags = s.flags /\ t.broken = s.broken /\ t.sent = s.sent
      /\ t.listening = s.listening /\ t.destroys = s.destroys
      /\ t.heard = s.heard /\ t.ticks = s.ticks /\ t.draining = s.draining
      /\ t.crossed = s.crossed /\ t.selfRef = s.selfRef
      /\ t.opened = s.opened /\ t.handle = s.handle
      /\ t.shutdowns = s.shutdowns
  BY <1>1 DEF State
<1>3. Inv(t)
  <2>1. t \in State
    BY <1>1 DEF State
  <2>2. t.connQ = s.connQ /\ t.reading = s.reading
    BY <1>1 DEF State
  <2>3. QED  BY <1>2, <2>1, <2>2 DEF Good, Inv, Usable
<1>4. Live(s) /\ LiveSettled(s) /\ Errors(t) = Errors(s)
  BY <1>2 DEF Good, Live, Errors, ErrorQueued
<1>5. ASSUME s.handle = NoHandle \/ ~ok
      PROVE  LET d == Write(s, size, ok) IN
             Good(d) /\ Kept(s, d) /\ d.opened = s.opened /\ Dead(d)
  <2>1. Write(s, size, ok) = DestroyWith(t, TRUE)
    BY <1>2, <1>5 DEF Write, WriteBuffer, Connecting, Has
  <2>2. Unannounced(t) /\ Increasing(t.sent) /\ t.broken = {} /\ ~Dead(t)
        /\ Errors(t) = 0 /\ (t.shutdowns # {} => "SHUTDOWN" \in t.flags)
    BY <1>2, <1>4 DEF Good, Live, LiveSettled, Unannounced, Dead
  <2>3. /\ Good(DestroyWith(t, TRUE)) /\ Kept(t, DestroyWith(t, TRUE))
        /\ DestroyWith(t, TRUE).opened = t.opened /\ Dead(DestroyWith(t, TRUE))
    BY <1>3, <2>2, DestroyLive
  <2> HIDE DEF t
  <2>4. QED  BY <1>1, <1>2, <2>1, <2>3 DEF Kept
<1>6. ASSUME s.handle # NoHandle, ok
      PROVE  /\ Good(Write(s, size, ok)) /\ Kept(s, Write(s, size, ok))
             /\ Write(s, size, ok).opened = s.opened
             /\ Write(s, size, ok).flags = s.flags
  <2>1. Write(s, size, ok) = r
    <3>1. Write(s, size, ok) =
            [t EXCEPT !.pending = t.pending + 1,
                      !.writes = t.writes \cup {[h |-> t.handle, id |-> id]},
                      !.sent = Append(t.sent, id)]
      BY <1>2, <1>6 DEF Write, WriteBuffer, Connecting, Has
    <3>2. t.pending = s.pending /\ t.writes = s.writes
      BY <1>1 DEF State
    <3>3. Write(s, size, ok) =
            [t EXCEPT !.pending = p, !.writes = w, !.sent = q]
      BY <1>2, <3>1, <3>2
    <3> HIDE DEF p, w, q, id
    <3>4. QED  BY <1>1, <3>3 DEF State
  <2>2. Inv(r)
    BY <2>1, WriteInv DEF Good
  <2>3. /\ Len(q) = Len(s.sent) + 1 /\ q[Len(s.sent) + 1] = id
        /\ \A i \in DOMAIN s.sent : q[i] = s.sent[i] /\ i \in Nat
                                    /\ i <= Len(s.sent)
        /\ \A i \in DOMAIN q : i \in DOMAIN s.sent \/ i = Len(s.sent) + 1
    BY <1>1, PushedElement
  <2> HIDE DEF q, w
  <2>4. /\ r.issued = id /\ r.connQ = s.connQ /\ r.flags = s.flags
        /\ r.reading = s.reading /\ r.handle = s.handle
        /\ r.pending = p
        /\ r.listening = s.listening /\ r.selfRef = s.selfRef
        /\ r.ticks = s.ticks /\ r.draining = s.draining
        /\ r.lookups = s.lookups /\ r.connects = s.connects
        /\ r.writes = w /\ r.shutdowns = s.shutdowns
        /\ r.eof = s.eof /\ r.opened = s.opened
        /\ r.sent = q /\ r.destroys = s.destroys /\ r.heard = s.heard
        /\ r.broken = s.broken /\ r.crossed = s.crossed
    BY <1>1 DEF State
  <2> HIDE DEF r
  <2>5. Errors(r) = Errors(s) /\ Unannounced(r)
    BY <1>4, <2>4 DEF Errors, ErrorQueued, Unannounced, Live
  <2>6. Queued(r)
    <3>1. /\ Len(s.connQ) + Len(s.sent) = s.issued
          /\ \A i \in DOMAIN s.connQ : s.connQ[i].id = i
          /\ \A j \in DOMAIN s.sent : s.sent[j] = Len(s.connQ) + j
      BY <1>4 DEF Live, Queued
    <3>2. Len(r.connQ) + Len(r.sent) = r.issued
      <4>1. /\ Len(s.connQ) \in Nat /\ Len(s.sent) \in Nat
            /\ Len(s.connQ) + Len(s.sent) = s.issued
            /\ Len(q) = Len(s.sent) + 1 /\ s.issued \in Nat
        BY <1>1, <2>3, <3>1
      <4>2. r.connQ = s.connQ /\ r.sent = q /\ r.issued = s.issued + 1
        BY <2>4
      <4>3. Len(s.connQ) + Len(q) = s.issued + 1
        <5>1. Len(s.connQ) + (Len(s.sent) + 1) = s.issued + 1
          BY <4>1, OneMore, ZenonT(40)
        <5>2. QED  BY <4>1, <5>1, Zenon
      <4>4. QED  BY <4>2, <4>3
    <3>3. q[Len(s.sent) + 1] = Len(s.connQ) + (Len(s.sent) + 1)
      <4>1. /\ Len(s.connQ) \in Nat /\ Len(s.sent) \in Nat
            /\ Len(s.connQ) + Len(s.sent) = s.issued
            /\ q[Len(s.sent) + 1] = s.issued + 1 /\ s.issued \in Nat
        BY <1>1, <2>3, <3>1
      <4>2. QED  BY <4>1, OneMore, ZenonT(40)
    <3>4. \A j \in DOMAIN q : q[j] = Len(s.connQ) + j
      BY <2>3, <3>1, <3>3
    <3>5. QED  BY <2>4, <3>1, <3>2, <3>4 DEF Queued
  <2>7. Matched(r)
    <3>1. /\ IsFiniteSet(s.writes) /\ s.pending = Cardinality(s.writes)
          /\ \A v \in s.writes : v.h = s.handle /\ v.id <= s.issued
          /\ s.shutdowns \subseteq {s.handle}
      BY <1>4 DEF Live, Matched
    <3>2. y \notin s.writes
      <4>1. y.id = s.issued + 1
        OBVIOUS
      <4>2. ~(y.id <= s.issued)
        BY <1>1, <4>1
      <4> HIDE DEF y
      <4>3. QED  BY <3>1, <4>2
    <3>3. IsFiniteSet(w) /\ Cardinality(w) = s.pending + 1
      BY <3>1, <3>2, FS_AddElement DEF w
    <3>4. \A v \in s.writes : v \in [h: Handles, id: Nat]
      BY <1>1 DEF State
    <3>5. \A v \in w : v.h = s.handle /\ v.id <= id
      BY <1>1, <3>1, <3>4 DEF w
    <3>6. QED  BY <2>4, <3>1, <3>3, <3>5 DEF Matched
  <2>8. LiveSettled(r) /\ ~Connecting(r)
    BY <1>4, <2>4, <2>5 DEF LiveSettled, Connecting
  <2>9. Live(r)
    BY <1>4, <1>6, <2>4, <2>5, <2>6, <2>7, <2>8 DEF Live
  <2>10. Increasing(r.sent)
    BY <1>1, <1>4, <2>3, <2>4, <2>6 DEF Increasing, Queued
  <2>11. Good(r)
    BY <2>2, <2>4, <2>9, <2>10 DEF Good, Dead
  <2>12. QED  BY <1>1, <2>1, <2>4, <2>11, GoodTypes DEF Kept
<1>7. QED  BY <1>5, <1>6

LEMMA WriteGood ==
  ASSUME NEW s, Good(s), ~Dead(s), NEW size \in Sizes, NEW ok \in BOOLEAN
  PROVE  LET r == Write(s, size, ok) IN
         /\ Good(r) /\ Kept(s, r) /\ r.opened = s.opened
         /\ Connecting(s) => r.flags = s.flags
         /\ Dead(r) \/ r.flags = s.flags
BY WriteQueuedGood, WriteNowGood

LEMMA WriteDataGood ==
  ASSUME NEW s, Good(s), ~Dead(s), NEW data \in Data, NEW ok \in BOOLEAN
  PROVE  LET r == WriteData(s, data, ok) IN
         /\ Good(r) /\ Kept(s, r) /\ r.opened = s.opened
         /\ Connecting(s) => r.flags = s.flags
         /\ Dead(r) \/ r.flags = s.flags
<1>1. data = NoData \/ data[1] \in Sizes
  BY DEF Data
<1>2. CASE data = NoData
  BY <1>2, KeptAll DEF WriteData
<1>3. CASE data # NoData
  BY <1>1, <1>3, WriteGood DEF WriteData
<1>4. QED  BY <1>2, <1>3

LEMMA ShutdownGood ==
  ASSUME NEW s, Good(s), ~Dead(s), ~Connecting(s), s.handle # NoHandle,
         "SHUTDOWN" \in s.flags, "WRITABLE" \notin s.flags
  PROVE  LET r == [s EXCEPT !.shutdowns = s.shutdowns \cup {s.handle}] IN
         Good(r) /\ Kept(s, r) /\ r.opened = s.opened
<1> DEFINE d == s.shutdowns \cup {s.handle}
           r == [s EXCEPT !.shutdowns = d]
<1>1. s \in State /\ s.handle \in Handles
  BY GoodTypes
<1>2. d \in SUBSET Handles
  BY <1>1 DEF State
<1>3. r \in State
  BY <1>1, <1>2 DEF State
<1> HIDE DEF d
<1>4. /\ r.issued = s.issued /\ r.connQ = s.connQ /\ r.flags = s.flags
      /\ r.reading = s.reading /\ r.handle = s.handle
      /\ r.pending = s.pending
      /\ r.listening = s.listening /\ r.selfRef = s.selfRef
      /\ r.ticks = s.ticks /\ r.draining = s.draining
      /\ r.lookups = s.lookups /\ r.connects = s.connects
      /\ r.writes = s.writes /\ r.shutdowns = d
      /\ r.eof = s.eof /\ r.opened = s.opened
      /\ r.sent = s.sent /\ r.destroys = s.destroys /\ r.heard = s.heard
      /\ r.broken = s.broken /\ r.crossed = s.crossed
  BY <1>1 DEF State
<1> HIDE DEF r
<1>5. Live(s) /\ Inv(s)
  BY DEF Good
<1>6. Inv(r)
  BY <1>3, <1>4, <1>5 DEF Inv, Usable
<1>7. Errors(r) = Errors(s) /\ Unannounced(r)
  BY <1>4, <1>5 DEF Errors, ErrorQueued, Unannounced, Live
<1>8. Queued(r)
  BY <1>4, <1>5 DEF Queued, Live
<1>9. Matched(r)
  BY <1>4, <1>5 DEF Matched, Live, d
<1>10. LiveSettled(r) /\ ~Connecting(r)
  BY <1>4, <1>5, <1>7 DEF LiveSettled, Connecting, Live
<1>11. Live(r)
  BY <1>4, <1>5, <1>7, <1>8, <1>9, <1>10 DEF Live
<1>12. Good(r)
  BY <1>4, <1>6, <1>11 DEF Good, Dead
<1>13. QED  BY <1>4, <1>12, GoodTypes DEF Kept, d, r

(* A change of flags of a socket that is not destroyed. *)
LEMMA SetGood ==
  ASSUME NEW s, Good(s), ~Dead(s), NEW F, FlagsLive(s, s.flags \cup F),
         Inv(Set(s, F))
  PROVE  LET r == Set(s, F) IN
         /\ Good(r) /\ ~Dead(r) /\ Kept(s, r) /\ SameButFlags(s, r)
         /\ r.flags = s.flags \cup F
<1> DEFINE r == Set(s, F)
<1>1. SameButFlags(s, r) /\ r.flags = s.flags \cup F /\ r.reading = s.reading
  BY GoodTypes, SetIs
<1> HIDE DEF r
<1>2. r.reading => "GOT_EOF" \notin s.flags /\ ~Connecting(s)
  BY <1>1, ReadingLive
<1>3. FlagsLive(s, r.flags) /\ Inv(r)
  BY <1>1 DEF r
<1>4. Good(r) /\ ~Dead(r) /\ Kept(s, r)
  BY <1>1, <1>2, <1>3, FlagsGood
<1>5. QED  BY <1>1, <1>4 DEF r

LEMMA UnsetGood ==
  ASSUME NEW s, Good(s), ~Dead(s), NEW F, FlagsLive(s, s.flags \ F)
  PROVE  LET r == Unset(s, F) IN
         /\ Good(r) /\ ~Dead(r) /\ Kept(s, r) /\ SameButFlags(s, r)
         /\ r.flags = s.flags \ F
<1>1. Inv(Unset(s, F))
  BY UnsetInv DEF Good
<1> DEFINE r == Unset(s, F)
<1>2. SameButFlags(s, r) /\ r.flags = s.flags \ F /\ r.reading = s.reading
  BY GoodTypes, SetIs
<1> HIDE DEF r
<1>3. r.reading => "GOT_EOF" \notin s.flags /\ ~Connecting(s)
  BY <1>2, ReadingLive
<1>4. FlagsLive(s, r.flags) /\ Inv(r)
  BY <1>1, <1>2 DEF r
<1>5. Good(r) /\ ~Dead(r) /\ Kept(s, r)
  BY <1>2, <1>3, <1>4, FlagsGood
<1>6. QED  BY <1>2, <1>5 DEF r

LEMMA EndConnecting ==
  ASSUME NEW s, Good(s), ~Dead(s), Connecting(s), NEW data \in Data,
         NEW ok \in BOOLEAN, NEW shutOk \in BOOLEAN
  PROVE  LET r == End(s, data, ok, shutOk) IN
         Good(r) /\ Kept(s, r) /\ r.opened = s.opened
<1> DEFINE w == WriteData(s, data, ok)
           a == Unset(w, {"WRITABLE"})
           q == Set(a, {"SHUTDOWN_QUEUED"})
<1>1. CASE "SHUTDOWN_QUEUED" \in s.flags
  <2>1. "WRITABLE" \notin s.flags
    BY <1>1 DEF Good, Live, LiveConnecting
  <2>2. End(s, data, ok, shutOk) = s
    BY <1>1, <2>1 DEF End, Has
  <2>3. QED  BY <2>2, KeptAll
<1>2. CASE "SHUTDOWN_QUEUED" \notin s.flags
  <2>1. Good(w) /\ Kept(s, w) /\ w.opened = s.opened /\ w.flags = s.flags
    BY WriteDataGood
  <2>2. End(s, data, ok, shutOk) = IF ~Has(q, "WRITABLE") THEN q
                                   ELSE End(s, data, ok, shutOk)
    BY <1>2 DEF End, Has, Connecting
  <2> HIDE DEF w
  <2>3. /\ Good(a) /\ ~Dead(a) /\ Kept(w, a) /\ SameButFlags(w, a)
        /\ a.flags = w.flags \ {"WRITABLE"}
    <3>1. FlagsLive(w, w.flags \ {"WRITABLE"}) /\ ~Dead(w)
      BY <2>1 DEF FlagsLive, Dead, Connecting
    <3>2. QED  BY <2>1, <3>1, UnsetGood
  <2> HIDE DEF a
  <2>4. /\ Good(q) /\ Kept(a, q) /\ SameButFlags(a, q)
        /\ q.flags = a.flags \cup {"SHUTDOWN_QUEUED"}
    <3>1. FlagsLive(a, a.flags \cup {"SHUTDOWN_QUEUED"})
      BY <2>3 DEF FlagsLive, Dead, Connecting
    <3>2. Inv(q)
      BY <2>3, SetInv DEF Good, Flag
    <3>3. QED  BY <2>3, <3>1, <3>2, SetGood
  <2> HIDE DEF q
  <2>5. End(s, data, ok, shutOk) = q
    BY <2>2, <2>3, <2>4 DEF Has
  <2>6. Kept(s, q)
    BY <2>1, <2>3, <2>4, KeptAll
  <2>7. q.opened = s.opened
    BY <2>1, <2>3, <2>4 DEF SameButFlags
  <2>8. QED  BY <2>4, <2>5, <2>6, <2>7
<1>3. QED  BY <1>1, <1>2

LEMMA EndNow ==
  ASSUME NEW s, Good(s), ~Dead(s), ~Connecting(s), NEW data \in Data,
         NEW ok \in BOOLEAN, NEW shutOk \in BOOLEAN
  PROVE  LET r == End(s, data, ok, shutOk) IN
         Good(r) /\ Kept(s, r) /\ r.opened = s.opened
<1> DEFINE a == Unset(s, {"WRITABLE"})
           w == WriteData(a, data, ok)
           t == Set(w, {"SHUTDOWN"})
           u == [t EXCEPT !.shutdowns = t.shutdowns \cup {t.handle}]
           r == End(s, data, ok, shutOk)
<1>1. r = IF ~Has(s, "WRITABLE") THEN s
          ELSE IF ~Has(w, "READABLE") THEN DestroySoon(w)
          ELSE IF shutOk THEN u ELSE DestroyWith(t, TRUE)
  BY DEF End, Has, Connecting
<1>2. /\ Good(a) /\ ~Dead(a) /\ Kept(s, a) /\ SameButFlags(s, a)
      /\ a.flags = s.flags \ {"WRITABLE"}
  <2>1. FlagsLive(s, s.flags \ {"WRITABLE"})
    BY DEF FlagsLive, Dead, Connecting
  <2>2. QED  BY <2>1, UnsetGood
<1> HIDE DEF a
<1>3. /\ Good(w) /\ Kept(a, w) /\ w.opened = a.opened
      /\ Dead(w) \/ w.flags = a.flags
  BY <1>2, WriteDataGood
<1> HIDE DEF w, r
<1>4. Kept(s, w) /\ w.opened = s.opened
  BY <1>2, <1>3, KeptAll DEF SameButFlags
<1>5. CASE ~Has(s, "WRITABLE")
  BY <1>1, <1>5, KeptAll DEF r
<1>6. CASE Has(s, "WRITABLE") /\ ~Has(w, "READABLE")
  <2>1. r = DestroySoon(w)
    BY <1>1, <1>6
  <2>2. CASE Dead(w)
    BY <1>3, <1>4, <2>1, <2>2 DEF DestroySoon, Has, Dead, r
  <2>3. CASE ~Dead(w)
    <3>1. Good(DestroySoon(w)) /\ Kept(w, DestroySoon(w))
      BY <1>3, <2>3, DestroySoonGood
    <3>2. DestroySoon(w).opened = w.opened
      BY <1>3, <2>3, DestroySoonKeeps
    <3>3. QED  BY <1>3, <1>4, <2>1, <3>1, <3>2, KeptAll DEF r
  <2>4. QED  BY <2>2, <2>3
<1>7. CASE Has(s, "WRITABLE") /\ Has(w, "READABLE")
  <2>1. ~Dead(w) /\ w.flags = s.flags \ {"WRITABLE"} /\ w.handle # NoHandle
    <3>1. Inv(w) /\ "READABLE" \in Usable(w)
      BY <1>3, <1>7 DEF Good, Has, Usable
    <3>2. QED  BY <1>2, <1>3, <3>1 DEF Inv, Dead
  <2>2. /\ Good(t) /\ ~Dead(t) /\ Kept(w, t) /\ SameButFlags(w, t)
        /\ t.flags = w.flags \cup {"SHUTDOWN"}
    <3>1. FlagsLive(w, w.flags \cup {"SHUTDOWN"})
      BY <2>1 DEF FlagsLive, Dead, Connecting
    <3>2. Inv(t)
      BY <1>3, SetInv DEF Good, Flag
    <3>3. QED  BY <1>3, <2>1, <3>1, <3>2, SetGood
  <2> HIDE DEF t
  <2>3. /\ ~Connecting(t) /\ t.handle # NoHandle /\ "SHUTDOWN" \in t.flags
        /\ "WRITABLE" \notin t.flags /\ t.opened = s.opened
    BY <1>4, <2>1, <2>2 DEF SameButFlags, Connecting
  <2>4. Good(u) /\ Kept(t, u) /\ u.opened = t.opened
    BY <2>2, <2>3, ShutdownGood
  <2> HIDE DEF u
  <2>5. /\ Good(DestroyWith(t, TRUE)) /\ Kept(t, DestroyWith(t, TRUE))
        /\ DestroyWith(t, TRUE).opened = t.opened
    BY <2>2, <2>3, DestroyGood
  <2>6. r \in {u, DestroyWith(t, TRUE)}
    BY <1>1, <1>7
  <2>7. Good(r) /\ Kept(t, r) /\ r.opened = t.opened
    BY <2>4, <2>5, <2>6
  <2>8. Kept(s, t) /\ Kept(s, r)
    BY <1>3, <1>4, <2>2, <2>7, KeptAll
  <2>9. QED  BY <2>3, <2>7, <2>8 DEF r
<1>8. QED  BY <1>5, <1>6, <1>7

LEMMA EndGood ==
  ASSUME NEW s, Good(s), ~Dead(s), NEW data \in Data,
         NEW ok \in BOOLEAN, NEW shutOk \in BOOLEAN
  PROVE  LET r == End(s, data, ok, shutOk) IN
         Good(r) /\ Kept(s, r) /\ r.opened = s.opened
BY EndConnecting, EndNow

LEMMA PauseGood ==
  ASSUME NEW s, Good(s), ~Dead(s)
  PROVE  Good(Pause(s)) /\ Kept(s, Pause(s))
<1> DEFINE t == Set(s, {"PAUSED"})
           u == [t EXCEPT !.reading = FALSE]
<1>1. /\ Good(t) /\ ~Dead(t) /\ Kept(s, t) /\ SameButFlags(s, t)
      /\ t.flags = s.flags \cup {"PAUSED"}
  <2>1. FlagsLive(s, s.flags \cup {"PAUSED"})
    BY DEF FlagsLive, Dead, Connecting
  <2>2. Inv(t)
    BY SetInv DEF Good, Flag
  <2>3. QED  BY <2>1, <2>2, SetGood
<1>2. Pause(s) \in {t, u}
  BY DEF Pause
<1>3. ASSUME Pause(s) = u  PROVE Good(u) /\ Kept(t, u)
  <2>1. Inv(u)
    BY <1>3, PauseInv DEF Good
  <2> HIDE DEF t
  <2>2. SameButFlags(t, u) /\ u.flags = t.flags /\ ~u.reading
    BY <1>1, GoodTypes DEF State, SameButFlags
  <2> HIDE DEF u
  <2>3. FlagsLive(t, u.flags)
    BY <1>1, <2>2 DEF FlagsLive, Dead, Connecting
  <2>4. QED  BY <1>1, <2>1, <2>2, <2>3, FlagsGood
<1> HIDE DEF t, u
<1>4. QED  BY <1>1, <1>2, <1>3, KeptAll

(* resume() before the end of the stream. *)
LEMMA ResumeGood ==
  ASSUME NEW s, Good(s), ~Dead(s), ~s.eof
  PROVE  Good(Resume(s)) /\ Kept(s, Resume(s))
<1> DEFINE t == Unset(s, {"PAUSED"})
           u == [t EXCEPT !.reading = TRUE]
<1>1. /\ Good(t) /\ ~Dead(t) /\ Kept(s, t) /\ SameButFlags(s, t)
      /\ t.flags = s.flags \ {"PAUSED"}
  <2>1. FlagsLive(s, s.flags \ {"PAUSED"})
    BY DEF FlagsLive, Dead, Connecting
  <2>2. QED  BY <2>1, UnsetGood
<1>2. \/ Resume(s) = t
      \/ Resume(s) = u /\ ~Connecting(s)
  BY DEF Resume, Has, Connecting
<1>3. ASSUME Resume(s) = u, ~Connecting(s)  PROVE Good(u) /\ Kept(t, u)
  <2>1. Inv(u)
    BY <1>3, ResumeInv DEF Good
  <2>2. "GOT_EOF" \notin s.flags
    BY DEF Good, Live
  <2> HIDE DEF t
  <2>3. SameButFlags(t, u) /\ u.flags = t.flags
    BY <1>1, GoodTypes DEF State, SameButFlags
  <2> HIDE DEF u
  <2>4. FlagsLive(t, u.flags)
    BY <1>1, <2>3 DEF FlagsLive, Dead, Connecting
  <2>5. "GOT_EOF" \notin t.flags /\ ~Connecting(t)
    BY <1>1, <1>3, <2>2 DEF Connecting
  <2>6. QED  BY <1>1, <2>1, <2>3, <2>4, <2>5, FlagsGood
<1> HIDE DEF t, u
<1>4. QED  BY <1>1, <1>2, <1>3, KeptAll

(* connect() by an application that has nothing left of a connection. *)
LEMMA StartedGood ==
  ASSUME NEW s, Good(s), s.opened < MaxOpened,
         s.handle = NoHandle, s.ticks = <<>>, s.connQ = <<>>,
         s.lookups = {}, s.connects = {}, s.writes = {}, s.shutdowns = {}
  PROVE  LET u == Started(s) IN
         /\ Good(u) /\ ~Dead(u) /\ Connecting(u) /\ Errors(u) = 0
         /\ u.draining = s.draining /\ u.crossed = s.crossed
         /\ u.selfRef = s.selfRef /\ u.opened = s.opened + 1
         /\ u.lookups = {} /\ u.connects = {}
         /\ u.heard["close"] = 0
<1> DEFINE u == Started(s)
           Z == [e \in Event |-> 0]
<1>1. s \in State /\ s.opened \in Nat
  BY GoodTypes
<1>2. u \in State /\ s.opened + 1 \in Handles
  BY <1>1, StartedState
<1>3. /\ u.flags = {"CONNECTING", "WRITABLE"} /\ u.handle = s.opened + 1
      /\ u.pending = 0 /\ u.listening = TRUE /\ u.reading = FALSE
      /\ u.eof = FALSE /\ u.opened = s.opened + 1 /\ u.issued = 0
      /\ u.sent = <<>> /\ u.destroys = 0 /\ u.heard = Z
      /\ u.connQ = s.connQ /\ u.ticks = s.ticks /\ u.draining = s.draining
      /\ u.crossed = s.crossed /\ u.selfRef = s.selfRef
      /\ u.lookups = s.lookups /\ u.connects = s.connects
      /\ u.writes = s.writes /\ u.shutdowns = s.shutdowns
      /\ u.broken = s.broken
  BY <1>1 DEF State, Started
<1>4. Z["close"] = 0 /\ Z["error"] = 0
  BY DEF Event
<1> HIDE DEF u, Z
<1>5. ~Dead(u) /\ Connecting(u) /\ u.handle # NoHandle
  BY <1>1, <1>3 DEF Dead, Connecting, NoHandle
<1>6. Inv(u)
  BY <1>2, <1>3, <1>5 DEF Inv, Dead, Good
<1>7. Errors(u) = 0 /\ Unannounced(u)
  BY <1>3, <1>4, ErrorForms DEF Errors, Unannounced
<1>8. Queued(u)
  <2>1. Len(u.connQ) = 0 /\ Len(u.sent) = 0
    BY <1>3
  <2>2. Len(u.connQ) + Len(u.sent) = u.issued
    BY <1>3, <2>1
  <2>3. DOMAIN u.connQ = {} /\ DOMAIN u.sent = {}
    BY <1>3
  <2>4. QED  BY <2>2, <2>3 DEF Queued
<1>9. Matched(u)
  BY <1>3, FS_EmptySet DEF Matched
<1>10. LiveConnecting(u)
  BY <1>3, <1>7 DEF LiveConnecting
<1>11. Live(u)
  BY <1>3, <1>5, <1>7, <1>8, <1>9, <1>10 DEF Live
<1>12. Increasing(u.sent)
  <2>1. DOMAIN u.sent = {}
    BY <1>3
  <2>2. QED  BY <2>1 DEF Increasing
<1>13. Good(u)
  BY <1>1, <1>3, <1>5, <1>6, <1>11, <1>12 DEF Good
<1>14. QED  BY <1>3, <1>4, <1>5, <1>7, <1>13 DEF u

(* A step of a connection that is being made. *)
SameButRequests(s, r) ==
  /\ r.flags = s.flags /\ r.reading = s.reading
  /\ r.handle = s.handle /\ r.pending = s.pending /\ r.connQ = s.connQ
  /\ r.listening = s.listening /\ r.selfRef = s.selfRef
  /\ r.draining = s.draining
  /\ r.writes = s.writes /\ r.shutdowns = s.shutdowns
  /\ r.eof = s.eof /\ r.opened = s.opened /\ r.issued = s.issued
  /\ r.sent = s.sent /\ r.destroys = s.destroys /\ r.heard = s.heard
  /\ r.broken = s.broken /\ r.crossed = s.crossed

LEMMA RequestGood ==
  ASSUME NEW s, Good(s), ~Dead(s), Connecting(s), NEW r, Inv(r),
         SameButRequests(s, r),
         r.connects \subseteq {s.handle}, r.lookups \subseteq {s.handle},
         r.connects = {} \/ r.lookups = {},
         \/ r.ticks = s.ticks /\ Errors(s) = 0
         \/ r.ticks = s.ticks /\ r.connects = {} /\ r.lookups = {}
         \/ /\ r.ticks = <<"EmitErrorAndDestroy">> /\ Errors(s) = 0
            /\ r.connects = {} /\ r.lookups = {}
  PROVE  /\ Good(r) /\ ~Dead(r) /\ Connecting(r) /\ Kept(s, r)
         /\ r.opened = s.opened
         /\ r.ticks = s.ticks => Errors(r) = Errors(s)
<1>1. Live(s) /\ LiveConnecting(s) /\ s.heard["error"] \in Nat
  BY GoodTypes DEF Good, Live
<1>2. ~Dead(r) /\ Connecting(r)
  BY DEF Dead, Connecting, SameButRequests
<1>3. r.ticks = s.ticks => Errors(r) = Errors(s)
  BY DEF SameButRequests, Errors, ErrorQueued
<1>4. Errors(r) <= 1 /\ (Errors(r) = 1 => r.connects = {} /\ r.lookups = {})
  <2>1. CASE r.ticks = s.ticks
    BY <1>1, <1>3, <2>1 DEF Live, Unannounced
  <2>2. CASE r.ticks = <<"EmitErrorAndDestroy">> /\ Errors(s) = 0
             /\ r.connects = {} /\ r.lookups = {}
    <3>1. s.heard["error"] = 0
      <4>1. ErrorQueued(s) => s.heard["error"] + 1 = 0
        BY <2>2 DEF Errors
      <4>2. ~ErrorQueued(s) => s.heard["error"] + 0 = 0
        BY <2>2 DEF Errors
      <4>3. QED  BY <1>1, <4>1, <4>2
    <3>2. r.heard["error"] = 0 /\ ErrorQueued(r)
      BY <2>2, <3>1, ErrorForms DEF SameButRequests
    <3>3. Errors(r) = 1
      BY <3>2 DEF Errors
    <3>4. QED  BY <2>2, <3>3
  <2>3. QED  BY <2>1, <2>2
<1>5. Unannounced(r)
  BY <1>1, <1>4 DEF Live, Unannounced, SameButRequests
<1>6. Queued(r) /\ Matched(r)
  BY <1>1 DEF Live, Queued, Matched, SameButRequests
<1>7. LiveConnecting(r)
  BY <1>1, <1>4 DEF LiveConnecting, SameButRequests
<1>8. Live(r)
  BY <1>1, <1>2, <1>5, <1>6, <1>7 DEF Live, SameButRequests
<1>9. Good(r)
  BY <1>2, <1>8 DEF Good, SameButRequests
<1>10. QED  BY <1>2, <1>3, <1>9, GoodTypes DEF Kept, SameButRequests

LEMMA ConnectGood ==
  ASSUME NEW s, Good(s), s.opened < MaxOpened,
         s.handle = NoHandle, s.ticks = <<>>, s.connQ = <<>>,
         s.lookups = {}, s.connects = {}, s.writes = {}, s.shutdowns = {},
         NEW lookup \in BOOLEAN, NEW ok \in BOOLEAN
  PROVE  LET r == Connect(s, lookup, ok) IN
         /\ Good(r) /\ r.draining = s.draining /\ r.crossed = s.crossed
         /\ r.selfRef = s.selfRef /\ r.opened = s.opened + 1
         /\ r.heard["close"] = 0
<1> DEFINE h == s.opened + 1
           u == Started(s)
           v == [u EXCEPT !.lookups = s.lookups \cup {h}]
           w == [u EXCEPT !.connects = s.connects \cup {h}]
           d == DestroyWith(u, TRUE)
           r == Connect(s, lookup, ok)
<1>1. s \in State
  BY GoodTypes
<1>2. r = IF lookup THEN v ELSE IF ok THEN w ELSE d
  BY <1>1, ConnectIs
<1>3. /\ Good(u) /\ ~Dead(u) /\ Connecting(u) /\ Errors(u) = 0
      /\ u.draining = s.draining /\ u.crossed = s.crossed
      /\ u.selfRef = s.selfRef /\ u.opened = h /\ u.handle = h
      /\ u.lookups = {} /\ u.connects = {} /\ u.heard["close"] = 0
  <2>1. u.handle = h
    BY <1>1 DEF Started, State
  <2>2. QED  BY <2>1, StartedGood
<1>4. Inv(r)
  BY ConnectInv DEF Good
<1> HIDE DEF u, r
<1>5. u \in State
  BY <1>3, GoodTypes
<1>6. ASSUME r = v  PROVE Good(v) /\ Kept(u, v) /\ v.opened = u.opened
  <2>1. SameButRequests(u, v) /\ v.lookups = {h} /\ v.connects = {}
        /\ v.ticks = u.ticks
    BY <1>3, <1>5 DEF State, SameButRequests
  <2> HIDE DEF v
  <2>2. QED  BY <1>3, <1>4, <1>6, <2>1, RequestGood
<1>7. ASSUME r = w  PROVE Good(w) /\ Kept(u, w) /\ w.opened = u.opened
  <2>1. SameButRequests(u, w) /\ w.connects = {h} /\ w.lookups = {}
        /\ w.ticks = u.ticks
    BY <1>3, <1>5 DEF State, SameButRequests
  <2> HIDE DEF w
  <2>2. QED  BY <1>3, <1>4, <1>7, <2>1, RequestGood
<1>8. Good(d) /\ Kept(u, d) /\ d.opened = u.opened
  <2>1. /\ Inv(u) /\ u.broken = {} /\ Increasing(u.sent) /\ Unannounced(u)
        /\ u.shutdowns # {} => "SHUTDOWN" \in u.flags
    BY <1>3 DEF Good, Live
  <2>2. QED  BY <1>3, <2>1, DestroyLive
<1> HIDE DEF v, w, d
<1>9. Good(r) /\ Kept(u, r) /\ r.opened = u.opened
  BY <1>2, <1>6, <1>7, <1>8
<1>10. QED  BY <1>3, <1>9 DEF Kept, r

(* A socket that has no handle and is not destroyed has not been used. *)
LEMMA FreshIsEmpty ==
  ASSUME NEW s, Good(s), ~Dead(s), s.handle = NoHandle
  PROVE  /\ s.ticks = <<>> /\ s.connQ = <<>> /\ s.lookups = {}
         /\ s.connects = {} /\ s.writes = {} /\ s.shutdowns = {}
<1>1. Live(s) /\ s \in State /\ s.heard["error"] \in Nat
  BY GoodTypes DEF Good
<1>2. ~Connecting(s)
  BY DEF Good, Inv, Usable, Connecting
<1>3. LiveSettled(s) /\ s.connQ = <<>>
  BY <1>1, <1>2 DEF Live
<1>4. NoHandle \notin Handles
  BY DEF NoHandle, Handles
<1>5. s.writes = {} /\ s.shutdowns = {}
  <2>1. \A w \in s.writes : w.h = s.handle /\ w \in [h: Handles, id: Nat]
    BY <1>1 DEF Live, Matched, State
  <2>2. s.shutdowns \subseteq {s.handle} /\ s.shutdowns \subseteq Handles
    BY <1>1 DEF Live, Matched, State
  <2>3. QED  BY <1>4, <2>1, <2>2
<1>6. s.ticks = <<>>
  <2>1. s.ticks = <<"EmitErrorAndDestroy">> => Errors(s) = s.heard["error"] + 1
    BY ErrorForms DEF Errors
  <2>2. Errors(s) = 0
    BY <1>3 DEF LiveSettled
  <2>3. s.ticks # <<"EmitErrorAndDestroy">>
    BY <1>1, <2>1, <2>2
  <2>4. QED  BY <1>1, <2>3 DEF Live, Unannounced
<1>7. QED  BY <1>3, <1>5, <1>6 DEF LiveSettled

OrderlyCall == {c \in AllCalls \cup {NoCall} :
                  c.op \notin {"reconnect", "resumeAfterEof"}}

LEMMA PerformLive ==
  ASSUME NEW s, Good(s), ~Dead(s), NEW c \in OrderlyCall, Permitted(s, c),
         c.op # "reopen"
  PROVE  Good(Perform(s, c)) /\ Kept(s, Perform(s, c))
<1>1. CASE c.op = "write"
  <2>1. c.size \in Sizes /\ c.ok \in BOOLEAN
    BY <1>1 DEF OrderlyCall, AllCalls, NoCall
  <2>2. QED  BY <1>1, <2>1, WriteGood DEF Perform
<1>2. CASE c.op = "end"
  <2>1. c.data \in Data /\ c.ok \in BOOLEAN /\ c.shutOk \in BOOLEAN
    BY <1>2 DEF OrderlyCall, AllCalls, NoCall, Data
  <2>2. QED  BY <1>2, <2>1, EndGood DEF Perform
<1>3. CASE c.op = "connect"
  <2>1. c.lookup \in BOOLEAN /\ c.ok \in BOOLEAN
    BY <1>3 DEF OrderlyCall, AllCalls, NoCall
  <2>2. s.opened = 0 /\ s.handle = NoHandle
    BY <1>3 DEF Permitted, Good
  <2>3. s.opened < MaxOpened
    BY <2>2, BoundsAssumption
  <2> DEFINE r == Connect(s, c.lookup, c.ok)
  <2>4. /\ Good(r) /\ r.draining = s.draining /\ r.crossed = s.crossed
        /\ r.selfRef = s.selfRef /\ r.opened = s.opened + 1
        /\ r.heard["close"] = 0
    BY <2>1, <2>2, <2>3, FreshIsEmpty, ConnectGood
  <2> HIDE DEF r
  <2>5. s.heard["close"] = 0
    BY DEF Good, Live, Unannounced
  <2>6. Kept(s, r)
    BY <2>2, <2>4, <2>5 DEF Kept
  <2>7. Perform(s, c) = r
    BY <1>3 DEF Perform, r
  <2>8. QED  BY <2>4, <2>6, <2>7
<1>4. CASE c.op = "pause"
  BY <1>4, PauseGood DEF Perform
<1>5. CASE c.op = "resume"
  BY <1>5, ResumeGood DEF Perform, Permitted
<1>6. CASE c.op = "destroy"
  BY <1>6, DestroyGood DEF Perform, Destroy
<1>7. CASE c.op = "destroySoon"
  BY <1>7, DestroySoonGood DEF Perform
<1>8. CASE c.op = "release"
  <2> DEFINE r == [s EXCEPT !.held = FALSE]
  <2>1. Perform(s, c) = r /\ Inv(r)
    BY <1>8, ReleaseInv DEF Perform, Good
  <2>2. SameButFlags(s, r) /\ r.flags = s.flags /\ r.reading = s.reading
    BY GoodTypes DEF State, SameButFlags
  <2> HIDE DEF r
  <2>3. FlagsLive(s, r.flags)
    BY <2>2 DEF FlagsLive, Dead, Connecting
  <2>4. QED  BY <2>1, <2>2, <2>3, ReadingLive, FlagsGood
<1>9. CASE c.op = "none"
  BY <1>9, KeptAll DEF Perform
<1>10. QED
  BY <1>1, <1>2, <1>3, <1>4, <1>5, <1>6, <1>7, <1>8, <1>9
  DEF OrderlyCall, AllCalls, NoCall

(* A call by a listener: a destroyed socket stays as it is. *)
LEMMA ListenerGood ==
  ASSUME NEW s, Good(s), NEW c \in OrderlyCall
  PROVE  LET r == Listener(s, c) IN
         Good(r) /\ Kept(s, r) /\ (Dead(s) => Inert(s, r))
<1> DEFINE r == Listener(s, c)
<1>1. Inv(r) /\ Inv(s)
  BY ListenerInv DEF OrderlyCall, Good
<1>2. CASE ~(s.listening /\ c.op # "reopen" /\ Permitted(s, c))
  <2>1. r = s
    BY <1>2 DEF Listener
  <2>2. QED  BY <2>1, KeptAll DEF Inert
<1>3. CASE s.listening /\ c.op # "reopen" /\ Permitted(s, c)
  <2>1. r = Perform(s, c)
    BY <1>3 DEF Listener
  <2>2. CASE Dead(s)
    <3>1. c.op \notin ConnectOps
      BY <1>3, <2>2 DEF OrderlyCall, ConnectOps, Permitted, Has, Dead
    <3>2. Inert(s, r)
      BY <1>1, <2>1, <2>2, <3>1, PerformDead DEF OrderlyCall
    <3> HIDE DEF r
    <3>3. Good(r) /\ Kept(s, r)
      BY <1>1, <2>2, <3>2, InertGood
    <3>4. QED  BY <3>2, <3>3 DEF r
  <2>3. CASE ~Dead(s)
    BY <1>3, <2>1, <2>3, PerformLive
  <2>4. QED  BY <2>2, <2>3
<1>4. QED  BY <1>2, <1>3

(* A call by the application that connects the socket again. *)
LEMMA ReopenGood ==
  ASSUME NEW s, Good(s), NEW c \in OrderlyCall, c.op = "reopen",
         Permitted(s, c)
  PROVE  LET r == Perform(s, c) IN
         /\ Good(r) /\ r.draining = s.draining /\ r.crossed = s.crossed
         /\ r.opened = s.opened + 1 /\ s.opened >= 1 /\ Dead(s)
         /\ r.heard["close"] = 0
<1>1. c.lookup \in BOOLEAN /\ c.ok \in BOOLEAN
  BY DEF OrderlyCall, AllCalls, NoCall
<1>2. s.opened \in 1..(MaxOpened - 1) /\ Settled(s)
  BY DEF Permitted
<1>3. s.opened < MaxOpened /\ s.opened >= 1 /\ s.opened # 0
  BY <1>2, BoundsAssumption
<1>4. Dead(s)
  BY <1>2, <1>3 DEF Good, Live, Settled
<1>5. s.connQ = <<>>
  BY <1>4 DEF Good, Inv, Dead
<1>6. Perform(s, c) = Connect(s, c.lookup, c.ok)
  BY DEF Perform
<1>7. QED  BY <1>1, <1>2, <1>3, <1>4, <1>5, <1>6, ConnectGood DEF Settled

-----------------------------------------------------------------------------
(* The callbacks of libuv. *)

(* A later change of a socket that is already destroyed. *)
SameEnough(s, r) ==
  /\ r.listening = s.listening /\ r.selfRef = s.selfRef
  /\ r.ticks = s.ticks /\ r.draining = s.draining
  /\ r.opened = s.opened /\ r.sent = s.sent /\ r.destroys = s.destroys
  /\ r.heard = s.heard /\ r.broken = s.broken /\ r.crossed = s.crossed
  /\ r.flags = s.flags /\ r.handle = s.handle
  /\ r.connects \subseteq s.connects /\ r.writes \subseteq s.writes
  /\ r.shutdowns \subseteq s.shutdowns

LEMMA AnswerDeadGood ==
  ASSUME NEW s, Good(s), Dead(s), NEW r, Inv(r), SameEnough(s, r)
  PROVE  Good(r) /\ Kept(s, r) /\ Dead(r)
<1>1. Announced(r) /\ Dead(r)
  BY DEF Good, SameEnough, Announced, Errors, ErrorQueued, Dead
<1>2. Good(r)
  BY <1>1 DEF Good, SameEnough, Dead
<1>3. QED  BY <1>1, <1>2, GoodTypes DEF SameEnough, Kept

(* 'connect' or 'end' is heard. *)
LEMMA HeardGood ==
  ASSUME NEW s, Good(s), NEW ev \in {"connect", "end"}
  PROVE  LET t == Heard(s, ev) IN
         Good(t) /\ Kept(s, t) /\ t.flags = s.flags
<1> DEFINE t == Heard(s, ev)
<1>1. Inv(s) /\ s \in State /\ ev \in Event
  BY GoodTypes DEF Good, Event
<1>2. /\ Inv(t)
      /\ t.heard["error"] = s.heard["error"]
      /\ t.heard["close"] = s.heard["close"]
      /\ t.flags = s.flags /\ t.handle = s.handle /\ t.pending = s.pending
      /\ t.connQ = s.connQ /\ t.listening = s.listening
      /\ t.selfRef = s.selfRef /\ t.ticks = s.ticks
      /\ t.draining = s.draining /\ t.lookups = s.lookups
      /\ t.connects = s.connects /\ t.writes = s.writes
      /\ t.shutdowns = s.shutdowns /\ t.reading = s.reading
      /\ t.eof = s.eof /\ t.opened = s.opened /\ t.issued = s.issued
      /\ t.sent = s.sent /\ t.destroys = s.destroys
      /\ t.broken = s.broken /\ t.crossed = s.crossed
  BY <1>1, HeardInv, HeardIs, ZenonT(40) DEF Event
<1> HIDE DEF t
<1>3. Errors(t) = Errors(s)
  BY <1>2 DEF Errors, ErrorQueued
<1>4. Dead(s) => Announced(t)
  BY <1>2, <1>3 DEF Good, Announced
<1>5. ASSUME ~Dead(s)  PROVE Live(t)
  <2>1. Live(s)
    BY <1>5 DEF Good
  <2>2. Unannounced(t) /\ Queued(t) /\ Matched(t)
    <3>1. Unannounced(t)
      BY <1>2, <1>3, <2>1 DEF Live, Unannounced
    <3>2. Queued(t)
      BY <1>2, <2>1 DEF Live, Queued
    <3>3. Matched(t)
      BY <1>2, <2>1 DEF Live, Matched
    <3>4. QED  BY <3>1, <3>2, <3>3
  <2>3. Connecting(t) <=> Connecting(s)
    BY <1>2 DEF Connecting
  <2>4. LiveConnecting(s) => LiveConnecting(t)
    BY <1>2, <1>3 DEF LiveConnecting
  <2>5. LiveSettled(s) => LiveSettled(t)
    BY <1>2, <1>3 DEF LiveSettled
  <2>6. QED  BY <1>2, <2>1, <2>2, <2>3, <2>4, <2>5 DEF Live
<1>6. Good(t)
  BY <1>2, <1>4, <1>5 DEF Good, Dead
<1>7. QED  BY <1>2, <1>6, GoodTypes DEF Kept, t

LEMMA EmitGood ==
  ASSUME NEW s, Good(s), NEW ev \in {"connect", "end"}, NEW c \in OrderlyCall
  PROVE  Good(Emit(s, ev, c)) /\ Kept(s, Emit(s, ev, c))
<1> DEFINE t == Heard(s, ev)
<1>1. Good(t) /\ Kept(s, t)
  BY HeardGood
<1>2. [s EXCEPT !.heard[ev] = @ + 1] = t
  BY HeardInv DEF Good, Event
<1> HIDE DEF t
<1>3. Good(Listener(t, c)) /\ Kept(t, Listener(t, c))
  BY <1>1, ListenerGood
<1>4. Emit(s, ev, c) \in {s, Listener(t, c)}
  BY <1>2 DEF Emit
<1>5. QED  BY <1>1, <1>3, <1>4, KeptAll

(* The end of the stream of a socket that reads. *)
LEMMA EofGood ==
  ASSUME NEW s, Good(s), ~Dead(s), s.reading
  PROVE  LET f == (s.flags \ {"READABLE"}) \cup {"GOT_EOF"}
             t == [s EXCEPT !.flags = f, !.reading = FALSE, !.eof = TRUE]
         IN  Good(t) /\ ~Dead(t) /\ ~Connecting(t) /\ Kept(s, t)
<1> DEFINE f == (s.flags \ {"READABLE"}) \cup {"GOT_EOF"}
           t == [s EXCEPT !.flags = f, !.reading = FALSE, !.eof = TRUE]
<1>1. s \in State /\ Live(s) /\ ~Connecting(s) /\ LiveSettled(s) /\ Inv(s)
  BY GoodTypes, ReadingLive DEF Good, Live
<1>2. f \in SUBSET Flag
  BY <1>1 DEF State, Flag
<1>3. /\ "DESTROYED" \notin f /\ "CONNECTING" \notin f
      /\ "SHUTDOWN" \in s.flags => "SHUTDOWN" \in f
      /\ "WRITABLE" \in f => "WRITABLE" \in s.flags
      /\ f \cap {"READABLE", "WRITABLE", "CONNECTING"} \subseteq Usable(s)
  BY <1>1 DEF Dead, Connecting, Usable
<1> HIDE DEF f
<1>4. t \in State
  BY <1>1, <1>2 DEF State
<1>5. /\ t.flags = f /\ t.reading = FALSE /\ t.eof = TRUE
      /\ t.handle = s.handle /\ t.pending = s.pending
      /\ t.connQ = s.connQ /\ t.listening = s.listening
      /\ t.selfRef = s.selfRef /\ t.ticks = s.ticks
      /\ t.draining = s.draining /\ t.lookups = s.lookups
      /\ t.connects = s.connects /\ t.writes = s.writes
      /\ t.shutdowns = s.shutdowns
      /\ t.opened = s.opened /\ t.issued = s.issued
      /\ t.sent = s.sent /\ t.destroys = s.destroys /\ t.heard = s.heard
      /\ t.broken = s.broken /\ t.crossed = s.crossed
  BY <1>1 DEF State
<1> HIDE DEF t
<1>6. Inv(t)
  BY <1>1, <1>3, <1>4, <1>5 DEF Inv, Usable
<1>7. Errors(t) = Errors(s) /\ Unannounced(t)
  BY <1>1, <1>5 DEF Live, Errors, ErrorQueued, Unannounced
<1>8. Queued(t) /\ Matched(t) /\ LiveSettled(t) /\ ~Connecting(t)
  <2>1. ~Connecting(t)
    BY <1>1, <1>3, <1>5 DEF Connecting
  <2>2. Queued(t)
    <3>1. Queued(s)
      BY <1>1 DEF Live
    <3>2. t.connQ = s.connQ /\ t.sent = s.sent /\ t.issued = s.issued
      BY <1>5
    <3>3. QED  BY <3>1, <3>2 DEF Queued
  <2>3. Matched(t)
    BY <1>1, <1>3, <1>5 DEF Live, Matched
  <2>4. LiveSettled(t)
    BY <1>1, <1>3, <1>5, <1>7 DEF Live, LiveSettled
  <2>5. QED  BY <2>1, <2>2, <2>3, <2>4
<1>9. Live(t)
  BY <1>1, <1>3, <1>5, <1>7, <1>8 DEF Live
<1>10. Good(t)
  BY <1>3, <1>5, <1>6, <1>9 DEF Good, Dead
<1>11. QED  BY <1>3, <1>5, <1>8, <1>10, GoodTypes DEF Kept, Dead, t, f

LEMMA EndDead ==
  ASSUME NEW s, Inv(s), Dead(s), NEW data, NEW ok, NEW shutOk
  PROVE  End(s, data, ok, shutOk) = s
<1>1. "CONNECTING" \notin s.flags /\ "WRITABLE" \notin s.flags
  BY DEF Inv, Dead, Usable
<1>2. QED  BY <1>1 DEF End, Has

LEMMA OnReadEofGood ==
  ASSUME NEW s, Good(s), ~Dead(s), s.reading, NEW c \in OrderlyCall,
         NEW r \in OnReadEof(s, c)
  PROVE  Good(r) /\ Kept(s, r)
<1> DEFINE f == (s.flags \ {"READABLE"}) \cup {"GOT_EOF"}
           a == Assert(s, ~Has(s, "GOT_EOF"), "OnRead: !GOT_EOF")
           b == Set(Unset(a, {"READABLE"}), {"GOT_EOF"})
           t == [b EXCEPT !.reading = FALSE, !.eof = TRUE]
           u == IF Has(t, "WRITABLE") THEN t ELSE Destroy(t)
           v(shutOk) == IF Has(u, "ALLOW_HALF_OPEN") THEN u
                        ELSE End(u, NoData, TRUE, shutOk)
<1>1. a = s
  BY ReadingLive DEF Assert, Has
<1>2. t = [s EXCEPT !.flags = f, !.reading = FALSE, !.eof = TRUE]
  <2>1. s \in State
    BY GoodTypes
  <2>2. b = [s EXCEPT !.flags = f]
    BY <1>1, <2>1 DEF Set, Unset, State
  <2> HIDE DEF b, f
  <2>3. QED  BY <2>1, <2>2 DEF State
<1>3. Good(t) /\ ~Dead(t) /\ ~Connecting(t) /\ Kept(s, t)
  BY <1>2, EofGood
<1>4. \A shutOk : v(shutOk) = IF Has(u, "ALLOW_HALF_OPEN") THEN u
                              ELSE End(u, NoData, TRUE, shutOk)
  OBVIOUS
<1>5. PICK shutOk \in BOOLEAN : r = Emit(v(shutOk), "end", c)
  BY DEF OnReadEof
<1> DEFINE x == v(shutOk)
<1> HIDE DEF t
<1>6. Good(u) /\ Kept(t, u)
  BY <1>3, DestroyGood, KeptAll DEF Destroy
<1>7. Good(End(u, NoData, TRUE, shutOk)) /\ Kept(u, End(u, NoData, TRUE, shutOk))
  <2> HIDE DEF u
  <2>1. CASE Dead(u)
    BY <1>6, <2>1, EndDead, KeptAll DEF Good
  <2>2. CASE ~Dead(u)
    BY <1>6, <2>2, EndGood DEF Data
  <2>3. QED  BY <2>1, <2>2
<1> HIDE DEF u
<1>8. Good(x) /\ Kept(u, x)
  BY <1>6, <1>7, KeptAll
<1> HIDE DEF v
<1>9. Good(r) /\ Kept(x, r)
  BY <1>5, <1>8, EmitGood
<1>10. Kept(s, u) /\ Kept(u, x) /\ Kept(x, r)
  BY <1>3, <1>6, <1>8, <1>9, KeptAll
<1>11. QED  BY <1>6, <1>8, <1>9, <1>10, KeptAll

(* libuv answers a write or a shutdown of a socket that is not destroyed. *)
SameButAnswers(s, r) ==
  /\ r.flags = s.flags /\ r.reading = s.reading
  /\ r.handle = s.handle /\ r.connQ = s.connQ
  /\ r.listening = s.listening /\ r.selfRef = s.selfRef
  /\ r.ticks = s.ticks /\ r.draining = s.draining
  /\ r.lookups = s.lookups /\ r.connects = s.connects
  /\ r.eof = s.eof /\ r.opened = s.opened /\ r.issued = s.issued
  /\ r.sent = s.sent /\ r.destroys = s.destroys /\ r.heard = s.heard
  /\ r.broken = s.broken /\ r.crossed = s.crossed
  /\ r.writes \subseteq s.writes /\ r.shutdowns \subseteq s.shutdowns

LEMMA AnsweredGood ==
  ASSUME NEW s, Good(s), ~Dead(s), NEW r, Inv(r), SameButAnswers(s, r),
         r.pending = Cardinality(r.writes)
  PROVE  Good(r) /\ ~Dead(r) /\ Kept(s, r) /\ r.opened = s.opened
<1>1. Live(s)
  BY DEF Good
<1>2. Unannounced(r) /\ Errors(r) = Errors(s)
  BY <1>1
  DEF Live, Unannounced, SameButAnswers, Errors, ErrorQueued
<1>3. Queued(r)
  BY <1>1 DEF Live, Queued, SameButAnswers
<1>4. Matched(r)
  <2>1. IsFiniteSet(s.writes)
    BY <1>1 DEF Live, Matched
  <2>2. IsFiniteSet(r.writes)
    BY <2>1, FS_Subset DEF SameButAnswers
  <2>3. \A w \in s.writes : w.h = s.handle /\ w.id <= s.issued
    BY <1>1 DEF Live, Matched
  <2>4. s.shutdowns \subseteq {s.handle}
    BY <1>1 DEF Live, Matched
  <2>5. QED  BY <2>2, <2>3, <2>4 DEF Matched, SameButAnswers
<1>5. Connecting(r) <=> Connecting(s)
  BY DEF Connecting, SameButAnswers
<1>6. LiveConnecting(s) => LiveConnecting(r)
  BY <1>2 DEF LiveConnecting, SameButAnswers
<1>7. LiveSettled(s) => LiveSettled(r)
  BY <1>2 DEF LiveSettled, SameButAnswers
<1>8. Live(r)
  BY <1>1, <1>2, <1>3, <1>4, <1>5, <1>6, <1>7 DEF Live, SameButAnswers
<1>9. Good(r) /\ ~Dead(r)
  BY <1>8 DEF Good, SameButAnswers, Dead
<1>10. QED  BY <1>9, GoodTypes DEF Kept, SameButAnswers

LEMMA AfterShutdownGood ==
  ASSUME NEW s, Good(s), NEW h \in s.shutdowns
  PROVE  LET r == AfterShutdown(s, h) IN
         Good(r) /\ Kept(s, r) /\ (Dead(s) => SameEnough(s, r))
<1> DEFINE r == AfterShutdown(s, h)
<1>1. Inv(r) /\ Inv(s) /\ "SHUTDOWN" \in s.flags /\ s \in State
  BY AfterShutdownInv, GoodTypes DEF Good
<1>2. CASE Dead(s)
  <2>1. SameEnough(s, r)
    BY <1>1, <1>2, AfterShutdownDead DEF SameEnough
  <2> HIDE DEF r
  <2>2. QED  BY <1>1, <1>2, <2>1, AnswerDeadGood DEF r
<1>3. CASE ~Dead(s)
  <2> DEFINE q == [s EXCEPT !.shutdowns = s.shutdowns \ {h}]
             a == Assert(q, Has(s, "SHUTDOWN"), "AfterShutdown: SHUTDOWN")
             t == Assert(a, ~Has(s, "WRITABLE"), "AfterShutdown: !WRITABLE")
  <2>1. "WRITABLE" \notin s.flags
    BY <1>3 DEF Good, Live
  <2>2. t = q
    BY <1>1, <2>1 DEF Assert, Has
  <2>3. r \in {t, Destroy(t)}
    BY DEF AfterShutdown
  <2>4. SameButAnswers(s, q) /\ q.pending = s.pending /\ q.writes = s.writes
    BY <1>1 DEF SameButAnswers, State
  <2>5. q \in State
    BY <1>1 DEF State
  <2> HIDE DEF q, t, r
  <2>6. Inv(q)
    BY <1>1, <2>4, <2>5 DEF Inv, Usable, SameButAnswers
  <2>7. s.pending = Cardinality(s.writes)
    BY <1>3 DEF Good, Live, Matched
  <2>8. Good(q) /\ ~Dead(q) /\ Kept(s, q)
    BY <1>3, <2>4, <2>6, <2>7, AnsweredGood
  <2>9. Good(Destroy(q)) /\ Kept(q, Destroy(q))
    BY <2>8, DestroyGood DEF Destroy
  <2>10. Good(r) /\ Kept(s, r)
    BY <2>2, <2>3, <2>8, <2>9, KeptAll
  <2>11. QED  BY <1>3, <2>10 DEF r
<1>4. QED  BY <1>2, <1>3

LEMMA AfterWriteGood ==
  ASSUME NEW s, Good(s), NEW w \in s.writes, NEW ok \in BOOLEAN,
         NEW c \in OrderlyCall
  PROVE  LET r == AfterWrite(s, w, ok, c) IN
         Good(r) /\ Kept(s, r) /\ (Dead(s) => SameEnough(s, r))
<1> DEFINE r == AfterWrite(s, w, ok, c)
           t == [s EXCEPT !.writes = s.writes \ {w}]
           n == Decrement(s.pending)
           u == [s EXCEPT !.writes = s.writes \ {w}, !.pending = n]
           d == IF n = 0 THEN Listener(u, c) ELSE u
<1>1. /\ Inv(r) /\ Inv(s) /\ s \in State /\ s.pending \in Nat
      /\ s.heard["error"] \in Nat
  BY AfterWriteInv, GoodTypes DEF Good, OrderlyCall
<1>2. CASE Dead(s)
  <2>1. r = t
    BY <1>1, <1>2, AnswerDead
  <2>2. SameEnough(s, t)
    BY <1>1 DEF SameEnough, State
  <2> HIDE DEF r, t
  <2>3. QED  BY <1>1, <1>2, <2>1, <2>2, AnswerDeadGood DEF r
<1>3. CASE ~Dead(s)
  <2>1. /\ Live(s) /\ IsFiniteSet(s.writes) /\ s.pending = Cardinality(s.writes)
        /\ ~Connecting(s) /\ Errors(s) = 0
    BY <1>3 DEF Good, Live, Matched, LiveConnecting, LiveSettled
  <2>2. /\ Cardinality(s.writes \ {w}) = s.pending - 1 /\ s.pending # 0
    <3>1. s.writes # {}
      OBVIOUS
    <3>2. Cardinality(s.writes) # 0
      BY <2>1, <3>1, FS_EmptySet
    <3>3. Cardinality(s.writes \ {w}) = Cardinality(s.writes) - 1
      BY <2>1, FS_RemoveElement, Zenon
    <3>4. QED  BY <2>1, <3>2, <3>3
  <2>3. n = s.pending - 1 /\ n \in Nat
    BY <1>1, <2>2 DEF Decrement
  <2>4. /\ t.flags = s.flags /\ u.pending = n /\ u.flags = s.flags
        /\ u.writes = s.writes \ {w}
        /\ u = [t EXCEPT !.pending = Decrement(@)]
    BY <1>1 DEF State
  <2>5. r = IF ~ok THEN DestroyWith(t, TRUE)
            ELSE IF d.pending = 0 /\ Has(d, "DESTROY_SOON") THEN Destroy(d)
            ELSE d
    <3>1. /\ ~Has(t, "DESTROYED")
          /\ u = [[s EXCEPT !.writes = @ \ {w}] EXCEPT !.pending = Decrement(@)]
          /\ t = [s EXCEPT !.writes = @ \ {w}]
      BY <1>3, <2>4 DEF Has, Dead
    <3>2. d = IF u.pending = 0 THEN Listener(u, c) ELSE u
      BY <2>4
    <3> HIDE DEF d, u, t
    <3>3. QED  BY <3>1, <3>2 DEF AfterWrite
  <2>6. SameButAnswers(s, u) /\ SameButAnswers(s, t)
    BY <1>1 DEF SameButAnswers, State
  <2>7. u \in State /\ t \in State
    BY <1>1, <2>3 DEF State
  <2> HIDE DEF u, t, n
  <2>8. Inv(u) /\ Inv(t)
    BY <1>1, <2>6, <2>7 DEF Inv, Usable, SameButAnswers
  <2>9. Good(u) /\ ~Dead(u) /\ Kept(s, u)
    <3>1. u.pending = Cardinality(u.writes)
      BY <2>2, <2>3, <2>4
    <3>2. QED  BY <1>3, <2>6, <2>8, <3>1, AnsweredGood
  <2>10. Good(d) /\ Kept(s, d)
    <3> HIDE DEF d
    <3>1. d \in {u, Listener(u, c)}
      BY DEF d
    <3>2. QED  BY <2>9, <3>1, ListenerGood, KeptAll
  <2> HIDE DEF d
  <2>11. Good(Destroy(d)) /\ Kept(s, Destroy(d))
    <3>1. Good(Destroy(d)) /\ Kept(d, Destroy(d))
      BY <2>10, DestroyGood DEF Destroy
    <3>2. QED  BY <2>10, <3>1, KeptAll
  <2>12. Good(DestroyWith(t, TRUE)) /\ Kept(s, DestroyWith(t, TRUE))
    <3>1. /\ ~Dead(t) /\ t.broken = {} /\ Increasing(t.sent)
          /\ t.shutdowns # {} => "SHUTDOWN" \in t.flags
      BY <1>3, <2>6 DEF Good, SameButAnswers, Dead
    <3>2. Unannounced(t) /\ Errors(t) = 0
      BY <2>1, <2>6
      DEF Live, Unannounced, SameButAnswers, Errors, ErrorQueued
    <3>3. /\ Good(DestroyWith(t, TRUE)) /\ Kept(t, DestroyWith(t, TRUE))
      BY <2>8, <3>1, <3>2, DestroyLive
    <3>4. QED  BY <1>1, <2>6, <3>3, GoodTypes DEF Kept, SameButAnswers
  <2>13. Good(r) /\ Kept(s, r)
    BY <2>5, <2>10, <2>11, <2>12
  <2>14. QED  BY <1>3, <2>13 DEF r
<1>4. QED  BY <1>2, <1>3

(* n writes on one handle are n requests. *)
LEMMA Issued ==
  ASSUME NEW x, NEW n \in Nat
  PROVE  /\ IsFiniteSet({[h |-> x, id |-> i] : i \in 1..n})
         /\ Cardinality({[h |-> x, id |-> i] : i \in 1..n}) = n
<1> DEFINE W == {[h |-> x, id |-> i] : i \in 1..n}
           f == [i \in 1..n |-> [h |-> x, id |-> i]]
<1>1. f \in Bijection(1..n, W)
  <2>1. f \in [1..n -> W] /\ \A i \in 1..n : f[i].id = i
    OBVIOUS
  <2>2. \A w \in W : \E i \in 1..n : f[i] = w
    OBVIOUS
  <2> HIDE DEF f, W
  <2>3. \A i, j \in 1..n : f[i] = f[j] => i = j
    BY <2>1
  <2>4. QED
    BY <2>1, <2>2, <2>3 DEF Bijection, Injection, Surjection, IsInjective
<1> HIDE DEF f
<1>2. ExistsBijection(1..n, W)
  BY <1>1 DEF ExistsBijection
<1> HIDE DEF W
<1>3. IsFiniteSet(1..n) /\ Cardinality(1..n) = n
  BY FS_Interval
<1>4. QED  BY <1>2, <1>3, FS_Bijection DEF W

SameButQueue(s, r) ==
  /\ r.reading = s.reading /\ r.handle = s.handle
  /\ r.pending = s.pending /\ r.writes = s.writes /\ r.sent = s.sent
  /\ r.listening = s.listening /\ r.selfRef = s.selfRef
  /\ r.ticks = s.ticks /\ r.draining = s.draining
  /\ r.lookups = s.lookups /\ r.connects = s.connects
  /\ r.shutdowns = s.shutdowns
  /\ r.eof = s.eof /\ r.opened = s.opened /\ r.issued = s.issued
  /\ r.destroys = s.destroys /\ r.heard = s.heard
  /\ r.broken = s.broken /\ r.crossed = s.crossed

(* AfterConnect hands the queued writes to libuv, or the socket dies. *)
LEMMA FlushGood ==
  ASSUME NEW s, Inv(s), ~Dead(s), ~Connecting(s), s.broken = {},
         Unannounced(s), Errors(s) = 0, Queued(s), s.sent = <<>>,
         s.pending = 0, s.writes = {}, s.shutdowns = {}, s.connects = {},
         s.lookups = {}, "GOT_EOF" \notin s.flags, s.handle # NoHandle,
         s.opened # 0, NEW bad \in Nat
  PROVE  LET r == ConnectQueueCleanUp(Flush(s, bad)) IN
         Good(r) /\ Kept(s, r)
<1> DEFINE k == Len(s.connQ)
           n == IF bad \in DOMAIN s.connQ THEN bad - 1 ELSE k
           W == {[h |-> s.handle, id |-> s.connQ[i].id] : i \in 1..n}
           V == {[h |-> s.handle, id |-> i] : i \in 1..n}
           q == [i \in 1..n |-> s.connQ[i].id]
           e == <<>>
           t == [s EXCEPT !.pending = n, !.writes = V, !.sent = q]
           d == DestroyWith(t, TRUE)
           r == ConnectQueueCleanUp(Flush(s, bad))
<1>1. /\ s \in State /\ s.connQ \in Seq([id: Nat, size: Sizes]) /\ k \in Nat
      /\ s.handle \in Handles /\ s.opened \in Nat /\ s.issued \in Nat
      /\ s.connQ # <<>> \/ s.connQ = <<>>
  BY DEF Inv, State
<1>2. n \in Nat /\ n <= k /\ n \in 0..k
  BY <1>1
<1>3. \A i \in 1..n : s.connQ[i].id = i
  BY <1>1, <1>2 DEF Queued
<1>4. k = s.issued
  <2>1. Len(s.sent) = 0
    OBVIOUS
  <2>2. k + Len(s.sent) = s.issued
    BY DEF Queued
  <2>3. QED  BY <1>1, <2>1, <2>2
<1>5. W = V
  BY <1>3
<1>6. q \in Seq(Nat) /\ Len(q) = n /\ \A i \in 1..n : q[i] = i
      /\ DOMAIN q = 1..n
  BY <1>2, <1>3
<1>7. V \in SUBSET [h: Handles, id: Nat]
      /\ \A w \in V : w.h = s.handle /\ w.id \in 1..n
  BY <1>1, <1>2
<1>8. IsFiniteSet(V) /\ Cardinality(V) = n
  <2>1. n \in Nat
    BY <1>2
  <2> HIDE DEF n
  <2>2. QED  BY <2>1, Issued, ZenonT(40)
<1>9. t = [s EXCEPT !.pending = @ + n,
                    !.writes = @ \cup {[h |-> s.handle, id |-> s.connQ[i].id] :
                                         i \in 1..n},
                    !.sent = @ \o [i \in 1..n |-> s.connQ[i].id]]
  <2>1. s.pending + n = n /\ s.writes \cup W = V /\ s.sent \o q = q
    BY <1>2, <1>5, <1>6
  <2>2. t = [s EXCEPT !.pending = s.pending + n, !.writes = s.writes \cup W,
                      !.sent = s.sent \o q]
    BY <2>1
  <2>3. QED  BY <2>2
<1>10. Flush(s, bad) = IF n < k THEN d ELSE t
  BY <1>9 DEF Flush
<1> HIDE DEF n, V, q, k
<1>11. t \in State
  BY <1>1, <1>2, <1>6, <1>7, ZenonT(40) DEF State
<1>12. /\ t.pending = n /\ t.writes = V /\ t.sent = q
       /\ t.flags = s.flags /\ t.handle = s.handle /\ t.connQ = s.connQ
       /\ t.listening = s.listening /\ t.selfRef = s.selfRef
       /\ t.ticks = s.ticks /\ t.draining = s.draining
       /\ t.lookups = s.lookups /\ t.connects = s.connects
       /\ t.shutdowns = s.shutdowns /\ t.reading = s.reading
       /\ t.eof = s.eof /\ t.opened = s.opened /\ t.issued = s.issued
       /\ t.destroys = s.destroys /\ t.heard = s.heard
       /\ t.broken = s.broken /\ t.crossed = s.crossed
  BY <1>1 DEF State
<1> HIDE DEF t
<1>13. Inv(t) /\ ~Dead(t) /\ ~Connecting(t)
  BY <1>11, <1>12 DEF Inv, Usable, Dead, Connecting
<1>14. Increasing(t.sent)
  BY <1>2, <1>6, <1>12 DEF Increasing
<1>15. Errors(t) = 0 /\ Unannounced(t)
  BY <1>12 DEF Errors, ErrorQueued, Unannounced
<1>16. CASE n < k
  <2>1. Good(d) /\ Dead(d) /\ Kept(t, d) /\ d.connQ = <<>>
    <3>1. Good(d) /\ Dead(d) /\ Kept(t, d)
      BY <1>12, <1>13, <1>14, <1>15, DestroyLive
    <3>2. QED  BY <1>11, <1>13, <3>1, DestroyWithIs
  <2> HIDE DEF d
  <2>2. Inert(d, ConnectQueueCleanUp(d)) /\ Inv(ConnectQueueCleanUp(d))
    <3> DEFINE f == d.flags \ {"CONNECTING"}
               y == [d EXCEPT !.flags = f, !.connQ = e]
    <3>1. d \in State /\ Inv(d)
      BY <2>1, GoodTypes DEF Good
    <3>2. y = ConnectQueueCleanUp(d)
      BY <3>1 DEF ConnectQueueCleanUp, Unset, State
    <3>3. "DESTROYED" \in f /\ ("SHUTDOWN" \in d.flags => "SHUTDOWN" \in f)
      BY <2>1 DEF Dead
    <3> HIDE DEF f, e
    <3>4. Inert(d, y)
      BY <3>1, <3>3 DEF State, Inert, Dead
    <3>5. QED  BY <3>1, <3>2, <3>4, ConnectQueueCleanUpInv
  <2>3. Good(ConnectQueueCleanUp(d)) /\ Kept(d, ConnectQueueCleanUp(d))
    BY <2>1, <2>2, InertGood
  <2>4. r = ConnectQueueCleanUp(d)
    BY <1>10, <1>16
  <2> HIDE DEF r
  <2>5. QED
    BY <1>1, <1>12, <2>1, <2>3, <2>4, GoodTypes DEF Kept, r
<1>17. CASE ~(n < k)
  <2>1. n = k
    BY <1>1, <1>2, <1>17 DEF k
  <2> DEFINE f == t.flags \ {"CONNECTING"}
             y == [t EXCEPT !.flags = f, !.connQ = e]
  <2>2. y = ConnectQueueCleanUp(t)
    BY <1>11 DEF ConnectQueueCleanUp, Unset, State
  <2>3. Inv(y)
    BY <1>13, <2>2, ConnectQueueCleanUpInv
  <2>4. f = s.flags
    BY <1>12, <1>13 DEF Connecting
  <2> HIDE DEF f, e
  <2>5. SameButQueue(t, y) /\ y.flags = t.flags /\ y.connQ = e
    BY <1>11, <1>12, <2>4 DEF State, SameButQueue
  <2> HIDE DEF y
  <2>6. Errors(y) = 0 /\ Unannounced(y)
    BY <1>15, <2>5 DEF SameButQueue, Errors, ErrorQueued, Unannounced
  <2>7. DOMAIN y.connQ = {} /\ Len(y.connQ) = 0
    BY <2>5 DEF e
  <2>8. Queued(y)
    <3>1. Len(y.sent) = y.issued /\ y.issued \in Nat /\ y.sent = q
      BY <1>1, <1>4, <1>6, <1>12, <2>1, <2>5 DEF SameButQueue
    <3>2. QED  BY <1>2, <1>6, <2>7, <3>1 DEF Queued
  <2>9. Matched(y)
    BY <1>1, <1>2, <1>4, <1>7, <1>8, <1>12, <2>1, <2>5
    DEF SameButQueue, Matched
  <2>10. LiveSettled(y) /\ ~Connecting(y) /\ ~Dead(y)
    BY <1>12, <1>13, <2>5, <2>6, <2>7
    DEF SameButQueue, LiveSettled, Connecting, Dead
  <2>11. Live(y)
    BY <1>12, <2>5, <2>6, <2>8, <2>9, <2>10 DEF Live, SameButQueue
  <2>12. Good(y)
    BY <1>12, <1>14, <2>3, <2>5, <2>10, <2>11 DEF Good, SameButQueue
  <2>13. r = y
    BY <1>10, <1>17, <2>2
  <2> HIDE DEF r
  <2>14. QED
    BY <1>1, <1>12, <2>5, <2>12, <2>13 DEF Kept, SameButQueue, r
<1>18. QED  BY <1>16, <1>17

(* A socket waiting for its connection, whose connect request is answered. *)
LEMMA Answering ==
  ASSUME NEW s, Good(s), ~Dead(s), NEW h \in s.connects
  PROVE  /\ Live(s) /\ Connecting(s) /\ LiveConnecting(s)
         /\ h = s.handle /\ s.handle # NoHandle /\ s.opened # 0
         /\ s.lookups = {} /\ s.connects \ {h} = {} /\ Errors(s) = 0
         /\ s.pending = 0
<1>1. Live(s) /\ Connecting(s) /\ LiveConnecting(s)
  BY DEF Good, Live, LiveSettled
<1>2. s.handle # NoHandle
  BY <1>1 DEF Good, Inv, Usable, Connecting
<1>3. s.opened # 0
  BY <1>2 DEF Good
<1>4. h = s.handle /\ s.lookups = {} /\ s.connects \ {h} = {}
  BY <1>1 DEF LiveConnecting
<1>5. Errors(s) = 0
  <2>1. Errors(s) # 1
    BY <1>1 DEF LiveConnecting
  <2>2. Errors(s) <= 1 /\ Errors(s) \in Nat
    BY <1>1, GoodTypes DEF Live, Unannounced, Errors
  <2>3. QED  BY <2>1, <2>2
<1>6. s.pending = 0
  BY <1>1, FS_EmptySet DEF LiveConnecting, Live, Matched
<1>7. QED  BY <1>1, <1>2, <1>3, <1>4, <1>5, <1>6

LEMMA EndQueuedGood ==
  ASSUME NEW s, Good(s), NEW shutOk \in BOOLEAN
  PROVE  Good(EndQueued(s, shutOk)) /\ Kept(s, EndQueued(s, shutOk))
<1> DEFINE t == Unset(s, {"SHUTDOWN_QUEUED"})
           r == End(t, NoData, TRUE, shutOk)
<1>1. CASE Dead(s)
  <2>1. s \in State /\ Inv(s)
    BY GoodTypes DEF Good
  <2>2. Inv(t) /\ SameButFlags(s, t) /\ t.flags = s.flags \ {"SHUTDOWN_QUEUED"}
    BY <2>1, SetIs, UnsetInv
  <2> HIDE DEF t
  <2>3. Inert(s, t) /\ Dead(t)
    BY <1>1, <2>2 DEF Inert, SameButFlags, Dead
  <2>4. Good(t) /\ Kept(s, t)
    BY <1>1, <2>2, <2>3, InertGood
  <2>5. r = t
    BY <2>2, <2>3, EndDead
  <2>6. EndQueued(s, shutOk) \in {s, r}
    BY DEF EndQueued, t
  <2> HIDE DEF r
  <2>7. QED  BY <2>4, <2>5, <2>6, KeptAll
<1>2. CASE ~Dead(s)
  <2>1. FlagsLive(s, s.flags \ {"SHUTDOWN_QUEUED"})
    BY <1>2 DEF FlagsLive, Dead, Connecting
  <2>2. Good(t) /\ ~Dead(t) /\ Kept(s, t)
    BY <1>2, <2>1, UnsetGood
  <2> HIDE DEF t
  <2>3. Good(r) /\ Kept(t, r)
    BY <2>2, EndGood DEF Data
  <2>4. EndQueued(s, shutOk) \in {s, r}
    BY DEF EndQueued, t
  <2> HIDE DEF r
  <2>5. QED  BY <2>2, <2>3, <2>4, KeptAll
<1>3. QED  BY <1>1, <1>2

(* The state in which AfterConnect hands out the queue. *)
LEMMA ConnectedIs ==
  ASSUME NEW s, Good(s), ~Dead(s), NEW h \in s.connects
  PROVE  LET f == (s.flags \ {"CONNECTING"}) \cup {"READABLE", "WRITABLE"}
             x == "PAUSED" \notin s.flags
             b == [s EXCEPT !.flags = f, !.connects = {}, !.reading = x]
         IN  /\ Inv(b) /\ ~Dead(b) /\ ~Connecting(b) /\ b.broken = {}
             /\ Unannounced(b) /\ Errors(b) = 0 /\ Queued(b) /\ b.sent = <<>>
             /\ b.pending = 0 /\ b.writes = {} /\ b.shutdowns = {}
             /\ b.connects = {} /\ b.lookups = {}
             /\ "GOT_EOF" \notin b.flags /\ b.handle # NoHandle
             /\ b.opened # 0 /\ b.connQ = s.connQ /\ Kept(s, b)
             /\ (\A i \in DOMAIN s.connQ : s.connQ[i].size = 0) => Good(b)
<1> DEFINE f == (s.flags \ {"CONNECTING"}) \cup {"READABLE", "WRITABLE"}
           x == "PAUSED" \notin s.flags
           e == {}
           b == [s EXCEPT !.flags = f, !.connects = e, !.reading = x]
<1>1. /\ Live(s) /\ Connecting(s) /\ LiveConnecting(s) /\ s.handle # NoHandle
      /\ s.opened # 0 /\ s.lookups = {} /\ Errors(s) = 0 /\ s.pending = 0
  BY Answering
<1>2. s \in State /\ Inv(s)
  BY GoodTypes DEF Good
<1>3. f \in SUBSET Flag /\ x \in BOOLEAN /\ e \in SUBSET Handles
  BY <1>2 DEF State, Flag
<1>4. /\ "DESTROYED" \notin f /\ "CONNECTING" \notin f /\ "GOT_EOF" \notin f
  BY <1>1 DEF Dead, LiveConnecting
<1> HIDE DEF f, x
<1>5. b \in State
  BY <1>2, <1>3 DEF State
<1>6. /\ b.flags = f /\ b.connects = {} /\ b.handle = s.handle
      /\ b.pending = s.pending
      /\ b.connQ = s.connQ /\ b.listening = s.listening
      /\ b.selfRef = s.selfRef /\ b.ticks = s.ticks
      /\ b.draining = s.draining /\ b.lookups = s.lookups
      /\ b.writes = s.writes
      /\ b.shutdowns = s.shutdowns
      /\ b.eof = s.eof /\ b.opened = s.opened /\ b.issued = s.issued
      /\ b.sent = s.sent /\ b.destroys = s.destroys /\ b.heard = s.heard
      /\ b.broken = s.broken /\ b.crossed = s.crossed
  BY <1>2 DEF State
<1> HIDE DEF b
<1>7. Inv(b)
  BY <1>1, <1>2, <1>4, <1>5, <1>6 DEF Inv
<1>8. ~Dead(b) /\ ~Connecting(b) /\ "GOT_EOF" \notin b.flags
  BY <1>4, <1>6 DEF Dead, Connecting
<1>9. Unannounced(b) /\ Errors(b) = 0
  BY <1>1, <1>6 DEF Live, Unannounced, Errors, ErrorQueued
<1>10. Queued(b) /\ Matched(b)
  <2>1. Queued(b)
    BY <1>1, <1>6 DEF Live, Queued
  <2>2. Matched(b)
    BY <1>1, <1>6 DEF Live, Matched
  <2>3. QED  BY <2>1, <2>2
<1>11. /\ b.sent = <<>> /\ b.writes = {} /\ b.shutdowns = {}
       /\ b.broken = {} /\ Increasing(b.sent)
  BY <1>1, <1>6 DEF LiveConnecting, Good
<1>12. Kept(s, b)
  BY <1>6, GoodTypes DEF Kept
<1>13. ASSUME \A i \in DOMAIN s.connQ : s.connQ[i].size = 0
       PROVE  Good(b)
  <2>1. LiveSettled(b)
    BY <1>1, <1>6, <1>9, <1>13 DEF LiveSettled
  <2>2. Live(b)
    BY <1>1, <1>6, <1>8, <1>9, <1>10, <1>11, <2>1 DEF Live
  <2>3. QED  BY <1>1, <1>6, <1>7, <1>8, <1>11, <2>2 DEF Good
<1>14. QED
  BY <1>1, <1>6, <1>7, <1>8, <1>9, <1>10, <1>11, <1>12, <1>13 DEF b, f, x

LEMMA AfterConnectGood ==
  ASSUME NEW s, Good(s), NEW h \in s.connects, NEW ok \in BOOLEAN,
         NEW bad \in Nat, NEW c \in OrderlyCall, NEW shutOk \in BOOLEAN,
         ok => h = s.handle
  PROVE  LET r == AfterConnect(s, h, ok, bad, c, shutOk) IN
         Good(r) /\ Kept(s, r) /\ (Dead(s) => SameEnough(s, r))
<1> DEFINE r == AfterConnect(s, h, ok, bad, c, shutOk)
<1>1. Inv(s) /\ s \in State /\ h # NoHandle
  <2>1. Inv(s) /\ s \in State
    BY GoodTypes DEF Good
  <2>2. h \in Handles
    BY <2>1 DEF State
  <2>3. QED  BY <2>1, <2>2 DEF Handles, NoHandle
<1>2. Inv(r)
  BY <1>1, AfterConnectInv DEF OrderlyCall
<1>3. CASE Dead(s)
  <2> DEFINE y == [s EXCEPT !.connects = s.connects \ {h}]
  <2>1. r = y
    BY <1>1, <1>3, AnswerDead
  <2>2. SameEnough(s, y)
    BY <1>1 DEF SameEnough, State
  <2> HIDE DEF r, y
  <2>3. QED  BY <1>2, <1>3, <2>1, <2>2, AnswerDeadGood DEF r
<1>4. CASE ~Dead(s)
  <2> DEFINE t == [s EXCEPT !.connects = s.connects \ {h}]
             a == Unset(Assert(t, Has(t, "CONNECTING"),
                               "AfterConnect: CONNECTING"), {"CONNECTING"})
             b == [Set(a, {"READABLE", "WRITABLE"})
                     EXCEPT !.reading = @ \/ ~Has(a, "PAUSED")]
             g == s.flags \ {"CONNECTING"}
             f == g \cup {"READABLE", "WRITABLE"}
             x == "PAUSED" \notin s.flags
             e == {}
             m == FlushAndEmit(b, bad, c)
             d == DestroyWith(ConnectQueueCleanUp(a), TRUE)
  <2>1. /\ Live(s) /\ Connecting(s) /\ LiveConnecting(s)
        /\ s.connects \ {h} = e /\ Errors(s) = 0 /\ s.handle # NoHandle
        /\ ~s.reading
    BY <1>4, Answering DEF LiveConnecting
  <2>2. t = [s EXCEPT !.connects = e]
    BY <2>1
  <2> HIDE DEF e, t
  <2>3. /\ t \in State /\ t.flags = s.flags
        /\ Assert(t, Has(t, "CONNECTING"), "AfterConnect: CONNECTING") = t
    <3>1. e \in SUBSET Handles
      BY DEF e
    <3>2. t \in State /\ t.flags = s.flags
      BY <1>1, <2>2, <3>1 DEF State
    <3>3. QED  BY <2>1, <3>2 DEF Assert, Has, Connecting
  <2>4. a = [s EXCEPT !.connects = e, !.flags = g]
    <3>1. a = [t EXCEPT !.flags = g]
      BY <2>3 DEF Unset
    <3> HIDE DEF a, g
    <3>2. QED  BY <1>1, <2>2, <3>1 DEF State
  <2> HIDE DEF a
  <2>5. b = [s EXCEPT !.flags = f, !.connects = e, !.reading = x]
    <3>1. a.flags = g /\ a.reading = FALSE /\ a \in State
      <4>1. e \in SUBSET Handles /\ g \in SUBSET Flag
        BY <1>1 DEF e, State
      <4> HIDE DEF g
      <4>2. QED  BY <1>1, <2>1, <2>4, <4>1, ZenonT(40) DEF State
    <3>2. Set(a, {"READABLE", "WRITABLE"}) = [a EXCEPT !.flags = f]
      BY <3>1 DEF Set
    <3>3. (a.reading \/ ~Has(a, "PAUSED")) = x
      BY <3>1 DEF Has
    <3>4. b = [a EXCEPT !.flags = f, !.reading = x]
      <4>1. Set(a, {"READABLE", "WRITABLE"}).reading = a.reading
        BY <3>1, SetIs
      <4> HIDE DEF f, x
      <4>2. QED  BY <3>1, <3>2, <3>3, <4>1 DEF State
    <3> HIDE DEF b, f, x, g
    <3>5. QED  BY <1>1, <2>4, <3>4 DEF State
  <2>6. r = IF ~ok THEN d ELSE EndQueued(m, shutOk)
    BY <1>4, <2>3 DEF AfterConnect, Has, Dead, a, t
  <2> HIDE DEF b, r
  <2>7. /\ Inv(b) /\ ~Dead(b) /\ ~Connecting(b) /\ b.broken = {}
        /\ Unannounced(b) /\ Errors(b) = 0 /\ Queued(b) /\ b.sent = <<>>
        /\ b.pending = 0 /\ b.writes = {} /\ b.shutdowns = {}
        /\ b.connects = {} /\ b.lookups = {}
        /\ "GOT_EOF" \notin b.flags /\ b.handle # NoHandle
        /\ b.opened # 0 /\ b.connQ = s.connQ /\ Kept(s, b)
        /\ (\A i \in DOMAIN s.connQ : s.connQ[i].size = 0) => Good(b)
    BY <1>4, <2>5, ConnectedIs DEF e
  <2>8. Good(m) /\ Kept(s, m)
    <3> DEFINE u == IF QueueSized(b) THEN ConnectQueueCleanUp(Flush(b, bad))
                    ELSE b
    <3>1. m = Emit(u, "connect", c)
      BY DEF FlushAndEmit
    <3>2. Good(u) /\ Kept(b, u)
      <4>1. CASE QueueSized(b)
        BY <2>7, <4>1, FlushGood
      <4>2. CASE ~QueueSized(b)
        <5>1. Good(b)
          BY <2>7, <4>2 DEF QueueSized
        <5>2. QED  BY <4>2, <5>1, KeptAll
      <4>3. QED  BY <4>1, <4>2
    <3> HIDE DEF u, m
    <3>3. Good(m) /\ Kept(u, m)
      BY <3>1, <3>2, EmitGood
    <3>4. s.opened \in Nat /\ b.opened \in Nat /\ u.opened \in Nat
          /\ m.opened \in Nat
      BY <1>1, <2>7, <3>2, <3>3, GoodTypes DEF Inv, State
    <3>5. QED  BY <2>7, <3>2, <3>3, <3>4 DEF Kept
  <2> HIDE DEF m
  <2>9. Good(EndQueued(m, shutOk)) /\ Kept(s, EndQueued(m, shutOk))
    BY <2>8, EndQueuedGood, KeptAll
  <2>10. Good(d) /\ Kept(s, d)
    <3> DEFINE q == ConnectQueueCleanUp(a)
               n == <<>>
    <3>1. q = [s EXCEPT !.connects = e, !.flags = g, !.connQ = n]
      <4>1. a.flags \ {"CONNECTING"} = g
        BY <1>1, <2>4 DEF State
      <4>2. q = [a EXCEPT !.flags = g, !.connQ = n]
        <5>1. q = [a EXCEPT !.flags = a.flags \ {"CONNECTING"}, !.connQ = n]
          BY <1>1, <2>4 DEF ConnectQueueCleanUp, Unset, State
        <5>2. QED  BY <4>1, <5>1
      <4> HIDE DEF q, g, n
      <4>3. QED  BY <1>1, <2>4, <4>2 DEF State
    <3>2. /\ g \in SUBSET Flag /\ e \in SUBSET Handles
          /\ n \in Seq([id: Nat, size: Sizes]) /\ "DESTROYED" \notin g
          /\ "SHUTDOWN" \in s.flags => "SHUTDOWN" \in g
      BY <1>1, <1>4 DEF State, e, Dead
    <3> HIDE DEF g, n, q
    <3>3. /\ q \in State
          /\ q.flags = g /\ q.handle = s.handle /\ q.draining = s.draining
          /\ q.ticks = s.ticks /\ q.listening = s.listening
          /\ q.destroys = s.destroys /\ q.heard = s.heard
          /\ q.broken = s.broken /\ q.sent = s.sent
          /\ q.shutdowns = s.shutdowns /\ q.opened = s.opened
          /\ q.crossed = s.crossed /\ q.selfRef = s.selfRef
      BY <1>1, <3>1, <3>2 DEF State
    <3>4. Inv(q) /\ ~Dead(q)
      BY <1>1, <2>1, <3>2, <3>3 DEF Inv, Dead
    <3>5. Errors(q) = 0 /\ Unannounced(q)
      BY <2>1, <3>3 DEF Live, Errors, ErrorQueued, Unannounced
    <3>6. /\ q.broken = {} /\ Increasing(q.sent)
          /\ q.shutdowns # {} => "SHUTDOWN" \in q.flags
      BY <3>2, <3>3 DEF Good
    <3>7. Good(d) /\ Kept(q, d)
      BY <3>4, <3>5, <3>6, DestroyLive DEF q
    <3> HIDE DEF d
    <3>8. QED  BY <3>3, <3>7, GoodTypes DEF Kept
  <2> HIDE DEF d
  <2>11. Good(r) /\ Kept(s, r)
    BY <2>6, <2>9, <2>10
  <2>12. QED  BY <1>4, <2>11 DEF r
<1>5. QED  BY <1>3, <1>4

LEMMA NoTickYet ==
  ASSUME NEW s, Good(s), ~Dead(s), Errors(s) = 0
  PROVE  s.ticks = <<>>
<1>1. s.ticks = <<"EmitErrorAndDestroy">> => Errors(s) = s.heard["error"] + 1
  BY ErrorForms DEF Errors
<1>2. s.ticks # <<"EmitErrorAndDestroy">>
  BY <1>1, GoodTypes
<1>3. QED  BY <1>2 DEF Good, Live, Unannounced

LEMMA AfterLookupGood ==
  ASSUME NEW s, Good(s), NEW h \in s.lookups, NEW err \in BOOLEAN,
         NEW ok \in BOOLEAN
  PROVE  LET r == AfterLookup(s, h, err, ok) IN
         Good(r) /\ Kept(s, r) /\ (Dead(s) => SameEnough(s, r))
<1> DEFINE r == AfterLookup(s, h, err, ok)
           L == s.lookups \ {h}
           t == [s EXCEPT !.lookups = L]
<1>1. Inv(s) /\ s \in State
  BY GoodTypes DEF Good
<1>2. h \in Handles
  BY <1>1 DEF State
<1>3. Inv(r)
  BY <1>1, <1>2, AfterLookupInv
<1>4. CASE Dead(s)
  <2>1. r = t
    BY <1>1, <1>4, AnswerDead
  <2>2. SameEnough(s, t)
    BY <1>1 DEF SameEnough, State
  <2> HIDE DEF r, t
  <2>3. QED  BY <1>3, <1>4, <2>1, <2>2, AnswerDeadGood DEF r
<1>5. CASE ~Dead(s)
  <2> DEFINE K == Append(s.ticks, "EmitErrorAndDestroy")
             x == [s EXCEPT !.lookups = L, !.ticks = K]
             N == s.connects \cup {h}
             y == [s EXCEPT !.lookups = L, !.connects = N]
             d == DestroyWith(t, TRUE)
  <2>1. /\ Connecting(s) /\ s.lookups = {s.handle} /\ h = s.handle
        /\ s.connects = {} /\ Live(s)
    BY <1>5 DEF Good, Live, LiveSettled, LiveConnecting
  <2>2. Errors(s) = 0
    <3>1. Errors(s) # 1
      BY <1>5, <2>1 DEF Good, Live, LiveConnecting
    <3>2. Errors(s) <= 1 /\ Errors(s) \in Nat
      BY <2>1, GoodTypes DEF Live, Unannounced, Errors
    <3>3. QED  BY <3>1, <3>2
  <2>3. L = {} /\ N = {s.handle} /\ K = <<"EmitErrorAndDestroy">>
    BY <1>5, <2>1, <2>2, NoTickYet, Pushed
  <2> HIDE DEF L, N, K
  <2>4. /\ t \in State /\ SameButRequests(s, t) /\ t.ticks = s.ticks
        /\ t.lookups = {} /\ t.connects = {}
    <3>1. L \in SUBSET Handles
      BY <2>3
    <3>2. QED  BY <1>1, <2>1, <2>3, <3>1 DEF State, SameButRequests
  <2>5. /\ SameButRequests(s, x) /\ x.ticks = K
        /\ x.lookups = {} /\ x.connects = {}
    BY <1>1, <2>1, <2>3 DEF State, SameButRequests
  <2>6. /\ SameButRequests(s, y) /\ y.ticks = s.ticks
        /\ y.lookups = {} /\ y.connects = {s.handle}
    BY <1>1, <2>1, <2>3 DEF State, SameButRequests
  <2>7. r = IF err THEN x ELSE IF ok THEN y ELSE d
    <3>1. Has(t, "CONNECTING") /\ t.ticks = s.ticks /\ t.connects = s.connects
      BY <2>1, <2>4 DEF Has, Connecting, SameButRequests
    <3>2. [t EXCEPT !.ticks = Append(@, "EmitErrorAndDestroy")] = x
      <4>1. [t EXCEPT !.ticks = Append(@, "EmitErrorAndDestroy")]
              = [t EXCEPT !.ticks = K]
        BY <3>1 DEF K
      <4>2. QED  BY <1>1, <4>1 DEF State
    <3>3. [t EXCEPT !.connects = @ \cup {h}] = y
      <4>1. [t EXCEPT !.connects = @ \cup {h}] = [t EXCEPT !.connects = N]
        BY <3>1 DEF N
      <4>2. QED  BY <1>1, <4>1 DEF State
    <3>4. ConnectHandle(t, h, ok) = IF ok THEN y ELSE d
      <4>1. Assert(t, Has(t, "CONNECTING"), "connect: CONNECTING") = t
        BY <3>1 DEF Assert
      <4> HIDE DEF t, y
      <4>2. QED  BY <3>3, <4>1 DEF ConnectHandle
    <3>5. t = [s EXCEPT !.lookups = @ \ {h}]
      BY DEF L
    <3> HIDE DEF t, x, y, d
    <3>6. QED  BY <3>1, <3>2, <3>4, <3>5 DEF AfterLookup
  <2> HIDE DEF t, x, y, r
  <2>8. ASSUME r = x  PROVE Good(x) /\ Kept(s, x)
    BY <1>3, <1>5, <2>1, <2>2, <2>3, <2>5, <2>8, RequestGood
  <2>9. ASSUME r = y  PROVE Good(y) /\ Kept(s, y)
    BY <1>3, <1>5, <2>1, <2>2, <2>6, <2>9, RequestGood
  <2>10. Good(d) /\ Kept(s, d)
    <3>1. Inv(t) /\ ~Dead(t)
      BY <1>1, <1>5, <2>4 DEF Inv, Usable, SameButRequests, Dead
    <3>2. Errors(t) = 0 /\ Unannounced(t)
      BY <2>1, <2>2, <2>4
      DEF Live, Errors, ErrorQueued, Unannounced, SameButRequests
    <3>3. /\ t.broken = {} /\ Increasing(t.sent)
          /\ t.shutdowns # {} => "SHUTDOWN" \in t.flags
      BY <2>4 DEF Good, SameButRequests
    <3>4. Good(d) /\ Kept(t, d)
      BY <3>1, <3>2, <3>3, DestroyLive
    <3> HIDE DEF d
    <3>5. QED  BY <2>4, <3>4, GoodTypes DEF Kept, SameButRequests
  <2> HIDE DEF d
  <2>11. Good(r) /\ Kept(s, r)
    BY <2>7, <2>8, <2>9, <2>10
  <2>12. QED  BY <1>5, <2>11 DEF r
<1>6. QED  BY <1>4, <1>5

-----------------------------------------------------------------------------
(* The callbacks of nextTick. *)

LEMMA PoppedHeard ==
  ASSUME NEW s, Inv(s), s.draining # 0, NEW ev \in Event
  PROVE  LET q == Heard(Popped(s), ev) IN
         /\ Inv(q) /\ q.heard[ev] = s.heard[ev] + 1
         /\ \A e \in Event : e # ev => q.heard[e] = s.heard[e]
         /\ q.ticks = Tail(s.ticks) /\ q.draining = s.draining - 1
         /\ q.flags = s.flags /\ q.handle = s.handle /\ q.pending = s.pending
         /\ q.connQ = s.connQ /\ q.listening = s.listening
         /\ q.selfRef = s.selfRef /\ q.lookups = s.lookups
         /\ q.connects = s.connects /\ q.writes = s.writes
         /\ q.shutdowns = s.shutdowns /\ q.reading = s.reading
         /\ q.eof = s.eof /\ q.opened = s.opened /\ q.issued = s.issued
         /\ q.sent = s.sent /\ q.destroys = s.destroys
         /\ q.broken = s.broken /\ q.crossed = s.crossed
         /\ \A c : Emit(Popped(s), ev, c) =
                     IF s.listening THEN Listener(q, c) ELSE Popped(s)
<1> DEFINE p == Popped(s)
           q == Heard(p, ev)
<1>1. /\ Inv(p) /\ p \in State
      /\ p.ticks = Tail(s.ticks) /\ p.draining = s.draining - 1
      /\ p.flags = s.flags /\ p.handle = s.handle /\ p.pending = s.pending
      /\ p.connQ = s.connQ /\ p.listening = s.listening
      /\ p.selfRef = s.selfRef /\ p.lookups = s.lookups
      /\ p.connects = s.connects /\ p.writes = s.writes
      /\ p.shutdowns = s.shutdowns /\ p.reading = s.reading
      /\ p.eof = s.eof /\ p.opened = s.opened /\ p.issued = s.issued
      /\ p.sent = s.sent /\ p.destroys = s.destroys /\ p.heard = s.heard
      /\ p.broken = s.broken /\ p.crossed = s.crossed
  BY PoppedIs DEF Inv
<1> HIDE DEF p
<1>2. Inv(q) /\ [p EXCEPT !.heard[ev] = @ + 1] = q
  BY <1>1, HeardInv
<1>3. \A c : Emit(p, ev, c) = IF s.listening THEN Listener(q, c) ELSE p
  BY <1>1, <1>2 DEF Emit
<1>4. /\ q.heard[ev] = p.heard[ev] + 1
      /\ \A e \in Event : e # ev => q.heard[e] = p.heard[e]
      /\ q.ticks = p.ticks /\ q.draining = p.draining
      /\ q.flags = p.flags /\ q.handle = p.handle /\ q.pending = p.pending
      /\ q.connQ = p.connQ /\ q.listening = p.listening
      /\ q.selfRef = p.selfRef /\ q.lookups = p.lookups
      /\ q.connects = p.connects /\ q.writes = p.writes
      /\ q.shutdowns = p.shutdowns /\ q.reading = p.reading
      /\ q.eof = p.eof /\ q.opened = p.opened /\ q.issued = p.issued
      /\ q.sent = p.sent /\ q.destroys = p.destroys
      /\ q.broken = p.broken /\ q.crossed = p.crossed
  BY <1>1, HeardIs
<1> HIDE DEF q
<1>5. QED  BY <1>1, <1>2, <1>3, <1>4, ZenonT(40) DEF p, q

(* The lookup has failed: 'error' is heard, and the socket is destroyed. *)
LEMMA TickLiveGood ==
  ASSUME NEW s, Good(s), ~Dead(s), s.draining # 0, NEW c \in OrderlyCall
  PROVE  LET r == RunTick(Popped(s), Head(s.ticks), c) IN
         /\ s.ticks = <<"EmitErrorAndDestroy">> /\ s.heard["close"] = 0
         /\ Good(r) /\ Dead(r) /\ r.draining = s.draining - 1
         /\ r.crossed = s.crossed /\ r.opened >= s.opened
         /\ r.selfRef = s.selfRef /\ r.heard["close"] = 0
<1> DEFINE q == Heard(Popped(s), "error")
           e == Listener(q, c)
           r == RunTick(Popped(s), Head(s.ticks), c)
<1>1. /\ Live(s) /\ Inv(s) /\ s.listening /\ s.heard["close"] = 0
      /\ s.heard["error"] \in Nat /\ s.draining \in Nat /\ s.opened \in Nat
  BY GoodTypes DEF Good, Live, Unannounced
<1>2. s.ticks = <<"EmitErrorAndDestroy">>
  <2>1. s.draining <= Len(s.ticks)
    BY <1>1 DEF Inv
  <2>2. s.ticks # <<>>
    BY <1>1, <2>1, Taken
  <2>3. QED  BY <1>1, <2>2 DEF Live, Unannounced
<1>3. Tail(s.ticks) = <<>> /\ Head(s.ticks) = "EmitErrorAndDestroy"
  BY <1>2, Taken
<1>4. s.heard["error"] = 0 /\ Errors(s) = 1
  <2>1. ErrorQueued(s)
    BY <1>2, ErrorForms
  <2>2. QED  BY <1>1, <2>1 DEF Errors, Live, Unannounced
<1>5. Connecting(s) /\ LiveConnecting(s)
  BY <1>1, <1>4 DEF Live, LiveSettled
<1>6. /\ Inv(q) /\ q.heard["error"] = s.heard["error"] + 1
      /\ q.heard["close"] = s.heard["close"]
      /\ q.ticks = <<>> /\ q.draining = s.draining - 1
      /\ q.flags = s.flags /\ q.handle = s.handle /\ q.pending = s.pending
      /\ q.connQ = s.connQ /\ q.listening = s.listening
      /\ q.selfRef = s.selfRef /\ q.lookups = s.lookups
      /\ q.connects = s.connects /\ q.writes = s.writes
      /\ q.shutdowns = s.shutdowns /\ q.reading = s.reading
      /\ q.eof = s.eof /\ q.opened = s.opened /\ q.issued = s.issued
      /\ q.sent = s.sent /\ q.destroys = s.destroys
      /\ q.broken = s.broken /\ q.crossed = s.crossed
      /\ Emit(Popped(s), "error", c) = e
  <2>1. "error" \in Event /\ "close" \in Event
    BY DEF Event
  <2> HIDE DEF e
  <2>2. Emit(Popped(s), "error", c) = e
    BY <1>1, <2>1, PoppedHeard DEF e
  <2>3. /\ q.heard["error"] = s.heard["error"] + 1
        /\ q.heard["close"] = s.heard["close"]
    BY <1>1, <2>1, PoppedHeard
  <2>4. Inv(q) /\ q.ticks = <<>>
    <3>1. Inv(q) /\ q.ticks = Tail(s.ticks)
      BY <1>1, <2>1, PoppedHeard
    <3>2. QED  BY <1>3, <3>1
  <2>5. /\ q.draining = s.draining - 1
        /\ q.flags = s.flags /\ q.handle = s.handle
    BY <1>1, <2>1, PoppedHeard
  <2>6. /\ q.pending = s.pending
        /\ q.connQ = s.connQ /\ q.listening = s.listening
        /\ q.selfRef = s.selfRef /\ q.lookups = s.lookups
        /\ q.connects = s.connects /\ q.writes = s.writes
    BY <1>1, <2>1, PoppedHeard, ZenonT(40)
  <2>7. /\ q.shutdowns = s.shutdowns /\ q.reading = s.reading
        /\ q.eof = s.eof /\ q.opened = s.opened /\ q.issued = s.issued
    BY <1>1, <2>1, PoppedHeard
  <2>8. /\ q.sent = s.sent /\ q.destroys = s.destroys
        /\ q.broken = s.broken /\ q.crossed = s.crossed
    BY <1>1, <2>1, PoppedHeard
  <2> HIDE DEF q
  <2>9. QED  BY <2>2, <2>3, <2>4, <2>5, <2>6, <2>7, <2>8
<1>7. r = Destroy(e)
  BY <1>3, <1>6 DEF RunTick
<1> HIDE DEF q, e, r
<1>8. Errors(q) = 1
  <2>1. ~ErrorQueued(q)
    BY <1>6, ErrorForms
  <2>2. QED  BY <1>4, <1>6, <2>1 DEF Errors
<1>9. Unannounced(q)
  BY <1>1, <1>6, <1>8 DEF Live, Unannounced
<1>10. Queued(q) /\ Matched(q)
  <2>1. Queued(q)
    BY <1>1, <1>6, ZenonT(40) DEF Live, Queued
  <2>2. Matched(q)
    BY <1>1, <1>6 DEF Live, Matched
  <2>3. QED  BY <2>1, <2>2
<1>11. LiveConnecting(q) /\ Connecting(q) /\ ~Dead(q)
  BY <1>4, <1>5, <1>6 DEF LiveConnecting, Connecting, Dead
<1>12. Live(q)
  BY <1>1, <1>6, <1>9, <1>10, <1>11 DEF Live
<1>13. Good(q)
  BY <1>6, <1>11, <1>12 DEF Good
<1>14. Good(e) /\ Kept(q, e)
  BY <1>13, ListenerGood DEF e
<1>15. Good(r) /\ Kept(e, r) /\ Dead(r)
  <2>1. DestroyWith(e, FALSE) = r
    BY <1>7 DEF Destroy
  <2>2. QED  BY <1>14, <2>1, DestroyGood
<1>16. e.opened \in Nat /\ r.opened \in Nat
  BY <1>14, <1>15, GoodTypes
<1>17. QED
  BY <1>1, <1>2, <1>6, <1>14, <1>15, <1>16 DEF Kept, r

(* 'error' is heard by a destroyed socket. *)
LEMMA ErrorTickGood ==
  ASSUME NEW s, Good(s), Dead(s), s.draining # 0, NEW c \in OrderlyCall,
         Head(s.ticks) \in {"EmitError", "EmitErrorAndDestroy"}
  PROVE  LET r == RunTick(Popped(s), Head(s.ticks), c) IN
         /\ Good(r) /\ Inert(Heard(Popped(s), "error"), r)
         /\ s.heard["close"] = 0 /\ s.destroys = 1 /\ r.heard["close"] = 0
<1> DEFINE q == Heard(Popped(s), "error")
           e == Listener(q, c)
           r == RunTick(Popped(s), Head(s.ticks), c)
<1>1. /\ Announced(s) /\ Inv(s)
      /\ s.heard["error"] \in Nat /\ s.draining \in Nat /\ s.opened \in Nat
  BY GoodTypes DEF Good
<1>2. s.ticks \in {<<"EmitError", "EmitClose">>,
                   <<"EmitErrorAndDestroy", "EmitClose">>}
  <2>1. s.draining <= Len(s.ticks)
    BY <1>1 DEF Inv
  <2>2. s.ticks # <<>>
    BY <1>1, <2>1, Taken
  <2>3. s.ticks # <<"EmitClose">>
    BY Taken
  <2>4. QED  BY <1>1, <2>2, <2>3 DEF Announced
<1>3. Tail(s.ticks) = <<"EmitClose">> /\ s.ticks # <<>>
  <2>1. CASE s.ticks = <<"EmitError", "EmitClose">>
    BY <2>1, Taken
  <2>2. CASE s.ticks = <<"EmitErrorAndDestroy", "EmitClose">>
    BY <2>2, Taken
  <2>3. QED  BY <1>2, <2>1, <2>2
<1>4. s.heard["error"] = 0 /\ s.heard["close"] = 0 /\ s.destroys = 1
      /\ s.listening
  <2>1. ErrorQueued(s)
    BY <1>2, ErrorForms
  <2>2. Errors(s) <= 1
    BY <1>1 DEF Announced
  <2>3. s.heard["error"] = 0
    BY <1>1, <2>1, <2>2 DEF Errors
  <2>4. QED  BY <1>1, <1>3, <2>3 DEF Announced
<1>5. /\ Inv(q) /\ q.heard["error"] = s.heard["error"] + 1
      /\ q.heard["close"] = s.heard["close"]
      /\ q.ticks = <<"EmitClose">>
      /\ q.flags = s.flags /\ q.handle = s.handle
      /\ q.listening = s.listening
      /\ q.shutdowns = s.shutdowns
      /\ q.opened = s.opened
      /\ q.sent = s.sent /\ q.destroys = s.destroys
      /\ q.broken = s.broken
      /\ Emit(Popped(s), "error", c) = e
  <2>1. "error" \in Event /\ "close" \in Event
    BY DEF Event
  <2> HIDE DEF e
  <2>2. Emit(Popped(s), "error", c) = e
    BY <1>1, <1>4, <2>1, PoppedHeard DEF e
  <2>3. /\ q.heard["error"] = s.heard["error"] + 1
        /\ q.heard["close"] = s.heard["close"]
    BY <1>1, <2>1, PoppedHeard
  <2>4. Inv(q) /\ q.ticks = <<"EmitClose">>
    BY <1>1, <1>3, <2>1, PoppedHeard
  <2> HIDE DEF q
  <2>5. QED  BY <1>1, <2>1, <2>2, <2>3, <2>4, PoppedHeard, ZenonT(40) DEF q
<1> HIDE DEF q
<1>6. Errors(q) = 1 /\ q.ticks # <<>>
  <2>1. ~ErrorQueued(q)
    BY <1>5, ErrorForms
  <2>2. QED  BY <1>4, <1>5, <2>1, Different DEF Errors
<1>7. Announced(q) /\ Dead(q)
  BY <1>4, <1>5, <1>6 DEF Announced, Dead
<1>8. Good(q)
  BY <1>5, <1>7 DEF Good
<1>9. Good(e) /\ Inert(q, e)
  BY <1>7, <1>8, ListenerGood
<1> HIDE DEF e
<1>10. Destroy(e) = e
  BY <1>9 DEF Inert, Destroy, DestroyWith, Has, Dead
<1>11. r \in {e, Destroy(e)}
  BY <1>5 DEF RunTick
<1> HIDE DEF r
<1>12. r = e
  BY <1>10, <1>11
<1>13. QED  BY <1>4, <1>5, <1>9, <1>12 DEF q, r, Inert

(* 'close' is heard, and OnDestroy() lets go of the Socket. *)
LEMMA CloseTickGood ==
  ASSUME NEW s, Good(s), Dead(s), s.draining # 0, NEW c \in OrderlyCall,
         Head(s.ticks) = "EmitClose"
  PROVE  LET r == RunTick(Popped(s), Head(s.ticks), c) IN
         /\ Good(r) /\ Dead(r) /\ r.ticks = <<>> /\ r.selfRef = FALSE
         /\ r.draining = s.draining - 1 /\ r.crossed = s.crossed
         /\ r.opened = s.opened /\ r.connects = s.connects
         /\ r.writes = s.writes /\ r.shutdowns = s.shutdowns
         /\ s.heard["close"] = 0 /\ r.heard["close"] = 1
<1> DEFINE q == Heard(Popped(s), "close")
           e == Listener(q, c)
           r == RunTick(Popped(s), Head(s.ticks), c)
<1>1. /\ Announced(s) /\ Inv(s)
      /\ s.heard["error"] \in Nat /\ s.draining \in Nat /\ s.opened \in Nat
  BY GoodTypes DEF Good
<1>2. s.ticks = <<"EmitClose">>
  <2>1. s.draining <= Len(s.ticks)
    BY <1>1 DEF Inv
  <2>2. s.ticks # <<>>
    BY <1>1, <2>1, Taken
  <2>3. s.ticks # <<"EmitError", "EmitClose">>
    BY Taken
  <2>4. s.ticks # <<"EmitErrorAndDestroy", "EmitClose">>
    BY Taken
  <2>5. QED  BY <1>1, <2>2, <2>3, <2>4 DEF Announced
<1>3. Tail(s.ticks) = <<>> /\ s.ticks # <<>>
  BY <1>2, Taken, Different
<1>4. /\ s.heard["close"] = 0 /\ s.destroys = 1 /\ s.listening
      /\ Errors(s) <= 1
  BY <1>1, <1>3 DEF Announced
<1>5. /\ Inv(q) /\ q.heard["error"] = s.heard["error"]
      /\ q.heard["close"] = 1
      /\ q.ticks = <<>> /\ q.draining = s.draining - 1
      /\ q.flags = s.flags /\ q.handle = s.handle /\ q.listening = s.listening
      /\ q.connects = s.connects /\ q.writes = s.writes
      /\ q.shutdowns = s.shutdowns /\ q.opened = s.opened
      /\ q.sent = s.sent /\ q.destroys = s.destroys
      /\ q.broken = s.broken /\ q.crossed = s.crossed
      /\ Emit(Popped(s), "close", c) = e
  <2>1. "error" \in Event /\ "close" \in Event
    BY DEF Event
  <2> HIDE DEF e
  <2>2. Emit(Popped(s), "close", c) = e
    BY <1>1, <1>4, <2>1, PoppedHeard DEF e
  <2>3. /\ q.heard["close"] = s.heard["close"] + 1
        /\ q.heard["error"] = s.heard["error"]
    BY <1>1, <2>1, PoppedHeard
  <2>4. Inv(q) /\ q.ticks = <<>>
    <3>1. Inv(q) /\ q.ticks = Tail(s.ticks)
      BY <1>1, <2>1, PoppedHeard
    <3>2. QED  BY <1>3, <3>1
  <2>5. /\ q.draining = s.draining - 1
        /\ q.flags = s.flags /\ q.handle = s.handle
    BY <1>1, <2>1, PoppedHeard
  <2>6. /\ q.listening = s.listening
        /\ q.connects = s.connects /\ q.writes = s.writes
    BY <1>1, <2>1, PoppedHeard
  <2>7. q.shutdowns = s.shutdowns /\ q.opened = s.opened
    BY <1>1, <2>1, PoppedHeard
  <2>8. /\ q.sent = s.sent /\ q.destroys = s.destroys
        /\ q.broken = s.broken /\ q.crossed = s.crossed
    BY <1>1, <2>1, PoppedHeard
  <2> HIDE DEF q
  <2>9. QED  BY <1>4, <2>2, <2>3, <2>4, <2>5, <2>6, <2>7, <2>8
<1> HIDE DEF q
<1>6. Errors(q) <= 1
  <2>1. ~ErrorQueued(q) /\ ~ErrorQueued(s)
    BY <1>2, <1>5, ErrorForms
  <2>2. QED  BY <1>4, <1>5, <2>1 DEF Errors
<1>7. Dead(q)
  BY <1>5 DEF Dead
<1>8. Good(q)
  <2>1. Announced(q)
    BY <1>4, <1>5, <1>6 DEF Announced
  <2>2. QED  BY <1>5, <1>7, <2>1 DEF Good
<1>9. Inv(e) /\ Inert(q, e)
  BY <1>7, <1>8, ListenerGood DEF Good
<1>10. r = OnDestroy(e)
  BY <1>2, <1>5, Taken DEF RunTick
<1> HIDE DEF e, r
<1>11. Inv(r) /\ e \in State
  BY <1>9, <1>10, OnDestroyInv DEF Inv
<1>12. e.handle = NoHandle /\ Dead(e)
  BY <1>1, <1>5, <1>9 DEF Inert, Inv, Dead
<1>13. /\ r.flags = e.flags /\ r.destroys = e.destroys
       /\ r.connects = e.connects /\ r.writes = e.writes
       /\ r.shutdowns = e.shutdowns /\ r.ticks = e.ticks
       /\ r.opened = e.opened /\ r.heard = e.heard
       /\ r.draining = e.draining /\ r.crossed = e.crossed
       /\ r.selfRef = FALSE /\ r.sent = e.sent /\ r.handle = e.handle
       /\ r.broken = e.broken
  BY <1>10, <1>11, <1>12, OnDestroyKeeps
<1>14. Errors(r) <= 1
  BY <1>6, <1>9, <1>13 DEF Inert, Errors, ErrorQueued
<1>15. Announced(r) /\ Dead(r)
  <2>1. r.destroys = 1 /\ r.heard["close"] = 1 /\ r.ticks = <<>>
    BY <1>4, <1>5, <1>9, <1>13 DEF Inert
  <2>2. Dead(r)
    BY <1>12, <1>13 DEF Dead
  <2>3. QED  BY <1>13, <1>14, <2>1, <2>2 DEF Announced
<1>16. /\ r.broken = {} /\ Increasing(r.sent) /\ r.handle = NoHandle
       /\ r.shutdowns # {} => "SHUTDOWN" \in r.flags
  BY <1>5, <1>9, <1>12, <1>13 DEF Inert, Good
<1>17. Good(r)
  BY <1>11, <1>15, <1>16 DEF Good
<1>18. /\ r.ticks = <<>> /\ r.heard["close"] = 1
       /\ r.draining = s.draining - 1 /\ r.crossed = s.crossed
       /\ r.opened = s.opened /\ r.connects = s.connects
       /\ r.writes = s.writes /\ r.shutdowns = s.shutdowns
  BY <1>5, <1>9, <1>13 DEF Inert
<1>19. QED  BY <1>4, <1>13, <1>15, <1>17, <1>18 DEF r

-----------------------------------------------------------------------------
(* The actions. *)

Life(s) == IF ~Dead(s) THEN "open"
           ELSE IF s.heard["close"] = 0 THEN "destroyed" ELSE "closed"

(* What the loop relies on from turn to turn, and what a turn does to the  *)
(* life of the connection: nothing, or one step.                           *)
Sound(s) == Good(s) /\ Turns(s)
Proceeds(s, r) ==
  /\ Sound(r)
  /\ \/ Life(r) = Life(s)
     \/ Life(s) = "open" /\ Life(r) = "destroyed"
     \/ Life(s) = "destroyed" /\ Life(r) = "closed"
     \/ Life(s) = "closed" /\ Life(r) \in {"open", "destroyed"}

LEMMA StayProceeds ==
  ASSUME NEW s, Sound(s), s.draining = 0, NEW r, Good(r), Kept(s, r),
         Dead(s) => Inert(s, r) \/ SameEnough(s, r)
  PROVE  Proceeds(s, r)
<1>1. s.opened \in Nat /\ r.opened \in Nat
  BY GoodTypes DEF Sound
<1>2. /\ r.draining = 0 /\ r.crossed = s.crossed /\ r.selfRef = s.selfRef
      /\ r.opened >= s.opened /\ r.heard["close"] = s.heard["close"]
  BY DEF Kept
<1>3. Dead(s) => /\ Dead(r) /\ r.ticks = s.ticks
                 /\ NoRequests(s) => NoRequests(r)
  BY DEF Inert, SameEnough, NoRequests, Dead
<1>4. ASSUME ~r.selfRef, r.opened <= 1
      PROVE  Dead(r) /\ r.ticks = <<>> /\ (~r.crossed => NoRequests(r))
  <2>1. ~s.selfRef /\ s.opened <= 1
    BY <1>1, <1>2, <1>4
  <2>2. Dead(s) /\ s.ticks = <<>> /\ (~s.crossed => NoRequests(s))
    BY <2>1 DEF Sound, Turns
  <2>3. QED  BY <1>2, <1>3, <2>2
<1>5. Turns(r)
  BY <1>2, <1>4 DEF Turns
<1>6. Dead(s) => Life(r) = Life(s)
  BY <1>2, <1>3 DEF Life
<1>7. ~Dead(s) => Life(s) = "open" /\ Life(r) \in {"open", "destroyed"}
  <2>1. ~Dead(s) => s.heard["close"] = 0
    BY DEF Sound, Good, Live, Unannounced
  <2>2. QED  BY <1>2, <2>1 DEF Life
<1>8. QED  BY <1>5, <1>6, <1>7 DEF Proceeds, Sound

LEMMA CallProceeds ==
  ASSUME NEW s, Sound(s), s.draining = 0, NEW c \in OrderlyCall,
         Permitted(s, c)
  PROVE  Proceeds(s, Perform(s, c))
<1> DEFINE r == Perform(s, c)
<1>1. Good(s) /\ Inv(s)
  BY DEF Sound, Good
<1>2. CASE c.op = "reopen"
  <2>1. /\ Good(r) /\ r.draining = 0 /\ r.opened = s.opened + 1
        /\ s.opened >= 1 /\ Dead(s) /\ r.heard["close"] = 0
    BY <1>1, <1>2, ReopenGood
  <2>2. s.ticks = <<>>
    BY <1>2 DEF Permitted, Settled
  <2>3. s.heard["close"] = 1
    BY <1>1, <2>1, <2>2 DEF Good, Announced
  <2> HIDE DEF r
  <2>4. Life(s) = "closed" /\ Life(r) \in {"open", "destroyed"}
    BY <2>1, <2>3 DEF Life
  <2>5. s.opened \in Nat
    BY <1>1, GoodTypes
  <2>6. ~(r.opened <= 1)
    BY <2>1, <2>5
  <2>7. Turns(r)
    BY <2>1, <2>6 DEF Turns
  <2>8. QED  BY <2>1, <2>4, <2>7 DEF Proceeds, Sound, r
<1>3. CASE c.op # "reopen" /\ Dead(s)
  <2>1. c.op \notin ConnectOps
    BY <1>3 DEF OrderlyCall, ConnectOps, Permitted, Has, Dead
  <2>2. Inert(s, r) /\ Inv(r)
    BY <1>1, <1>3, <2>1, PerformDead, PerformInv DEF OrderlyCall
  <2> HIDE DEF r
  <2>3. Good(r) /\ Kept(s, r)
    BY <1>1, <1>3, <2>2, InertGood
  <2>4. QED  BY <2>2, <2>3, StayProceeds DEF r
<1>4. CASE c.op # "reopen" /\ ~Dead(s)
  <2>1. Good(r) /\ Kept(s, r)
    BY <1>1, <1>4, PerformLive
  <2> HIDE DEF r
  <2>2. QED  BY <1>4, <2>1, StayProceeds DEF r
<1>5. QED  BY <1>2, <1>3, <1>4

LEMMA TickProceeds ==
  ASSUME NEW s, Sound(s), s.draining # 0, NEW c \in OrderlyCall
  PROVE  Proceeds(s, RunTick(Popped(s), Head(s.ticks), c))
<1> DEFINE r == RunTick(Popped(s), Head(s.ticks), c)
<1>1. /\ Good(s) /\ Inv(s) /\ s.draining \in Nat /\ s.opened \in Nat
      /\ s.ticks \in Seq(Tick) /\ s.draining = Len(s.ticks)
      /\ ~s.selfRef => ~(s.opened <= 1)
  <2>1. Good(s) /\ s.draining \in Nat /\ s.opened \in Nat /\ s \in State
    BY GoodTypes DEF Sound
  <2>2. s.draining = Len(s.ticks)
    BY <2>1 DEF Sound, Turns
  <2>3. s.ticks # <<>>
    BY <2>2, Taken
  <2>4. QED  BY <2>1, <2>2, <2>3 DEF Sound, Good, State, Turns
<1>2. CASE ~Dead(s)
  <2>1. /\ s.ticks = <<"EmitErrorAndDestroy">> /\ s.heard["close"] = 0
        /\ Good(r) /\ Dead(r) /\ r.draining = s.draining - 1
        /\ r.crossed = s.crossed /\ r.opened >= s.opened
        /\ r.selfRef = s.selfRef /\ r.heard["close"] = 0
    BY <1>1, <1>2, TickLiveGood
  <2>2. r.draining = 0
    BY <1>1, <2>1, Taken
  <2> HIDE DEF r
  <2>3. ~(~r.selfRef /\ r.opened <= 1)
    BY <1>1, <2>1, GoodTypes
  <2>4. Turns(r)
    BY <2>2, <2>3 DEF Turns
  <2>5. Life(s) = "open" /\ Life(r) = "destroyed"
    BY <1>2, <2>1 DEF Life
  <2>6. QED  BY <2>1, <2>4, <2>5 DEF Proceeds, Sound, r
<1>3. CASE Dead(s) /\ Head(s.ticks) = "EmitClose"
  <2>1. /\ Good(r) /\ Dead(r) /\ r.ticks = <<>> /\ r.selfRef = FALSE
        /\ r.draining = s.draining - 1 /\ r.crossed = s.crossed
        /\ r.opened = s.opened /\ r.connects = s.connects
        /\ r.writes = s.writes /\ r.shutdowns = s.shutdowns
        /\ s.heard["close"] = 0 /\ r.heard["close"] = 1
    BY <1>1, <1>3, CloseTickGood
  <2> HIDE DEF r
  <2>2. r.draining = 0
    <3>1. Inv(r) /\ r.draining \in Nat
      BY <2>1, GoodTypes DEF Good
    <3>2. Len(r.ticks) = 0
      BY <2>1, Taken
    <3>3. QED  BY <3>1, <3>2 DEF Inv
  <2>3. ~r.crossed => NoRequests(r)
    BY <1>1, <1>3, <2>1 DEF Sound, Turns, NoRequests
  <2>4. Turns(r)
    BY <2>1, <2>2, <2>3 DEF Turns
  <2>5. Life(s) = "destroyed" /\ Life(r) = "closed"
    BY <1>3, <2>1 DEF Life
  <2>6. QED  BY <2>1, <2>4, <2>5 DEF Proceeds, Sound, r
<1>4. CASE Dead(s) /\ Head(s.ticks) # "EmitClose"
  <2> DEFINE q == Heard(Popped(s), "error")
  <2>1. Head(s.ticks) \in {"EmitError", "EmitErrorAndDestroy"}
    BY <1>1, <1>4, PoppedIs DEF Tick
  <2>2. /\ Good(r) /\ Inert(q, r)
        /\ s.heard["close"] = 0 /\ r.heard["close"] = 0
    BY <1>1, <1>4, <2>1, ErrorTickGood
  <2>3. /\ q.ticks = Tail(s.ticks) /\ q.draining = s.draining - 1
        /\ q.selfRef = s.selfRef /\ q.opened = s.opened
    BY <1>1, PoppedHeard DEF Event
  <2>4. /\ q.connects = s.connects /\ q.writes = s.writes
        /\ q.shutdowns = s.shutdowns /\ q.crossed = s.crossed
    BY <1>1, PoppedHeard DEF Event
  <2> HIDE DEF q, r
  <2>5. /\ r.ticks = Tail(s.ticks) /\ r.draining = s.draining - 1
        /\ r.selfRef = s.selfRef /\ r.opened = s.opened
        /\ r.connects = s.connects /\ r.writes = s.writes
        /\ r.shutdowns = s.shutdowns /\ r.crossed = s.crossed /\ Dead(r)
    BY <2>2, <2>3, <2>4 DEF Inert
  <2>6. r.draining = Len(r.ticks)
    <3>1. s.ticks # <<>>
      BY <1>1, Taken
    <3>2. Len(Tail(s.ticks)) = Len(s.ticks) - 1
      BY <1>1, <3>1
    <3>3. QED  BY <1>1, <2>5, <3>2
  <2>7. ~r.crossed => NoRequests(r)
    BY <1>1, <1>4, <2>5 DEF Sound, Turns, NoRequests
  <2>8. ~(~r.selfRef /\ r.opened <= 1)
    BY <1>1, <2>5
  <2>9. Turns(r)
    BY <2>6, <2>7, <2>8 DEF Turns
  <2>10. Life(s) = "destroyed" /\ Life(r) = "destroyed"
    BY <1>4, <2>2, <2>5 DEF Life
  <2>11. QED  BY <2>2, <2>9, <2>10 DEF Proceeds, Sound, r
<1>5. QED  BY <1>2, <1>3, <1>4

LEMMA FireProceeds ==
  ASSUME NEW s, Sound(s), s.draining = 0, s.ticks # <<>>, NEW k \in BOOLEAN,
         ~k => s.connects \cup s.shutdowns \cup {w.h : w \in s.writes}
                 \subseteq {s.handle}
  PROVE  LET x == s.crossed \/ k
         IN  Proceeds(s, [s EXCEPT !.draining = Len(s.ticks), !.crossed = x])
<1> DEFINE x == s.crossed \/ k
           n == Len(s.ticks)
           r == [s EXCEPT !.draining = n, !.crossed = x]
<1>1. Good(s) /\ Inv(s) /\ s \in State
  BY GoodTypes DEF Sound, Good
<1>2. n \in Nat /\ x \in BOOLEAN /\ (~x => ~k)
  BY <1>1 DEF State
<1> HIDE DEF n, x
<1>3. r \in State
  BY <1>1, <1>2, ZenonT(40) DEF State
<1>4. /\ r.draining = n /\ r.crossed = x
      /\ r.flags = s.flags /\ r.handle = s.handle /\ r.pending = s.pending
      /\ r.connQ = s.connQ /\ r.listening = s.listening
      /\ r.selfRef = s.selfRef /\ r.ticks = s.ticks
      /\ r.lookups = s.lookups /\ r.connects = s.connects
      /\ r.writes = s.writes /\ r.shutdowns = s.shutdowns
      /\ r.reading = s.reading /\ r.eof = s.eof /\ r.opened = s.opened
      /\ r.issued = s.issued /\ r.sent = s.sent
      /\ r.destroys = s.destroys /\ r.heard = s.heard
      /\ r.broken = s.broken
  BY <1>1 DEF State
<1> HIDE DEF r
<1>5. Inv(r)
  <2>1. r.draining <= Len(r.ticks)
    BY <1>2, <1>4 DEF n
  <2>2. QED  BY <1>1, <1>3, <1>4, <2>1 DEF Inv, Usable
<1>6. Errors(r) = Errors(s) /\ (Dead(r) <=> Dead(s))
      /\ (Connecting(r) <=> Connecting(s))
  BY <1>4 DEF Errors, ErrorQueued, Dead, Connecting
<1>7. Dead(s) => Announced(r)
  BY <1>1, <1>4, <1>6 DEF Good, Announced
<1>8. ASSUME ~Dead(s)  PROVE Live(r)
  <2>1. Live(s)
    BY <1>1, <1>8 DEF Good
  <2>2. Unannounced(r)
    BY <1>4, <1>6, <2>1 DEF Live, Unannounced
  <2>3. Queued(r)
    BY <1>4, <2>1 DEF Live, Queued
  <2>4. Matched(r)
    BY <1>4, <2>1 DEF Live, Matched
  <2>5. LiveConnecting(s) => LiveConnecting(r)
    BY <1>4, <1>6 DEF LiveConnecting
  <2>6. LiveSettled(s) => LiveSettled(r)
    BY <1>4, <1>6 DEF LiveSettled
  <2>7. QED  BY <1>4, <1>6, <2>1, <2>2, <2>3, <2>4, <2>5, <2>6 DEF Live
<1>9. Good(r)
  BY <1>1, <1>4, <1>5, <1>6, <1>7, <1>8 DEF Good
<1>10. ~(~r.selfRef /\ r.opened <= 1)
  BY <1>4 DEF Sound, Turns
<1>11. Dead(r) /\ ~r.crossed => NoRequests(r)
  <2> SUFFICES ASSUME Dead(s), ~k  PROVE NoRequests(s)
    BY <1>2, <1>4, <1>6 DEF NoRequests
  <2>1. s.handle = NoHandle /\ NoHandle \notin Handles
    BY <1>1 DEF Inv, Dead, NoHandle, Handles
  <2>2. /\ s.connects \subseteq Handles /\ s.shutdowns \subseteq Handles
        /\ \A w \in s.writes : w.h \in Handles
    BY <1>1 DEF State
  <2>3. /\ s.connects \subseteq {NoHandle} /\ s.shutdowns \subseteq {NoHandle}
        /\ \A w \in s.writes : w.h \in {NoHandle}
    BY <2>1
  <2>4. QED  BY <2>1, <2>2, <2>3 DEF NoRequests
<1>12. Turns(r)
  BY <1>4, <1>10, <1>11 DEF Turns, n
<1>13. Life(r) = Life(s)
  BY <1>4, <1>6 DEF Life
<1>14. QED  BY <1>9, <1>12, <1>13 DEF Proceeds, Sound, r, n, x

LEMMA GoToProceeds ==
  ASSUME NEW t, Proceeds(Now, t), GoTo(t)
  PROVE  Proceeds(Now, Now')
<1>1. t \in State
  BY GoodTypes DEF Proceeds, Sound
<1>2. Now' = t
  BY <1>1, GoToNow
<1>3. QED  BY <1>2

LEMMA InitSound == Init => Sound(Now)
<1> SUFFICES ASSUME Init PROVE Sound(Now)
  OBVIOUS
<1> DEFINE s == Now
<1>1. Inv(s)
  BY InitInv
<1>2. /\ s.flags \in {{}, {"READABLE", "WRITABLE"}}
      /\ s.opened \in {0, 1} /\ s.handle = s.opened
      /\ s.pending = 0 /\ s.connQ = <<>> /\ s.listening /\ s.selfRef
      /\ s.ticks = <<>> /\ s.draining = 0 /\ s.lookups = {}
      /\ s.connects = {} /\ s.writes = {} /\ s.shutdowns = {}
      /\ s.issued = 0 /\ s.sent = <<>> /\ s.destroys = 0
      /\ s.heard["close"] = 0 /\ s.heard["error"] = 0 /\ s.broken = {}
  BY DEF Init, Now, NoHandle, Event
<1> HIDE DEF s
<1>3. ~Dead(s) /\ ~Connecting(s) /\ "GOT_EOF" \notin s.flags
  BY <1>2 DEF Dead, Connecting
<1>4. Errors(s) = 0
  BY <1>2, ErrorForms DEF Errors
<1>5. Unannounced(s)
  BY <1>2, <1>4 DEF Unannounced
<1>6. Queued(s)
  <2>1. Len(s.connQ) = 0 /\ Len(s.sent) = 0
    BY <1>2
  <2>2. DOMAIN s.connQ = {} /\ DOMAIN s.sent = {}
    BY <1>2
  <2>3. QED  BY <1>2, <2>1, <2>2 DEF Queued
<1>7. Matched(s)
  BY <1>2, FS_EmptySet DEF Matched
<1>8. LiveSettled(s)
  BY <1>2, <1>4 DEF LiveSettled
<1>9. Live(s)
  BY <1>2, <1>3, <1>5, <1>6, <1>7, <1>8 DEF Live, NoHandle
<1>10. Increasing(s.sent)
  BY <1>2 DEF Increasing
<1>11. Good(s)
  BY <1>1, <1>2, <1>3, <1>9, <1>10 DEF Good, NoHandle
<1>12. Turns(s)
  BY <1>2 DEF Turns
<1>13. QED  BY <1>11, <1>12 DEF Sound, s

LEMMA NextProceeds ==
  ASSUME Orderly
  PROVE  Sound(Now) /\ Next => Proceeds(Now, Now')
<1> SUFFICES ASSUME Sound(Now), Next PROVE Proceeds(Now, Now')
  OBVIOUS
<1>1. /\ Calls \subseteq OrderlyCall /\ Reactions \subseteq OrderlyCall
  BY CallsAssumption DEF Orderly, OrderlyCall, Reactions, NoCall
<1>2. Good(Now) /\ Inv(Now) /\ Now \in State
  BY GoodTypes DEF Sound, Good
<1>3. /\ Now.draining = draining /\ Now.connects = connects
      /\ Now.writes = writes /\ Now.shutdowns = shutdowns
      /\ Now.lookups = lookups /\ Now.reading = reading
      /\ Now.ticks = ticks /\ Now.handle = handle /\ Now.connQ = connQ
      /\ Now.crossed = crossed
  BY DEF Now
<1>4. reading => ~Dead(Now)
  BY <1>2, <1>3 DEF Inv, Dead
<1>5. ASSUME NEW r, GoTo(r), Now.draining = 0, Good(r), Kept(Now, r),
             Dead(Now) => SameEnough(Now, r)
      PROVE  Proceeds(Now, Now')
  BY <1>5, StayProceeds, GoToProceeds
<1>6. ASSUME NEW c \in Calls, AppCall(c)  PROVE Proceeds(Now, Now')
  <2>1. Proceeds(Now, Perform(Now, c))
    BY <1>1, <1>3, <1>6, CallProceeds DEF AppCall, Idle
  <2>2. QED  BY <1>6, <2>1, GoToProceeds DEF AppCall
<1>7. ASSUME NEW c \in Reactions, ReadData(c)  PROVE Proceeds(Now, Now')
  <2>1. Good(Listener(Now, c)) /\ Kept(Now, Listener(Now, c))
    BY <1>1, <1>2, ListenerGood
  <2>2. GoTo(Listener(Now, c)) /\ ~Dead(Now) /\ Now.draining = 0
    BY <1>3, <1>4, <1>7 DEF ReadData, OnReadData, Idle
  <2>3. QED  BY <1>5, <2>1, <2>2
<1>8. ASSUME NEW c \in Reactions, ReadEof(c)  PROVE Proceeds(Now, Now')
  <2>1. PICK t \in OnReadEof(Now, c) : GoTo(t)
    BY <1>8 DEF ReadEof
  <2>2. Now.reading /\ ~Dead(Now) /\ Now.draining = 0
    BY <1>3, <1>4, <1>8 DEF ReadEof, Idle
  <2>3. Good(t) /\ Kept(Now, t)
    BY <1>1, <1>2, <2>2, OnReadEofGood
  <2>4. QED  BY <1>5, <2>1, <2>2, <2>3
<1>9. ASSUME ReadError  PROVE Proceeds(Now, Now')
  <2> DEFINE t == DestroyWith(Now, TRUE)
  <2>1. GoTo(t) /\ Now.reading /\ ~Dead(Now) /\ Now.draining = 0
    BY <1>3, <1>4, <1>9 DEF ReadError, OnReadError, Idle
  <2>2. Good(t) /\ Kept(Now, t)
    BY <1>2, <2>1, ReadingLive, DestroyGood
  <2> HIDE DEF t
  <2>3. QED  BY <1>5, <2>1, <2>2
<1>10. ASSUME AnyConnectDone  PROVE Proceeds(Now, Now')
  <2>1. PICK h \in connects, ok \in BOOLEAN, shutOk \in BOOLEAN,
             c \in Reactions, bad \in 0..Len(connQ) :
               ConnectDone(h, ok, bad, c, shutOk)
    BY <1>10 DEF AnyConnectDone
  <2> DEFINE t == AfterConnect(Now, h, ok, bad, c, shutOk)
  <2>2. GoTo(t) /\ Now.draining = 0 /\ (ok => h = Now.handle)
    BY <1>3, <2>1 DEF ConnectDone, Idle
  <2>3. bad \in Nat /\ h \in Now.connects /\ c \in OrderlyCall
    BY <1>1, <1>3
  <2>4. Good(t) /\ Kept(Now, t) /\ (Dead(Now) => SameEnough(Now, t))
    BY <1>2, <2>2, <2>3, AfterConnectGood
  <2> HIDE DEF t
  <2>5. QED  BY <1>5, <2>2, <2>4
<1>11. ASSUME AnyWriteDone  PROVE Proceeds(Now, Now')
  <2>1. PICK w \in writes, ok \in BOOLEAN, c \in Reactions :
               WriteDone(w, ok, c)
    BY <1>11 DEF AnyWriteDone
  <2> DEFINE t == AfterWrite(Now, w, ok, c)
  <2>2. GoTo(t) /\ Now.draining = 0
    BY <1>3, <2>1 DEF WriteDone, Idle
  <2>3. Good(t) /\ Kept(Now, t) /\ (Dead(Now) => SameEnough(Now, t))
    BY <1>1, <1>2, <1>3, AfterWriteGood
  <2> HIDE DEF t
  <2>4. QED  BY <1>5, <2>2, <2>3
<1>12. ASSUME AnyShutdownDone  PROVE Proceeds(Now, Now')
  <2>1. PICK h \in shutdowns : ShutdownDone(h)
    BY <1>12 DEF AnyShutdownDone
  <2> DEFINE t == AfterShutdown(Now, h)
  <2>2. GoTo(t) /\ Now.draining = 0
    BY <1>3, <2>1 DEF ShutdownDone, Idle
  <2>3. Good(t) /\ Kept(Now, t) /\ (Dead(Now) => SameEnough(Now, t))
    BY <1>2, <1>3, AfterShutdownGood
  <2> HIDE DEF t
  <2>4. QED  BY <1>5, <2>2, <2>3
<1>13. ASSUME AnyLookupDone  PROVE Proceeds(Now, Now')
  <2>1. PICK h \in lookups, err \in BOOLEAN, ok \in BOOLEAN :
               LookupDone(h, err, ok)
    BY <1>13 DEF AnyLookupDone
  <2> DEFINE t == AfterLookup(Now, h, err, ok)
  <2>2. GoTo(t) /\ Now.draining = 0
    BY <1>3, <2>1 DEF LookupDone, Idle
  <2>3. Good(t) /\ Kept(Now, t) /\ (Dead(Now) => SameEnough(Now, t))
    BY <1>2, <1>3, AfterLookupGood
  <2> HIDE DEF t
  <2>4. QED  BY <1>5, <2>2, <2>3
<1>14. ASSUME FireNextTick  PROVE Proceeds(Now, Now')
  <2> DEFINE x == crossed \/ ~Cancelled
             k == ~Cancelled
             t == [Now EXCEPT !.draining = Len(ticks), !.crossed = x]
  <2>1. Now.ticks # <<>> /\ Now.draining = 0
    BY <1>3, <1>14 DEF FireNextTick, Idle
  <2>2. GoTo(t)
    BY <1>3, <1>14 DEF FireNextTick
  <2>3. k \in BOOLEAN
    OBVIOUS
  <2>4. ~k => connects \cup shutdowns \cup {w.h : w \in writes}
                \subseteq {handle}
    BY DEF Cancelled
  <2>5. t = [Now EXCEPT !.draining = Len(Now.ticks),
                        !.crossed = Now.crossed \/ k]
    BY <1>3
  <2> HIDE DEF k, t
  <2>6. Proceeds(Now, t)
    BY <1>3, <2>1, <2>3, <2>4, <2>5, FireProceeds
  <2>7. QED  BY <2>2, <2>6, GoToProceeds
<1>15. ASSUME AnyNextTickCallback  PROVE Proceeds(Now, Now')
  <2>1. PICK c \in Reactions : NextTickCallback(c)
    BY <1>15 DEF AnyNextTickCallback
  <2> DEFINE t == RunTick(Popped(Now), Head(Now.ticks), c)
  <2>2. Now.draining # 0 /\ GoTo(t)
    BY <1>3, <2>1 DEF NextTickCallback, Idle, Popped
  <2>3. Proceeds(Now, t)
    BY <1>1, <2>2, TickProceeds
  <2> HIDE DEF t
  <2>4. QED  BY <2>2, <2>3, GoToProceeds
<1>16. QED
  BY <1>6, <1>7, <1>8, <1>9, <1>10, <1>11, <1>12, <1>13, <1>14, <1>15
  DEF Next

LEMMA AlwaysSound ==
  ASSUME Orderly
  PROVE  Spec => []Sound(Now)
<1>1. Sound(Now) /\ [Next]_vars => Sound(Now)'
  <2> SUFFICES ASSUME Sound(Now), [Next]_vars PROVE Sound(Now)'
    OBVIOUS
  <2>1. CASE Next
    <3>1. Proceeds(Now, Now')
      BY <2>1, NextProceeds
    <3>2. QED  BY <3>1 DEF Proceeds
  <2>2. CASE UNCHANGED vars
    <3>1. Now' = Now
      BY <2>2 DEF vars, Now
    <3>2. QED  BY <3>1
  <2>3. QED  BY <2>1, <2>2
<1>2. QED  BY <1>1, InitSound, PTL DEF Spec

-----------------------------------------------------------------------------
(* The theorems.  Their hypothesis is about the application alone: it      *)
(* connects the socket again only when the last connection has settled,    *)
(* and does not call resume() after the end of the stream.                 *)

(* No assertion of socket.h fails, and pendingWriteReqs_ counts the writes *)
(* that libuv has not answered, until the socket is destroyed.             *)
THEOREM PendingIsRight ==
  ASSUME Orderly
  PROVE  Spec => []PendingMatches
<1>1. Sound(Now) => PendingMatches
  <2> SUFFICES ASSUME Sound(Now) PROVE PendingMatches
    OBVIOUS
  <2>1. Now.broken = broken /\ Now.flags = flags /\ Now.handle = handle
        /\ Now.writes = writes /\ Now.pending = pending
    BY DEF Now
  <2>2. broken = {}
    BY <2>1 DEF Sound, Good
  <2>3. ASSUME "DESTROYED" \notin flags
        PROVE  pending = Cardinality({w \in writes : w.h = handle})
    <3>1. Matched(Now)
      BY <2>1, <2>3 DEF Sound, Good, Live, Dead
    <3>2. \A w \in writes : w.h = handle
      BY <2>1, <3>1 DEF Matched
    <3>3. {w \in writes : w.h = handle} = writes
      BY <3>2
    <3>4. QED  BY <2>1, <3>1, <3>3 DEF Matched
  <2>4. QED  BY <2>2, <2>3 DEF PendingMatches, AssertionsHold
<1>2. QED  BY <1>1, AlwaysSound, PTL

CountIn(q, t) == Cardinality({i \in DOMAIN q : q[i] = t})

LEMMA Counts ==
  /\ \A t : CountIn(<<>>, t) = 0
  /\ \A x, t : CountIn(<<x>>, t) = IF t = x THEN 1 ELSE 0
  /\ \A x, y, t : x # y => CountIn(<<x, y>>, t) = IF t \in {x, y} THEN 1 ELSE 0
<1>1. ASSUME NEW t  PROVE CountIn(<<>>, t) = 0
  <2>1. {i \in DOMAIN <<>> : <<>>[i] = t} = {}
    OBVIOUS
  <2>2. QED  BY <2>1, FS_EmptySet DEF CountIn
<1>2. ASSUME NEW x, NEW t
      PROVE  CountIn(<<x>>, t) = IF t = x THEN 1 ELSE 0
  <2> DEFINE q == <<x>>
             I == {i \in DOMAIN q : q[i] = t}
  <2>1. DOMAIN q = {1} /\ q[1] = x
    OBVIOUS
  <2> HIDE DEF q
  <2>2. I = IF t = x THEN {1} ELSE {}
    BY <2>1
  <2>3. Cardinality(I) = IF t = x THEN 1 ELSE 0
    BY <2>2, FS_EmptySet, FS_Singleton
  <2>4. QED  BY <2>3 DEF CountIn, q
<1>3. ASSUME NEW x, NEW y, NEW t, x # y
      PROVE  CountIn(<<x, y>>, t) = IF t \in {x, y} THEN 1 ELSE 0
  <2> DEFINE q == <<x, y>>
             I == {i \in DOMAIN q : q[i] = t}
  <2>1. DOMAIN q = {1, 2} /\ q[1] = x /\ q[2] = y
    OBVIOUS
  <2> HIDE DEF q
  <2>2. I = IF t = x THEN {1} ELSE IF t = y THEN {2} ELSE {}
    BY <1>3, <2>1
  <2>3. Cardinality(I) = IF t \in {x, y} THEN 1 ELSE 0
    BY <2>2, FS_EmptySet, FS_Singleton
  <2>4. QED  BY <2>3 DEF CountIn, q
<1>4. QED  BY <1>1, <1>2, <1>3

(* A connection is destroyed once and announces it by one 'close'; 'error' *)
(* is heard at most once, and before 'close'.                              *)
THEOREM ClosesOnce ==
  ASSUME Orderly
  PROVE  Spec => []CloseOnceAfterError
<1> DEFINE C == "EmitClose"
           E == "EmitError"
           D == "EmitErrorAndDestroy"
<1>1. Sound(Now) => CloseOnceAfterError
  <2> SUFFICES ASSUME Sound(Now) PROVE CloseOnceAfterError
    OBVIOUS
  <2> DEFINE s == Now
             k(t) == CountIn(s.ticks, t)
             inOrder == \A i, j \in DOMAIN s.ticks :
                          s.ticks[i] = C /\ s.ticks[j] # C => j < i
  <2>1. /\ s.ticks = ticks /\ s.heard = heard /\ s.destroys = destroys
        /\ Good(s) /\ heard["close"] \in Nat /\ heard["error"] \in Nat
    <3>1. s.ticks = ticks /\ s.heard = heard /\ s.destroys = destroys
      BY DEF Now
    <3>2. QED  BY <3>1, GoodTypes DEF Sound
  <2>2. \A t : Count(t) = k(t)
    BY <2>1 DEF Count, CountIn
  <2> HIDE DEF s
  <2>3. CASE s.ticks = <<>>
    <3>1. k(C) = 0 /\ k(E) = 0 /\ k(D) = 0 /\ inOrder
      BY <2>3, Counts
    <3>2. ~ErrorQueued(s)
      BY <2>3, ErrorForms
    <3>3. destroys = heard["close"] /\ destroys <= 1 /\ heard["error"] <= 1
      BY <2>1, <2>3, <3>2
      DEF Good, Announced, Live, Unannounced, Errors
    <3>4. QED  BY <2>1, <2>2, <3>1, <3>3 DEF CloseOnceAfterError
  <2>4. CASE s.ticks = <<C>>
    <3>1. k(C) = 1 /\ k(E) = 0 /\ k(D) = 0
      BY <2>4, Counts
    <3>2. inOrder
      BY <2>4
    <3>3. ~ErrorQueued(s) /\ s.ticks # <<>>
      BY <2>4, ErrorForms, Different
    <3>4. Dead(s)
      BY <2>1, <2>4, <3>3, Different DEF Good, Live, Unannounced
    <3>5. destroys = 1 /\ heard["close"] = 0 /\ heard["error"] <= 1
      BY <2>1, <3>3, <3>4 DEF Good, Announced, Errors
    <3>6. QED  BY <2>1, <2>2, <3>1, <3>2, <3>5 DEF CloseOnceAfterError
  <2>5. CASE s.ticks = <<D>>
    <3>1. k(C) = 0 /\ k(E) = 0 /\ k(D) = 1
      BY <2>5, Counts
    <3>2. inOrder
      BY <2>5
    <3>3. ErrorQueued(s) /\ s.ticks # <<>>
      BY <2>5, ErrorForms, Different
    <3>4. ~Dead(s)
      BY <2>1, <2>5, <3>3, Different DEF Good, Announced
    <3>5. destroys = 0 /\ heard["close"] = 0 /\ heard["error"] = 0
      BY <2>1, <3>3, <3>4 DEF Good, Live, Unannounced, Errors
    <3>6. QED  BY <2>1, <2>2, <3>1, <3>2, <3>5 DEF CloseOnceAfterError
  <2>6. ASSUME NEW x \in {E, D}, s.ticks = <<x, C>>
        PROVE  CloseOnceAfterError
    <3>1. k(C) = 1 /\ k(E) + k(D) = 1
      BY <2>6, Counts
    <3>2. inOrder
      <4>1. DOMAIN s.ticks = {1, 2} /\ s.ticks[1] = x /\ s.ticks[2] = C
        BY <2>6
      <4>2. QED  BY <4>1
    <3>3. ErrorQueued(s) /\ s.ticks # <<>>
      BY <2>6, ErrorForms, Different
    <3>4. Dead(s)
      BY <2>1, <2>6, <3>3, Different DEF Good, Live, Unannounced
    <3>5. destroys = 1 /\ heard["close"] = 0 /\ heard["error"] = 0
      BY <2>1, <3>3, <3>4 DEF Good, Announced, Errors
    <3>6. k(E) \in Nat /\ k(D) \in Nat
      BY <2>6, Counts
    <3> HIDE DEF k
    <3>7. QED
      BY <2>1, <2>2, <3>1, <3>2, <3>5, <3>6 DEF CloseOnceAfterError
  <2>7. s.ticks \in {<<>>, <<C>>, <<D>>, <<E, C>>, <<D, C>>}
    BY <2>1 DEF Good, Announced, Live, Unannounced
  <2>8. QED  BY <2>3, <2>4, <2>5, <2>6, <2>7
<1>2. QED  BY <1>1, AlwaysSound, PTL

(* Buffers reach libuv in the order of the calls of write(), and until the *)
(* socket is destroyed none is lost.                                       *)
THEOREM WritesKeepOrder ==
  ASSUME Orderly
  PROVE  Spec => []WritesInOrder
<1>1. Sound(Now) => WritesInOrder
  <2> SUFFICES ASSUME Sound(Now) PROVE WritesInOrder
    OBVIOUS
  <2>1. /\ Now.sent = sent /\ Now.connQ = connQ /\ Now.flags = flags
        /\ Now.issued = issued /\ Good(Now) /\ Inv(Now)
        /\ Len(sent) \in Nat /\ Len(connQ) \in Nat /\ issued \in Nat
        /\ DOMAIN sent = 1..Len(sent) /\ DOMAIN connQ = 1..Len(connQ)
    <3>1. /\ Now.sent = sent /\ Now.connQ = connQ /\ Now.flags = flags
          /\ Now.issued = issued
      BY DEF Now
    <3>2. QED  BY <3>1, GoodTypes DEF Sound, Good
  <2>2. \A i, j \in DOMAIN sent : i < j => sent[i] < sent[j]
    BY <2>1 DEF Good, Increasing
  <2>3. CASE "DESTROYED" \in flags
    <3>1. connQ = <<>>
      BY <2>1, <2>3 DEF Inv
    <3>2. DOMAIN connQ = {}
      BY <3>1
    <3>3. QED  BY <2>2, <2>3, <3>2 DEF WritesInOrder
  <2>4. CASE "DESTROYED" \notin flags
    <3>1. Live(Now)
      BY <2>1, <2>4 DEF Good, Dead
    <3>2. /\ Len(connQ) + Len(sent) = issued
          /\ \A i \in DOMAIN connQ : connQ[i].id = i
          /\ \A j \in DOMAIN sent : sent[j] = Len(connQ) + j
      BY <2>1, <3>1 DEF Live, Queued
    <3>3. "CONNECTING" \notin flags =>
            \A i \in DOMAIN connQ : connQ[i].size = 0
      BY <2>1, <3>1 DEF Live, LiveSettled, Connecting
    <3>4. "CONNECTING" \in flags => DOMAIN sent = {}
      <4>1. "CONNECTING" \in flags => sent = <<>>
        BY <2>1, <3>1 DEF Live, LiveConnecting, Connecting
      <4>2. QED  BY <4>1
    <3>5. \A i \in DOMAIN connQ, j \in DOMAIN sent :
            connQ[i].size > 0 => sent[j] < connQ[i].id
      BY <3>3, <3>4
    <3>6. ASSUME NEW n \in 1..issued
          PROVE  \/ \E i \in DOMAIN sent : sent[i] = n
                 \/ \E i \in DOMAIN connQ : connQ[i].id = n
      <4>1. CASE n <= Len(connQ)
        BY <2>1, <3>2, <4>1
      <4>2. CASE n > Len(connQ)
        <5>1. n - Len(connQ) \in 1..Len(sent)
          BY <2>1, <3>2, <4>2
        <5>2. sent[n - Len(connQ)] = n
          BY <2>1, <3>2, <5>1
        <5>3. QED  BY <2>1, <5>1, <5>2
      <4>3. QED  BY <2>1, <4>1, <4>2
    <3>7. QED  BY <2>2, <2>4, <3>3, <3>5, <3>6 DEF WritesInOrder
  <2>5. QED  BY <2>3, <2>4
<1>2. QED  BY <1>1, AlwaysSound, PTL

(* When nobody holds the Socket of a first connection any more, neither    *)
(* libuv nor nextTick holds a callback that would use it, unless the timer *)
(* of another user of nextTick has come between uv_close and what it calls *)
(* back.                                                                   *)
THEOREM FreedIsUnused ==
  ASSUME Orderly
  PROVE  Spec => []NoUseAfterFree
<1>1. Sound(Now) => NoUseAfterFree
  <2> SUFFICES ASSUME Sound(Now), ~selfRef, opened <= 1, ~crossed
               PROVE  connects = {} /\ writes = {} /\ shutdowns = {}
                      /\ ticks = <<>> /\ ~reading
    BY DEF NoUseAfterFree
  <2>1. /\ Now.selfRef = selfRef /\ Now.opened = opened
        /\ Now.crossed = crossed /\ Now.ticks = ticks
        /\ Now.connects = connects /\ Now.writes = writes
        /\ Now.shutdowns = shutdowns /\ Now.reading = reading
    BY DEF Now
  <2>2. Dead(Now) /\ ticks = <<>> /\ NoRequests(Now)
    BY <2>1 DEF Sound, Turns
  <2>3. ~reading
    BY <2>1, <2>2 DEF Sound, Good, Inv, Dead
  <2>4. QED  BY <2>1, <2>2, <2>3 DEF NoRequests
<1>2. QED  BY <1>1, AlwaysSound, PTL

(* The socket implements Connection: it starts open, is destroyed once,    *)
(* announces it by one 'close' after that, and only then may be connected  *)
(* again.  That the 'close' does come is left to TLC.                      *)
THEOREM IsAConnection ==
  ASSUME Orderly
  PROVE  Spec => Promised!Promise
<1> DEFINE life == IF "DESTROYED" \notin flags THEN "open"
                   ELSE IF heard["close"] = 0 THEN "destroyed" ELSE "closed"
<1>1. life = Life(Now) /\ life' = Life(Now')
  BY DEF Life, Dead, Now
<1>2. Init => Promised!Opening
  BY DEF Init, Promised!Opening
<1>3. Sound(Now) /\ [Next]_vars =>
        [Promised!Step]_(life)
  <2> SUFFICES ASSUME Sound(Now), [Next]_vars
               PROVE  Promised!Step \/ UNCHANGED life
    OBVIOUS
  <2>1. CASE Next
    <3>1. Proceeds(Now, Now')
      BY <2>1, NextProceeds
    <3> HIDE DEF life
    <3>2. \/ life' = life
          \/ life = "open" /\ life' = "destroyed"
          \/ life = "destroyed" /\ life' = "closed"
          \/ life = "closed" /\ life' \in {"open", "destroyed"}
      BY <1>1, <3>1 DEF Proceeds
    <3>3. QED
      BY <3>2 DEF life, Promised!Step, Promised!TearDown, Promised!Announce,
                  Promised!Reopen
  <2>2. CASE UNCHANGED vars
    BY <2>2 DEF vars
  <2>3. QED  BY <2>1, <2>2
<1>4. QED  BY <1>2, <1>3, AlwaysSound, PTL DEF Spec, Promised!Promise
=============================================================================
