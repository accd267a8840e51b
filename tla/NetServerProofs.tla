-------------------------- MODULE NetServerProofs --------------------------
(* Proofs about NetServer, for every finite set of clients, every set of   *)
(* calls and every limit: the count of connections is exact and close is   *)
(* the last event heard; for an application that does not listen again     *)
(* after close(), close is emitted only when the server is drained and no  *)
(* assertion fails; and, if it does not close twice either, nothing uses   *)
(* the server once its listeners are gone.  As in NetSocketProofs the      *)
(* invariants are stated on a state, and each operator has a lemma that it *)
(* preserves them.                                                         *)
EXTENDS NetServer, FiniteSetTheorems, TLAPS

LifeN == {"none", "open", "destroyed", "closed"}

State ==
  [handle: BOOLEAN, connections: Nat, maxConnections: Limits \cup {0},
   listening: BOOLEAN, selfRef: BOOLEAN, held: BOOLEAN,
   life: [Clients -> LifeN], ticks: Seq(Tick), draining: Nat,
   listens: Nat, closings: Nat, heard: [Event -> Nat],
   broken: SUBSET Assertion]

LiveIn(f) == {i \in Clients : f[i] \in {"open", "destroyed"}}

NoRelisten == \A c \in Calls : c.op # "relisten"

(* The server is closed and has no connection left. *)
Quiet(s) == s.closings > 0 /\ ~s.handle /\ s.connections = 0

(* A socket's tick is there once, while the socket is destroyed. *)
TicksMatch(s) ==
  /\ \A k \in DOMAIN s.ticks :
       s.ticks[k].of # "server" => s.life[s.ticks[k].of] = "destroyed"
  /\ \A j, k \in DOMAIN s.ticks :
       s.ticks[j].of = s.ticks[k].of /\ s.ticks[j].of # "server" => j = k

ClosesWhenQuiet(s) ==
  /\ s.closings > 0 => ~s.handle
  /\ s.connections # 0 /\ s.closings = 0 => s.handle
  /\ \A k \in DOMAIN s.ticks :
       s.ticks[k] = ServerTick("EmitClose") => Quiet(s)
  /\ s.broken = {}

(* The inductive invariant, on a state. *)
Inv(s) ==
  /\ s \in State
  /\ s.draining <= Len(s.ticks)
  /\ s.connections = Cardinality(LiveIn(s.life))
  /\ TicksMatch(s)
  /\ NoRelisten => ClosesWhenQuiet(s)

-----------------------------------------------------------------------------
LEMMA TickTypes ==
  /\ \A do \in OwnTick : ServerTick(do) \in Tick
  /\ \A i \in Clients : [of |-> i] \in Tick
BY DEF ServerTick, Tick, OwnTick

LEMMA MoreTicks ==
  ASSUME NEW q \in Seq(Tick), NEW r \in Tick
  PROVE  /\ Append(q, r) \in Seq(Tick)
         /\ Len(q) \in Nat
         /\ Len(Append(q, r)) = Len(q) + 1
         /\ Append(q, r)[Len(q) + 1] = r
         /\ \A k \in DOMAIN q : k \in Nat /\ k <= Len(q) /\ Append(q, r)[k] = q[k]
         /\ \A k \in DOMAIN Append(q, r) : k \in DOMAIN q \/ k = Len(q) + 1
OBVIOUS

LEMMA LiveFinite ==
  ASSUME NEW f
  PROVE  IsFiniteSet(LiveIn(f)) /\ Cardinality(LiveIn(f)) \in Nat
<1>1. LiveIn(f) \subseteq Clients
  BY DEF LiveIn
<1>2. QED  BY <1>1, ClientsAssumption, FS_Subset, FS_CardinalityType

(* A tick of the server itself; for EmitClose it has to be drained. *)
LEMMA NextTickInv ==
  ASSUME NEW s, Inv(s), NEW do \in OwnTick,
         NoRelisten /\ do = "EmitClose" => Quiet(s)
  PROVE  Inv(NextTick(s, do))
<1> DEFINE r == ServerTick(do)
           q == Append(s.ticks, r)
           t == [s EXCEPT !.ticks = q]
<1>1. s \in State /\ s.ticks \in Seq(Tick) /\ s.draining \in Nat
  BY DEF Inv, State
<1>2. r \in Tick /\ r.of = "server"
  BY TickTypes DEF ServerTick
<1>3. /\ q \in Seq(Tick) /\ Len(s.ticks) \in Nat /\ Len(q) = Len(s.ticks) + 1
      /\ q[Len(s.ticks) + 1] = r
      /\ \A k \in DOMAIN s.ticks : k \in Nat /\ k <= Len(s.ticks) /\ q[k] = s.ticks[k]
      /\ \A k \in DOMAIN q : k \in DOMAIN s.ticks \/ k = Len(s.ticks) + 1
  BY <1>1, <1>2, MoreTicks
<1> HIDE DEF q
<1>4. t \in State
  BY <1>1, <1>3 DEF State
<1>5. /\ t.ticks = q /\ t.draining = s.draining /\ t.life = s.life
      /\ t.connections = s.connections /\ t.closings = s.closings
      /\ t.handle = s.handle /\ t.broken = s.broken
  BY <1>1 DEF State
<1> HIDE DEF t
<1>6. TicksMatch(t)
  BY <1>2, <1>3, <1>5, SMTT(40) DEF Inv, TicksMatch
<1>7. ASSUME NoRelisten  PROVE ClosesWhenQuiet(t)
  <2>1. Quiet(s) <=> Quiet(t)
    BY <1>5 DEF Quiet
  <2>2. r = ServerTick("EmitClose") => do = "EmitClose"
    BY DEF ServerTick
  <2>3. QED  BY <1>3, <1>5, <1>7, <2>1, <2>2 DEF Inv, ClosesWhenQuiet
<1>8. t.draining <= Len(t.ticks)
  BY <1>1, <1>3, <1>5 DEF Inv
<1>9. Inv(t)
  BY <1>4, <1>5, <1>6, <1>7, <1>8 DEF Inv
<1>10. QED  BY <1>9 DEF NextTick, t, q

(* A step that leaves alone what the invariant speaks of. *)
LEMMA SameInv ==
  ASSUME NEW s, Inv(s), NEW t \in State,
         t.draining = s.draining, t.ticks = s.ticks, t.life = s.life,
         t.connections = s.connections, t.closings = s.closings,
         t.handle = s.handle, t.broken = s.broken
  PROVE  Inv(t)
BY DEF Inv, TicksMatch, ClosesWhenQuiet, Quiet

LEMMA RemoveAllListenersInv ==
  ASSUME NEW s, Inv(s)
  PROVE  Inv(RemoveAllListeners(s))
<1>1. RemoveAllListeners(s) \in State
  BY DEF Inv, State, RemoveAllListeners
<1>2. QED  BY <1>1, SameInv DEF Inv, State, RemoveAllListeners

LEMMA HearInv ==
  ASSUME NEW s, Inv(s), NEW ev \in Event
  PROVE  /\ Inv(Hear(s, ev))
         /\ Hear(s, ev).closings = s.closings /\ Hear(s, ev).handle = s.handle
         /\ Hear(s, ev).connections = s.connections
<1> DEFINE g == [s.heard EXCEPT ![ev] = @ + 1]
           t == [s EXCEPT !.heard = g]
<1>1. s \in State /\ g \in [Event -> Nat]
  BY DEF Inv, State
<1>2. [s EXCEPT !.heard[ev] = @ + 1] = t
  OBVIOUS
<1> HIDE DEF g
<1>3. t \in State
  BY <1>1 DEF State
<1>4. /\ t.draining = s.draining /\ t.ticks = s.ticks /\ t.life = s.life
      /\ t.connections = s.connections /\ t.closings = s.closings
      /\ t.handle = s.handle /\ t.broken = s.broken
  BY <1>1 DEF State
<1>5. Inv(t)
  BY <1>3, <1>4, SameInv
<1>6. QED  BY <1>2, <1>4, <1>5 DEF Hear

LEMMA EmitCloseIfDrainedInv ==
  ASSUME NEW s, Inv(s), NoRelisten /\ ~s.handle => s.closings > 0
  PROVE  Inv(EmitCloseIfDrained(s))
<1>1. ASSUME ~s.handle, s.connections = 0  PROVE Inv(NextTick(s, "EmitClose"))
  <2>1. NoRelisten => Quiet(s)
    BY <1>1 DEF Quiet
  <2>2. QED  BY <2>1, NextTickInv DEF OwnTick
<1>2. QED  BY <1>1 DEF EmitCloseIfDrained

LEMMA ListenInv ==
  ASSUME NEW s, Inv(s), NEW result \in Results, NoRelisten => s.closings = 0
  PROVE  Inv(Listen(s, result))
<1> DEFINE t == [s EXCEPT !.listens = @ + 1]
           u == [t EXCEPT !.handle = TRUE]
<1>1. s \in State /\ s.listens + 1 \in Nat
  BY DEF Inv, State
<1>2. Inv(t) /\ t.closings = s.closings /\ t.handle = s.handle
  <2>1. t \in State
    BY <1>1 DEF State
  <2>2. QED  BY <1>1, <2>1, SameInv DEF State
<1> HIDE DEF t
<1>3. Inv(u)
  <2>1. u \in State /\ t \in State
    BY <1>2 DEF Inv, State
  <2>2. /\ u.draining = t.draining /\ u.ticks = t.ticks /\ u.life = t.life
        /\ u.connections = t.connections /\ u.closings = t.closings
        /\ u.handle /\ u.broken = t.broken
    BY <2>1 DEF State
  <2>3. u.closings \in Nat
    BY <2>1 DEF State
  <2> HIDE DEF u
  <2>4. ASSUME NoRelisten  PROVE ClosesWhenQuiet(u)
    <3>1. u.closings = 0 /\ t.closings = 0
      BY <1>2, <2>2, <2>4
    <3>2. ~Quiet(t)
      BY <3>1 DEF Quiet
    <3>3. QED  BY <1>2, <2>2, <2>4, <3>1, <3>2 DEF Inv, ClosesWhenQuiet
  <2>5. QED  BY <1>2, <2>1, <2>2, <2>4 DEF Inv, TicksMatch
<1> HIDE DEF u
<1>4. Inv(Hear(t, "error"))
  BY <1>2, HearInv DEF Event
<1>5. Inv(NextTick(t, "EmitError")) /\ Inv(NextTick(u, "EmitListening"))
  BY <1>2, <1>3, NextTickInv DEF OwnTick
<1>6. Listen(s, result) \in {t, Hear(t, "error"), NextTick(t, "EmitError"),
                             NextTick(u, "EmitListening")}
  BY DEF Listen, Results, t, u
<1>7. QED  BY <1>2, <1>4, <1>5, <1>6

LEMMA CloseInv ==
  ASSUME NEW s, Inv(s)
  PROVE  Inv(Close(s))
<1> DEFINE t == [s EXCEPT !.handle = FALSE, !.closings = @ + 1]
<1>1. s \in State /\ s.closings \in Nat
  BY DEF Inv, State
<1>2. t \in State
  <2>1. s.closings + 1 \in Nat
    BY <1>1
  <2>2. QED  BY <1>1, <2>1 DEF State
<1>3. /\ t.draining = s.draining /\ t.ticks = s.ticks /\ t.life = s.life
      /\ t.connections = s.connections /\ t.closings = s.closings + 1
      /\ ~t.handle /\ t.broken = s.broken /\ t.closings > 0 /\ t.closings # 0
  BY <1>1 DEF State
<1> HIDE DEF t
<1>4. NoRelisten => ClosesWhenQuiet(t)
  BY <1>3 DEF Inv, ClosesWhenQuiet, Quiet
<1>5. Inv(t)
  BY <1>2, <1>3, <1>4 DEF Inv, TicksMatch
<1>6. Inv(EmitCloseIfDrained(t))
  BY <1>3, <1>5, EmitCloseIfDrainedInv
<1>7. QED  BY <1>6, RemoveAllListenersInv DEF Close, t

LEMMA DestroySocketInv ==
  ASSUME NEW s, Inv(s), NEW i \in Clients
  PROVE  Inv(DestroySocket(s, i))
<1> DEFINE f == [s.life EXCEPT ![i] = "destroyed"]
           r == [of |-> i]
           q == Append(s.ticks, r)
           t == [s EXCEPT !.life = f, !.ticks = q]
<1>1. /\ s \in State /\ s.ticks \in Seq(Tick) /\ s.draining \in Nat
      /\ s.life \in [Clients -> LifeN]
  BY DEF Inv, State
<1>2. r \in Tick /\ r.of = i /\ i # "server"
  BY TickTypes, ClientsAssumption
<1>3. /\ q \in Seq(Tick) /\ Len(s.ticks) \in Nat /\ Len(q) = Len(s.ticks) + 1
      /\ q[Len(s.ticks) + 1] = r
      /\ \A k \in DOMAIN s.ticks : k \in Nat /\ k <= Len(s.ticks) /\ q[k] = s.ticks[k]
      /\ \A k \in DOMAIN q : k \in DOMAIN s.ticks \/ k = Len(s.ticks) + 1
  BY <1>1, <1>2, MoreTicks
<1>4. f \in [Clients -> LifeN] /\ f[i] = "destroyed"
      /\ \A j \in Clients : j # i => f[j] = s.life[j]
  BY <1>1 DEF LifeN
<1>5. DestroySocket(s, i) = IF s.life[i] # "open" THEN s ELSE t
  BY DEF DestroySocket
<1> HIDE DEF q, f, r
<1>6. t \in State
  <2>1. s \in State /\ f \in [Clients -> LifeN] /\ q \in Seq(Tick)
    BY <1>1, <1>3, <1>4
  <2>2. QED  BY <2>1 DEF State
<1>7. /\ t.draining = s.draining /\ t.ticks = q /\ t.life = f
      /\ t.connections = s.connections /\ t.closings = s.closings
      /\ t.handle = s.handle /\ t.broken = s.broken
  BY <1>1 DEF State
<1> HIDE DEF t
<1>8. ASSUME s.life[i] = "open"  PROVE Inv(t)
  <2>1. LiveIn(f) = LiveIn(s.life)
    BY <1>4, <1>8 DEF LiveIn
  <2>2. \A k \in DOMAIN s.ticks : s.ticks[k].of # i
    BY <1>2, <1>8 DEF Inv, TicksMatch
  <2>3. \A k \in DOMAIN s.ticks :
           s.ticks[k].of # "server" => s.ticks[k].of \in Clients
    <3>1. \A k \in DOMAIN s.ticks : s.ticks[k] \in Tick
      BY <1>1
    <3>2. QED  BY <3>1 DEF Tick
  <2>4. TicksMatch(t)
    BY <1>2, <1>3, <1>4, <1>7, <2>2, <2>3, SMTT(40) DEF Inv, TicksMatch
  <2>5. NoRelisten => ClosesWhenQuiet(t)
    <3>1. r # ServerTick("EmitClose")
      BY <1>2 DEF ServerTick
    <3>2. QED  BY <1>3, <1>7, <3>1 DEF Inv, ClosesWhenQuiet, Quiet
  <2>6. t.draining <= Len(t.ticks)
    BY <1>1, <1>3, <1>7 DEF Inv
  <2>7. QED  BY <1>6, <1>7, <2>1, <2>4, <2>5, <2>6 DEF Inv
<1>9. QED  BY <1>5, <1>8

LEMMA PerformInv ==
  ASSUME NEW s, Inv(s), NEW c \in Calls \cup {NoCall}, Permitted(s, c)
  PROVE  Inv(Perform(s, c))
<1>0. c \in AllCalls \cup {NoCall} /\ (c \in Calls \/ c = NoCall)
  BY CallsAssumption
<1>1. CASE c.op \in {"listen", "relisten"}
  <2>1. c \in Calls /\ c.result \in Results
    BY <1>0, <1>1 DEF AllCalls, NoCall
  <2>2. NoRelisten => s.closings = 0
    BY <1>1, <2>1 DEF NoRelisten, Permitted
  <2>3. Inv(Listen(s, c.result))
    BY <2>1, <2>2, ListenInv
  <2>4. QED  BY <1>1, <2>3 DEF Perform
<1>2. CASE c.op \in {"close", "closeIdle"}
  BY <1>2, CloseInv DEF Perform
<1>3. CASE c.op = "setMaxConnections"
  <2> DEFINE t == [s EXCEPT !.maxConnections = c.max]
  <2>1. c.max \in Limits
    BY <1>0, <1>3 DEF AllCalls, NoCall
  <2>2. t \in State
    BY <2>1 DEF Inv, State
  <2>3. Inv(t)
    BY <2>2, SameInv DEF Inv, State
  <2>4. QED  BY <1>3, <2>3 DEF Perform
<1>4. CASE c.op = "destroy"
  <2>1. c.client \in Clients
    BY <1>0, <1>4 DEF AllCalls, NoCall
  <2>2. QED  BY <1>4, <2>1, DestroySocketInv DEF Perform
<1>5. CASE c.op = "release"
  <2> DEFINE t == [s EXCEPT !.held = FALSE]
  <2>1. t \in State
    BY DEF Inv, State
  <2>2. Inv(t)
    BY <2>1, SameInv DEF Inv, State
  <2>3. QED  BY <1>5, <2>2 DEF Perform
<1>6. CASE c.op = "none"
  BY <1>6 DEF Perform
<1>7. QED
  BY <1>0, <1>1, <1>2, <1>3, <1>4, <1>5, <1>6 DEF AllCalls, NoCall

(* Whatever a listener calls, a closed and drained server stays so. *)
LEMMA PerformQuiet ==
  ASSUME NEW s, Inv(s), NEW c \in Calls \cup {NoCall}, Permitted(s, c),
         NoRelisten, Quiet(s)
  PROVE  Quiet(Perform(s, c))
<1>0. c \in AllCalls \cup {NoCall} /\ c.op # "relisten" /\ s \in State
  BY CallsAssumption DEF NoRelisten, NoCall, Inv
<1>1. c.op # "listen"
  BY DEF Permitted, Quiet, Inv, State
<1>2. Perform(s, c) = s \/ Perform(s, c) = RemoveAllListeners(s)
      \/ (\E f \in {c.max} : Perform(s, c) = [s EXCEPT !.maxConnections = f])
      \/ Perform(s, c) = DestroySocket(s, c.client)
      \/ Perform(s, c) = [s EXCEPT !.held = FALSE]
  BY <1>0, <1>1 DEF AllCalls, NoCall, Perform, Close, Quiet
<1>3. QED
  BY <1>0, <1>2 DEF Quiet, State, RemoveAllListeners, DestroySocket

LEMMA EmitInv ==
  ASSUME NEW s, Inv(s), NEW ev \in Event, NEW c \in Calls \cup {NoCall}
  PROVE  /\ Inv(Emit(s, ev, c))
         /\ NoRelisten /\ Quiet(s) => Quiet(Emit(s, ev, c))
<1> DEFINE t == Hear(s, ev)
<1>1. Inv(t) /\ (Quiet(s) => Quiet(t))
  BY HearInv DEF Quiet
<1>2. \/ Emit(s, ev, c) = t
      \/ Permitted(t, c) /\ Emit(s, ev, c) = Perform(t, c)
  BY DEF Emit
<1> HIDE DEF t
<1>3. QED  BY <1>1, <1>2, PerformInv, PerformQuiet

(* A connection is accepted and counted. *)
LEMMA AcceptedInv ==
  ASSUME NEW s, Inv(s), s.handle, NEW i \in Clients, s.life[i] = "none"
  PROVE  Inv([s EXCEPT !.connections = @ + 1, !.life[i] = "open"])
<1> DEFINE f == [s.life EXCEPT ![i] = "open"]
           t == [s EXCEPT !.connections = @ + 1, !.life = f]
<1>1. s \in State /\ s.life \in [Clients -> LifeN] /\ s.connections \in Nat
  BY DEF Inv, State
<1>2. f \in [Clients -> LifeN] /\ f[i] = "open"
      /\ \A j \in Clients : j # i => f[j] = s.life[j]
  BY <1>1 DEF LifeN
<1>3. t = [s EXCEPT !.connections = @ + 1, !.life[i] = "open"]
  OBVIOUS
<1> HIDE DEF f
<1>4. t \in State
  <2>1. s \in State /\ f \in [Clients -> LifeN] /\ s.connections + 1 \in Nat
    BY <1>1, <1>2
  <2>2. QED  BY <2>1 DEF State
<1>5. /\ t.draining = s.draining /\ t.ticks = s.ticks /\ t.life = f
      /\ t.connections = s.connections + 1 /\ t.closings = s.closings
      /\ t.handle = s.handle /\ t.broken = s.broken
  BY <1>1 DEF State
<1>6. t.connections = Cardinality(LiveIn(f))
  <2>1. LiveIn(f) = LiveIn(s.life) \cup {i} /\ i \notin LiveIn(s.life)
    BY <1>2 DEF LiveIn
  <2>2. IsFiniteSet(LiveIn(s.life))
    BY LiveFinite
  <2>3. Cardinality(LiveIn(f)) = Cardinality(LiveIn(s.life)) + 1
    BY <2>1, <2>2, FS_AddElement
  <2>4. s.connections = Cardinality(LiveIn(s.life))
    BY DEF Inv
  <2> HIDE DEF t
  <2>5. QED  BY <1>5, <2>3, <2>4
<1> HIDE DEF t
<1>7. TicksMatch(t)
  <2>1. \A k \in DOMAIN s.ticks :
          s.ticks[k].of # "server" => s.ticks[k].of \in Clients
    <3>1. \A k \in DOMAIN s.ticks : s.ticks[k] \in Tick
      BY <1>1 DEF State
    <3>2. QED  BY <3>1 DEF Tick
  <2>2. \A k \in DOMAIN s.ticks :
          s.ticks[k].of # "server" => s.ticks[k].of # i
    BY DEF Inv, TicksMatch
  <2>3. QED  BY <1>2, <1>5, <2>1, <2>2 DEF Inv, TicksMatch
<1>8. NoRelisten => ClosesWhenQuiet(t)
  BY <1>5 DEF Inv, ClosesWhenQuiet, Quiet
<1>9. Inv(t)
  BY <1>4, <1>5, <1>6, <1>7, <1>8 DEF Inv
<1>10. QED  BY <1>3, <1>9 DEF t

LEMMA AcceptInv ==
  ASSUME NEW s, Inv(s), s.handle, NEW i \in Clients, s.life[i] = "none",
         NEW c \in Calls \cup {NoCall}
  PROVE  Inv(Accept(s, i, c))
BY AcceptedInv, EmitInv DEF Accept, Event

(* i is the destroyed socket whose tick has just been taken. *)
LEMMA SocketClosedInv ==
  ASSUME NEW s, Inv(s), NEW i \in Clients, s.life[i] = "destroyed",
         \A k \in DOMAIN s.ticks : s.ticks[k].of # i
  PROVE  LET t == [[s EXCEPT !.life[i] = "closed"] EXCEPT !.connections = @ - 1]
         IN  s.connections # 0 /\ t \in State /\ Inv(EmitCloseIfDrained(t))
<1> DEFINE f == [s.life EXCEPT ![i] = "closed"]
           t == [s EXCEPT !.life = f, !.connections = @ - 1]
           u == EmitCloseIfDrained(t)
<1>1. s \in State /\ s.life \in [Clients -> LifeN] /\ s.connections \in Nat
  BY DEF Inv, State
<1>2. f \in [Clients -> LifeN] /\ f[i] = "closed"
      /\ \A j \in Clients : j # i => f[j] = s.life[j]
  BY <1>1 DEF LifeN
<1>3. t = [[s EXCEPT !.life[i] = "closed"] EXCEPT !.connections = @ - 1]
  BY <1>1 DEF State
<1> HIDE DEF f
<1>4. LiveIn(f) = LiveIn(s.life) \ {i} /\ i \in LiveIn(s.life)
  BY <1>2 DEF LiveIn
<1>5. s.connections # 0 /\ s.connections - 1 \in Nat
      /\ s.connections - 1 = Cardinality(LiveIn(f))
  <2>1. IsFiniteSet(LiveIn(s.life)) /\ Cardinality(LiveIn(f)) \in Nat
    BY LiveFinite
  <2>2. s.connections = Cardinality(LiveIn(s.life))
    BY DEF Inv
  <2>3. Cardinality(LiveIn(f)) = Cardinality(LiveIn(s.life)) - 1
    BY <1>4, <2>1, FS_RemoveElement, SMTT(40)
  <2>4. QED  BY <1>1, <2>1, <2>2, <2>3
<1>6. t \in State
  <2>1. s \in State /\ f \in [Clients -> LifeN] /\ s.connections - 1 \in Nat
    BY <1>1, <1>2, <1>5
  <2>2. QED  BY <2>1 DEF State
<1>7. /\ t.draining = s.draining /\ t.ticks = s.ticks /\ t.life = f
      /\ t.connections = s.connections - 1 /\ t.closings = s.closings
      /\ t.handle = s.handle /\ t.broken = s.broken
  BY <1>1 DEF State
<1> HIDE DEF t
<1>8. TicksMatch(t)
  <2>1. \A k \in DOMAIN s.ticks :
          s.ticks[k].of # "server" => s.ticks[k].of \in Clients
    <3>1. \A k \in DOMAIN s.ticks : s.ticks[k] \in Tick
      BY <1>1 DEF State
    <3>2. QED  BY <3>1 DEF Tick
  <2>2. QED  BY <1>2, <1>7, <2>1 DEF Inv, TicksMatch
<1>9. ASSUME NoRelisten
      PROVE  ClosesWhenQuiet(t) /\ (~t.handle => t.closings > 0)
  <2>1. ~Quiet(s) /\ (s.closings = 0 => s.handle) /\ s.closings \in Nat
    BY <1>1, <1>5, <1>9 DEF Inv, ClosesWhenQuiet, Quiet, State
  <2>2. QED  BY <1>5, <1>7, <1>9, <2>1 DEF Inv, ClosesWhenQuiet
<1>10. Inv(t)
  BY <1>5, <1>6, <1>7, <1>8, <1>9 DEF Inv
<1>11. Inv(u)
  BY <1>9, <1>10, EmitCloseIfDrainedInv
<1>12. QED  BY <1>3, <1>5, <1>6, <1>11 DEF t

LEMMA SocketClosesInv ==
  ASSUME NEW s, Inv(s), NEW i \in Clients, s.life[i] = "destroyed",
         \A k \in DOMAIN s.ticks : s.ticks[k].of # i,
         NEW c \in Calls \cup {NoCall}
  PROVE  Inv(SocketCloses(s, i, c))
<1> DEFINE u == RemoveConnection([s EXCEPT !.life[i] = "closed"])
<1>1. Inv(u)
  BY SocketClosedInv DEF RemoveConnection
<1>2. QED  BY <1>1, PerformInv DEF SocketCloses


LEMMA AssertHolds ==
  ASSUME NEW s, Inv(s), NEW holds \in BOOLEAN, NEW a \in Assertion,
         NoRelisten => holds
  PROVE  /\ Inv(Assert(s, holds, a))
         /\ Assert(s, holds, a).connections = s.connections
<1> DEFINE t == [s EXCEPT !.broken = @ \cup {a}]
<1>1. s \in State /\ t \in State
  BY DEF Inv, State
<1>2. /\ t.draining = s.draining /\ t.ticks = s.ticks /\ t.life = s.life
      /\ t.connections = s.connections /\ t.closings = s.closings
      /\ t.handle = s.handle
  BY <1>1 DEF State
<1> HIDE DEF t
<1>3. ~NoRelisten => Inv(t)
  BY <1>1, <1>2 DEF Inv, TicksMatch
<1>4. Assert(s, holds, a) = IF holds THEN s ELSE t
  BY DEF Assert, t
<1>5. QED  BY <1>2, <1>3, <1>4

LEMMA OnDestroyInv ==
  ASSUME NEW s, Inv(s), NoRelisten => Quiet(s)
  PROVE  Inv(OnDestroy(s))
<1> DEFINE a == Assert(s, ~s.handle, "OnDestroy: !handle_")
           b == Assert(a, s.connections = 0, "OnDestroy: !connections_")
<1>1. Inv(a)
  <2>1. "OnDestroy: !handle_" \in Assertion /\ (~s.handle) \in BOOLEAN
    BY DEF Assertion
  <2>2. NoRelisten => ~s.handle
    BY DEF Quiet
  <2>3. QED  BY <2>1, <2>2, AssertHolds
<1> HIDE DEF a
<1>2. Inv(b)
  <2>1. "OnDestroy: !connections_" \in Assertion
        /\ (s.connections = 0) \in BOOLEAN
    BY DEF Assertion
  <2>2. NoRelisten => s.connections = 0
    BY DEF Quiet
  <2>3. QED  BY <1>1, <2>1, <2>2, AssertHolds
<1> HIDE DEF b
<1>3. Inv(RemoveAllListeners(b))
  BY <1>2, RemoveAllListenersInv
<1>4. QED  BY <1>3 DEF OnDestroy, a, b

(* s is the state after the tick has been taken from the queue. *)
LEMMA RunTickInv ==
  ASSUME NEW s, Inv(s), NEW r \in Tick, NEW c \in Calls \cup {NoCall},
         r.of # "server" =>
           s.life[r.of] = "destroyed"
           /\ \A k \in DOMAIN s.ticks : s.ticks[k].of # r.of,
         NoRelisten /\ r = ServerTick("EmitClose") => Quiet(s)
  PROVE  Inv(RunTick(s, r, c))
<1>1. CASE r.of # "server"
  <2>1. r.of \in Clients
    BY <1>1 DEF Tick
  <2>2. QED  BY <1>1, <2>1, SocketClosesInv DEF RunTick
<1>2. CASE r.of = "server"
  <2>1. r.do \in OwnTick /\ r = ServerTick(r.do)
    BY <1>2, ClientsAssumption DEF Tick, ServerTick
  <2>2. CASE r.do \in {"EmitListening", "EmitError"}
    <3>1. Inv(Emit(s, "listening", c)) /\ Inv(Emit(s, "error", c))
      BY EmitInv DEF Event
    <3>2. QED  BY <1>2, <2>2, <3>1 DEF RunTick
  <2>3. CASE r.do = "EmitClose"
    <3>1. Inv(Emit(s, "close", c))
          /\ (NoRelisten => Quiet(Emit(s, "close", c)))
      BY <2>1, <2>3, EmitInv DEF Event
    <3>2. Inv(OnDestroy(Emit(s, "close", c)))
      BY <3>1, OnDestroyInv
    <3>3. QED  BY <1>2, <2>3, <3>2 DEF RunTick
  <2>4. QED  BY <2>1, <2>2, <2>3 DEF OwnTick
<1>3. QED  BY <1>1, <1>2

-----------------------------------------------------------------------------
(* From a state to the variables. *)

LEMMA GoToInv ==
  ASSUME NEW t, Inv(t), GoTo(t)
  PROVE  Inv(Now)'
<1>1. t = [handle |-> t.handle, connections |-> t.connections,
           maxConnections |-> t.maxConnections, listening |-> t.listening,
           selfRef |-> t.selfRef, held |-> t.held, life |-> t.life,
           ticks |-> t.ticks, draining |-> t.draining,
           listens |-> t.listens, closings |-> t.closings,
           heard |-> t.heard, broken |-> t.broken]
  BY DEF Inv, State
<1>2. Now' = t
  BY <1>1 DEF GoTo, Now
<1>3. QED
  BY <1>2 DEF Inv, State, LiveIn, TicksMatch, ClosesWhenQuiet, Quiet

LEMMA InitInv == Init => Inv(Now)
<1> SUFFICES ASSUME Init PROVE Inv(Now)
  OBVIOUS
<1> DEFINE f == [i \in Clients |-> "none"]
<1>1. <<>> \in Seq(Tick) /\ [e \in Event |-> 0] \in [Event -> Nat]
      /\ f \in [Clients -> LifeN] /\ LiveIn(f) = {}
  BY DEF LifeN, LiveIn
<1> HIDE DEF f
<1>2. Now \in State
  BY <1>1 DEF Init, Now, State, f
<1>3. Now.ticks = <<>> /\ Now.draining = 0 /\ Now.connections = 0
      /\ Now.life = f /\ Now.closings = 0 /\ Now.broken = {}
  BY DEF Init, Now, f
<1>4. Now.connections = Cardinality(LiveIn(Now.life))
  BY <1>1, <1>3, FS_EmptySet
<1>5. QED
  BY <1>2, <1>3, <1>4 DEF Inv, TicksMatch, ClosesWhenQuiet

(* The tick that NextTickCallback takes, and the state without it. *)
LEMMA Taken ==
  ASSUME Inv(Now), NEW c, NextTickCallback(c)
  PROVE  LET r == Head(ticks)
             t == [Now EXCEPT !.ticks = Tail(@), !.draining = @ - 1]
         IN  /\ Inv(t) /\ r \in Tick
             /\ t.listening = listening /\ t.selfRef = selfRef
             /\ t.handle = handle /\ t.closings = closings
             /\ t.connections = connections /\ t.heard = heard
             /\ 1 \in DOMAIN ticks /\ r = ticks[1]
             /\ \A k \in DOMAIN t.ticks :
                  k + 1 \in DOMAIN ticks /\ k \in Nat /\ 1 <= k
                  /\ t.ticks[k] = ticks[k + 1]
             /\ r.of # "server" =>
                  t.life[r.of] = "destroyed"
                  /\ \A k \in DOMAIN t.ticks : t.ticks[k].of # r.of
             /\ NoRelisten /\ r = ServerTick("EmitClose") => Quiet(t)
<1> DEFINE q == Tail(ticks)
           r == Head(ticks)
           t == [Now EXCEPT !.ticks = q, !.draining = draining - 1]
<1>2. ticks \in Seq(Tick) /\ draining \in Nat /\ draining # 0
      /\ draining <= Len(ticks) /\ Now \in State
  BY DEF NextTickCallback, Idle, Inv, State, Now
<1>3. /\ r \in Tick /\ r = ticks[1] /\ q \in Seq(Tick)
      /\ 1 \in DOMAIN ticks /\ Len(q) = Len(ticks) - 1
      /\ \A k \in DOMAIN q : k + 1 \in DOMAIN ticks /\ k + 1 # 1 /\ k \in Nat
                             /\ 1 <= k /\ q[k] = ticks[k + 1]
  BY <1>2
<1>4. [Now EXCEPT !.ticks = Tail(@), !.draining = @ - 1] = t
  BY DEF Now
<1> HIDE DEF q, r
<1>5. t \in State
  <2>1. draining - 1 \in Nat /\ q \in Seq(Tick) /\ Now \in State
    BY <1>2, <1>3
  <2>2. QED  BY <2>1 DEF State
<1>6. /\ t.ticks = q /\ t.draining = draining - 1
      /\ t.life = Now.life /\ t.connections = Now.connections
      /\ t.closings = Now.closings /\ t.handle = Now.handle
      /\ t.broken = Now.broken /\ t.listening = Now.listening
      /\ t.selfRef = Now.selfRef /\ t.heard = Now.heard
  BY <1>2 DEF State
<1>7. /\ Now.ticks = ticks /\ Now.listening = listening
      /\ Now.selfRef = selfRef /\ Now.handle = handle
      /\ Now.closings = closings /\ Now.connections = connections
      /\ Now.heard = heard
  BY DEF Now
<1> HIDE DEF t
<1>8. TicksMatch(t)
  <2>1. \A j, k \in DOMAIN q : j + 1 = k + 1 => j = k
    BY <1>3
  <2>2. QED  BY <1>3, <1>6, <1>7, <2>1 DEF Inv, TicksMatch
<1>9. NoRelisten => ClosesWhenQuiet(t)
  BY <1>3, <1>6, <1>7 DEF Inv, ClosesWhenQuiet, Quiet
<1>10. Inv(t)
  <2>1. t.draining <= Len(t.ticks)
    BY <1>2, <1>3, <1>6
  <2>2. QED  BY <1>5, <1>6, <1>8, <1>9, <2>1 DEF Inv
<1>11. r.of # "server" =>
         t.life[r.of] = "destroyed"
         /\ \A k \in DOMAIN t.ticks : t.ticks[k].of # r.of
  BY <1>3, <1>6, <1>7 DEF Inv, TicksMatch
<1>12. NoRelisten /\ r = ServerTick("EmitClose") => Quiet(t)
  BY <1>3, <1>6, <1>7 DEF Inv, ClosesWhenQuiet, Quiet
<1>13. QED  BY <1>3, <1>4, <1>6, <1>7, <1>10, <1>11, <1>12 DEF r

LEMMA NextInv == Inv(Now) /\ [Next]_vars => Inv(Now)'
<1> SUFFICES ASSUME Inv(Now), [Next]_vars PROVE Inv(Now)'
  OBVIOUS
<1>1. ASSUME NEW c \in Calls, AppCall(c)  PROVE Inv(Now)'
  <2>1. Inv(Perform(Now, c))
    BY <1>1, PerformInv DEF AppCall
  <2>2. QED  BY <1>1, <2>1, GoToInv DEF AppCall
<1>2. ASSUME NEW i \in Clients, NEW c \in Reactions, OnConnection(i, c)
      PROVE  Inv(Now)'
  <2>1. Now.handle /\ Now.life[i] = "none"
    BY <1>2 DEF OnConnection, Now
  <2>2. Inv(Accept(Now, i, c))
    BY <2>1, AcceptInv DEF Reactions
  <2>3. QED  BY <1>2, <2>2, GoToInv DEF OnConnection
<1>3. ASSUME NEW c \in Reactions, OnConnectionError(c)  PROVE Inv(Now)'
  <2>1. Inv(AcceptFails(Now, c))
    BY EmitInv DEF Reactions, AcceptFails, Event
  <2>2. QED  BY <1>3, <2>1, GoToInv DEF OnConnectionError
<1>4. ASSUME NEW i \in Clients, SocketDies(i)  PROVE Inv(Now)'
  <2>1. Inv(DestroySocket(Now, i))
    BY DestroySocketInv
  <2>2. QED  BY <1>4, <2>1, GoToInv DEF SocketDies
<1>5. ASSUME FireNextTick  PROVE Inv(Now)'
  <2> DEFINE t == [Now EXCEPT !.draining = Len(ticks)]
  <2>1. Now.ticks = ticks /\ Len(ticks) \in Nat /\ Now \in State
    BY DEF Inv, State, Now
  <2>2. t \in State
    BY <2>1 DEF State
  <2>3. /\ t.draining <= Len(t.ticks) /\ t.ticks = Now.ticks
        /\ t.life = Now.life /\ t.connections = Now.connections
        /\ t.closings = Now.closings /\ t.handle = Now.handle
        /\ t.broken = Now.broken
    BY <2>1 DEF State
  <2> HIDE DEF t
  <2>4. Inv(t)
    BY <2>2, <2>3 DEF Inv, TicksMatch, ClosesWhenQuiet, Quiet
  <2>5. QED  BY <1>5, <2>4, GoToInv DEF FireNextTick, t
<1>6. ASSUME AnyNextTickCallback  PROVE Inv(Now)'
  <2>1. PICK c \in Reactions : NextTickCallback(c)
    BY <1>6 DEF AnyNextTickCallback
  <2> DEFINE r == Head(ticks)
             t == [Now EXCEPT !.ticks = Tail(@), !.draining = @ - 1]
  <2>2. /\ Inv(t) /\ r \in Tick
        /\ r.of # "server" =>
             t.life[r.of] = "destroyed"
             /\ \A k \in DOMAIN t.ticks : t.ticks[k].of # r.of
        /\ NoRelisten /\ r = ServerTick("EmitClose") => Quiet(t)
    BY <2>1, Taken
  <2> HIDE DEF t, r
  <2>3. Inv(RunTick(t, r, c))
    BY <2>2, RunTickInv DEF Reactions
  <2>4. QED  BY <2>1, <2>3, GoToInv DEF NextTickCallback, r, t
<1>7. ASSUME UNCHANGED vars  PROVE Inv(Now)'
  <2>1. Now' = Now
    BY <1>7 DEF vars, Now
  <2>2. QED  BY <2>1 DEF Inv, State, LiveIn, TicksMatch, ClosesWhenQuiet, Quiet
<1>8. QED
  BY <1>1, <1>2, <1>3, <1>4, <1>5, <1>6, <1>7 DEF Next

LEMMA Invariance == Spec => []Inv(Now)
<1>1. QED  BY InitInv, NextInv, PTL DEF Spec

LEMMA InvImplies ==
  Inv(Now) =>
    /\ TypeOK /\ ConnectionsMatch
    /\ NoRelisten => CloseOnlyWhenDrained /\ AssertionsHold
<1> SUFFICES ASSUME Inv(Now)
             PROVE  /\ TypeOK /\ ConnectionsMatch
                    /\ NoRelisten => CloseOnlyWhenDrained /\ AssertionsHold
  OBVIOUS
<1>1. TypeOK
  BY DEF Inv, State, Now, TypeOK, LifeN
<1>2. ConnectionsMatch /\ Live = LiveIn(Now.life)
  BY DEF Inv, Now, ConnectionsMatch, LiveIn, Live
<1>3. ASSUME NoRelisten  PROVE CloseOnlyWhenDrained /\ AssertionsHold
  <2>1. AssertionsHold
    BY <1>3 DEF Inv, ClosesWhenQuiet, AssertionsHold, Now
  <2>2. ASSUME \E k \in DOMAIN ticks : ticks[k] = ServerTick("EmitClose")
        PROVE  ~handle /\ Live = {}
    <3>1. Quiet(Now)
      BY <1>3, <2>2 DEF Inv, ClosesWhenQuiet, Now
    <3>2. ~handle /\ connections = 0
      BY <3>1 DEF Quiet, Now
    <3>3. QED  BY <1>2, <3>2, LiveFinite, FS_EmptySet DEF ConnectionsMatch
  <2>3. QED  BY <2>1, <2>2 DEF CloseOnlyWhenDrained
<1>4. QED  BY <1>1, <1>2, <1>3

(* Every variable keeps its type, whatever the application calls. *)
THEOREM TypeCorrect == Spec => []TypeOK
<1>1. QED  BY Invariance, InvImplies, PTL

(* connections_ is the number of sockets that were accepted and have not   *)
(* emitted close, whatever the application calls, also when it listens     *)
(* again before the server has announced its close.                        *)
THEOREM CountIsExact == Spec => []ConnectionsMatch
<1>1. QED  BY Invariance, InvImplies, PTL

(* An application that does not listen again gets 'close' only when the    *)
(* server has neither a handle nor a connection.                           *)
THEOREM CloseMeansDrained ==
  ASSUME NoRelisten
  PROVE  Spec => []CloseOnlyWhenDrained
<1>1. Inv(Now) => CloseOnlyWhenDrained
  BY InvImplies
<1>2. QED  BY <1>1, Invariance, PTL

(* Nor does it ever make OnDestroy find a handle or a connection. *)
THEOREM NoAssertionFails ==
  ASSUME NoRelisten
  PROVE  Spec => []AssertionsHold
<1>1. Inv(Now) => AssertionsHold
  BY InvImplies
<1>2. QED  BY <1>1, Invariance, PTL

-----------------------------------------------------------------------------
(* The end of a server.  A second close(), without a handle, removes the   *)
(* OnDestroy listener early; the results below are about applications that *)
(* do not make it, and do not listen again.                                *)
ClosesOnce == NoRelisten /\ \A c \in Calls : c.op # "closeIdle"

(* No tick of the server is left. *)
NoTick(s) == \A k \in DOMAIN s.ticks : s.ticks[k].of # "server"

(* EmitClose is the last tick of the server; the OnDestroy listener goes   *)
(* with the others, when nothing of the server is left.                    *)
Ends(s) ==
  /\ s.listening = s.selfRef
  /\ \A j, k \in DOMAIN s.ticks :
       s.ticks[j] = ServerTick("EmitClose") /\ s.ticks[k].of = "server"
         => k <= j
  /\ ~s.listening => Quiet(s) /\ NoTick(s)

(* The server is not at its end: it listens and announces no close yet. *)
Running(s) ==
  s.listening /\ \A k \in DOMAIN s.ticks : s.ticks[k] # ServerTick("EmitClose")

LEMMA StillRunning ==
  ASSUME NEW s, Inv(s), Ends(s), NoRelisten, ~Quiet(s)
  PROVE  Running(s)
BY DEF Inv, ClosesWhenQuiet, Ends, Running

(* A step that leaves alone what Ends speaks of. *)
LEMMA SameEnds ==
  ASSUME NEW s, Ends(s), NEW t, t.listening = s.listening,
         t.selfRef = s.selfRef, t.ticks = s.ticks, Quiet(s) => Quiet(t)
  PROVE  Ends(t)
BY DEF Ends, NoTick

LEMMA NextTickEnds ==
  ASSUME NEW s \in State, Ends(s), Running(s), NEW do \in OwnTick
  PROVE  /\ Ends(NextTick(s, do))
         /\ NextTick(s, do).listening = s.listening
<1> DEFINE r == ServerTick(do)
           q == Append(s.ticks, r)
           t == [s EXCEPT !.ticks = q]
<1>1. s.ticks \in Seq(Tick) /\ r \in Tick
  BY TickTypes DEF State
<1>2. /\ Len(s.ticks) \in Nat
      /\ q[Len(s.ticks) + 1] = r
      /\ \A k \in DOMAIN s.ticks : k \in Nat /\ k <= Len(s.ticks) /\ q[k] = s.ticks[k]
      /\ \A k \in DOMAIN q : k \in DOMAIN s.ticks \/ k = Len(s.ticks) + 1
  BY <1>1, MoreTicks
<1> HIDE DEF q, r
<1>3. /\ t.ticks = q /\ t.listening = s.listening /\ t.selfRef = s.selfRef
  BY DEF State
<1> HIDE DEF t
<1>4. Ends(t)
  <2>1. t.listening /\ t.listening = t.selfRef
    BY <1>3 DEF Running, Ends
  <2>2. ASSUME NEW j \in DOMAIN q, NEW k \in DOMAIN q,
               q[j] = ServerTick("EmitClose")
        PROVE  k <= j
    <3>1. j = Len(s.ticks) + 1
      BY <1>2, <2>2 DEF Running
    <3>2. QED  BY <1>2, <3>1
  <2>3. QED  BY <1>3, <2>1, <2>2 DEF Ends
<1>5. QED  BY <1>3, <1>4 DEF NextTick, t, q, r

LEMMA HearEnds ==
  ASSUME NEW s, Inv(s), Ends(s), NEW ev \in Event
  PROVE  /\ Ends(Hear(s, ev))
         /\ Hear(s, ev).listening = s.listening
         /\ Hear(s, ev).ticks = s.ticks
<1> DEFINE t == [s EXCEPT !.heard[ev] = @ + 1]
<1>1. s \in State
  BY DEF Inv
<1>2. /\ t.listening = s.listening /\ t.selfRef = s.selfRef
      /\ t.ticks = s.ticks /\ t.handle = s.handle
      /\ t.closings = s.closings /\ t.connections = s.connections
  BY <1>1 DEF State
<1> HIDE DEF t
<1>3. Ends(t)
  BY <1>2, SameEnds DEF Quiet
<1>4. QED  BY <1>2, <1>3 DEF Hear, t

LEMMA EmitCloseIfDrainedEnds ==
  ASSUME NEW s \in State, Ends(s), Running(s)
  PROVE  /\ Ends(EmitCloseIfDrained(s))
         /\ EmitCloseIfDrained(s).listening = s.listening
BY NextTickEnds DEF EmitCloseIfDrained, OwnTick

LEMMA ListenEnds ==
  ASSUME NEW s, Inv(s), Ends(s), NoRelisten, NEW result \in Results,
         s.closings = 0
  PROVE  /\ Ends(Listen(s, result))
         /\ Listen(s, result).listening = s.listening
<1> DEFINE t == [s EXCEPT !.listens = @ + 1]
           u == [t EXCEPT !.handle = TRUE]
<1>1. s \in State /\ Running(s)
  BY StillRunning DEF Inv, Quiet
<1>2. /\ t \in State /\ t.listening = s.listening /\ t.selfRef = s.selfRef
      /\ t.ticks = s.ticks /\ t.handle = s.handle
      /\ t.closings = s.closings /\ t.connections = s.connections
      /\ t.draining = s.draining /\ t.life = s.life /\ t.broken = s.broken
  <2>1. s.listens + 1 \in Nat
    BY <1>1 DEF State
  <2>2. t \in State
    BY <1>1, <2>1 DEF State
  <2>3. QED  BY <1>1, <2>2 DEF State
<1> HIDE DEF t
<1>3. Ends(t) /\ Running(t) /\ Inv(t)
  BY <1>1, <1>2, SameEnds, SameInv DEF Quiet, Running
<1>4. /\ u \in State /\ u.listening = t.listening /\ u.selfRef = t.selfRef
      /\ u.ticks = t.ticks /\ u.closings = 0
  BY <1>2 DEF State
<1> HIDE DEF u
<1>5. Ends(u) /\ Running(u)
  BY <1>3, <1>4 DEF Ends, Running
<1>6. /\ Ends(Hear(t, "error")) /\ Hear(t, "error").listening = t.listening
  BY <1>3, HearEnds DEF Event
<1>7. /\ Ends(NextTick(t, "EmitError"))
      /\ NextTick(t, "EmitError").listening = t.listening
  BY <1>2, <1>3, NextTickEnds DEF OwnTick
<1>8. /\ Ends(NextTick(u, "EmitListening"))
      /\ NextTick(u, "EmitListening").listening = u.listening
  BY <1>4, <1>5, NextTickEnds DEF OwnTick
<1>9. Listen(s, result) \in {t, Hear(t, "error"), NextTick(t, "EmitError"),
                             NextTick(u, "EmitListening")}
  BY DEF Listen, Results, t, u
<1>10. QED  BY <1>2, <1>3, <1>4, <1>6, <1>7, <1>8, <1>9

LEMMA CloseEnds ==
  ASSUME NEW s, Inv(s), Ends(s), NoRelisten, s.handle
  PROVE  /\ Ends(Close(s))
         /\ Close(s).listening = s.listening
<1> DEFINE t == [s EXCEPT !.handle = FALSE, !.closings = @ + 1]
<1>1. s \in State /\ Running(s) /\ s.closings \in Nat
  BY StillRunning DEF Inv, Quiet, State
<1>2. t \in State
  <2>1. s.closings + 1 \in Nat
    BY <1>1
  <2>2. QED  BY <1>1, <2>1 DEF State
<1>3. /\ t.listening = s.listening /\ t.selfRef = s.selfRef
      /\ t.ticks = s.ticks
  BY <1>1 DEF State
<1> HIDE DEF t
<1>4. Ends(t) /\ Running(t)
  BY <1>1, <1>3 DEF Ends, Running
<1>5. QED  BY <1>2, <1>3, <1>4, EmitCloseIfDrainedEnds DEF Close, t

LEMMA DestroySocketEnds ==
  ASSUME NEW s, Inv(s), Ends(s), NEW i \in Clients
  PROVE  /\ Ends(DestroySocket(s, i))
         /\ DestroySocket(s, i).listening = s.listening
         /\ DestroySocket(s, i).selfRef = s.selfRef
         /\ NoTick(s) => NoTick(DestroySocket(s, i))
<1> DEFINE f == [s.life EXCEPT ![i] = "destroyed"]
           r == [of |-> i]
           q == Append(s.ticks, r)
           t == [s EXCEPT !.life = f, !.ticks = q]
<1>1. s \in State /\ s.ticks \in Seq(Tick) /\ r \in Tick /\ r.of # "server"
      /\ r # ServerTick("EmitClose")
  BY TickTypes, ClientsAssumption DEF Inv, State, ServerTick
<1>2. /\ Len(s.ticks) \in Nat
      /\ q[Len(s.ticks) + 1] = r
      /\ \A k \in DOMAIN s.ticks : k \in Nat /\ k <= Len(s.ticks) /\ q[k] = s.ticks[k]
      /\ \A k \in DOMAIN q : k \in DOMAIN s.ticks \/ k = Len(s.ticks) + 1
  BY <1>1, MoreTicks
<1>3. DestroySocket(s, i) = IF s.life[i] # "open" THEN s ELSE t
  BY DEF DestroySocket
<1> HIDE DEF q, r, f
<1>4. /\ t.ticks = q /\ t.listening = s.listening /\ t.selfRef = s.selfRef
      /\ t.handle = s.handle /\ t.closings = s.closings
      /\ t.connections = s.connections
  BY <1>1 DEF State
<1> HIDE DEF t
<1>5. NoTick(s) => NoTick(t)
  BY <1>1, <1>2, <1>4 DEF NoTick
<1>6. Ends(t)
  <2>1. ASSUME NEW j \in DOMAIN q, NEW k \in DOMAIN q,
               q[j] = ServerTick("EmitClose"), q[k].of = "server"
        PROVE  k <= j
    <3>1. j \in DOMAIN s.ticks /\ k \in DOMAIN s.ticks
      BY <1>1, <1>2, <2>1
    <3>2. s.ticks[j] = ServerTick("EmitClose") /\ s.ticks[k].of = "server"
      BY <1>2, <2>1, <3>1
    <3>3. QED  BY <3>1, <3>2 DEF Ends
  <2>2. ~s.listening => Quiet(t) /\ NoTick(t)
    BY <1>4, <1>5 DEF Ends, Quiet
  <2>3. QED  BY <1>4, <2>1, <2>2 DEF Ends
<1>7. QED  BY <1>3, <1>4, <1>5, <1>6

(* A call of the application, also one made by a listener. *)
LEMMA PerformEnds ==
  ASSUME NEW s, Inv(s), Ends(s), ClosesOnce, NEW c \in Calls \cup {NoCall},
         Permitted(s, c)
  PROVE  /\ Ends(Perform(s, c))
         /\ Perform(s, c).listening = s.listening
<1>0. c \in AllCalls \cup {NoCall} /\ c.op \notin {"relisten", "closeIdle"}
      /\ NoRelisten /\ s \in State
  BY CallsAssumption DEF ClosesOnce, NoRelisten, NoCall, Inv
<1>1. CASE c.op = "listen"
  <2>1. c.result \in Results /\ s.closings = 0
    BY <1>0, <1>1 DEF AllCalls, NoCall, Permitted
  <2>2. QED  BY <1>0, <1>1, <2>1, ListenEnds DEF Perform
<1>2. CASE c.op = "close"
  <2>1. s.handle
    BY <1>2 DEF Permitted
  <2>2. QED  BY <1>0, <1>2, <2>1, CloseEnds DEF Perform
<1>3. CASE c.op = "setMaxConnections"
  <2> DEFINE t == [s EXCEPT !.maxConnections = c.max]
  <2>1. /\ t.listening = s.listening /\ t.selfRef = s.selfRef
        /\ t.ticks = s.ticks
        /\ t.handle = s.handle /\ t.closings = s.closings
        /\ t.connections = s.connections
    BY <1>0 DEF State
  <2>2. Ends(t)
    BY <2>1, SameEnds DEF Quiet
  <2>3. QED  BY <1>3, <2>1, <2>2 DEF Perform
<1>4. CASE c.op = "destroy"
  <2>1. c.client \in Clients
    BY <1>0, <1>4 DEF AllCalls, NoCall
  <2>2. QED  BY <1>4, <2>1, DestroySocketEnds DEF Perform
<1>5. CASE c.op = "release"
  <2> DEFINE t == [s EXCEPT !.held = FALSE]
  <2>1. /\ t.listening = s.listening /\ t.selfRef = s.selfRef
        /\ t.ticks = s.ticks
        /\ t.handle = s.handle /\ t.closings = s.closings
        /\ t.connections = s.connections
    BY <1>0 DEF State
  <2>2. Ends(t)
    BY <2>1, SameEnds DEF Quiet
  <2>3. QED  BY <1>5, <2>1, <2>2 DEF Perform
<1>6. CASE c.op = "none"
  BY <1>6 DEF Perform
<1>7. QED
  BY <1>0, <1>1, <1>2, <1>3, <1>4, <1>5, <1>6 DEF AllCalls, NoCall

(* At its end a server takes no call that would queue another tick. *)
LEMMA PerformAtEnd ==
  ASSUME NEW s, Inv(s), Ends(s), Quiet(s), ClosesOnce,
         NEW c \in Calls \cup {NoCall}, Permitted(s, c)
  PROVE  /\ Perform(s, c).listening = s.listening
         /\ Perform(s, c).selfRef = s.selfRef
         /\ NoTick(s) => NoTick(Perform(s, c))
<1>0. c \in AllCalls \cup {NoCall} /\ c.op \notin {"relisten", "closeIdle"}
      /\ s \in State /\ c.op \notin {"listen", "close"}
  BY CallsAssumption
  DEF ClosesOnce, NoRelisten, NoCall, Inv, Permitted, Quiet, State
<1>1. CASE c.op = "setMaxConnections"
  <2> DEFINE t == [s EXCEPT !.maxConnections = c.max]
  <2>1. /\ t.listening = s.listening /\ t.selfRef = s.selfRef
        /\ t.ticks = s.ticks
    BY <1>0 DEF State
  <2>2. QED  BY <1>1, <2>1 DEF Perform, NoTick
<1>2. CASE c.op = "destroy"
  <2>1. c.client \in Clients
    BY <1>0, <1>2 DEF AllCalls, NoCall
  <2>2. QED  BY <1>2, <2>1, DestroySocketEnds DEF Perform
<1>3. CASE c.op = "release"
  <2> DEFINE t == [s EXCEPT !.held = FALSE]
  <2>1. /\ t.listening = s.listening /\ t.selfRef = s.selfRef
        /\ t.ticks = s.ticks
    BY <1>0 DEF State
  <2>2. QED  BY <1>3, <2>1 DEF Perform, NoTick
<1>4. CASE c.op = "none"
  BY <1>4 DEF Perform
<1>5. QED  BY <1>0, <1>1, <1>2, <1>3, <1>4 DEF AllCalls, NoCall

(* A listener of any event but close. *)
LEMMA EmitEnds ==
  ASSUME NEW s, Inv(s), Ends(s), ClosesOnce, NEW ev \in Event \ {"close"},
         NEW c \in Calls \cup {NoCall}
  PROVE  /\ Ends(Emit(s, ev, c))
         /\ Emit(s, ev, c).listening = s.listening
<1> DEFINE t == Hear(s, ev)
<1>1. /\ Ends(t) /\ Inv(t) /\ t.listening = s.listening
  BY HearEnds, HearInv
<1>2. \/ Emit(s, ev, c) = t
      \/ Permitted(t, c) /\ Emit(s, ev, c) = Perform(t, c)
  BY DEF Emit
<1> HIDE DEF t
<1>3. QED  BY <1>1, <1>2, PerformEnds

LEMMA AcceptEnds ==
  ASSUME NEW s, Inv(s), Ends(s), ClosesOnce, s.handle,
         NEW i \in Clients, s.life[i] = "none", NEW c \in Calls \cup {NoCall}
  PROVE  /\ Ends(Accept(s, i, c))
         /\ Accept(s, i, c).listening = s.listening
<1> DEFINE t == [s EXCEPT !.connections = @ + 1, !.life[i] = "open"]
<1>1. s \in State
  BY DEF Inv
<1>2. /\ t.listening = s.listening /\ t.selfRef = s.selfRef
      /\ t.ticks = s.ticks /\ t.handle = s.handle
  BY <1>1 DEF State
<1>3. Inv(t)
  BY AcceptedInv
<1> HIDE DEF t
<1>4. Ends(t)
  BY <1>2, SameEnds DEF Quiet
<1>5. Accept(s, i, c) = IF Full(s) THEN s ELSE Emit(t, "connection", c)
  BY DEF Accept, t
<1>6. /\ Ends(Emit(t, "connection", c))
      /\ Emit(t, "connection", c).listening = t.listening
  BY <1>3, <1>4, EmitEnds DEF Event
<1>7. QED  BY <1>2, <1>5, <1>6

LEMMA SocketClosesEnds ==
  ASSUME NEW s, Inv(s), Ends(s), ClosesOnce, NEW i \in Clients,
         s.life[i] = "destroyed",
         \A k \in DOMAIN s.ticks : s.ticks[k].of # i,
         NEW c \in Calls \cup {NoCall}
  PROVE  /\ Ends(SocketCloses(s, i, c))
         /\ SocketCloses(s, i, c).listening = s.listening
<1> DEFINE t == [[s EXCEPT !.life[i] = "closed"] EXCEPT !.connections = @ - 1]
           u == EmitCloseIfDrained(t)
<1>1. Inv(u) /\ t \in State /\ s.connections # 0
  BY SocketClosedInv DEF RemoveConnection
<1>2. NoRelisten /\ s \in State
  BY DEF ClosesOnce, Inv
<1>3. Running(s)
  BY <1>1, <1>2, StillRunning DEF Quiet
<1>4. /\ t.listening = s.listening /\ t.selfRef = s.selfRef
      /\ t.ticks = s.ticks
  BY <1>2 DEF State
<1>5. SocketCloses(s, i, c) = IF Permitted(u, c) THEN Perform(u, c) ELSE u
  BY DEF SocketCloses, RemoveConnection
<1> HIDE DEF t
<1>6. Ends(t) /\ Running(t)
  BY <1>3, <1>4 DEF Ends, Running
<1>7. Ends(u) /\ u.listening = t.listening
  BY <1>1, <1>6, EmitCloseIfDrainedEnds
<1> HIDE DEF u
<1>8. QED  BY <1>1, <1>4, <1>5, <1>7, PerformEnds

LEMMA OnDestroyEnds ==
  ASSUME NEW s \in State, s.selfRef, Quiet(s), NoTick(s)
  PROVE  /\ Ends(OnDestroy(s)) /\ ~OnDestroy(s).listening
<1> DEFINE a == Assert(Assert(s, ~s.handle, "OnDestroy: !handle_"),
                       s.connections = 0, "OnDestroy: !connections_")
           t == [a EXCEPT !.listening = FALSE, !.selfRef = FALSE]
<1>1. a = s
  BY DEF Assert, Quiet
<1> HIDE DEF a
<1>2. OnDestroy(s) = t
  BY DEF OnDestroy, RemoveAllListeners, a
<1>3. /\ t.listening = FALSE /\ t.selfRef = FALSE /\ t.ticks = s.ticks
      /\ t.handle = s.handle /\ t.closings = s.closings
      /\ t.connections = s.connections
  BY <1>1 DEF State
<1> HIDE DEF t
<1>4. Quiet(t) /\ NoTick(t)
  BY <1>3 DEF Quiet, NoTick
<1>5. Ends(t)
  <2>1. ServerTick("EmitClose").of = "server"
    BY DEF ServerTick
  <2>2. \A k \in DOMAIN t.ticks : t.ticks[k] # ServerTick("EmitClose")
    BY <1>4, <2>1 DEF NoTick
  <2>3. QED  BY <1>3, <1>4, <2>2 DEF Ends
<1>6. QED  BY <1>2, <1>3, <1>5

(* s is the state after the tick has been taken from the queue. *)
LEMMA RunTickEnds ==
  ASSUME NEW s, Inv(s), Ends(s), ClosesOnce, NEW r \in Tick,
         NEW c \in Calls \cup {NoCall},
         r.of # "server" =>
           s.life[r.of] = "destroyed"
           /\ \A k \in DOMAIN s.ticks : s.ticks[k].of # r.of,
         r.of = "server" => s.listening,
         r = ServerTick("EmitClose") => Quiet(s) /\ NoTick(s)
  PROVE  Ends(RunTick(s, r, c))
<1>1. CASE r.of # "server"
  <2>1. r.of \in Clients
    BY <1>1 DEF Tick
  <2>2. QED  BY <1>1, <2>1, SocketClosesEnds DEF RunTick
<1>2. CASE r.of = "server"
  <2>1. r.do \in OwnTick /\ r = ServerTick(r.do)
    BY <1>2, ClientsAssumption DEF Tick, ServerTick
  <2>2. CASE r.do \in {"EmitListening", "EmitError"}
    <3>1. PICK ev \in {"listening", "error"} : RunTick(s, r, c) = Emit(s, ev, c)
      BY <1>2, <2>2 DEF RunTick
    <3>2. ev \in Event \ {"close"}
      BY DEF Event
    <3>3. QED  BY <3>1, <3>2, EmitEnds
  <2>3. CASE r.do = "EmitClose"
    <3> DEFINE t == Hear(s, "close")
               e == Emit(s, "close", c)
    <3>1. /\ Inv(t) /\ Ends(t) /\ Quiet(t) /\ NoTick(t) /\ t.listening
      <4>1. "close" \in Event
        BY DEF Event
      <4>2. Inv(t) /\ (Quiet(s) => Quiet(t))
        BY <4>1, HearInv DEF Quiet
      <4>3. Ends(t) /\ t.listening = s.listening /\ t.ticks = s.ticks
        BY <4>1, HearEnds
      <4>4. QED  BY <1>2, <2>1, <2>3, <4>2, <4>3 DEF NoTick
    <3>2. \/ e = t
          \/ Permitted(t, c) /\ e = Perform(t, c)
      BY DEF Emit
    <3> HIDE DEF t
    <3>3. Inv(e) /\ Quiet(e)
      BY <3>1, <3>2, PerformInv, PerformQuiet DEF ClosesOnce
    <3>4. e.selfRef /\ NoTick(e)
      BY <3>1, <3>2, PerformAtEnd DEF Ends
    <3>5. RunTick(s, r, c) = OnDestroy(e)
      BY <1>2, <2>3 DEF RunTick
    <3> HIDE DEF e
    <3>6. e \in State
      BY <3>3 DEF Inv
    <3>7. QED  BY <3>3, <3>4, <3>5, <3>6, OnDestroyEnds
  <2>4. QED  BY <2>1, <2>2, <2>3 DEF OwnTick
<1>3. QED  BY <1>1, <1>2

(* Which step of the server keeps Ends: from the operators to Next. *)
LEMMA GoToEnds ==
  ASSUME NEW t \in State, Ends(t), GoTo(t)
  PROVE  Ends(Now)'
<1>1. t = [handle |-> t.handle, connections |-> t.connections,
           maxConnections |-> t.maxConnections, listening |-> t.listening,
           selfRef |-> t.selfRef, held |-> t.held, life |-> t.life,
           ticks |-> t.ticks, draining |-> t.draining,
           listens |-> t.listens, closings |-> t.closings,
           heard |-> t.heard, broken |-> t.broken]
  BY DEF State
<1>2. Now' = t
  BY <1>1 DEF GoTo, Now
<1>3. QED  BY <1>2 DEF Ends, NoTick, Quiet

LEMMA InitEnds == Init => Ends(Now)
BY DEF Init, Now, Ends

LEMMA NextEnds ==
  ASSUME ClosesOnce
  PROVE  Inv(Now) /\ Ends(Now) /\ [Next]_vars => Ends(Now)'
<1> SUFFICES ASSUME Inv(Now), Ends(Now), [Next]_vars PROVE Ends(Now)'
  OBVIOUS
<1>0. Now \in State
  BY DEF Inv
<1>1. ASSUME NEW c \in Calls, AppCall(c)  PROVE Ends(Now)'
  <2>1. Inv(Perform(Now, c)) /\ Ends(Perform(Now, c))
    BY <1>1, PerformInv, PerformEnds DEF AppCall
  <2>2. QED  BY <1>1, <2>1, GoToEnds DEF AppCall, Inv
<1>2. ASSUME NEW i \in Clients, NEW c \in Reactions, OnConnection(i, c)
      PROVE  Ends(Now)'
  <2>1. Now.handle /\ Now.life[i] = "none"
    BY <1>2 DEF OnConnection, Now
  <2>2. Inv(Accept(Now, i, c)) /\ Ends(Accept(Now, i, c))
    BY <2>1, AcceptInv, AcceptEnds DEF Reactions
  <2>3. QED  BY <1>2, <2>2, GoToEnds DEF OnConnection, Inv
<1>3. ASSUME NEW c \in Reactions, OnConnectionError(c)  PROVE Ends(Now)'
  <2>1. Inv(AcceptFails(Now, c)) /\ Ends(AcceptFails(Now, c))
    BY EmitInv, EmitEnds DEF Reactions, AcceptFails, Event
  <2>2. QED  BY <1>3, <2>1, GoToEnds DEF OnConnectionError, Inv
<1>4. ASSUME NEW i \in Clients, SocketDies(i)  PROVE Ends(Now)'
  <2>1. Inv(DestroySocket(Now, i)) /\ Ends(DestroySocket(Now, i))
    BY DestroySocketInv, DestroySocketEnds
  <2>2. QED  BY <1>4, <2>1, GoToEnds DEF SocketDies, Inv
<1>5. ASSUME FireNextTick  PROVE Ends(Now)'
  <2>1. /\ ticks' = ticks /\ listening' = listening /\ selfRef' = selfRef
        /\ handle' = handle /\ closings' = closings
        /\ connections' = connections
    BY <1>5 DEF FireNextTick, GoTo, Now
  <2>2. QED  BY <2>1 DEF Ends, NoTick, Quiet, Now
<1>6. ASSUME AnyNextTickCallback  PROVE Ends(Now)'
  <2>1. PICK c \in Reactions : NextTickCallback(c)
    BY <1>6 DEF AnyNextTickCallback
  <2> DEFINE r == Head(ticks)
             t == [Now EXCEPT !.ticks = Tail(@), !.draining = @ - 1]
  <2>2. /\ Inv(t) /\ r \in Tick
        /\ t.listening = listening /\ t.selfRef = selfRef
        /\ t.handle = handle /\ t.closings = closings
        /\ t.connections = connections
        /\ 1 \in DOMAIN ticks /\ r = ticks[1]
        /\ \A k \in DOMAIN t.ticks :
             k + 1 \in DOMAIN ticks /\ k \in Nat /\ 1 <= k
             /\ t.ticks[k] = ticks[k + 1]
        /\ r.of # "server" =>
             t.life[r.of] = "destroyed"
             /\ \A k \in DOMAIN t.ticks : t.ticks[k].of # r.of
        /\ r = ServerTick("EmitClose") => Quiet(t)
    BY <2>1, Taken DEF ClosesOnce
  <2>3. /\ Now.ticks = ticks /\ Now.listening = listening
        /\ Now.selfRef = selfRef
        /\ (Quiet(t) <=> Quiet(Now))
    BY <2>2 DEF Now, Quiet
  <2>4. RunTick([Now EXCEPT !.ticks = Tail(@), !.draining = @ - 1],
                Head(ticks), c) = RunTick(t, r, c)
    OBVIOUS
  <2> HIDE DEF t, r
  <2>5. Ends(t)
    <3>1. ASSUME NEW j \in DOMAIN t.ticks, NEW k \in DOMAIN t.ticks,
                 t.ticks[j] = ServerTick("EmitClose"),
                 t.ticks[k].of = "server"
          PROVE  k <= j
      <4>1. k + 1 <= j + 1
        BY <2>2, <2>3, <3>1 DEF Ends
      <4>2. QED  BY <2>2, <4>1
    <3>2. ~t.listening => Quiet(t) /\ NoTick(t)
      BY <2>2, <2>3 DEF Ends, NoTick
    <3>3. QED  BY <2>2, <2>3, <3>1, <3>2 DEF Ends
  <2>6. r.of = "server" => t.listening
    BY <2>2, <2>3 DEF Ends, NoTick
  <2>7. r = ServerTick("EmitClose") => NoTick(t)
    <3>1. ASSUME r = ServerTick("EmitClose"), NEW k \in DOMAIN t.ticks,
                 t.ticks[k].of = "server"
          PROVE  FALSE
      <4>1. k + 1 <= 1
        BY <2>2, <2>3, <3>1 DEF Ends
      <4>2. QED  BY <2>2, <4>1
    <3>2. QED  BY <3>1 DEF NoTick
  <2>8. Inv(RunTick(t, r, c)) /\ Ends(RunTick(t, r, c))
    BY <2>2, <2>5, <2>6, <2>7, RunTickInv, RunTickEnds DEF Reactions
  <2>9. QED  BY <2>1, <2>4, <2>8, GoToEnds DEF NextTickCallback, Inv
<1>7. ASSUME UNCHANGED vars  PROVE Ends(Now)'
  <2>1. Now' = Now
    BY <1>7 DEF vars, Now
  <2>2. QED  BY <2>1 DEF Ends, NoTick, Quiet
<1>8. QED
  BY <1>1, <1>2, <1>3, <1>4, <1>5, <1>6, <1>7 DEF Next

LEMMA EndsImplies == Inv(Now) /\ Ends(Now) => NoUseAfterFree
<1> SUFFICES ASSUME Inv(Now), Ends(Now), ~selfRef PROVE
       Live = {} /\ \A k \in DOMAIN ticks : ticks[k].of # "server"
  BY DEF NoUseAfterFree
<1>1. Quiet(Now) /\ NoTick(Now)
  BY DEF Ends, Now
<1>2. connections = 0 /\ connections = Cardinality(Live)
  BY <1>1, InvImplies DEF Quiet, Now, ConnectionsMatch
<1>3. Live = LiveIn(life)
  BY DEF Live, LiveIn
<1>4. QED  BY <1>1, <1>2, <1>3, LiveFinite, FS_EmptySet DEF NoTick, Now

(* The OnDestroy listener goes when no socket and no tick is left that     *)
(* would use the Server through its raw pointer, for an application that   *)
(* neither listens again nor calls close() without a handle.               *)
THEOREM FreedIsUnused ==
  ASSUME ClosesOnce
  PROVE  Spec => []NoUseAfterFree
<1>1. Inv(Now) /\ Ends(Now) /\ Inv(Now)' /\ [Next]_vars => Ends(Now)'
  BY NextEnds
<1>2. Spec => []Ends(Now)
  BY <1>1, InitEnds, Invariance, PTL DEF Spec
<1>3. QED  BY <1>2, Invariance, EndsImplies, PTL

-----------------------------------------------------------------------------
(* What the application hears last, for every set of calls.                *)

(* From s to t no close is heard, and nothing at all once the listeners    *)
(* are gone, which go together.                                            *)
Quieter(s, t) ==
  /\ s.listening = s.selfRef => t.listening = t.selfRef
  /\ t.listening => s.listening
  /\ ~s.listening => t.heard = s.heard
  /\ t.heard["close"] = s.heard["close"]

LEMMA QuieterAll ==
  /\ \A s : Quieter(s, s)
  /\ \A s, t, u : Quieter(s, t) /\ Quieter(t, u) => Quieter(s, u)
BY DEF Quieter

LEMMA SameQuieter ==
  ASSUME NEW s, NEW t, t.listening = s.listening, t.selfRef = s.selfRef,
         t.heard = s.heard
  PROVE  Quieter(s, t)
BY DEF Quieter

LEMMA HearQuieter ==
  ASSUME NEW s \in State, NEW ev \in Event \ {"close"}
  PROVE  Quieter(s, Hear(s, ev))
<1> DEFINE g == [s.heard EXCEPT ![ev] = @ + 1]
           t == [s EXCEPT !.heard = g]
<1>1. g["close"] = s.heard["close"]
  BY DEF State, Event
<1>2. [s EXCEPT !.heard[ev] = @ + 1] = t
  OBVIOUS
<1> HIDE DEF g
<1>3. t.listening = s.listening /\ t.selfRef = s.selfRef /\ t.heard = g
  BY DEF State
<1>4. s.listening => Quieter(s, t)
  BY <1>1, <1>3 DEF Quieter
<1>5. QED  BY <1>2, <1>4, QuieterAll DEF Hear

LEMMA NextTickQuieter ==
  ASSUME NEW s \in State, NEW do \in OwnTick
  PROVE  Quieter(s, NextTick(s, do))
<1> DEFINE t == [s EXCEPT !.ticks = Append(@, ServerTick(do))]
<1>1. t.listening = s.listening /\ t.selfRef = s.selfRef /\ t.heard = s.heard
  BY DEF State
<1> HIDE DEF t
<1>2. Quieter(s, t)
  BY <1>1, SameQuieter
<1>3. QED  BY <1>2 DEF NextTick, t

LEMMA ListenQuieter ==
  ASSUME NEW s \in State, NEW result \in Results
  PROVE  Quieter(s, Listen(s, result))
<1> DEFINE t == [s EXCEPT !.listens = @ + 1]
           u == [t EXCEPT !.handle = TRUE]
<1>1. t \in State
  <2>1. s.listens + 1 \in Nat
    BY DEF State
  <2>2. QED  BY <2>1 DEF State
<1>2. Quieter(s, t)
  BY SameQuieter DEF State
<1> HIDE DEF t
<1>3. Quieter(t, u) /\ u \in State
  <2>1. /\ u.listening = t.listening /\ u.selfRef = t.selfRef
        /\ u.heard = t.heard /\ u \in State
    BY <1>1 DEF State
  <2>2. QED  BY <2>1, SameQuieter
<1> HIDE DEF u
<1>4. /\ Quieter(t, Hear(t, "error")) /\ Quieter(t, NextTick(t, "EmitError"))
      /\ Quieter(u, NextTick(u, "EmitListening"))
  BY <1>1, <1>3, HearQuieter, NextTickQuieter DEF Event, OwnTick
<1>5. Listen(s, result) \in {t, Hear(t, "error"), NextTick(t, "EmitError"),
                             NextTick(u, "EmitListening")}
  BY DEF Listen, Results, t, u
<1>6. QED  BY <1>2, <1>3, <1>4, <1>5, QuieterAll

LEMMA CloseQuieter ==
  ASSUME NEW s \in State
  PROVE  Quieter(s, Close(s))
<1> DEFINE t == [s EXCEPT !.handle = FALSE, !.closings = @ + 1]
<1>1. t \in State
  <2>1. s.closings + 1 \in Nat
    BY DEF State
  <2>2. QED  BY <2>1 DEF State
<1>2. Quieter(s, t)
  <2>1. /\ t.listening = s.listening /\ t.selfRef = s.selfRef
        /\ t.heard = s.heard
    BY DEF State
  <2>2. QED  BY <2>1, SameQuieter
<1> HIDE DEF t
<1>3. Quieter(t, NextTick(t, "EmitClose"))
  BY <1>1, NextTickQuieter DEF OwnTick
<1>4. Quieter(s, RemoveAllListeners(s))
  BY DEF Quieter, RemoveAllListeners, State
<1>5. Close(s) \in {RemoveAllListeners(s), t, NextTick(t, "EmitClose")}
  BY DEF Close, EmitCloseIfDrained, t
<1>6. QED  BY <1>2, <1>3, <1>4, <1>5, QuieterAll

LEMMA PerformQuieter ==
  ASSUME NEW s \in State, NEW c \in Calls \cup {NoCall}
  PROVE  Quieter(s, Perform(s, c))
<1>0. c \in AllCalls \cup {NoCall}
  BY CallsAssumption
<1>1. CASE c.op \in {"listen", "relisten"}
  <2>1. c.result \in Results
    BY <1>0, <1>1 DEF AllCalls, NoCall
  <2>2. QED  BY <1>1, <2>1, ListenQuieter DEF Perform
<1>2. CASE c.op \in {"close", "closeIdle"}
  BY <1>2, CloseQuieter DEF Perform
<1>3. CASE c.op = "setMaxConnections"
  BY <1>3, SameQuieter DEF Perform, State
<1>4. CASE c.op = "destroy"
  <2> DEFINE t == [s EXCEPT !.life[c.client] = "destroyed",
                            !.ticks = Append(@, [of |-> c.client])]
  <2>1. Quieter(s, t)
    <3>1. /\ t.listening = s.listening /\ t.selfRef = s.selfRef
          /\ t.heard = s.heard
      BY DEF State
    <3>2. QED  BY <3>1, SameQuieter
  <2>2. QED  BY <1>4, <2>1, QuieterAll DEF Perform, DestroySocket
<1>5. CASE c.op = "release"
  BY <1>5, SameQuieter DEF Perform, State
<1>6. CASE c.op = "none"
  BY <1>6, QuieterAll DEF Perform
<1>7. QED
  BY <1>0, <1>1, <1>2, <1>3, <1>4, <1>5, <1>6 DEF AllCalls, NoCall

LEMMA EmitQuieter ==
  ASSUME NEW s, Inv(s), NEW ev \in Event \ {"close"},
         NEW c \in Calls \cup {NoCall}
  PROVE  Quieter(s, Emit(s, ev, c))
<1>1. Hear(s, ev) \in State /\ s \in State
  BY HearInv DEF Inv
<1>2. Quieter(s, Hear(s, ev)) /\ Quieter(Hear(s, ev), Perform(Hear(s, ev), c))
  BY <1>1, HearQuieter, PerformQuieter
<1>3. QED  BY <1>2, QuieterAll DEF Emit

LEMMA AcceptQuieter ==
  ASSUME NEW s, Inv(s), s.handle, NEW i \in Clients, s.life[i] = "none",
         NEW c \in Calls \cup {NoCall}
  PROVE  Quieter(s, Accept(s, i, c))
<1> DEFINE t == [s EXCEPT !.connections = @ + 1, !.life[i] = "open"]
<1>1. Quieter(s, t)
  <2>1. /\ t.listening = s.listening /\ t.selfRef = s.selfRef
        /\ t.heard = s.heard
    BY DEF Inv, State
  <2>2. QED  BY <2>1, SameQuieter
<1>2. Inv(t)
  BY AcceptedInv
<1> HIDE DEF t
<1>3. Quieter(t, Emit(t, "connection", c))
  BY <1>2, EmitQuieter DEF Event
<1>4. QED  BY <1>1, <1>3, QuieterAll DEF Accept, t

LEMMA SocketClosesQuieter ==
  ASSUME NEW s, Inv(s), NEW i \in Clients, s.life[i] = "destroyed",
         \A k \in DOMAIN s.ticks : s.ticks[k].of # i,
         NEW c \in Calls \cup {NoCall}
  PROVE  Quieter(s, SocketCloses(s, i, c))
<1> DEFINE t == [[s EXCEPT !.life[i] = "closed"] EXCEPT !.connections = @ - 1]
           u == EmitCloseIfDrained(t)
<1>1. t \in State /\ u \in State
  BY SocketClosedInv DEF Inv
<1>2. Quieter(s, t)
  <2>1. /\ t.listening = s.listening /\ t.selfRef = s.selfRef
        /\ t.heard = s.heard
    BY DEF Inv, State
  <2>2. QED  BY <2>1, SameQuieter
<1>3. SocketCloses(s, i, c) = IF Permitted(u, c) THEN Perform(u, c) ELSE u
  BY DEF SocketCloses, RemoveConnection
<1> HIDE DEF t
<1>4. Quieter(t, u)
  BY <1>1, NextTickQuieter, QuieterAll DEF EmitCloseIfDrained, OwnTick
<1> HIDE DEF u
<1>5. Quieter(u, Perform(u, c))
  BY <1>1, PerformQuieter
<1>6. QED  BY <1>2, <1>3, <1>4, <1>5, QuieterAll

(* The listener of close, which may call the server, and OnDestroy. *)
LEMMA LastQuieter ==
  ASSUME NEW s, Inv(s), s.listening = s.selfRef, NEW c \in Calls \cup {NoCall}
  PROVE  LET r == OnDestroy(Emit(s, "close", c))
         IN  r.listening = FALSE /\ r.selfRef = FALSE
             /\ (~s.listening => r.heard = s.heard)
<1> DEFINE t == Hear(s, "close")
           e == Emit(s, "close", c)
           a == Assert(Assert(e, ~e.handle, "OnDestroy: !handle_"),
                       e.connections = 0, "OnDestroy: !connections_")
<1>1. t \in State /\ t.listening = t.selfRef /\ t.listening = s.listening
      /\ (~s.listening => t.heard = s.heard)
  BY HearInv DEF Inv, State, Hear, Event
<1>2. e \in {t, Perform(t, c)}
  BY DEF Emit
<1>3. e \in State
  BY EmitInv DEF Inv, Event
<1> HIDE DEF t
<1>4. Quieter(t, e)
  BY <1>1, <1>2, PerformQuieter, QuieterAll
<1> HIDE DEF e
<1>5. a \in State /\ a.heard = e.heard
  BY <1>3 DEF Assert, State, Assertion
<1>6. OnDestroy(e) = IF e.selfRef THEN RemoveAllListeners(a) ELSE e
  BY DEF OnDestroy
<1> HIDE DEF a
<1>7. /\ RemoveAllListeners(a).listening = FALSE
      /\ RemoveAllListeners(a).selfRef = FALSE
      /\ RemoveAllListeners(a).heard = a.heard
  BY <1>5 DEF RemoveAllListeners, State
<1>8. /\ e.listening = e.selfRef
      /\ ~s.listening => e.heard = s.heard
  BY <1>1, <1>4 DEF Quieter
<1>9. QED  BY <1>5, <1>6, <1>7, <1>8 DEF e

(* The listeners go together, and with the announcement of close. *)
Told ==
  /\ listening = selfRef
  /\ heard["close"] > 0 => ~listening

LEMMA NextTold ==
  Inv(Now) /\ Told /\ [Next]_vars
    => Told' /\ (heard["close"] > 0 => heard' = heard)
<1> SUFFICES ASSUME Inv(Now), Told, [Next]_vars
             PROVE  Told' /\ (heard["close"] > 0 => heard' = heard)
  OBVIOUS
<1>0. /\ Now \in State /\ Now.listening = listening /\ Now.selfRef = selfRef
      /\ Now.heard = heard /\ listening \in BOOLEAN
  BY DEF Inv, Now, State
<1>1. ASSUME NEW t, GoTo(t), Quieter(Now, t)
      PROVE  Told' /\ (heard["close"] > 0 => heard' = heard)
  <2>1. listening' = t.listening /\ selfRef' = t.selfRef /\ heard' = t.heard
    BY <1>1 DEF GoTo
  <2>2. QED  BY <1>0, <1>1, <2>1 DEF Told, Quieter
<1>2. ASSUME NEW c \in Calls, AppCall(c)
      PROVE  Told' /\ (heard["close"] > 0 => heard' = heard)
  BY <1>0, <1>1, <1>2, PerformQuieter DEF AppCall
<1>3. ASSUME NEW i \in Clients, NEW c \in Reactions, OnConnection(i, c)
      PROVE  Told' /\ (heard["close"] > 0 => heard' = heard)
  <2>1. Now.handle /\ Now.life[i] = "none"
    BY <1>3 DEF OnConnection, Now
  <2>2. QED  BY <1>1, <1>3, <2>1, AcceptQuieter DEF OnConnection, Reactions
<1>4. ASSUME NEW c \in Reactions, OnConnectionError(c)
      PROVE  Told' /\ (heard["close"] > 0 => heard' = heard)
  BY <1>1, <1>4, EmitQuieter DEF OnConnectionError, AcceptFails, Reactions, Event
<1>5. ASSUME NEW i \in Clients, SocketDies(i)
      PROVE  Told' /\ (heard["close"] > 0 => heard' = heard)
  <2>1. listening' = listening /\ selfRef' = selfRef /\ heard' = heard
    BY <1>0, <1>5 DEF SocketDies, GoTo, DestroySocket, State
  <2>2. QED  BY <2>1 DEF Told
<1>6. ASSUME FireNextTick
      PROVE  Told' /\ (heard["close"] > 0 => heard' = heard)
  <2>1. listening' = listening /\ selfRef' = selfRef /\ heard' = heard
    BY <1>6 DEF FireNextTick, GoTo, Now
  <2>2. QED  BY <2>1 DEF Told
<1>7. ASSUME AnyNextTickCallback
      PROVE  Told' /\ (heard["close"] > 0 => heard' = heard)
  <2>1. PICK c \in Reactions : NextTickCallback(c)
    BY <1>7 DEF AnyNextTickCallback
  <2> DEFINE r == Head(ticks)
             t == [Now EXCEPT !.ticks = Tail(@), !.draining = @ - 1]
  <2>2. /\ Inv(t) /\ r \in Tick
        /\ t.listening = listening /\ t.selfRef = selfRef /\ t.heard = heard
        /\ r.of # "server" =>
             t.life[r.of] = "destroyed"
             /\ \A k \in DOMAIN t.ticks : t.ticks[k].of # r.of
    BY <2>1, Taken
  <2> HIDE DEF t, r
  <2>3. GoTo(RunTick(t, r, c))
    BY <2>1 DEF NextTickCallback, t, r
  <2>4. Quieter(Now, t)
    BY <1>0, <2>2 DEF Quieter
  <2>5. CASE r.of # "server"
    <3>1. r.of \in Clients
      BY <2>2, <2>5 DEF Tick
    <3>2. Quieter(t, RunTick(t, r, c))
      BY <2>2, <2>5, <3>1, SocketClosesQuieter DEF RunTick, Reactions
    <3>3. QED  BY <1>1, <2>3, <2>4, <3>2, QuieterAll
  <2>6. CASE r.of = "server"
    <3>1. r.do \in OwnTick
      BY <2>2, <2>6, ClientsAssumption DEF Tick
    <3>2. CASE r.do \in {"EmitListening", "EmitError"}
      <4>1. PICK ev \in {"listening", "error"} : RunTick(t, r, c) = Emit(t, ev, c)
        BY <2>6, <3>2 DEF RunTick
      <4>2. Quieter(t, RunTick(t, r, c))
        BY <2>2, <4>1, EmitQuieter DEF Event, Reactions
      <4>3. QED  BY <1>1, <2>3, <2>4, <4>2, QuieterAll
    <3>3. CASE r.do = "EmitClose"
      <4> DEFINE e == OnDestroy(Emit(t, "close", c))
      <4>1. RunTick(t, r, c) = e
        BY <2>6, <3>3 DEF RunTick
      <4>2. e.listening = FALSE /\ e.selfRef = FALSE
            /\ (~t.listening => e.heard = t.heard)
        BY <2>2, LastQuieter DEF Told, Reactions
      <4> HIDE DEF e
      <4>3. listening' = e.listening /\ selfRef' = e.selfRef /\ heard' = e.heard
        BY <2>3, <4>1 DEF GoTo
      <4>4. QED  BY <2>2, <4>2, <4>3 DEF Told
    <3>4. QED  BY <3>1, <3>2, <3>3 DEF OwnTick
  <2>7. QED  BY <2>5, <2>6
<1>8. ASSUME UNCHANGED vars
      PROVE  Told' /\ (heard["close"] > 0 => heard' = heard)
  BY <1>8 DEF vars, Told
<1>9. QED
  BY <1>2, <1>3, <1>4, <1>5, <1>6, <1>7, <1>8 DEF Next

(* 'close' is the last event the application hears, also when it closes    *)
(* twice or listens again: it is emitted by the callback that then removes *)
(* the listeners.                                                          *)
THEOREM CloseIsHeardLast == Spec => CloseIsLast
<1>1. Init => Told
  BY DEF Init, Told, Event
<1>2. Spec => []Told
  BY <1>1, NextTold, Invariance, PTL DEF Spec
<1>3. Inv(Now) /\ Told /\ [Next]_vars => [heard["close"] > 0 => heard' = heard]_vars
  BY NextTold
<1>4. QED  BY <1>2, <1>3, Invariance, PTL DEF Spec, CloseIsLast
=============================================================================
