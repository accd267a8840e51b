-------------------------- MODULE NetSocketProofs --------------------------
(* Proofs about NetSocket, for every set of calls and every bound: its     *)
(* type invariant, and that a destroyed socket is torn down and a NULL     *)
(* handle is never used.  A handler composes operators from states to      *)
(* states, so the invariant is stated on a state and each operator has a   *)
(* lemma that it preserves it.                                             *)
EXTENDS NetSocket, TLAPS

State ==
  [flags: SUBSET Flag, handle: {NoHandle} \cup Handles, pending: Nat,
   connQ: Seq([id: Nat, size: Sizes]),
   listening: BOOLEAN, selfRef: BOOLEAN, held: BOOLEAN,
   ticks: Seq(Tick), draining: Nat,
   lookups: SUBSET Handles, connects: SUBSET Handles,
   writes: SUBSET [h: Handles, id: Nat], shutdowns: SUBSET Handles,
   reading: BOOLEAN, eof: BOOLEAN, opened: 0..MaxOpened, issued: Nat,
   sent: Seq(Nat), destroys: Nat, heard: [Event -> Nat],
   broken: SUBSET Assertion, crossed: BOOLEAN]

Usable(s) == s.flags \cap {"READABLE", "WRITABLE", "CONNECTING"}

(* The inductive invariant, on a state. *)
Inv(s) ==
  /\ s \in State
  /\ s.draining <= Len(s.ticks)
  /\ Usable(s) # {} => s.handle # NoHandle
  /\ "DESTROYED" \in s.flags =>
       s.handle = NoHandle /\ ~s.reading /\ Usable(s) = {} /\ s.connQ = <<>>

-----------------------------------------------------------------------------
LEMMA MoreTicks ==
  ASSUME NEW q \in Seq(Tick), NEW r \in Tick
  PROVE  Append(q, r) \in Seq(Tick) /\ Len(Append(q, r)) >= Len(q)
OBVIOUS

LEMMA SetInv ==
  ASSUME NEW s, Inv(s), NEW F \in SUBSET Flag,
         F \cap {"READABLE", "WRITABLE", "CONNECTING", "DESTROYED"} = {}
  PROVE  Inv(Set(s, F)) /\ Set(s, F) = [s EXCEPT !.flags = s.flags \cup F]
<1>1. Set(s, F) \in State
  BY DEF Inv, State, Set
<1>2. QED  BY <1>1 DEF Inv, State, Set, Usable

LEMMA UnsetInv ==
  ASSUME NEW s, Inv(s), NEW F
  PROVE  Inv(Unset(s, F)) /\ Unset(s, F) = [s EXCEPT !.flags = s.flags \ F]
<1>1. Unset(s, F) \in State
  BY DEF Inv, State, Unset
<1>2. QED  BY <1>1 DEF Inv, State, Unset, Usable

LEMMA ConnectQueueCleanUpInv ==
  ASSUME NEW s, Inv(s)
  PROVE  Inv(ConnectQueueCleanUp(s))
<1> DEFINE t == Unset(s, {"CONNECTING"})
<1>1. Inv(t)
  BY UnsetInv
<1> HIDE DEF t
<1>2. [t EXCEPT !.connQ = <<>>] \in State
  <2>1. <<>> \in Seq([id: Nat, size: Sizes])
    OBVIOUS
  <2>2. QED  BY <1>1, <2>1 DEF Inv, State
<1>3. QED  BY <1>1, <1>2 DEF Inv, State, Usable, ConnectQueueCleanUp, t

LEMMA QueueTickInv ==
  ASSUME NEW s, Inv(s), NEW r \in Tick
  PROVE  Inv([s EXCEPT !.ticks = Append(@, r)])
<1> DEFINE tk == Append(s.ticks, r)
           u == [s EXCEPT !.ticks = tk]
<1>1. s.ticks \in Seq(Tick) /\ s.draining \in Nat /\ s \in State
  BY DEF Inv, State
<1>2. tk \in Seq(Tick) /\ Len(tk) >= Len(s.ticks)
  BY <1>1, MoreTicks
<1> HIDE DEF tk
<1>3. u \in State
  BY <1>1, <1>2 DEF State
<1>4. u.flags = s.flags /\ u.handle = s.handle /\ u.connQ = s.connQ
      /\ u.reading = s.reading /\ u.draining = s.draining /\ u.ticks = tk
  BY <1>1 DEF State
<1>5. u.draining <= Len(u.ticks)
  <2>1. Len(s.ticks) \in Nat /\ Len(tk) \in Nat
    BY <1>1, <1>2
  <2>2. QED  BY <1>1, <1>2, <1>4, <2>1 DEF Inv
<1>6. Inv(u)
  BY <1>3, <1>4, <1>5 DEF Inv, Usable
<1>7. QED  BY <1>6 DEF tk

LEMMA FireErrorCallbacksInv ==
  ASSUME NEW s, Inv(s), NEW err \in BOOLEAN
  PROVE  /\ Inv(FireErrorCallbacks(s, err))
         /\ FireErrorCallbacks(s, err).flags
              \in {s.flags, s.flags \cup {"ERROR_EMITTED"}}
         /\ FireErrorCallbacks(s, err).handle = s.handle
         /\ FireErrorCallbacks(s, err).reading = s.reading
         /\ FireErrorCallbacks(s, err).connQ = s.connQ
<1> DEFINE t == Set(s, {"ERROR_EMITTED"})
           u == [t EXCEPT !.ticks = Append(@, "EmitError")]
<1>1. Inv(t) /\ t = [s EXCEPT !.flags = s.flags \cup {"ERROR_EMITTED"}]
  BY SetInv DEF Flag
<1>2. Inv(u)
  BY <1>1, QueueTickInv DEF Tick
<1>3. u.flags = s.flags \cup {"ERROR_EMITTED"} /\ u.handle = s.handle
      /\ u.reading = s.reading /\ u.connQ = s.connQ
  BY <1>1 DEF Inv, State
<1>4. FireErrorCallbacks(s, err) \in {s, u}
  BY DEF FireErrorCallbacks
<1> HIDE DEF u
<1>5. QED  BY <1>2, <1>3, <1>4

LEMMA DestroyWithInv ==
  ASSUME NEW s, Inv(s), NEW err \in BOOLEAN
  PROVE  Inv(DestroyWith(s, err))
<1> DEFINE q == ConnectQueueCleanUp(s)
           n == Unset(q, {"READABLE", "WRITABLE"})
           t == CloseHandle(n)
           u == FireErrorCallbacks(t, err)
           v == [u EXCEPT !.ticks = Append(@, "EmitClose")]
           w == [Set(u, {"DESTROYED"}) EXCEPT !.ticks = Append(@, "EmitClose"),
                                              !.destroys = @ + 1]
<1>1. Inv(q) /\ q.connQ = <<>> /\ "CONNECTING" \notin q.flags
  BY ConnectQueueCleanUpInv, ZenonT(40) DEF ConnectQueueCleanUp, Unset, Inv, State
<1> HIDE DEF q
<1>2. Inv(n) /\ n.connQ = <<>> /\ Usable(n) = {}
  <2>1. Inv(n) /\ n = [q EXCEPT !.flags = q.flags \ {"READABLE", "WRITABLE"}]
    BY <1>1, UnsetInv
  <2> HIDE DEF n
  <2>2. n.flags = q.flags \ {"READABLE", "WRITABLE"} /\ n.connQ = q.connQ
    BY <1>1, <2>1 DEF Inv, State
  <2>3. QED  BY <1>1, <2>1, <2>2 DEF Usable
<1> HIDE DEF n
<1>3. Inv(t) /\ t.connQ = <<>> /\ Usable(t) = {} /\ t.handle = NoHandle
      /\ ~t.reading
  <2>1. t \in State
    BY <1>2 DEF CloseHandle, Inv, State
  <2>2. QED  BY <1>2, <2>1 DEF CloseHandle, Inv, State, Usable
<1> HIDE DEF t
<1>4. Inv(u) /\ u.connQ = <<>> /\ Usable(u) = {} /\ u.handle = NoHandle
      /\ ~u.reading
  BY <1>3, FireErrorCallbacksInv DEF Usable
<1> HIDE DEF u
<1>5. Inv(v)
  BY <1>4, QueueTickInv DEF Tick
<1>6. v.flags = u.flags /\ v.destroys = u.destroys /\ v.connQ = u.connQ
      /\ v.handle = u.handle /\ v.reading = u.reading
      /\ w = [v EXCEPT !.flags = v.flags \cup {"DESTROYED"},
                       !.destroys = v.destroys + 1]
  BY <1>4 DEF Inv, State, Set
<1> HIDE DEF v, w
<1>7. Inv(w)
  <2>0. v.flags \in SUBSET Flag /\ v.destroys \in Nat
    BY <1>5 DEF Inv, State
  <2>1. v.flags \cup {"DESTROYED"} \in SUBSET Flag /\ v.destroys + 1 \in Nat
    BY <2>0 DEF Flag
  <2>2. w \in State
    BY <1>5, <1>6, <2>1 DEF Inv, State
  <2>3. w.draining = v.draining /\ w.ticks = v.ticks /\ w.connQ = <<>>
        /\ w.handle = NoHandle /\ ~w.reading /\ Usable(w) = {}
    BY <1>4, <1>5, <1>6 DEF Inv, State, Usable
  <2>4. QED  BY <1>5, <2>2, <2>3 DEF Inv
<1>8. QED  BY <1>7 DEF DestroyWith, w, u, t, n, q

LEMMA DestroyInv ==
  ASSUME NEW s, Inv(s)
  PROVE  Inv(Destroy(s))
BY DestroyWithInv DEF Destroy

LEMMA AssertInv ==
  ASSUME NEW s, Inv(s), NEW holds, NEW a \in Assertion
  PROVE  /\ Inv(Assert(s, holds, a))
         /\ Assert(s, holds, a).flags = s.flags
         /\ Assert(s, holds, a).handle = s.handle
<1> DEFINE t == [s EXCEPT !.broken = @ \cup {a}]
<1>1. t \in State /\ Inv(t)
  BY DEF Inv, State, Usable
<1>2. t.flags = s.flags /\ t.handle = s.handle
  BY DEF Inv, State
<1>3. Assert(s, holds, a) = s \/ Assert(s, holds, a) = t
  BY DEF Assert
<1> HIDE DEF t
<1>4. QED  BY <1>1, <1>2, <1>3

LEMMA DestroySoonInv ==
  ASSUME NEW s, Inv(s)
  PROVE  Inv(DestroySoon(s))
<1> DEFINE t == Set(Unset(s, {"WRITABLE"}), {"DESTROY_SOON"})
<1>1. Inv(Unset(s, {"WRITABLE"}))
  BY UnsetInv
<1>2. Inv(t)
  BY <1>1, SetInv DEF Flag
<1>3. Inv(Destroy(t))
  BY <1>2, DestroyInv
<1>4. QED  BY <1>2, <1>3 DEF DestroySoon

LEMMA WriteBufferInv ==
  ASSUME NEW s, Inv(s), NEW id \in Nat, NEW ok \in BOOLEAN
  PROVE  Inv(WriteBuffer(s, id, ok))
<1> DEFINE t == [s EXCEPT !.pending = @ + 1,
                          !.writes = @ \cup {[h |-> s.handle, id |-> id]},
                          !.sent = Append(@, id)]
<1>1. ASSUME s.handle # NoHandle  PROVE Inv(t)
  <2>1. /\ s \in State
        /\ s.pending + 1 \in Nat
        /\ s.writes \cup {[h |-> s.handle, id |-> id]}
             \in SUBSET [h: Handles, id: Nat]
        /\ Append(s.sent, id) \in Seq(Nat)
    BY <1>1 DEF Inv, State
  <2>2. t \in State
    BY <2>1 DEF State
  <2>3. /\ t.flags = s.flags /\ t.handle = s.handle /\ t.connQ = s.connQ
        /\ t.reading = s.reading /\ t.ticks = s.ticks
        /\ t.draining = s.draining
    BY <2>1 DEF State
  <2>4. QED  BY <2>2, <2>3 DEF Inv, Usable
<1>2. Inv(DestroyWith(s, TRUE))
  BY DestroyWithInv
<1>3. QED  BY <1>1, <1>2 DEF WriteBuffer

LEMMA WriteInv ==
  ASSUME NEW s, Inv(s), NEW size \in Sizes, NEW ok \in BOOLEAN
  PROVE  Inv(Write(s, size, ok))
<1> DEFINE id == s.issued + 1
           t == [s EXCEPT !.issued = id]
           u == [t EXCEPT !.connQ = Append(@, [id |-> id, size |-> size])]
<1>1. s \in State /\ id \in Nat
  BY DEF Inv, State
<1>2. Inv(t)
  <2>1. t \in State
    BY <1>1 DEF State
  <2>2. QED  BY <1>1, <2>1 DEF Inv, State, Usable
<1>3. ASSUME Has(s, "CONNECTING")  PROVE Inv(u)
  <2>1. Append(t.connQ, [id |-> id, size |-> size])
          \in Seq([id: Nat, size: Sizes])
    BY <1>1, <1>2 DEF Inv, State
  <2>2. u \in State
    BY <1>2, <2>1 DEF Inv, State
  <2>3. u.flags = s.flags /\ u.handle = s.handle /\ u.ticks = s.ticks
        /\ u.draining = s.draining /\ u.reading = s.reading
    BY <1>1 DEF State
  <2>4. "CONNECTING" \in Usable(s)
    BY <1>3 DEF Has, Usable
  <2>5. "DESTROYED" \notin s.flags /\ s.handle # NoHandle
    BY <2>4 DEF Inv
  <2>6. QED  BY <2>2, <2>3, <2>5 DEF Inv
<1>4. Inv(WriteBuffer(t, id, ok))
  BY <1>1, <1>2, WriteBufferInv
<1>5. QED  BY <1>3, <1>4 DEF Write

Data == {NoData} \cup {<<n>> : n \in Sizes}

LEMMA WriteDataInv ==
  ASSUME NEW s, Inv(s), NEW data \in Data, NEW ok \in BOOLEAN
  PROVE  Inv(WriteData(s, data, ok))
<1>1. data = NoData \/ data[1] \in Sizes
  BY DEF Data
<1>2. QED  BY <1>1, WriteInv DEF WriteData

LEMMA EndInv ==
  ASSUME NEW s, Inv(s), NEW data \in Data,
         NEW ok \in BOOLEAN, NEW shutOk \in BOOLEAN
  PROVE  Inv(End(s, data, ok, shutOk))
<1> DEFINE queued == IF Has(s, "CONNECTING") /\ ~Has(s, "SHUTDOWN_QUEUED")
                     THEN Set(Unset(WriteData(s, data, ok), {"WRITABLE"}),
                              {"SHUTDOWN_QUEUED"})
                     ELSE s
           unset == Unset(queued, {"WRITABLE"})
           written == WriteData(unset, data, ok)
           shut == Set(written, {"SHUTDOWN"})
           sent_ == [shut EXCEPT !.shutdowns = @ \cup {shut.handle}]
<1>1. Inv(queued)
  <2>1. Inv(WriteData(s, data, ok))
    BY WriteDataInv
  <2>2. Inv(Unset(WriteData(s, data, ok), {"WRITABLE"}))
    BY <2>1, UnsetInv
  <2>3. Inv(Set(Unset(WriteData(s, data, ok), {"WRITABLE"}),
                {"SHUTDOWN_QUEUED"}))
    BY <2>2, SetInv DEF Flag
  <2>4. QED  BY <2>3
<1> HIDE DEF queued
<1>2. Inv(unset)
  BY <1>1, UnsetInv
<1> HIDE DEF unset
<1>3. Inv(written)
  BY <1>2, WriteDataInv
<1> HIDE DEF written
<1>4. Inv(shut) /\ shut = [written EXCEPT !.flags = written.flags \cup {"SHUTDOWN"}]
  BY <1>3, SetInv DEF Flag
<1>5. ASSUME Has(written, "READABLE")  PROVE Inv(sent_)
  <2>1. shut.handle # NoHandle
    BY <1>3, <1>4, <1>5 DEF Inv, State, Usable, Has
  <2> HIDE DEF shut
  <2>2. sent_ \in State
    <3>1. shut \in State
      BY <1>4 DEF Inv
    <3>2. shut.shutdowns \cup {shut.handle} \in SUBSET Handles
      BY <2>1, <3>1 DEF State
    <3>3. QED  BY <3>1, <3>2 DEF State
  <2>3. QED  BY <1>4, <2>2 DEF Inv, State, Usable
<1>6. Inv(DestroyWith(shut, TRUE))
  BY <1>4, DestroyWithInv
<1>7. Inv(DestroySoon(written))
  BY <1>3, DestroySoonInv
<1>8. \/ End(s, data, ok, shutOk) \in
            {queued, DestroySoon(written), DestroyWith(shut, TRUE)}
      \/ Has(written, "READABLE") /\ End(s, data, ok, shutOk) = sent_
  BY DEF End, queued, unset, written
<1> HIDE DEF sent_, shut
<1>9. QED  BY <1>1, <1>5, <1>6, <1>7, <1>8

LEMMA PauseInv ==
  ASSUME NEW s, Inv(s)
  PROVE  Inv(Pause(s))
<1> DEFINE t == Set(s, {"PAUSED"})
           u == [t EXCEPT !.reading = FALSE]
<1>1. Inv(t)
  BY SetInv DEF Flag
<1> HIDE DEF t
<1>2. u \in State
  <2>1. t \in State
    BY <1>1 DEF Inv
  <2>2. QED  BY <2>1 DEF State
<1>3. Inv(u)
  BY <1>1, <1>2 DEF Inv, State, Usable
<1>4. QED  BY <1>1, <1>3 DEF Pause, t

LEMMA ResumeInv ==
  ASSUME NEW s, Inv(s)
  PROVE  Inv(Resume(s))
<1> DEFINE t == Unset(s, {"PAUSED"})
           u == [t EXCEPT !.reading = TRUE]
<1>1. Inv(t) /\ t = [s EXCEPT !.flags = s.flags \ {"PAUSED"}]
  BY UnsetInv
<1>2. t.handle = s.handle
  BY <1>1 DEF Inv, State
<1> HIDE DEF t
<1>3. u \in State
  BY <1>1, ZenonT(40) DEF Inv, State
<1>4. s.handle # NoHandle => Inv(u)
  BY <1>1, <1>2, <1>3 DEF Inv, State, Usable
<1>5. QED  BY <1>1, <1>4 DEF Resume, t

LEMMA ConnectHandleInv ==
  ASSUME NEW s, Inv(s), NEW h \in Handles, NEW ok \in BOOLEAN
  PROVE  Inv(ConnectHandle(s, h, ok))
<1> DEFINE t == Assert(s, Has(s, "CONNECTING"), "connect: CONNECTING")
           u == [t EXCEPT !.connects = @ \cup {h}]
<1>1. Inv(t)
  BY AssertInv DEF Assertion
<1> HIDE DEF t
<1>2. u \in State
  BY <1>1 DEF Inv, State
<1>3. Inv(u)
  BY <1>1, <1>2 DEF Inv, State, Usable
<1>4. Inv(DestroyWith(t, TRUE))
  BY <1>1, DestroyWithInv
<1>5. QED  BY <1>3, <1>4 DEF ConnectHandle, t

LEMMA ConnectInv ==
  ASSUME NEW s, Inv(s), s.opened < MaxOpened,
         NEW lookup \in BOOLEAN, NEW ok \in BOOLEAN
  PROVE  Inv(Connect(s, lookup, ok))
<1> DEFINE h == s.opened + 1
           i == [InitSocketHandle(s, h) EXCEPT !.opened = h]
           t == IF Has(s, "DESTROYED") \/ s.handle = NoHandle THEN i ELSE s
           u == [Set(t, {"CONNECTING", "WRITABLE"}) EXCEPT !.listening = TRUE]
           v == [u EXCEPT !.lookups = @ \cup {u.handle}]
<1>1. s \in State /\ h \in Handles /\ h \in 0..MaxOpened
  BY BoundsAssumption DEF Inv, State, Handles
<1>2. i \in State /\ i.flags = {} /\ i.handle = h /\ i.ticks = s.ticks
      /\ i.draining = s.draining
  <2>1. <<>> \in Seq(Nat) /\ [e \in Event |-> 0] \in [Event -> Nat]
    OBVIOUS
  <2>2. QED  BY <1>1, <2>1, ZenonT(40) DEF State, InitSocketHandle
<1>3. t \in State /\ t.handle \in Handles /\ t.draining <= Len(t.ticks)
      /\ "DESTROYED" \notin t.flags
  <2>1. CASE Has(s, "DESTROYED") \/ s.handle = NoHandle
    BY <1>1, <1>2, <2>1 DEF Inv
  <2>2. CASE ~(Has(s, "DESTROYED") \/ s.handle = NoHandle)
    BY <1>1, <2>2 DEF Inv, State, Has
  <2>3. QED  BY <2>1, <2>2
<1> HIDE DEF t
<1>4. u = [t EXCEPT !.flags = @ \cup {"CONNECTING", "WRITABLE"},
                    !.listening = TRUE]
  BY <1>3 DEF Set, State
<1> HIDE DEF u
<1>5. u \in State
  BY <1>3, <1>4, ZenonT(40) DEF State, Flag
<1>6. u.handle \in Handles /\ u.handle # NoHandle /\ "DESTROYED" \notin u.flags
      /\ u.draining <= Len(u.ticks)
  BY <1>3, <1>4 DEF State, Handles, NoHandle
<1>7. Inv(u)
  BY <1>5, <1>6 DEF Inv
<1>8. Inv(v)
  <2>1. v \in State
    BY <1>5, <1>6 DEF State
  <2>2. QED  BY <1>5, <1>6, <2>1 DEF Inv, State
<1>9. Inv(ConnectHandle(u, u.handle, ok))
  BY <1>6, <1>7, ConnectHandleInv
<1>10. Connect(s, lookup, ok) = IF lookup THEN v
                                ELSE ConnectHandle(u, u.handle, ok)
  BY DEF Connect, u, t
<1> HIDE DEF v
<1>11. QED  BY <1>8, <1>9, <1>10

-----------------------------------------------------------------------------
(* The calls of the application. *)

LEMMA ReleaseInv ==
  ASSUME NEW s, Inv(s)
  PROVE  Inv([s EXCEPT !.held = FALSE])
<1>1. [s EXCEPT !.held = FALSE] \in State
  BY DEF Inv, State
<1>2. QED  BY <1>1 DEF Inv, State, Usable

LEMMA PerformInv ==
  ASSUME NEW s, Inv(s), NEW c \in AllCalls \cup {NoCall}, Permitted(s, c)
  PROVE  Inv(Perform(s, c))
<1>1. CASE c.op = "write"
  <2>1. c.size \in Sizes /\ c.ok \in BOOLEAN
    BY <1>1 DEF AllCalls, NoCall
  <2>2. QED  BY <1>1, <2>1, WriteInv DEF Perform
<1>2. CASE c.op = "end"
  <2>1. c.data \in Data /\ c.ok \in BOOLEAN /\ c.shutOk \in BOOLEAN
    BY <1>2 DEF AllCalls, NoCall, Data
  <2>2. QED  BY <1>2, <2>1, EndInv DEF Perform
<1>3. CASE c.op \in {"connect", "reconnect", "reopen"}
  <2>1. c.lookup \in BOOLEAN /\ c.ok \in BOOLEAN
    BY <1>3 DEF AllCalls, NoCall
  <2>2. s.opened < MaxOpened
    BY <1>3, BoundsAssumption DEF Permitted, Inv, State
  <2>3. Inv(Connect(s, c.lookup, c.ok))
    BY <2>1, <2>2, ConnectInv
  <2>4. QED  BY <1>3, <2>3 DEF Perform
<1>4. CASE c.op = "pause"
  BY <1>4, PauseInv DEF Perform
<1>5. CASE c.op \in {"resume", "resumeAfterEof"}
  BY <1>5, ResumeInv DEF Perform
<1>6. CASE c.op = "destroy"
  BY <1>6, DestroyInv DEF Perform
<1>7. CASE c.op = "destroySoon"
  BY <1>7, DestroySoonInv DEF Perform
<1>8. CASE c.op = "release"
  BY <1>8, ReleaseInv DEF Perform
<1>9. CASE c.op = "none"
  BY <1>9 DEF Perform
<1>10. c.op \in {"write", "end", "connect", "reconnect", "reopen", "pause", "resume",
                 "resumeAfterEof", "destroy", "destroySoon", "release", "none"}
  BY DEF AllCalls, NoCall
<1>11. QED  BY <1>1, <1>2, <1>3, <1>4, <1>5, <1>6, <1>7, <1>8, <1>9, <1>10

LEMMA ListenerInv ==
  ASSUME NEW s, Inv(s), NEW c \in AllCalls \cup {NoCall}
  PROVE  Inv(Listener(s, c))
BY PerformInv DEF Listener

LEMMA EmitInv ==
  ASSUME NEW s, Inv(s), NEW ev \in Event, NEW c \in AllCalls \cup {NoCall}
  PROVE  Inv(Emit(s, ev, c))
<1> DEFINE hd == [s.heard EXCEPT ![ev] = @ + 1]
           t == [s EXCEPT !.heard = hd]
<1>1. hd \in [Event -> Nat]
  BY DEF Inv, State
<1>2. [s EXCEPT !.heard[ev] = @ + 1] = t
  OBVIOUS
<1> HIDE DEF hd
<1>3. t \in State
  BY <1>1 DEF Inv, State
<1>4. Inv(t)
  BY <1>3 DEF Inv, State, Usable
<1> HIDE DEF t
<1>5. Inv(Listener(t, c))
  BY <1>4, ListenerInv
<1>6. QED  BY <1>2, <1>5 DEF Emit

-----------------------------------------------------------------------------
(* The callbacks. *)

LEMMA OnReadEofInv ==
  ASSUME NEW s, Inv(s), NEW c \in AllCalls \cup {NoCall},
         NEW r \in OnReadEof(s, c)
  PROVE  Inv(r)
<1> DEFINE a == Assert(s, ~Has(s, "GOT_EOF"), "OnRead: !GOT_EOF")
           b == Set(Unset(a, {"READABLE"}), {"GOT_EOF"})
           t == [b EXCEPT !.reading = FALSE, !.eof = TRUE]
           u == IF Has(t, "WRITABLE") THEN t ELSE Destroy(t)
           v(shutOk) == IF Has(u, "ALLOW_HALF_OPEN") THEN u
                        ELSE End(u, NoData, TRUE, shutOk)
<1>1. Inv(b)
  <2>1. Inv(a)
    BY AssertInv DEF Assertion
  <2> HIDE DEF a
  <2>2. Inv(Unset(a, {"READABLE"}))
    BY <2>1, UnsetInv
  <2>3. QED  BY <2>2, SetInv DEF Flag
<1> HIDE DEF b
<1>2. Inv(t)
  <2>1. t \in State
    BY <1>1, ZenonT(40) DEF Inv, State
  <2>2. QED  BY <1>1, <2>1 DEF Inv, State, Usable
<1> HIDE DEF t
<1>3. Inv(u)
  BY <1>2, DestroyInv
<1> HIDE DEF u
<1>4. ASSUME NEW shutOk \in BOOLEAN  PROVE Inv(Emit(v(shutOk), "end", c))
  <2>1. Inv(End(u, NoData, TRUE, shutOk))
    BY <1>3, EndInv DEF Data
  <2>2. Inv(v(shutOk))
    BY <1>3, <2>1
  <2> HIDE DEF v
  <2>3. QED  BY <2>2, EmitInv DEF Event
<1>5. PICK shutOk \in BOOLEAN : r = Emit(v(shutOk), "end", c)
  BY DEF OnReadEof, v, u, t, b
<1>6. QED  BY <1>4, <1>5

LEMMA AfterShutdownInv ==
  ASSUME NEW s, Inv(s), NEW h
  PROVE  Inv(AfterShutdown(s, h))
<1> DEFINE r == [s EXCEPT !.shutdowns = @ \ {h}]
           a == Assert(r, Has(s, "SHUTDOWN"), "AfterShutdown: SHUTDOWN")
           t == Assert(a, ~Has(s, "WRITABLE"), "AfterShutdown: !WRITABLE")
<1>1. Inv(r)
  <2>1. r \in State
    BY DEF Inv, State
  <2>2. QED  BY <2>1 DEF Inv, State, Usable
<1> HIDE DEF r
<1>2. Inv(a)
  BY <1>1, AssertInv DEF Assertion
<1> HIDE DEF a
<1>3. Inv(t)
  BY <1>2, AssertInv DEF Assertion
<1> HIDE DEF t
<1>4. Inv(Destroy(t))
  BY <1>3, DestroyInv
<1>5. QED  BY <1>3, <1>4 DEF AfterShutdown, t, a, r

LEMMA AfterWriteInv ==
  ASSUME NEW s, Inv(s), NEW w, NEW ok \in BOOLEAN,
         NEW c \in AllCalls \cup {NoCall}
  PROVE  Inv(AfterWrite(s, w, ok, c))
<1> DEFINE t == [s EXCEPT !.writes = @ \ {w}]
           u == [t EXCEPT !.pending = Decrement(@)]
           d == IF u.pending = 0 THEN Listener(u, c) ELSE u
<1>1. Inv(t)
  <2>1. t \in State
    BY DEF Inv, State
  <2>2. QED  BY <2>1 DEF Inv, State, Usable
<1> HIDE DEF t
<1>2. Inv(u)
  <2>1. Decrement(t.pending) \in Nat
    <3>1. t.pending \in Nat /\ SizeMax \in Nat
      BY <1>1, BoundsAssumption DEF Inv, State
    <3>2. QED  BY <3>1 DEF Decrement
  <2>2. u \in State
    BY <1>1, <2>1 DEF Inv, State
  <2>3. QED  BY <1>1, <2>2 DEF Inv, State, Usable
<1> HIDE DEF u
<1>3. Inv(d)
  BY <1>2, ListenerInv
<1> HIDE DEF d
<1>4. Inv(Destroy(d)) /\ Inv(DestroyWith(t, TRUE))
  BY <1>1, <1>3, DestroyInv, DestroyWithInv
<1>5. QED  BY <1>1, <1>3, <1>4 DEF AfterWrite, d, u, t

LEMMA SeqElement ==
  ASSUME NEW S, NEW q \in Seq(S), NEW i \in 1..Len(q)
  PROVE  q[i] \in S
OBVIOUS

LEMMA FlushInv ==
  ASSUME NEW s, Inv(s), s.handle # NoHandle, NEW bad \in Nat
  PROVE  Inv(Flush(s, bad))
<1> DEFINE n == IF bad \in DOMAIN s.connQ THEN bad - 1 ELSE Len(s.connQ)
           w == {[h |-> s.handle, id |-> s.connQ[i].id] : i \in 1..n}
           q == [i \in 1..n |-> s.connQ[i].id]
           t == [s EXCEPT !.pending = @ + n,
                          !.writes = @ \cup w,
                          !.sent = @ \o q]
<1>1. s \in State
  BY DEF Inv
<1>2. n \in Nat /\ n <= Len(s.connQ)
  BY <1>1 DEF State
<1> HIDE DEF n
<1>3. \A i \in 1..n : s.connQ[i].id \in Nat
  <2>1. s.connQ \in Seq([id: Nat, size: Sizes])
    BY <1>1 DEF State
  <2>2. TAKE i \in 1..n
  <2>3. i \in 1..Len(s.connQ)
    BY <1>2, <2>1
  <2>4. s.connQ[i] \in [id: Nat, size: Sizes]
    BY <2>1, <2>3, SeqElement
  <2>5. QED  BY <2>4
<1>4. w \in SUBSET [h: Handles, id: Nat]
  BY <1>1, <1>3 DEF State
<1>5. q \in Seq(Nat)
  BY <1>2, <1>3
<1> HIDE DEF w, q
<1>6. s.pending + n \in Nat /\ s.writes \cup w \in SUBSET [h: Handles, id: Nat]
      /\ s.sent \o q \in Seq(Nat)
  BY <1>1, <1>2, <1>4, <1>5 DEF State
<1>7. t \in State
  BY <1>1, <1>6 DEF State
<1>8. t.flags = s.flags /\ t.handle = s.handle /\ t.connQ = s.connQ
      /\ t.reading = s.reading /\ t.ticks = s.ticks /\ t.draining = s.draining
  BY <1>1 DEF State
<1>9. Inv(t)
  BY <1>7, <1>8 DEF Inv, Usable
<1>10. Flush(s, bad) = t \/ Flush(s, bad) = DestroyWith(t, TRUE)
  BY DEF Flush, n, w, q
<1> HIDE DEF t
<1>11. QED  BY <1>9, <1>10, DestroyWithInv

LEMMA FlushAndEmitInv ==
  ASSUME NEW s, Inv(s), s.handle # NoHandle, NEW bad \in Nat,
         NEW c \in AllCalls \cup {NoCall}
  PROVE  Inv(FlushAndEmit(s, bad, c))
<1> DEFINE f == IF QueueSized(s) THEN ConnectQueueCleanUp(Flush(s, bad)) ELSE s
<1>1. Inv(f)
  BY FlushInv, ConnectQueueCleanUpInv
<1> HIDE DEF f
<1>2. Inv(Emit(f, "connect", c))
  BY <1>1, EmitInv DEF Event
<1>3. QED  BY <1>2 DEF FlushAndEmit, f

LEMMA EndQueuedInv ==
  ASSUME NEW s, Inv(s), NEW shutOk \in BOOLEAN
  PROVE  Inv(EndQueued(s, shutOk))
<1> DEFINE t == Unset(s, {"SHUTDOWN_QUEUED"})
<1>1. Inv(t)
  BY UnsetInv
<1> HIDE DEF t
<1>2. Inv(End(t, NoData, TRUE, shutOk))
  BY <1>1, EndInv DEF Data
<1>3. QED  BY <1>2 DEF EndQueued, t

LEMMA AfterConnectInv ==
  ASSUME NEW s, Inv(s), NEW h, NEW ok \in BOOLEAN, NEW bad \in Nat,
         NEW c \in AllCalls \cup {NoCall}, NEW shutOk \in BOOLEAN,
         ok => h = s.handle, h # NoHandle
  PROVE  Inv(AfterConnect(s, h, ok, bad, c, shutOk))
<1> DEFINE t == [s EXCEPT !.connects = @ \ {h}]
           a0 == Assert(t, Has(t, "CONNECTING"), "AfterConnect: CONNECTING")
           a == Unset(a0, {"CONNECTING"})
           b == [Set(a, {"READABLE", "WRITABLE"})
                   EXCEPT !.reading = @ \/ ~Has(a, "PAUSED")]
           e == FlushAndEmit(b, bad, c)
<1>1. Inv(t) /\ t.handle = s.handle
  <2>1. t \in State
    BY DEF Inv, State
  <2>2. QED  BY <2>1 DEF Inv, State, Usable
<1> HIDE DEF t
<1>2. Inv(a0) /\ a0.flags = t.flags /\ a0.handle = s.handle
  BY <1>1, AssertInv DEF Assertion
<1> HIDE DEF a0
<1>3. Inv(a) /\ a = [a0 EXCEPT !.flags = a0.flags \ {"CONNECTING"}]
  BY <1>2, UnsetInv
<1>4. a.handle = s.handle /\ (~Has(t, "DESTROYED") => ~Has(a, "DESTROYED"))
  BY <1>2, <1>3, ZenonT(40) DEF Inv, State, Has
<1> HIDE DEF a
<1>5. ASSUME ok, ~Has(t, "DESTROYED")  PROVE Inv(b) /\ b.handle # NoHandle
  <2>1. b = [a EXCEPT !.flags = a.flags \cup {"READABLE", "WRITABLE"},
                      !.reading = (a.reading \/ ~Has(a, "PAUSED"))]
    BY <1>3 DEF Set, Inv, State
  <2>2. (a.reading \/ ~Has(a, "PAUSED")) \in BOOLEAN
    OBVIOUS
  <2> HIDE DEF b
  <2>3. b \in State
    <3>1. a \in State
      BY <1>3 DEF Inv
    <3>2. a.flags \cup {"READABLE", "WRITABLE"} \in SUBSET Flag
      BY <3>1 DEF State, Flag
    <3>3. QED  BY <3>1, <3>2, <2>1, <2>2, ZenonT(40) DEF State
  <2>4. b.handle = s.handle /\ "DESTROYED" \notin b.flags
        /\ b.draining <= Len(b.ticks)
    BY <1>3, <1>4, <1>5, <2>1 DEF Inv, State, Has
  <2>5. s.handle # NoHandle
    BY <1>5
  <2>6. QED  BY <2>3, <2>4, <2>5 DEF Inv
<1> HIDE DEF b
<1>6. ASSUME ok, ~Has(t, "DESTROYED")  PROVE Inv(EndQueued(e, shutOk))
  <2>1. Inv(e)
    BY <1>5, <1>6, FlushAndEmitInv
  <2> HIDE DEF e
  <2>2. QED  BY <2>1, EndQueuedInv
<1>7. Inv(DestroyWith(ConnectQueueCleanUp(a), TRUE))
  BY <1>3, ConnectQueueCleanUpInv, DestroyWithInv
<1>8. QED  BY <1>1, <1>6, <1>7 DEF AfterConnect, t, a0, a, b

LEMMA AfterLookupInv ==
  ASSUME NEW s, Inv(s), NEW h \in Handles, NEW err \in BOOLEAN,
         NEW ok \in BOOLEAN
  PROVE  Inv(AfterLookup(s, h, err, ok))
<1> DEFINE t == [s EXCEPT !.lookups = @ \ {h}]
<1>1. Inv(t)
  <2>1. t \in State
    BY DEF Inv, State
  <2>2. QED  BY <2>1 DEF Inv, State, Usable
<1> HIDE DEF t
<1>2. Inv([t EXCEPT !.ticks = Append(@, "EmitErrorAndDestroy")])
  BY <1>1, QueueTickInv DEF Tick
<1>3. Inv(ConnectHandle(t, h, ok))
  BY <1>1, ConnectHandleInv
<1>4. QED  BY <1>1, <1>2, <1>3 DEF AfterLookup, t

LEMMA OnDestroyInv ==
  ASSUME NEW s, Inv(s)
  PROVE  Inv(OnDestroy(s))
<1> DEFINE a == Assert(s, s.handle = NoHandle, "OnDestroy: !handle_")
           b == Assert(a, Has(s, "DESTROYED"), "OnDestroy: DESTROYED")
           t == [b EXCEPT !.listening = FALSE, !.selfRef = FALSE]
<1>1. Inv(a)
  BY AssertInv DEF Assertion
<1> HIDE DEF a
<1>2. Inv(b)
  BY <1>1, AssertInv DEF Assertion
<1> HIDE DEF b
<1>3. t \in State
  BY <1>2, ZenonT(40) DEF Inv, State
<1>4. Inv(t)
  BY <1>2, <1>3 DEF Inv, State, Usable
<1>5. QED  BY <1>4 DEF OnDestroy, b, a

LEMMA RunTickInv ==
  ASSUME NEW s, Inv(s), NEW tick \in Tick, NEW c \in AllCalls \cup {NoCall}
  PROVE  Inv(RunTick(s, tick, c))
<1>1. CASE tick = "EmitError"
  BY <1>1, EmitInv DEF RunTick, Event
<1>2. CASE tick = "EmitErrorAndDestroy"
  <2>1. Inv(Emit(s, "error", c))
    BY EmitInv DEF Event
  <2>2. QED  BY <1>2, <2>1, DestroyInv DEF RunTick
<1>3. CASE tick = "EmitClose"
  <2>1. Inv(Emit(s, "close", c))
    BY EmitInv DEF Event
  <2>2. QED  BY <1>3, <2>1, OnDestroyInv DEF RunTick
<1>4. QED  BY <1>1, <1>2, <1>3 DEF Tick

-----------------------------------------------------------------------------
(* From a state to the variables. *)

LEMMA GoToInv ==
  ASSUME NEW t, Inv(t), GoTo(t)
  PROVE  Inv(Now)'
<1>1. t = [flags |-> t.flags, handle |-> t.handle, pending |-> t.pending,
           connQ |-> t.connQ, listening |-> t.listening,
           selfRef |-> t.selfRef, held |-> t.held, ticks |-> t.ticks,
           draining |-> t.draining, lookups |-> t.lookups,
           connects |-> t.connects, writes |-> t.writes,
           shutdowns |-> t.shutdowns, reading |-> t.reading, eof |-> t.eof,
           opened |-> t.opened, issued |-> t.issued, sent |-> t.sent,
           destroys |-> t.destroys, heard |-> t.heard, broken |-> t.broken,
           crossed |-> t.crossed]
  BY DEF Inv, State
<1>2. Now' = t
  BY <1>1 DEF GoTo, Now
<1>3. QED  BY <1>2 DEF Inv, State, Usable

LEMMA InitInv == Init => Inv(Now)
<1> SUFFICES ASSUME Init PROVE Inv(Now)
  OBVIOUS
<1>1. 1 \in Handles /\ 0 \in 0..MaxOpened /\ 1 \in 0..MaxOpened /\ 1 # NoHandle
  BY BoundsAssumption DEF Handles, NoHandle
<1>2. <<>> \in Seq([id: Nat, size: Sizes]) /\ <<>> \in Seq(Nat)
      /\ <<>> \in Seq(Tick)
  OBVIOUS
<1>3. [e \in Event |-> 0] \in [Event -> Nat]
  OBVIOUS
<1>4. flags \in {{}, {"READABLE", "WRITABLE"}} /\ handle \in {NoHandle, 1}
      /\ (flags # {} => handle = 1) /\ reading \in BOOLEAN /\ opened \in {0, 1}
  BY DEF Init
<1>5. pending = 0 /\ connQ = <<>> /\ listening = TRUE /\ selfRef = TRUE
      /\ held = TRUE /\ ticks = <<>> /\ draining = 0 /\ lookups = {}
      /\ connects = {} /\ writes = {} /\ shutdowns = {} /\ eof = FALSE
      /\ issued = 0 /\ sent = <<>> /\ destroys = 0 /\ broken = {}
      /\ crossed = FALSE
      /\ heard = [e \in Event |-> 0]
  BY DEF Init
<1>6. flags \in SUBSET Flag /\ "DESTROYED" \notin flags
  BY <1>4 DEF Flag
<1>7. Now \in State
  BY <1>1, <1>2, <1>3, <1>4, <1>5, <1>6, ZenonT(40) DEF Now, State
<1>8. QED  BY <1>1, <1>4, <1>5, <1>6, <1>7 DEF Now, Inv, Usable

LEMMA NextInv == Inv(Now) /\ [Next]_vars => Inv(Now)'
<1> SUFFICES ASSUME Inv(Now), [Next]_vars PROVE Inv(Now)'
  OBVIOUS
<1> USE CallsAssumption
<1>1. ASSUME NEW c \in Calls, AppCall(c)  PROVE Inv(Now)'
  <2>1. Inv(Perform(Now, c))
    BY <1>1, PerformInv DEF AppCall
  <2>2. QED  BY <1>1, <2>1, GoToInv DEF AppCall
<1>2. ASSUME NEW c \in Reactions, ReadData(c)  PROVE Inv(Now)'
  <2>1. Inv(OnReadData(Now, c))
    BY ListenerInv DEF Reactions, OnReadData
  <2>2. QED  BY <1>2, <2>1, GoToInv DEF ReadData
<1>3. ASSUME NEW c \in Reactions, ReadEof(c)  PROVE Inv(Now)'
  <2>1. PICK t \in OnReadEof(Now, c) : GoTo(t)
    BY <1>3 DEF ReadEof
  <2>2. Inv(t)
    BY OnReadEofInv DEF Reactions
  <2>3. QED  BY <2>1, <2>2, GoToInv
<1>4. ASSUME ReadError  PROVE Inv(Now)'
  <2>1. Inv(OnReadError(Now))
    BY DestroyWithInv DEF OnReadError
  <2>2. QED  BY <1>4, <2>1, GoToInv DEF ReadError
<1>5. ASSUME AnyConnectDone  PROVE Inv(Now)'
  <2>1. PICK h \in connects, ok \in BOOLEAN, shutOk \in BOOLEAN,
             c \in Reactions, bad \in 0..Len(connQ) :
               ConnectDone(h, ok, bad, c, shutOk)
    BY <1>5 DEF AnyConnectDone
  <2>2. h # NoHandle /\ bad \in Nat
    BY DEF Inv, State, Now, Handles, NoHandle
  <2>3. (ok => h = Now.handle) /\ GoTo(AfterConnect(Now, h, ok, bad, c, shutOk))
    BY <2>1 DEF ConnectDone, Now
  <2>4. Inv(AfterConnect(Now, h, ok, bad, c, shutOk))
    BY <2>2, <2>3, AfterConnectInv DEF Reactions
  <2>5. QED  BY <2>3, <2>4, GoToInv
<1>6. ASSUME AnyWriteDone  PROVE Inv(Now)'
  <2>1. PICK w \in writes, ok \in BOOLEAN, c \in Reactions :
               WriteDone(w, ok, c)
    BY <1>6 DEF AnyWriteDone
  <2>2. Inv(AfterWrite(Now, w, ok, c))
    BY AfterWriteInv DEF Reactions
  <2>3. QED  BY <2>1, <2>2, GoToInv DEF WriteDone
<1>7. ASSUME AnyShutdownDone  PROVE Inv(Now)'
  <2>1. PICK h \in shutdowns : ShutdownDone(h)
    BY <1>7 DEF AnyShutdownDone
  <2>2. Inv(AfterShutdown(Now, h))
    BY AfterShutdownInv
  <2>3. QED  BY <2>1, <2>2, GoToInv DEF ShutdownDone
<1>8. ASSUME AnyLookupDone  PROVE Inv(Now)'
  <2>1. PICK h \in lookups, err \in BOOLEAN, ok \in BOOLEAN :
               LookupDone(h, err, ok)
    BY <1>8 DEF AnyLookupDone
  <2>2. h \in Handles
    BY DEF Inv, State, Now
  <2>3. Inv(AfterLookup(Now, h, err, ok))
    BY <2>2, AfterLookupInv
  <2>4. QED  BY <2>1, <2>3, GoToInv DEF LookupDone
<1>9. ASSUME FireNextTick  PROVE Inv(Now)'
  <2> DEFINE x == crossed \/ ~Cancelled
             t == [Now EXCEPT !.draining = Len(ticks), !.crossed = x]
  <2>1. Now.ticks = ticks /\ Len(ticks) \in Nat /\ Now.crossed = crossed
    BY DEF Inv, State, Now
  <2>2. t \in State
    <3>1. x \in BOOLEAN
      OBVIOUS
    <3> HIDE DEF x
    <3>2. Now \in State
      BY DEF Inv
    <3>3. QED  BY <2>1, <3>1, <3>2, ZenonT(40) DEF State
  <2>3. /\ t.draining = Len(ticks) /\ t.ticks = ticks
        /\ t.flags = Now.flags /\ t.handle = Now.handle
        /\ t.connQ = Now.connQ /\ t.reading = Now.reading
    BY <2>1 DEF Inv, State
  <2>4. Inv(t)
    BY <2>1, <2>2, <2>3 DEF Inv, Usable
  <2>5. GoTo(t)
    BY <1>9, <2>1 DEF FireNextTick
  <2>6. QED  BY <2>4, <2>5, GoToInv
<1>10. ASSUME AnyNextTickCallback  PROVE Inv(Now)'
  <2>1. PICK c \in Reactions : NextTickCallback(c)
    BY <1>10 DEF AnyNextTickCallback
  <2> DEFINE t == [Now EXCEPT !.ticks = Tail(@), !.draining = @ - 1]
  <2>2. ticks \in Seq(Tick) /\ draining \in Nat /\ draining # 0
        /\ draining <= Len(ticks)
    BY <2>1 DEF NextTickCallback, Idle, Inv, State, Now
  <2>3. Head(ticks) \in Tick /\ Tail(ticks) \in Seq(Tick)
        /\ Len(Tail(ticks)) = Len(ticks) - 1
    BY <2>2
  <2>4. t = [Now EXCEPT !.ticks = Tail(ticks), !.draining = draining - 1]
    BY DEF Now
  <2>5. draining - 1 \in Nat
    BY <2>2
  <2>6. t \in State
    BY <2>3, <2>4, <2>5 DEF Inv, State
  <2>7. t.ticks = Tail(ticks) /\ t.draining = draining - 1
        /\ t.flags = Now.flags /\ t.handle = Now.handle
        /\ t.connQ = Now.connQ /\ t.reading = Now.reading
    BY <2>4 DEF Inv, State
  <2>8. Inv(t)
    <3>1. t.draining <= Len(t.ticks)
      BY <2>2, <2>3, <2>7
    <3>2. QED  BY <2>6, <2>7, <3>1 DEF Inv, Usable
  <2> HIDE DEF t
  <2>9. Inv(RunTick(t, Head(ticks), c))
    BY <2>3, <2>8, RunTickInv DEF Reactions
  <2>10. QED  BY <2>1, <2>9, GoToInv DEF NextTickCallback, t
<1>11. ASSUME UNCHANGED vars  PROVE Inv(Now)'
  BY <1>11 DEF vars, Now, Inv, State, Usable
<1>12. QED
  BY <1>1, <1>2, <1>3, <1>4, <1>5, <1>6, <1>7, <1>8, <1>9, <1>10, <1>11
  DEF Next

LEMMA InvImplies ==
  Inv(Now) => TypeOK /\ TornDown /\ NoNullHandle
<1> SUFFICES ASSUME Inv(Now) PROVE TypeOK /\ TornDown /\ NoNullHandle
  OBVIOUS
<1>1. TypeOK
  BY DEF Inv, State, Now, TypeOK
<1>2. TornDown /\ NoNullHandle
  BY DEF Inv, Now, Usable, TornDown, NoNullHandle
<1>3. QED  BY <1>1, <1>2

LEMMA Invariance == Spec => []Inv(Now)
<1>1. QED  BY InitInv, NextInv, PTL DEF Spec

(* Every variable keeps its type, for every set of calls and every bound. *)
THEOREM TypeCorrect == Spec => []TypeOK
<1>1. QED  BY Invariance, InvImplies, PTL

(* destroy() leaves nothing behind: from then on there is no handle and no *)
(* queue, and no flag lets a callback or a call use them, in any order of  *)
(* callbacks and also when the application connects the socket again.      *)
THEOREM DestroyedIsTornDown == Spec => []TornDown
<1>1. QED  BY Invariance, InvImplies, PTL

(* The flags under which the code dereferences handle_ without a test are  *)
(* never set without a handle.                                             *)
THEOREM HandleIsThere == Spec => []NoNullHandle
<1>1. QED  BY Invariance, InvImplies, PTL
=============================================================================
