---------------------------- MODULE AgentProofs ----------------------------
(***************************************************************************)
(* Proofs about the agent, for any number of requests, names and sockets.  *)
(* The inductive invariant is about a record of the state, since handlers  *)
(* call each other: Inv(w, x, y) holds in the middle of the close() of a   *)
(* socket x that has left the agent's list, and of the hand-over of a      *)
(* request y that waits no more and is not yet handed; x and y are None    *)
(* between two actions.  Lemmas take each handler from Inv to Inv.         *)
(***************************************************************************)
EXTENDS HttpAgent, TLAPS, SequenceTheorems, FiniteSetTheorems

ASocket ==
  [name : Hosts, state : {"connecting", "open", "ending", "destroyed", "closed", "taken"},
   eof : BOOLEAN, inFlight : BOOLEAN, message : Req \cup {None},
   parser : Req \cup {None}, hooks : BOOLEAN, listens : Req \cup {None},
   agent : BOOLEAN]

ARequest ==
  [made : BOOLEAN, socket : Nat, parser : BOOLEAN, aborting : BOOLEAN,
   res : {"none", "reading", "complete", "upgraded"}, keep : BOOLEAN,
   paused : BOOLEAN, pending : BOOLEAN, readable : BOOLEAN, hadError : BOOLEAN,
   errors : Nat, ends : Nat, closes : Nat, dead : BOOLEAN]

ATick ==
  [kind : {"onSocket", "error", "close", "socketFree", "emitPending", "emitClose"},
   req : Req \cup {None}, sock : Nat]

State ==
  [sockets : [Hosts -> Seq(Nat)], waiting : [Hosts -> Seq(Req)],
   sock : Seq(ASocket), req : [Req -> ARequest], ticks : Seq(ATick)]

Alive == {"connecting", "open", "ending"}
Gone  == {"destroyed", "closed"}

(* The list of a name has the sockets that have the agent's listeners,     *)
(* each once.  In the middle of its close() the socket x has them and is   *)
(* not in the list any more.                                               *)
Pool(w, x) ==
  /\ \A n \in Hosts : \A i \in DOMAIN w.sockets[n] :
       LET s == w.sockets[n][i]
       IN  s \in DOMAIN w.sock /\ s # x /\ w.sock[s].name = n /\ w.sock[s].agent
  /\ \A n \in Hosts : \A i, j \in DOMAIN w.sockets[n] :
       w.sockets[n][i] = w.sockets[n][j] => i = j
  /\ \A s \in DOMAIN w.sock : w.sock[s].agent /\ s # x =>
       \E i \in DOMAIN w.sockets[w.sock[s].name] : w.sockets[w.sock[s].name][i] = s

Full(w) ==
  \A n \in Hosts :
    /\ Len(w.sockets[n]) <= MaxSockets
    /\ w.waiting[n] # <<>> => Len(w.sockets[n]) = MaxSockets

(* What a socket has of its request. *)
SocketOk(w, s, x) ==
  LET p == w.sock[s]
  IN  /\ p.state \in Alive => p.agent
      /\ p.message # None => w.req[p.message].socket = s
      /\ p.listens # None => p.message # None /\ (s # x => w.req[p.message].closes = 0)
      /\ p.hooks => p.message # None

(* What a request q has heard, and of its socket. *)
RequestOk(w, r, q) ==
  /\ q.socket = None => q.res = "none" /\ q.errors = 0 /\ q.closes = 0
  /\ q.socket # None =>
       /\ q.socket \in DOMAIN w.sock
       /\ q.ends = 0 => w.sock[q.socket].message = r
       /\ q.errors = 1 => w.sock[q.socket].state \in Gone
       /\ q.closes = 1 => w.sock[q.socket].state \in Gone \cup {"taken"}
  /\ q.res = "none" => ~q.paused /\ ~q.pending /\ q.ends = 0
  /\ q.errors <= 1 /\ q.ends <= 1 /\ q.closes <= 1
  /\ q.hadError => q.errors = 1
  /\ q.errors = 1 => q.hadError \/ q.closes = 1
  /\ q.closes = 1 => q.res # "none" \/ q.errors = 1

(* What a tick finds when it is called. *)
TickOk(w, t) ==
  /\ t.kind = "onSocket" =>
       /\ t.sock \in DOMAIN w.sock /\ t.req \in Req
       /\ w.sock[t.sock].message # None => w.req[w.sock[t.sock].message].ends = 1
  /\ t.kind \in {"error", "close"} =>
       t.sock \in DOMAIN w.sock /\ w.sock[t.sock].state = "destroyed"
  /\ t.kind = "error" /\ w.sock[t.sock].message # None =>
       w.req[w.sock[t.sock].message].errors = 0
  /\ t.kind \in {"emitPending", "emitClose"} =>
       t.req \in Req /\ w.req[t.req].res # "none"
  /\ t.kind = "socketFree" => t.sock \in DOMAIN w.sock

(* Of the ticks of a socket, u comes after t. *)
InTurn(t, u) ==
  /\ t.kind = "onSocket" => u.kind # "onSocket"
  /\ t.kind = "close" => u.kind \notin {"close", "error"}
  /\ t.kind = "error" => u.kind # "error"

Queue(w) ==
  /\ \A j \in DOMAIN w.ticks : TickOk(w, w.ticks[j])
  /\ \A j, k \in DOMAIN w.ticks :
       j < k /\ w.ticks[j].sock = w.ticks[k].sock => InTurn(w.ticks[j], w.ticks[k])

Waits(w, r) == \E i \in DOMAIN w.waiting[Host(r)] : w.waiting[Host(r)][i] = r
Handed(w, r) ==
  \E k \in DOMAIN w.ticks : w.ticks[k].kind = "onSocket" /\ w.ticks[k].req = r
HasOne(w, r) == w.req[r].socket # None

(* A request that was made is in one place, but for y, which is on its way *)
(* from one to the next.                                                   *)
PlaceOk(w, r, y) ==
  /\ ~(Waits(w, r) /\ Handed(w, r))
  /\ ~(Waits(w, r) /\ HasOne(w, r))
  /\ ~(Handed(w, r) /\ HasOne(w, r))
  /\ (Waits(w, r) \/ Handed(w, r) \/ HasOne(w, r)) <=> (w.req[r].made /\ r # y)

Places(w, y) ==
  /\ \A n \in Hosts : \A i \in DOMAIN w.waiting[n] : Host(w.waiting[n][i]) = n
  /\ \A n \in Hosts : \A i, j \in DOMAIN w.waiting[n] :
       w.waiting[n][i] = w.waiting[n][j] => i = j
  /\ \A j, k \in DOMAIN w.ticks :
       w.ticks[j].kind = "onSocket" /\ w.ticks[k].kind = "onSocket"
         /\ w.ticks[j].req = w.ticks[k].req => j = k
  /\ \A r \in Req : PlaceOk(w, r, y)

(* The inductive invariant of a handler, and all of it but Full. *)
Sound(w, x, y) ==
  /\ w \in State /\ Pool(w, x)
  /\ \A s \in DOMAIN w.sock : SocketOk(w, s, x)
  /\ \A r \in Req : RequestOk(w, r, w.req[r])
  /\ Queue(w) /\ Places(w, y)
Inv(w, x, y) == Sound(w, x, y) /\ Full(w)

-----------------------------------------------------------------------------
(* The parts of the state one by one. *)

LEMMA StateType ==
  ASSUME NEW w \in State
  PROVE  /\ w.sockets \in [Hosts -> Seq(Nat)] /\ w.waiting \in [Hosts -> Seq(Req)]
         /\ w.sock \in Seq(ASocket) /\ w.req \in [Req -> ARequest]
         /\ w.ticks \in Seq(ATick)
         /\ Len(w.sock) \in Nat /\ DOMAIN w.sock = 1..Len(w.sock)
         /\ Len(w.ticks) \in Nat /\ DOMAIN w.ticks = 1..Len(w.ticks)
         /\ \A s \in DOMAIN w.sock : w.sock[s] \in ASocket
         /\ \A j \in DOMAIN w.ticks : w.ticks[j] \in ATick
         /\ \A r \in Req : w.req[r] \in ARequest
         /\ \A n \in Hosts : w.sockets[n] \in Seq(Nat) /\ w.waiting[n] \in Seq(Req)
BY DEF State

LEMMA RecordOf ==
  ASSUME NEW w \in State
  PROVE  w = [sockets |-> w.sockets, waiting |-> w.waiting, sock |-> w.sock,
              req |-> w.req, ticks |-> w.ticks]
BY DEF State

LEMMA ReqIsNat == Req \subseteq Nat /\ None \notin Req /\ \A r \in Req : Host(r) \in Hosts
BY AgentAssumption DEF None

(* v is w but for socket s, which is q. *)
OneSocket(w, v, s, q) ==
  /\ v \in State /\ v.sockets = w.sockets /\ v.waiting = w.waiting
  /\ v.req = w.req /\ v.ticks = w.ticks
  /\ Len(v.sock) = Len(w.sock) /\ DOMAIN v.sock = DOMAIN w.sock
  /\ v.sock[s] = q
  /\ \A i \in DOMAIN w.sock : i # s => v.sock[i] = w.sock[i]

LEMMA SetSockWorks ==
  ASSUME NEW w \in State, NEW s \in DOMAIN w.sock, NEW q \in ASocket
  PROVE  OneSocket(w, SetSock(w, s, q), s, q)
<1> DEFINE ss == [w.sock EXCEPT ![s] = q]
           v  == SetSock(w, s, q)
<1>1. /\ v.sockets = w.sockets /\ v.waiting = w.waiting /\ v.req = w.req
      /\ v.ticks = w.ticks /\ v.sock = ss
      /\ v = [sockets |-> w.sockets, waiting |-> w.waiting, sock |-> ss,
              req |-> w.req, ticks |-> w.ticks]
  BY RecordOf DEF SetSock
<1>2. /\ ss \in Seq(ASocket) /\ Len(ss) = Len(w.sock) /\ DOMAIN ss = DOMAIN w.sock
      /\ ss[s] = q /\ \A i \in DOMAIN w.sock : i # s => ss[i] = w.sock[i]
  BY StateType
<1>3. v \in State
  BY <1>1, <1>2, StateType DEF State
<1>4. QED  BY <1>1, <1>2, <1>3 DEF OneSocket

(* v is w but for request r, which is q. *)
OneRequest(w, v, r, q) ==
  /\ v \in State /\ v.sockets = w.sockets /\ v.waiting = w.waiting
  /\ v.sock = w.sock /\ v.ticks = w.ticks
  /\ v.req[r] = q
  /\ \A i \in Req : i # r => v.req[i] = w.req[i]

LEMMA SetReqWorks ==
  ASSUME NEW w \in State, NEW r \in Req, NEW q \in ARequest
  PROVE  OneRequest(w, SetReq(w, r, q), r, q)
<1> DEFINE rs == [w.req EXCEPT ![r] = q]
           v  == SetReq(w, r, q)
<1>1. /\ v.sockets = w.sockets /\ v.waiting = w.waiting /\ v.sock = w.sock
      /\ v.ticks = w.ticks /\ v.req = rs
      /\ v = [sockets |-> w.sockets, waiting |-> w.waiting, sock |-> w.sock,
              req |-> rs, ticks |-> w.ticks]
  BY RecordOf DEF SetReq
<1>2. /\ rs \in [Req -> ARequest]
      /\ rs[r] = q /\ \A i \in Req : i # r => rs[i] = w.req[i]
  BY StateType
<1>3. v \in State
  BY <1>1, <1>2, StateType DEF State
<1>4. QED  BY <1>1, <1>2, <1>3 DEF OneRequest

(* v is w with one tick more. *)
OneTick(w, v, t) ==
  /\ v \in State /\ v.sockets = w.sockets /\ v.waiting = w.waiting
  /\ v.sock = w.sock /\ v.req = w.req
  /\ Len(v.ticks) = Len(w.ticks) + 1 /\ DOMAIN v.ticks = 1..(Len(w.ticks) + 1)
  /\ v.ticks[Len(w.ticks) + 1] = t
  /\ \A i \in DOMAIN w.ticks : v.ticks[i] = w.ticks[i]

LEMMA NextTickWorks ==
  ASSUME NEW w \in State, NEW t \in ATick
  PROVE  OneTick(w, NextTick(w, t), t)
<1> DEFINE ts == Append(w.ticks, t)
           v  == NextTick(w, t)
<1>1. /\ v.sockets = w.sockets /\ v.waiting = w.waiting /\ v.sock = w.sock
      /\ v.ticks = ts /\ v.req = w.req
      /\ v = [sockets |-> w.sockets, waiting |-> w.waiting, sock |-> w.sock,
              req |-> w.req, ticks |-> ts]
  BY RecordOf DEF NextTick
<1>2. /\ ts \in Seq(ATick) /\ Len(ts) = Len(w.ticks) + 1
      /\ DOMAIN ts = 1..(Len(w.ticks) + 1)
      /\ ts[Len(w.ticks) + 1] = t /\ \A i \in DOMAIN w.ticks : ts[i] = w.ticks[i]
  BY StateType
<1>3. v \in State
  BY <1>1, <1>2, StateType DEF State
<1>4. QED  BY <1>1, <1>2, <1>3 DEF OneTick

-----------------------------------------------------------------------------
(* Changes that keep the invariant. *)

(* Of a socket everything may change but its name, its listeners of the    *)
(* agent and its request; it may be destroyed, and hears no more.          *)
SocketMay(p, q) ==
  /\ q.name = p.name /\ q.agent = p.agent /\ q.message = p.message
  /\ q.listens \in {p.listens, None} /\ (q.hooks => p.hooks)
  /\ p.state \in Gone => q.state = p.state
  /\ p.state = "taken" => q.state \in {"taken", "destroyed"}
  /\ q.state \in Alive => p.state \in Alive

LEMMA SocketKeeps ==
  ASSUME NEW w, NEW v, NEW x, NEW y, Inv(w, x, y), NEW s \in DOMAIN w.sock,
         NEW q \in ASocket, OneSocket(w, v, s, q), SocketMay(w.sock[s], q)
  PROVE  Inv(v, x, y)
<1>0. /\ w \in State /\ v \in State
      /\ DOMAIN v.sock = DOMAIN w.sock /\ v.req = w.req /\ v.ticks = w.ticks
      /\ v.sockets = w.sockets /\ v.waiting = w.waiting
  BY DEF Inv, Sound, OneSocket
<1>1. \A i \in DOMAIN w.sock :
        /\ v.sock[i].name = w.sock[i].name /\ v.sock[i].agent = w.sock[i].agent
        /\ v.sock[i].message = w.sock[i].message
        /\ v.sock[i].listens \in {w.sock[i].listens, None}
        /\ v.sock[i].hooks => w.sock[i].hooks
        /\ w.sock[i].state \in Gone => v.sock[i].state = w.sock[i].state
        /\ w.sock[i].state = "taken" => v.sock[i].state \in {"taken", "destroyed"}
        /\ v.sock[i].state \in Alive => w.sock[i].state \in Alive
  BY DEF OneSocket, SocketMay
<1>2. Pool(v, x) /\ Full(v)
  BY <1>0, <1>1 DEF Inv, Sound, Pool, Full
<1>3. ASSUME NEW i \in DOMAIN v.sock  PROVE SocketOk(v, i, x)
  <2>1. SocketOk(w, i, x)
    BY <1>0, <1>3 DEF Inv, Sound
  <2>2. QED  BY <2>1, <1>0, <1>1, <1>3 DEF SocketOk
<1>4. ASSUME NEW r \in Req  PROVE RequestOk(v, r, v.req[r])
  <2>1. RequestOk(w, r, w.req[r])
    BY <1>4 DEF Inv, Sound
  <2> DEFINE i == w.req[r].socket
  <2>2. i \in DOMAIN w.sock =>
          /\ v.sock[i].message = w.sock[i].message
          /\ w.sock[i].state \in Gone => v.sock[i].state \in Gone
          /\ w.sock[i].state \in Gone \cup {"taken"} => v.sock[i].state \in Gone \cup {"taken"}
    <3>1. ASSUME i \in DOMAIN w.sock
          PROVE  /\ v.sock[i].message = w.sock[i].message
                 /\ w.sock[i].state \in Gone => v.sock[i].state = w.sock[i].state
                 /\ w.sock[i].state = "taken" => v.sock[i].state \in {"taken", "destroyed"}
      BY <3>1, <1>1
    <3> HIDE DEF i
    <3>2. QED  BY <3>1 DEF Gone
  <2>3. v.req[r] = w.req[r] /\ DOMAIN v.sock = DOMAIN w.sock
    BY <1>0
  <2>4. QED  BY <2>1, <2>2, <2>3 DEF RequestOk
<1>5. ASSUME NEW j \in DOMAIN v.ticks  PROVE TickOk(v, v.ticks[j])
  <2>1. TickOk(w, w.ticks[j])
    BY <1>0, <1>5 DEF Inv, Sound, Queue
  <2> DEFINE t == w.ticks[j]
             i == t.sock
  <2>2. v.ticks[j] = t /\ v.req = w.req /\ DOMAIN v.sock = DOMAIN w.sock
    BY <1>0
  <2>3. i \in DOMAIN w.sock =>
          /\ v.sock[i].message = w.sock[i].message
          /\ w.sock[i].state = "destroyed" => v.sock[i].state = "destroyed"
    BY <1>1 DEF Gone
  <2> HIDE DEF t
  <2>4. TickOk(w, t)
    BY <2>1 DEF t
  <2>5. QED
    <3>1. TickOk(v, t)
      <4>1. t.kind = "onSocket" =>
              /\ t.sock \in DOMAIN v.sock /\ t.req \in Req
              /\ v.sock[t.sock].message # None => v.req[v.sock[t.sock].message].ends = 1
        BY <2>2, <2>3, <2>4 DEF TickOk
      <4>2. t.kind \in {"error", "close"} =>
              t.sock \in DOMAIN v.sock /\ v.sock[t.sock].state = "destroyed"
        BY <2>2, <2>3, <2>4 DEF TickOk
      <4>3. t.kind = "error" /\ v.sock[t.sock].message # None =>
              v.req[v.sock[t.sock].message].errors = 0
        BY <2>2, <2>3, <2>4 DEF TickOk
      <4>4. /\ t.kind \in {"emitPending", "emitClose"} =>
                 t.req \in Req /\ v.req[t.req].res # "none"
            /\ t.kind = "socketFree" => t.sock \in DOMAIN v.sock
        BY <2>2, <2>4 DEF TickOk
      <4>5. QED  BY <4>1, <4>2, <4>3, <4>4, Zenon DEF TickOk
    <3>2. QED  BY <3>1, <2>2
<1>6. Queue(v)
  BY <1>0, <1>5 DEF Inv, Sound, Queue
<1>7. Places(v, y)
  BY <1>0 DEF Inv, Sound, Places, PlaceOk, Waits, Handed, HasOne
<1>8. QED  BY <1>0, <1>2, <1>3, <1>4, <1>6, <1>7 DEF Inv, Sound

NoErrorTick(w, s) ==
  \A j \in DOMAIN w.ticks : w.ticks[j].kind = "error" => w.ticks[j].sock # s

(* Of a request everything may change but whether it was made and its      *)
(* socket, if it is as RequestOk says and no tick is about to tell it of   *)
(* an error again.                                                         *)
RequestMay(w, x, p, q) ==
  /\ q.made = p.made /\ q.socket = p.socket
  /\ q.closes = p.closes \/ p.socket = x \/ w.sock[p.socket].listens = None
  /\ q.errors = p.errors \/ NoErrorTick(w, p.socket)
  /\ p.ends = 1 => q.ends = 1
  /\ p.res # "none" => q.res # "none"

LEMMA RequestKeeps ==
  ASSUME NEW w, NEW v, NEW x, NEW y, Inv(w, x, y), NEW r \in Req,
         NEW q \in ARequest, OneRequest(w, v, r, q), RequestMay(w, x, w.req[r], q),
         RequestOk(w, r, q)
  PROVE  Inv(v, x, y)
<1>0. /\ w \in State /\ v \in State
      /\ v.sock = w.sock /\ v.ticks = w.ticks
      /\ v.sockets = w.sockets /\ v.waiting = w.waiting
      /\ \A i \in Req : v.req[i].made = w.req[i].made /\ v.req[i].socket = w.req[i].socket
      /\ \A i \in Req : i # r => v.req[i] = w.req[i]
      /\ v.req[r] = q
  BY DEF Inv, Sound, OneRequest, RequestMay
<1>m. /\ \A s \in DOMAIN w.sock : w.sock[s].message \in Req \cup {None}
      /\ \A s \in DOMAIN w.sock : w.sock[s].message = r => s = w.req[r].socket
  <2>1. \A s \in DOMAIN w.sock : w.sock[s] \in ASocket /\ SocketOk(w, s, x)
    BY <1>0, StateType DEF Inv, Sound
  <2>2. QED  BY <2>1, ReqIsNat DEF SocketOk, ASocket
<1>1. Pool(v, x) /\ Full(v)
  BY <1>0 DEF Inv, Sound, Pool, Full
<1>2. ASSUME NEW s \in DOMAIN v.sock  PROVE SocketOk(v, s, x)
  <2>1. SocketOk(w, s, x)
    BY <1>0, <1>2 DEF Inv, Sound
  <2>2. w.sock[s].message = r /\ w.sock[s].listens # None /\ s # x
          => v.req[r].closes = w.req[r].closes
    BY <1>0, <1>2, <1>m DEF RequestMay
  <2>3. QED  BY <2>1, <2>2, <1>0, <1>m, <1>2 DEF SocketOk
<1>3. ASSUME NEW i \in Req  PROVE RequestOk(v, i, v.req[i])
  <2>1. CASE i = r
    BY <2>1, <1>0 DEF RequestOk
  <2>2. CASE i # r
    <3>1. RequestOk(w, i, w.req[i])
      BY <1>3 DEF Inv, Sound
    <3>2. QED  BY <3>1, <2>2, <1>0, <1>3 DEF RequestOk
  <2>3. QED  BY <2>1, <2>2
<1>4. ASSUME NEW j \in DOMAIN v.ticks  PROVE TickOk(v, v.ticks[j])
  <2>1. TickOk(w, w.ticks[j])
    BY <1>0, <1>4 DEF Inv, Sound, Queue
  <2>2. ASSUME w.ticks[j].sock \in DOMAIN w.sock, w.sock[w.ticks[j].sock].message = r,
               w.ticks[j].kind = "error"
        PROVE  v.req[r].errors = w.req[r].errors
    <3>1. w.ticks[j].sock = w.req[r].socket
      BY <2>2, <1>m
    <3>2. ~NoErrorTick(w, w.req[r].socket)
      BY <3>1, <2>2, <1>0, <1>4 DEF NoErrorTick
    <3>3. QED  BY <3>2, <1>0 DEF RequestMay
  <2>3. ASSUME w.ticks[j].sock \in DOMAIN w.sock, w.sock[w.ticks[j].sock].message = r,
               w.req[r].ends = 1
        PROVE  v.req[r].ends = 1
    BY <2>3, <1>0 DEF RequestMay
  <2> DEFINE t == w.ticks[j]
             m == w.sock[t.sock].message
  <2>4. v.ticks[j] = t /\ v.sock = w.sock /\ TickOk(w, t)
    BY <2>1, <1>0
  <2>5. ASSUME t.kind = "onSocket", m # None  PROVE v.req[m].ends = 1
    <3>1. t.sock \in DOMAIN w.sock /\ w.req[m].ends = 1
      BY <2>4, <2>5 DEF TickOk
    <3>2. m \in Req
      BY <3>1, <2>5, <1>m
    <3>3. QED  BY <3>1, <3>2, <2>3, <1>0
  <2>6. ASSUME t.kind = "error", m # None  PROVE v.req[m].errors = 0
    <3>1. t.sock \in DOMAIN w.sock /\ w.req[m].errors = 0
      BY <2>4, <2>6 DEF TickOk
    <3>2. m \in Req
      BY <3>1, <2>6, <1>m
    <3>3. QED  BY <3>1, <3>2, <2>6, <2>2, <1>0
  <2>7. t.req \in Req /\ w.req[t.req].res # "none" => v.req[t.req].res # "none"
    BY <1>0 DEF RequestMay
  <2> HIDE DEF t, m
  <2>8. TickOk(v, t)
    BY <2>4, <2>5, <2>6, <2>7 DEF TickOk, m
  <2>9. QED  BY <2>4, <2>8
<1>5. Queue(v)
  BY <1>0, <1>4 DEF Inv, Sound, Queue
<1>6. Places(v, y)
  <2>1. \A i \in Req : PlaceOk(v, i, y)
    BY <1>0 DEF Inv, Sound, Places, PlaceOk, Waits, Handed, HasOne
  <2>2. QED  BY <2>1, <1>0 DEF Inv, Sound, Places
<1>7. QED  BY <1>0, <1>1, <1>2, <1>3, <1>5, <1>6 DEF Inv, Sound

(* A handler that changes neither sockets nor requests. *)
LEMMA FrameOk ==
  ASSUME NEW w, NEW v, v.sock = w.sock, v.req = w.req
  PROVE  /\ \A s, x : SocketOk(w, s, x) => SocketOk(v, s, x)
         /\ \A r, q : RequestOk(w, r, q) => RequestOk(v, r, q)
         /\ \A t : TickOk(w, t) => TickOk(v, t)
<1>1. \A s, x : SocketOk(w, s, x) => SocketOk(v, s, x)
  BY DEF SocketOk
<1>2. \A r, q : RequestOk(w, r, q) => RequestOk(v, r, q)
  BY DEF RequestOk
<1>3. \A t : TickOk(w, t) => TickOk(v, t)
  BY DEF TickOk
<1>4. QED  BY <1>1, <1>2, <1>3

LEMMA QueueGrows ==
  ASSUME NEW w, NEW v, NEW x, NEW y, Inv(w, x, y), NEW t \in ATick, OneTick(w, v, t),
         TickOk(w, t),
         \A j \in DOMAIN w.ticks : w.ticks[j].sock = t.sock => InTurn(w.ticks[j], t)
  PROVE  /\ w \in State /\ v \in State /\ Pool(v, x) /\ Full(v) /\ Queue(v)
         /\ \A s \in DOMAIN v.sock : SocketOk(v, s, x)
         /\ \A r \in Req : RequestOk(v, r, v.req[r])
<1>0. /\ w \in State /\ v \in State
      /\ v.sock = w.sock /\ v.req = w.req
      /\ v.sockets = w.sockets /\ v.waiting = w.waiting
      /\ DOMAIN v.ticks = 1..(Len(w.ticks) + 1) /\ DOMAIN w.ticks = 1..Len(w.ticks)
      /\ Len(w.ticks) \in Nat
      /\ v.ticks[Len(w.ticks) + 1] = t
      /\ \A i \in DOMAIN w.ticks : v.ticks[i] = w.ticks[i]
  BY StateType DEF Inv, Sound, OneTick
<1>1. Pool(v, x) /\ Full(v)
  BY <1>0 DEF Inv, Sound, Pool, Full
<1>2. \A s \in DOMAIN v.sock : SocketOk(v, s, x)
  BY <1>0 DEF Inv, Sound, SocketOk
<1>3. \A r \in Req : RequestOk(v, r, v.req[r])
  BY <1>0 DEF Inv, Sound, RequestOk
<1>4. Queue(v)
  <2>1. ASSUME NEW j \in DOMAIN v.ticks  PROVE TickOk(v, v.ticks[j])
    <3>1. TickOk(w, v.ticks[j])
      <4>1. j \in DOMAIN w.ticks \/ j = Len(w.ticks) + 1
        BY <1>0, <2>1
      <4>2. QED  BY <4>1, <1>0 DEF Inv, Sound, Queue
    <3>2. QED  BY <3>1, <1>0, FrameOk
  <2>2. ASSUME NEW j \in DOMAIN v.ticks, NEW k \in DOMAIN v.ticks, j < k,
               v.ticks[j].sock = v.ticks[k].sock
        PROVE  InTurn(v.ticks[j], v.ticks[k])
    <3>1. j \in DOMAIN w.ticks /\ (k \in DOMAIN w.ticks \/ k = Len(w.ticks) + 1)
      BY <1>0, <2>2
    <3>2. CASE k \in DOMAIN w.ticks
      <4>1. v.ticks[j] = w.ticks[j] /\ v.ticks[k] = w.ticks[k]
        BY <3>1, <3>2, <1>0
      <4>2. QED  BY <4>1, <3>1, <3>2, <2>2 DEF Inv, Sound, Queue
    <3>3. CASE k = Len(w.ticks) + 1
      <4>1. v.ticks[j] = w.ticks[j] /\ v.ticks[k] = t
        BY <3>1, <3>3, <1>0
      <4>2. w.ticks[j].sock = t.sock
        BY <4>1, <2>2
      <4>3. InTurn(w.ticks[j], t)
        BY <4>2, <3>1
      <4>4. QED  BY <4>1, <4>3
    <3>4. QED  BY <3>1, <3>2, <3>3
  <2>3. QED  BY <2>1, <2>2 DEF Queue
<1>5. QED  BY <1>0, <1>1, <1>2, <1>3, <1>4

LEMMA TickKeeps ==
  ASSUME NEW w, NEW x, NEW y, Inv(w, x, y), NEW t \in ATick, t.kind # "onSocket",
         TickOk(w, t),
         \A j \in DOMAIN w.ticks : w.ticks[j].sock = t.sock => InTurn(w.ticks[j], t)
  PROVE  Inv(NextTick(w, t), x, y) /\ OneTick(w, NextTick(w, t), t)
<1> DEFINE v == NextTick(w, t)
<1>1. OneTick(w, v, t)
  BY NextTickWorks DEF Inv, Sound
<1> HIDE DEF v
<1>2. /\ w \in State /\ v \in State /\ Pool(v, x) /\ Full(v) /\ Queue(v)
      /\ \A s \in DOMAIN v.sock : SocketOk(v, s, x)
      /\ \A r \in Req : RequestOk(v, r, v.req[r])
  BY <1>1, QueueGrows
<1>3. /\ v.req = w.req /\ v.waiting = w.waiting
      /\ DOMAIN v.ticks = 1..(Len(w.ticks) + 1) /\ DOMAIN w.ticks = 1..Len(w.ticks)
      /\ Len(w.ticks) \in Nat
      /\ v.ticks[Len(w.ticks) + 1] = t
      /\ \A i \in DOMAIN w.ticks : v.ticks[i] = w.ticks[i]
  BY <1>1, <1>2, StateType DEF OneTick
<1>4. \A k \in DOMAIN v.ticks : v.ticks[k].kind = "onSocket" =>
        k \in DOMAIN w.ticks /\ v.ticks[k] = w.ticks[k]
  BY <1>3
<1>5. \A k \in DOMAIN w.ticks : k \in DOMAIN v.ticks /\ v.ticks[k] = w.ticks[k]
  BY <1>3
<1>6. ASSUME NEW r \in Req  PROVE PlaceOk(v, r, y)
  <2>1. Handed(v, r) <=> Handed(w, r)
    BY <1>4, <1>5 DEF Handed
  <2>2. (Waits(v, r) <=> Waits(w, r)) /\ (HasOne(v, r) <=> HasOne(w, r))
    BY <1>3 DEF Waits, HasOne
  <2>3. PlaceOk(w, r, y)
    BY <1>6 DEF Inv, Sound, Places
  <2>4. QED  BY <2>1, <2>2, <2>3, <1>3 DEF PlaceOk
<1>7. Places(v, y)
  BY <1>3, <1>4, <1>6 DEF Inv, Sound, Places
<1>8. QED  BY <1>1, <1>2, <1>7 DEF Inv, Sound, v

NotHanded(w, s) ==
  \A k \in DOMAIN w.ticks : w.ticks[k].kind = "onSocket" => w.ticks[k].sock # s

(* The socket s is free: its request, if it had one, has its response. *)
IsFree(w, s) ==
  /\ s \in DOMAIN w.sock /\ NotHanded(w, s)
  /\ w.sock[s].message # None => w.req[w.sock[s].message].ends = 1

LEMMA HandKeeps ==
  ASSUME NEW w, NEW x, NEW r \in Req, Inv(w, x, r), w.req[r].made, NEW s,
         IsFree(w, s)
  PROVE  Inv(NextTick(w, Tick("onSocket", r, s)), x, None)
<1> DEFINE t == Tick("onSocket", r, s)
           v == NextTick(w, t)
<1>0. /\ w \in State /\ t \in ATick /\ t.kind = "onSocket" /\ t.req = r /\ t.sock = s
      /\ s \in DOMAIN w.sock /\ DOMAIN w.sock = 1..Len(w.sock) /\ Len(w.sock) \in Nat
  BY StateType DEF Inv, Sound, Tick, ATick, IsFree
<1>1. OneTick(w, v, t)
  BY <1>0, NextTickWorks
<1>a. TickOk(w, t)
  BY <1>0 DEF TickOk, IsFree
<1>b. \A j \in DOMAIN w.ticks : w.ticks[j].sock = t.sock => InTurn(w.ticks[j], t)
  BY <1>0 DEF IsFree, NotHanded, InTurn
<1> HIDE DEF v, t
<1>2. /\ v \in State /\ Pool(v, x) /\ Full(v) /\ Queue(v)
      /\ \A i \in DOMAIN v.sock : SocketOk(v, i, x)
      /\ \A i \in Req : RequestOk(v, i, v.req[i])
  BY <1>0, <1>1, <1>a, <1>b, QueueGrows
<1>3. /\ v.req = w.req /\ v.waiting = w.waiting
      /\ DOMAIN v.ticks = 1..(Len(w.ticks) + 1) /\ DOMAIN w.ticks = 1..Len(w.ticks)
      /\ Len(w.ticks) \in Nat
      /\ v.ticks[Len(w.ticks) + 1] = t
      /\ \A i \in DOMAIN w.ticks : v.ticks[i] = w.ticks[i]
  BY <1>0, <1>1, <1>2, StateType DEF OneTick
<1>4. \A k \in DOMAIN v.ticks :
        \/ k \in DOMAIN w.ticks /\ v.ticks[k] = w.ticks[k]
        \/ k = Len(w.ticks) + 1 /\ v.ticks[k] = t
  BY <1>3
<1>5. \A k \in DOMAIN w.ticks : k \in DOMAIN v.ticks /\ v.ticks[k] = w.ticks[k]
  BY <1>3
<1>6. PlaceOk(w, r, r)
  BY DEF Inv, Sound, Places
<1>7. ~Waits(w, r) /\ ~Handed(w, r) /\ ~HasOne(w, r)
  BY <1>6 DEF PlaceOk
<1>8. ASSUME NEW i \in Req  PROVE PlaceOk(v, i, None)
  <2>2. (Waits(v, i) <=> Waits(w, i)) /\ (HasOne(v, i) <=> HasOne(w, i))
    BY <1>3 DEF Waits, HasOne
  <2>3. PlaceOk(w, i, r) /\ i # None /\ v.req[i].made = w.req[i].made
    BY <1>8, <1>3, ReqIsNat DEF Inv, Sound, Places
  <2>4. CASE i = r
    <3>1. Handed(v, r)
      BY <1>0, <1>3 DEF Handed
    <3>2. QED  BY <3>1, <1>7, <2>2, <2>3, <2>4 DEF PlaceOk
  <2>5. CASE i # r
    <3>1. Handed(v, i) <=> Handed(w, i)
      BY <1>0, <1>4, <1>5, <2>5 DEF Handed
    <3>2. QED  BY <3>1, <2>2, <2>3, <2>5 DEF PlaceOk
  <2>6. QED  BY <2>4, <2>5
<1>9. Places(v, None)
  <2>1. ASSUME NEW j \in DOMAIN v.ticks, NEW k \in DOMAIN v.ticks,
               v.ticks[j].kind = "onSocket", v.ticks[k].kind = "onSocket",
               v.ticks[j].req = v.ticks[k].req
        PROVE  j = k
    <3>1. \A i \in DOMAIN w.ticks : ~(w.ticks[i].kind = "onSocket" /\ w.ticks[i].req = r)
      BY <1>7 DEF Handed
    <3>2. QED  BY <3>1, <2>1, <1>0, <1>4 DEF Inv, Sound, Places
  <2>2. QED  BY <2>1, <1>3, <1>8 DEF Inv, Sound, Places
<1>10. QED  BY <1>2, <1>9 DEF Inv, Sound, v, t

-----------------------------------------------------------------------------
(* The operators of the socket and of the agent. *)

(* What destroy() leaves as it was, for whoever called it. *)
Quietly(w, v) ==
  /\ v.req = w.req /\ v.waiting = w.waiting /\ v.sockets = w.sockets
  /\ DOMAIN v.sock = DOMAIN w.sock
  /\ \A i \in DOMAIN w.sock :
       /\ v.sock[i].name = w.sock[i].name /\ v.sock[i].agent = w.sock[i].agent
       /\ v.sock[i].message = w.sock[i].message
       /\ v.sock[i].listens = w.sock[i].listens
       /\ v.sock[i].hooks = w.sock[i].hooks
  /\ \A i : NotHanded(w, i) => NotHanded(v, i)

LEMMA DestroyKeeps ==
  ASSUME NEW w, NEW x, NEW y, Inv(w, x, y), NEW s \in DOMAIN w.sock,
         NEW err \in BOOLEAN
  PROVE  LET v == Destroy(w, s, err)
         IN  /\ Inv(v, x, y) /\ v.sock[s].state \in Gone
             /\ Quietly(w, v)
             /\ \A i \in DOMAIN w.sock : i # s => v.sock[i] = w.sock[i]
             /\ \A i : NoErrorTick(w, i) /\ (i = s => ~err) => NoErrorTick(v, i)
             /\ ~err /\ w.sock[s].state \notin Gone => NoErrorTick(v, s)
<1> DEFINE q    == [w.sock[s] EXCEPT !.state = "destroyed"]
           gone == SetSock(w, s, q)
           e    == Tick("error", None, s)
           c    == Tick("close", None, s)
           told == IF err THEN NextTick(gone, e) ELSE gone
           v    == NextTick(told, c)
<1>0. /\ w \in State /\ w.sock[s] \in ASocket /\ s \in Nat
  BY StateType DEF Inv, Sound
<1>1. CASE w.sock[s].state \in Gone
  <2>1. Destroy(w, s, err) = w
    BY <1>1 DEF Destroy, Gone
  <2>2. Quietly(w, w)
    BY DEF Quietly
  <2>3. QED  BY <1>1, <2>1, <2>2
<1>2. CASE w.sock[s].state \notin Gone
  <2>0. Destroy(w, s, err) = v
    BY <1>2 DEF Destroy, Gone
  <2>1. q \in ASocket /\ SocketMay(w.sock[s], q) /\ q.state = "destroyed"
        /\ q.name = w.sock[s].name /\ q.agent = w.sock[s].agent
        /\ q.message = w.sock[s].message /\ q.listens = w.sock[s].listens
        /\ q.hooks = w.sock[s].hooks
    BY <1>0, <1>2 DEF ASocket, SocketMay, Gone, Alive
  <2>2. OneSocket(w, gone, s, q)
    BY <1>0, <2>1, SetSockWorks
  <2>3. e \in ATick /\ c \in ATick /\ e.kind = "error" /\ c.kind = "close"
        /\ e.sock = s /\ c.sock = s
    BY <1>0 DEF Tick, ATick
  <2> HIDE DEF gone, q, e, c
  <2>4. Inv(gone, x, y)
    BY <2>1, <2>2, SocketKeeps
  <2>5. \A j \in DOMAIN w.ticks : w.ticks[j].sock = s =>
          w.ticks[j].kind \notin {"error", "close"}
    <3>1. ASSUME NEW j \in DOMAIN w.ticks, w.ticks[j].sock = s
          PROVE  w.ticks[j].kind \notin {"error", "close"}
      <4>1. TickOk(w, w.ticks[j])
        BY DEF Inv, Sound, Queue
      <4>2. QED  BY <4>1, <3>1, <1>2 DEF TickOk, Gone
    <3>2. QED  BY <3>1
  <2>6. /\ gone.ticks = w.ticks /\ gone.req = w.req /\ s \in DOMAIN gone.sock
        /\ gone.sock[s] = q
    BY <2>2 DEF OneSocket
  <2>7. TickOk(gone, c)
    BY <2>1, <2>3, <2>6 DEF TickOk
  <2>8. CASE ~err
    <3>1. told = gone
      BY <2>8
    <3>2. Inv(v, x, y) /\ OneTick(gone, v, c)
      <4>1. \A j \in DOMAIN gone.ticks : gone.ticks[j].sock = c.sock
              => InTurn(gone.ticks[j], c)
        BY <2>3, <2>5, <2>6 DEF InTurn
      <4>2. QED  BY <4>1, <2>3, <2>4, <2>7, <3>1, TickKeeps
    <3> HIDE DEF told, v
    <3>3. \A k \in DOMAIN v.ticks : v.ticks[k] = c \/
            (k \in DOMAIN w.ticks /\ v.ticks[k] = w.ticks[k])
      BY <1>0, <2>6, <3>2, StateType DEF OneTick
    <3>4. v.req = gone.req /\ v.sock = gone.sock /\ v.waiting = gone.waiting
          /\ v.sockets = gone.sockets
      BY <3>2 DEF OneTick
    <3>5. Quietly(w, v)
      <4>1. \A i : NotHanded(w, i) => NotHanded(v, i)
        BY <3>3, <2>3 DEF NotHanded
      <4>2. QED  BY <4>1, <2>1, <2>2, <3>4 DEF Quietly, OneSocket
    <3>6. \A i : NoErrorTick(w, i) => NoErrorTick(v, i)
      BY <3>3, <2>3 DEF NoErrorTick
    <3>7. NoErrorTick(v, s)
      BY <3>3, <2>3, <2>5 DEF NoErrorTick
    <3>8. v.sock[s].state \in Gone /\ \A i \in DOMAIN w.sock : i # s => v.sock[i] = w.sock[i]
      BY <3>4, <2>1, <2>2 DEF OneSocket, Gone
    <3>9. QED  BY <2>0, <2>8, <3>2, <3>5, <3>6, <3>7, <3>8
  <2>9. CASE err
    <3>1. told = NextTick(gone, e)
      BY <2>9
    <3>2. TickOk(gone, e)
      <4>1. ASSUME q.message # None  PROVE w.req[q.message].errors = 0
        <5>1. SocketOk(w, s, x) /\ q.message \in Req
          BY <4>1, <2>1 DEF Inv, Sound, ASocket
        <5>2. w.req[q.message].socket = s
          BY <5>1, <4>1, <2>1 DEF SocketOk
        <5>3. RequestOk(w, q.message, w.req[q.message]) /\ w.req[q.message] \in ARequest
          BY <5>1, <1>0, StateType DEF Inv, Sound
        <5>4. s # None
          BY <1>0, StateType DEF None
        <5>5. w.req[q.message].errors # 1
          BY <5>2, <5>3, <5>4, <1>2 DEF RequestOk
        <5>6. QED  BY <5>3, <5>5 DEF RequestOk, ARequest
      <4>2. QED  BY <4>1, <2>1, <2>3, <2>6 DEF TickOk
    <3>3. Inv(told, x, y) /\ OneTick(gone, told, e)
      <4>1. \A j \in DOMAIN gone.ticks : gone.ticks[j].sock = e.sock
              => InTurn(gone.ticks[j], e)
        BY <2>3, <2>5, <2>6 DEF InTurn
      <4>2. QED  BY <4>1, <2>3, <2>4, <3>1, <3>2, TickKeeps
    <3> HIDE DEF told
    <3>4. \A k \in DOMAIN told.ticks : told.ticks[k] = e \/
            (k \in DOMAIN w.ticks /\ told.ticks[k] = w.ticks[k])
      BY <1>0, <2>6, <3>3, StateType DEF OneTick
    <3>5. told.req = gone.req /\ told.sock = gone.sock /\ told.waiting = gone.waiting
          /\ told.sockets = gone.sockets
      BY <3>3 DEF OneTick
    <3>6. Inv(v, x, y) /\ OneTick(told, v, c)
      <4>1. \A j \in DOMAIN told.ticks : told.ticks[j].sock = c.sock
              => InTurn(told.ticks[j], c)
        BY <2>3, <2>5, <3>4 DEF InTurn
      <4>2. TickOk(told, c)
        BY <2>7, <3>5 DEF TickOk
      <4>3. QED  BY <4>1, <4>2, <2>3, <3>3, TickKeeps
    <3> HIDE DEF v
    <3>7. told \in State
      BY <3>3 DEF Inv, Sound
    <3>8. \A k \in DOMAIN v.ticks : v.ticks[k] = c \/ v.ticks[k] = e \/
            (k \in DOMAIN w.ticks /\ v.ticks[k] = w.ticks[k])
      BY <3>4, <3>6, <3>7, StateType DEF OneTick
    <3>9. v.req = gone.req /\ v.sock = gone.sock /\ v.waiting = gone.waiting
          /\ v.sockets = gone.sockets
      BY <3>5, <3>6 DEF OneTick
    <3>10. Quietly(w, v)
      <4>1. \A i : NotHanded(w, i) => NotHanded(v, i)
        BY <3>8, <2>3 DEF NotHanded
      <4>2. QED  BY <4>1, <2>1, <2>2, <3>9 DEF Quietly, OneSocket
    <3>11. \A i : NoErrorTick(w, i) /\ i # s => NoErrorTick(v, i)
      BY <3>8, <2>3 DEF NoErrorTick
    <3>12. v.sock[s].state \in Gone /\ \A i \in DOMAIN w.sock : i # s => v.sock[i] = w.sock[i]
      BY <3>9, <2>1, <2>2 DEF OneSocket, Gone
    <3>13. QED  BY <2>0, <2>9, <3>6, <3>10, <3>11, <3>12
  <2>10. QED  BY <2>8, <2>9
<1>3. QED  BY <1>1, <1>2

(* What else is so after a handler, for the one that called it: no socket  *)
(* is forgotten, a destroyed socket is not destroyed again, requests keep  *)
(* their responses.                                                        *)
NoTick(w, s) ==
  \A j \in DOMAIN w.ticks :
    w.ticks[j].kind \in {"error", "close"} => w.ticks[j].sock # s

Later(w, v) ==
  /\ DOMAIN v.sock = DOMAIN w.sock
  /\ \A i \in Req : w.req[i].res # "none" => v.req[i].res # "none"
  /\ \A i \in DOMAIN w.sock : w.sock[i].state \in Gone =>
       v.sock[i].state \in Gone /\ (NoTick(w, i) => NoTick(v, i))

LEMMA LaterTwice ==
  ASSUME NEW u, NEW v, NEW w, Later(u, v), Later(v, w)
  PROVE  Later(u, w)
BY DEF Later

LEMMA DestroyLater ==
  ASSUME NEW w, NEW x, NEW y, Inv(w, x, y), NEW s \in DOMAIN w.sock
  PROVE  /\ Inv(Destroy(w, s, FALSE), x, y) /\ Later(w, Destroy(w, s, FALSE))
         /\ Quietly(w, Destroy(w, s, FALSE))
         /\ Destroy(w, s, FALSE).sock[s].state \in Gone
         /\ NoErrorTick(w, s) \/ w.sock[s].state \notin Gone
              => NoErrorTick(Destroy(w, s, FALSE), s)
<1> DEFINE v == Destroy(w, s, FALSE)
<1>1. /\ Inv(v, x, y) /\ v.sock[s].state \in Gone /\ Quietly(w, v)
      /\ \A i \in DOMAIN w.sock : i # s => v.sock[i] = w.sock[i]
      /\ NoErrorTick(w, s) \/ w.sock[s].state \notin Gone => NoErrorTick(v, s)
  BY DestroyKeeps
<1>2. \A i \in DOMAIN w.sock : w.sock[i].state \in Gone /\ NoTick(w, i) => NoTick(v, i)
  <2>1. CASE w.sock[s].state \in Gone
    <3>1. v = w
      BY <2>1 DEF Destroy, Gone
    <3>2. QED  BY <3>1
  <2>2. CASE w.sock[s].state \notin Gone
    <3> DEFINE q    == [w.sock[s] EXCEPT !.state = "destroyed"]
               gone == SetSock(w, s, q)
               c    == Tick("close", None, s)
    <3>1. v = NextTick(gone, c)
      BY <2>2 DEF Destroy, Gone
    <3>0. w \in State /\ w.sock[s] \in ASocket /\ s \in Nat
      BY StateType DEF Inv, Sound
    <3>2. q \in ASocket /\ c \in ATick /\ c.sock = s
      BY <3>0 DEF ASocket, Tick, ATick
    <3>3. OneSocket(w, gone, s, q)
      BY <3>0, <3>2, SetSockWorks
    <3>4. OneTick(gone, NextTick(gone, c), c) /\ gone \in State
      BY <3>2, <3>3, NextTickWorks DEF OneSocket
    <3> HIDE DEF gone, q, c
    <3>a. v.ticks = NextTick(gone, c).ticks /\ gone.ticks = w.ticks
      BY <3>1, <3>3 DEF OneSocket
    <3> HIDE DEF v
    <3>b. /\ DOMAIN v.ticks = 1..(Len(w.ticks) + 1) /\ v.ticks[Len(w.ticks) + 1] = c
          /\ \A i \in DOMAIN w.ticks : v.ticks[i] = w.ticks[i]
      BY <3>a, <3>4 DEF OneTick
    <3>5. \A k \in DOMAIN v.ticks : v.ticks[k] = c \/
            (k \in DOMAIN w.ticks /\ v.ticks[k] = w.ticks[k])
      BY <3>b, <3>0, StateType
    <3>6. QED  BY <3>2, <3>5, <2>2 DEF NoTick
  <2>3. QED  BY <2>1, <2>2
<1> HIDE DEF v
<1>3. Later(w, v)
  BY <1>1, <1>2 DEF Later, Quietly
<1>4. QED  BY <1>1, <1>3 DEF v

LEMMA DestroySoonLater ==
  ASSUME NEW w, NEW x, NEW y, Inv(w, x, y), NEW s \in DOMAIN w.sock
  PROVE  Inv(DestroySoon(w, s), x, y) /\ Later(w, DestroySoon(w, s))
<1> DEFINE q == [w.sock[s] EXCEPT !.state = "ending"]
           v == DestroySoon(w, s)
<1>1. CASE w.sock[s].state \in {"open", "ending"} /\ w.sock[s].inFlight
  <2>1. v = SetSock(w, s, q)
    BY <1>1 DEF DestroySoon
  <2>0. w \in State /\ w.sock[s] \in ASocket
    BY StateType DEF Inv, Sound
  <2>2. q \in ASocket /\ SocketMay(w.sock[s], q)
    BY <1>1, <2>0 DEF ASocket, SocketMay, Gone, Alive
  <2>3. OneSocket(w, v, s, q)
    BY <2>0, <2>1, <2>2, SetSockWorks
  <2> HIDE DEF v, q
  <2>4. Inv(v, x, y)
    BY <2>2, <2>3, SocketKeeps
  <2>5. Later(w, v)
    BY <1>1, <2>3 DEF OneSocket, Later, Gone, NoTick
  <2>6. QED  BY <2>4, <2>5 DEF v
<1>2. CASE ~(w.sock[s].state \in {"open", "ending"} /\ w.sock[s].inFlight)
  BY <1>2, DestroyLater DEF DestroySoon
<1>3. QED  BY <1>1, <1>2

(* onSocket(): the request r is on its way to the socket s. *)
LEMMA HandToKeeps ==
  ASSUME NEW w, NEW x, NEW r \in Req, Inv(w, x, r), w.req[r].made, NEW s, IsFree(w, s)
  PROVE  LET v == HandTo(w, r, s)
         IN  /\ Inv(v, x, None) /\ v.sock = w.sock
             /\ v.sockets = w.sockets /\ v.waiting = w.waiting
             /\ \A i \in Req : i # r => v.req[i] = w.req[i]
             /\ v.req[r].res = w.req[r].res
             /\ \A i : NoTick(w, i) => NoTick(v, i)
<1> DEFINE d  == w.sock[s].state \in {"destroyed", "closed"}
           q  == [w.req[r] EXCEPT !.dead = d]
           u  == SetReq(w, r, q)
           t  == Tick("onSocket", r, s)
           v  == NextTick(u, t)
<1>0. w \in State /\ w.req[r] \in ARequest /\ RequestOk(w, r, w.req[r])
      /\ s \in Nat
  BY StateType DEF Inv, Sound, IsFree
<1>1. HandTo(w, r, s) = v
  BY DEF HandTo, SetReq
<1>d. d \in BOOLEAN
  OBVIOUS
<1> HIDE DEF d
<1>a. /\ q \in ARequest /\ q.made = w.req[r].made /\ q.res = w.req[r].res
      /\ q.socket = w.req[r].socket /\ q.paused = w.req[r].paused
      /\ q.pending = w.req[r].pending /\ q.hadError = w.req[r].hadError
      /\ q.errors = w.req[r].errors /\ q.ends = w.req[r].ends
      /\ q.closes = w.req[r].closes
  BY <1>0, <1>d DEF ARequest
<1> HIDE DEF q
<1>2. /\ q \in ARequest /\ RequestMay(w, x, w.req[r], q) /\ RequestOk(w, r, q)
      /\ q.made = w.req[r].made /\ q.res = w.req[r].res /\ q.ends = w.req[r].ends
  BY <1>0, <1>a DEF RequestMay, RequestOk
<1>3. OneRequest(w, u, r, q)
  BY <1>0, <1>2, SetReqWorks
<1>4. t \in ATick /\ t.kind = "onSocket"
  BY <1>0 DEF Tick, ATick
<1> HIDE DEF u
<1>5. Inv(u, x, r)
  BY <1>2, <1>3, RequestKeeps
<1>6. IsFree(u, s) /\ u.req[r].made
  <2>1. /\ u.sock = w.sock /\ u.ticks = w.ticks /\ u.req[r] = q
        /\ \A i \in Req : i # r => u.req[i] = w.req[i]
    BY <1>3 DEF OneRequest
  <2>2. w.sock[s].message \in Req \cup {None} /\ s \in DOMAIN w.sock
    BY <1>0, StateType DEF IsFree, ASocket
  <2>3. \A i \in Req : u.req[i].ends = w.req[i].ends /\ u.req[i].made = w.req[i].made
    BY <2>1, <1>2
  <2>4. QED  BY <2>1, <2>2, <2>3 DEF IsFree, NotHanded
<1>7. Inv(v, x, None)
  BY <1>5, <1>6, HandKeeps
<1>8. OneTick(u, v, t)
  BY <1>4, <1>5, NextTickWorks DEF Inv, Sound
<1> HIDE DEF v, t
<1>9. /\ v.sock = w.sock /\ v.sockets = w.sockets /\ v.waiting = w.waiting
      /\ \A i \in Req : i # r => v.req[i] = w.req[i]
      /\ v.req[r].res = w.req[r].res
  BY <1>2, <1>3, <1>8 DEF OneTick, OneRequest
<1>10. \A k \in DOMAIN v.ticks : v.ticks[k] = t \/
         (k \in DOMAIN w.ticks /\ v.ticks[k] = w.ticks[k])
  BY <1>0, <1>3, <1>8, StateType DEF OneTick, OneRequest
<1>11. \A i : NoTick(w, i) => NoTick(v, i)
  BY <1>4, <1>10 DEF NoTick
<1>12. QED  BY <1>1, <1>7, <1>9, <1>11

LEMMA QuietLater ==
  ASSUME NEW w, NEW v, v.sock = w.sock, v.req = w.req, v.ticks = w.ticks
  PROVE  Later(w, v)
BY DEF Later, NoTick

LEMMA PopKeeps ==
  ASSUME NEW w, NEW x, Inv(w, x, None), NEW n \in Hosts, w.waiting[n] # <<>>
  PROVE  LET v == [w EXCEPT !.waiting[n] = Tail(w.waiting[n])]
             r == Head(w.waiting[n])
         IN  /\ r \in Req /\ w.req[r].made /\ Inv(v, x, r) /\ w.req[r].socket = None
             /\ v.sock = w.sock /\ v.sockets = w.sockets
             /\ v.ticks = w.ticks /\ v.req = w.req
<1> DEFINE rs == w.waiting[n]
           v  == [w EXCEPT !.waiting[n] = Tail(rs)]
           r  == Head(rs)
<1>0. w \in State /\ rs \in Seq(Req) /\ rs # <<>> /\ w.waiting \in [Hosts -> Seq(Req)]
  BY StateType DEF Inv, Sound
<1>1. /\ r \in Req /\ r = rs[1] /\ 1 \in DOMAIN rs /\ Tail(rs) \in Seq(Req)
      /\ DOMAIN Tail(rs) = 1..(Len(rs) - 1) /\ DOMAIN rs = 1..Len(rs) /\ Len(rs) \in Nat
      /\ \A i \in 1..(Len(rs) - 1) : Tail(rs)[i] = rs[i + 1]
  BY <1>0
<1> DEFINE tl == Tail(rs)
           ws == [w.waiting EXCEPT ![n] = tl]
<1>r. w = [sockets |-> w.sockets, waiting |-> w.waiting, sock |-> w.sock,
           req |-> w.req, ticks |-> w.ticks]
  BY <1>0, RecordOf
<1>v. v = [w EXCEPT !.waiting = ws]
  BY <1>r
<1> HIDE DEF v, ws
<1>2. /\ v.sockets = w.sockets /\ v.sock = w.sock /\ v.req = w.req /\ v.ticks = w.ticks
      /\ v.waiting = ws
      /\ v = [sockets |-> w.sockets, waiting |-> ws, sock |-> w.sock,
              req |-> w.req, ticks |-> w.ticks]
  BY <1>r, <1>v
<1>3. /\ v.waiting \in [Hosts -> Seq(Req)] /\ v.waiting[n] = Tail(rs)
      /\ \A m \in Hosts : m # n => v.waiting[m] = w.waiting[m]
  BY <1>0, <1>1, <1>2 DEF ws
<1>4. v \in State
  BY <1>0, <1>2, <1>3, StateType DEF State
<1>5. Pool(v, x)
  BY <1>2 DEF Inv, Sound, Pool
<1>6. /\ \A s \in DOMAIN v.sock : SocketOk(v, s, x)
      /\ \A i \in Req : RequestOk(v, i, v.req[i])
      /\ Queue(v)
  BY <1>2, FrameOk DEF Inv, Sound, Queue
<1>7. Full(v)
  <2>1. ASSUME NEW m \in Hosts, v.waiting[m] # <<>>  PROVE w.waiting[m] # <<>>
    BY <1>0, <1>3, <2>1
  <2>2. QED  BY <2>1, <1>2 DEF Inv, Full
<1>8. Waits(w, r) /\ Host(r) = n
  <2>1. Host(rs[1]) = n
    BY <1>1 DEF Inv, Sound, Places
  <2>2. QED  BY <2>1, <1>1 DEF Waits
<1>9. PlaceOk(w, r, None) /\ r # None
  BY <1>1, ReqIsNat DEF Inv, Sound, Places
<1>10. ~Handed(w, r) /\ ~HasOne(w, r) /\ w.req[r].made
  BY <1>8, <1>9 DEF PlaceOk
<1>11. /\ \A m \in Hosts : \A i \in DOMAIN v.waiting[m] : Host(v.waiting[m][i]) = m
       /\ \A m \in Hosts : \A i, j \in DOMAIN v.waiting[m] :
            v.waiting[m][i] = v.waiting[m][j] => i = j
  <2>1. ASSUME NEW m \in Hosts, NEW i \in DOMAIN v.waiting[m]
        PROVE  Host(v.waiting[m][i]) = m
    <3>1. CASE m = n
      <4>0. v.waiting[m] = Tail(rs) /\ i \in 1..(Len(rs) - 1)
        BY <1>1, <1>3, <2>1, <3>1
      <4>1. i + 1 \in DOMAIN rs /\ v.waiting[m][i] = rs[i + 1]
        BY <4>0, <1>1
      <4>2. QED  BY <4>1, <3>1 DEF Inv, Sound, Places
    <3>2. CASE m # n
      BY <1>3, <2>1, <3>2 DEF Inv, Sound, Places
    <3>3. QED  BY <3>1, <3>2
  <2>2. ASSUME NEW m \in Hosts, NEW i \in DOMAIN v.waiting[m], NEW j \in DOMAIN v.waiting[m],
               v.waiting[m][i] = v.waiting[m][j]
        PROVE  i = j
    <3>1. CASE m = n
      <4>0. /\ v.waiting[m] = Tail(rs)
            /\ i \in 1..(Len(rs) - 1) /\ j \in 1..(Len(rs) - 1)
        BY <1>1, <1>3, <2>2, <3>1
      <4>1. /\ i + 1 \in DOMAIN rs /\ v.waiting[m][i] = rs[i + 1] /\ i \in Nat
            /\ j + 1 \in DOMAIN rs /\ v.waiting[m][j] = rs[j + 1] /\ j \in Nat
        BY <4>0, <1>1
      <4>2. i + 1 = j + 1
        BY <4>1, <2>2 DEF Inv, Sound, Places
      <4>3. QED  BY <4>1, <4>2
    <3>2. CASE m # n
      BY <1>3, <2>2, <3>2 DEF Inv, Sound, Places
    <3>3. QED  BY <3>1, <3>2
  <2>3. QED  BY <2>1, <2>2
<1>12. ASSUME NEW i \in Req  PROVE PlaceOk(v, i, r)
  <2>1. (Handed(v, i) <=> Handed(w, i)) /\ (HasOne(v, i) <=> HasOne(w, i))
    BY <1>2 DEF Handed, HasOne
  <2>2. PlaceOk(w, i, None) /\ i # None /\ v.req[i].made = w.req[i].made
    BY <1>2, <1>12, ReqIsNat DEF Inv, Sound, Places
  <2>3. CASE i = r
    <3>1. ~Waits(v, r)
      <4>1. SUFFICES ASSUME NEW k \in DOMAIN v.waiting[n], v.waiting[n][k] = r  PROVE FALSE
        BY <1>8 DEF Waits
      <4>2. k + 1 \in DOMAIN rs /\ v.waiting[n][k] = rs[k + 1] /\ k + 1 # 1 /\ rs[k + 1] = rs[1]
        BY <1>1, <1>3, <4>1
      <4>3. QED  BY <4>2, <1>1 DEF Inv, Sound, Places
    <3>2. QED  BY <3>1, <2>1, <2>3, <1>10 DEF PlaceOk
  <2>4. CASE i # r
    <3>1. Waits(v, i) <=> Waits(w, i)
      <4>1. CASE Host(i) # n
        BY <4>1, <1>3, <1>12, ReqIsNat DEF Waits
      <4>2. CASE Host(i) = n
        <5>1. ASSUME NEW k \in DOMAIN rs, rs[k] = i
              PROVE  \E l \in DOMAIN v.waiting[n] : v.waiting[n][l] = i
          <6>1. k # 1
            BY <1>1, <2>4, <5>1
          <6>2. k - 1 \in 1..(Len(rs) - 1) /\ (k - 1) + 1 = k
            BY <6>1, <1>1
          <6>3. v.waiting[n][k - 1] = i
            BY <6>2, <1>1, <1>3, <5>1
          <6>4. QED  BY <6>2, <6>3, <1>1, <1>3
        <5>2. ASSUME NEW l \in DOMAIN v.waiting[n], v.waiting[n][l] = i
              PROVE  \E k \in DOMAIN rs : rs[k] = i
          <6>1. l + 1 \in DOMAIN rs /\ rs[l + 1] = i
            BY <1>1, <1>3, <5>2
          <6>2. QED  BY <6>1
        <5>3. QED  BY <5>1, <5>2, <4>2 DEF Waits
      <4>3. QED  BY <4>1, <4>2
    <3>2. QED  BY <3>1, <2>1, <2>2, <2>4 DEF PlaceOk
  <2>5. QED  BY <2>3, <2>4
<1>13. Places(v, r)
  BY <1>2, <1>11, <1>12 DEF Inv, Sound, Places
<1>14. Inv(v, x, r)
  BY <1>4, <1>5, <1>6, <1>7, <1>13 DEF Inv, Sound
<1>15. QED  BY <1>1, <1>2, <1>10, <1>14 DEF v, HasOne

(* Free: the socket goes to the request that waits longest, or is          *)
(* destroyed.                                                              *)
LEMMA FreeKeeps ==
  ASSUME NEW w, NEW x, Inv(w, x, None), NEW s, IsFree(w, s)
  PROVE  /\ Inv(Free(w, s), x, None) /\ Later(w, Free(w, s))
         /\ w.waiting[w.sock[s].name] # <<>> =>
              /\ Free(w, s).sock = w.sock /\ Free(w, s).sockets = w.sockets
              /\ \A i \in Req : w.req[i].socket # None => Free(w, s).req[i] = w.req[i]
              /\ \A i : NoTick(w, i) => NoTick(Free(w, s), i)
<1> DEFINE n == w.sock[s].name
           u == [w EXCEPT !.waiting[n] = Tail(w.waiting[n])]
           r == Head(w.waiting[n])
           v == HandTo(u, r, s)
<1>0. w \in State /\ w.sock[s] \in ASocket /\ s \in DOMAIN w.sock
  BY StateType DEF Inv, Sound, IsFree
<1>1. n \in Hosts
  BY <1>0 DEF ASocket
<1>2. CASE w.waiting[n] # <<>>
  <2>1. Free(w, s) = v
    BY <1>2 DEF Free
  <2>2. /\ r \in Req /\ w.req[r].made /\ Inv(u, x, r) /\ w.req[r].socket = None
        /\ u.sock = w.sock /\ u.sockets = w.sockets
        /\ u.ticks = w.ticks /\ u.req = w.req
    BY <1>1, <1>2, PopKeeps
  <2> HIDE DEF u, r, n
  <2>3. IsFree(u, s)
    BY <2>2 DEF IsFree, NotHanded
  <2>4. /\ Inv(v, x, None) /\ v.sock = u.sock /\ v.sockets = u.sockets
        /\ \A i \in Req : i # r => v.req[i] = u.req[i]
        /\ v.req[r].res = u.req[r].res
        /\ \A i : NoTick(u, i) => NoTick(v, i)
    BY <2>2, <2>3, HandToKeeps
  <2> HIDE DEF v
  <2>5. \A i : NoTick(w, i) => NoTick(v, i)
    BY <2>2, <2>4 DEF NoTick
  <2>6. Later(w, v)
    BY <2>2, <2>4, <2>5 DEF Later
  <2>7. \A i \in Req : w.req[i].socket # None => v.req[i] = w.req[i]
    BY <2>2, <2>4
  <2>8. QED  BY <2>1, <2>2, <2>4, <2>5, <2>6, <2>7
<1>3. CASE w.waiting[n] = <<>>
  BY <1>0, <1>3, DestroyLater DEF Free
<1>4. QED  BY <1>2, <1>3

LEMMA FreeParserIs ==
  ASSUME NEW w \in State, NEW s \in DOMAIN w.sock, NEW r \in Req
  PROVE  FreeParser(w, s, r) =
           SetReq(SetSock(w, s, [w.sock[s] EXCEPT !.parser = None, !.hooks = FALSE]),
                  r, [w.req[r] EXCEPT !.parser = FALSE])
<1> DEFINE p == [w.sock[s] EXCEPT !.parser = None, !.hooks = FALSE]
           u == SetSock(w, s, p)
<1>1. u.req = w.req
  BY RecordOf DEF SetSock
<1>2. QED  BY <1>1, RecordOf, StateType DEF FreeParser, SetSock, SetReq

LEMMA FreeParserKeeps ==
  ASSUME NEW w, NEW x, NEW y, Inv(w, x, y), NEW s \in DOMAIN w.sock, NEW r \in Req
  PROVE  LET v == FreeParser(w, s, r)
         IN  /\ Inv(v, x, y) /\ Later(w, v) /\ v.ticks = w.ticks
             /\ \A i \in DOMAIN w.sock :
                  /\ v.sock[i].state = w.sock[i].state
                  /\ v.sock[i].message = w.sock[i].message
             /\ \A i \in Req : /\ v.req[i].socket = w.req[i].socket
                               /\ v.req[i].res = w.req[i].res
                               /\ v.req[i].errors = w.req[i].errors
                               /\ v.req[i].closes = w.req[i].closes
                               /\ v.req[i].ends = w.req[i].ends
                               /\ v.req[i].made = w.req[i].made
                               /\ v.req[i].aborting = w.req[i].aborting
                               /\ v.req[i].hadError = w.req[i].hadError
<1> DEFINE p == [w.sock[s] EXCEPT !.parser = None, !.hooks = FALSE]
           u == SetSock(w, s, p)
           q == [w.req[r] EXCEPT !.parser = FALSE]
           v == SetReq(u, r, q)
<1>0. /\ w \in State /\ w.sock[s] \in ASocket /\ w.req[r] \in ARequest
      /\ RequestOk(w, r, w.req[r])
  BY StateType DEF Inv, Sound
<1>1. FreeParser(w, s, r) = v
  <2>1. u.req = w.req
    BY <1>0, RecordOf DEF SetSock
  <2>2. QED  BY <2>1, <1>0, FreeParserIs
<1>2. /\ p \in ASocket /\ SocketMay(w.sock[s], p)
      /\ p.state = w.sock[s].state /\ p.message = w.sock[s].message
  BY <1>0 DEF ASocket, SocketMay
<1>3. OneSocket(w, u, s, p)
  BY <1>0, <1>2, SetSockWorks
<1>4. /\ q \in ARequest /\ q.made = w.req[r].made /\ q.res = w.req[r].res
      /\ q.socket = w.req[r].socket /\ q.paused = w.req[r].paused
      /\ q.pending = w.req[r].pending /\ q.hadError = w.req[r].hadError
      /\ q.errors = w.req[r].errors /\ q.ends = w.req[r].ends
      /\ q.closes = w.req[r].closes /\ q.aborting = w.req[r].aborting
  BY <1>0 DEF ARequest
<1> HIDE DEF p, q, u
<1>5. Inv(u, x, y)
  BY <1>2, <1>3, SocketKeeps
<1>6. /\ u \in State /\ u.req = w.req /\ u.ticks = w.ticks /\ DOMAIN u.sock = DOMAIN w.sock
      /\ \A i \in DOMAIN w.sock : /\ u.sock[i].state = w.sock[i].state
                                  /\ u.sock[i].message = w.sock[i].message
  BY <1>2, <1>3 DEF OneSocket
<1>7. RequestMay(u, x, u.req[r], q)
  BY <1>4, <1>6 DEF RequestMay
<1>8. RequestOk(u, r, q)
  <2>1. RequestOk(u, r, u.req[r])
    BY <1>5 DEF Inv, Sound
  <2>2. QED  BY <2>1, <1>4, <1>6 DEF RequestOk
<1>9. OneRequest(u, v, r, q)
  BY <1>4, <1>6, SetReqWorks
<1> HIDE DEF v
<1>10. Inv(v, x, y)
  BY <1>4, <1>5, <1>6, <1>7, <1>8, <1>9, RequestKeeps
<1>11. /\ v.ticks = w.ticks /\ v.sock = u.sock /\ v.req[r] = q
       /\ \A i \in Req : i # r => v.req[i] = w.req[i]
  BY <1>6, <1>9 DEF OneRequest
<1>12. \A i \in Req : /\ v.req[i].socket = w.req[i].socket
                      /\ v.req[i].res = w.req[i].res
                      /\ v.req[i].errors = w.req[i].errors
                      /\ v.req[i].closes = w.req[i].closes
                      /\ v.req[i].ends = w.req[i].ends
                      /\ v.req[i].made = w.req[i].made
                      /\ v.req[i].aborting = w.req[i].aborting
                      /\ v.req[i].hadError = w.req[i].hadError
  BY <1>4, <1>11
<1>13. Later(w, v)
  BY <1>6, <1>11, <1>12 DEF Later, NoTick
<1>14. QED  BY <1>1, <1>6, <1>10, <1>11, <1>12, <1>13

LEMMA SockKeeps ==
  ASSUME NEW w, NEW x, NEW y, Inv(w, x, y), NEW s \in DOMAIN w.sock, NEW q \in ASocket,
         SocketMay(w.sock[s], q)
  PROVE  LET v == SetSock(w, s, q)
         IN  Inv(v, x, y) /\ Later(w, v) /\ OneSocket(w, v, s, q)
<1> DEFINE v == SetSock(w, s, q)
<1>1. OneSocket(w, v, s, q)
  BY SetSockWorks DEF Inv, Sound
<1> HIDE DEF v
<1>2. Inv(v, x, y)
  BY <1>1, SocketKeeps
<1>3. Later(w, v)
  <2>1. \A i \in DOMAIN w.sock : w.sock[i].state \in Gone => v.sock[i].state \in Gone
    BY <1>1 DEF OneSocket, SocketMay
  <2>2. QED  BY <2>1, <1>1 DEF OneSocket, Later, NoTick
<1>4. QED  BY <1>1, <1>2, <1>3 DEF v

LEMMA AskKeeps ==
  ASSUME NEW w, NEW x, NEW y, Inv(w, x, y), NEW r \in Req, NEW q \in ARequest,
         RequestMay(w, x, w.req[r], q), RequestOk(w, r, q)
  PROVE  LET v == SetReq(w, r, q)
         IN  Inv(v, x, y) /\ Later(w, v) /\ OneRequest(w, v, r, q)
<1> DEFINE v == SetReq(w, r, q)
<1>1. OneRequest(w, v, r, q)
  BY SetReqWorks DEF Inv, Sound
<1> HIDE DEF v
<1>2. Inv(v, x, y)
  BY <1>1, RequestKeeps
<1>3. Later(w, v)
  <2>1. \A i \in Req : w.req[i].res # "none" => v.req[i].res # "none"
    BY <1>1 DEF OneRequest, RequestMay
  <2>2. QED  BY <2>1, <1>1 DEF OneRequest, Later, NoTick
<1>4. QED  BY <1>1, <1>2, <1>3 DEF v

(* ResponseOnEnd: the socket of the request is free. *)
LEMMA ResponseKeeps ==
  ASSUME NEW w, NEW x, Inv(w, x, None), NEW r \in Req, IsFree(w, w.req[r].socket)
  PROVE  Inv(ResponseOnEnd(w, r), x, None) /\ Later(w, ResponseOnEnd(w, r))
<1> DEFINE s == w.req[r].socket
           p == [w.sock[s] EXCEPT !.listens = None]
           u == SetSock(w, s, p)
<1>0. w \in State /\ s \in DOMAIN w.sock /\ w.sock[s] \in ASocket
  BY StateType DEF Inv, Sound, IsFree
<1>1. [w EXCEPT !.sock[s].listens = None] = u
  BY DEF SetSock
<1>2. p \in ASocket /\ SocketMay(w.sock[s], p) /\ p.message = w.sock[s].message
  BY <1>0 DEF ASocket, SocketMay
<1> HIDE DEF p
<1>3. Inv(u, x, None) /\ Later(w, u) /\ OneSocket(w, u, s, p)
  BY <1>0, <1>2, SockKeeps
<1> HIDE DEF u
<1>4. IsFree(u, s)
  BY <1>0, <1>2, <1>3 DEF IsFree, NotHanded, OneSocket
<1>5. Inv(Free(u, s), x, None) /\ Later(w, Free(u, s))
  BY <1>3, <1>4, FreeKeeps, LaterTwice
<1>6. Later(w, w)
  BY QuietLater
<1>7. Inv(DestroySoon(w, s), x, None) /\ Later(w, DestroySoon(w, s))
  BY <1>0, DestroySoonLater
<1>8. ResponseOnEnd(w, r) \in {w, u, Free(u, s), DestroySoon(w, s)}
  BY <1>1 DEF ResponseOnEnd
<1>9. QED  BY <1>3, <1>5, <1>6, <1>7, <1>8

LEMMA EmitEndKeeps ==
  ASSUME NEW w, NEW x, Inv(w, x, None), NEW r \in Req, w.req[r].res # "none",
         NEW aborts \in BOOLEAN
  PROVE  Inv(EmitEnd(w, r, aborts), x, None) /\ Later(w, EmitEnd(w, r, aborts))
<1> DEFINE s == w.req[r].socket
           q == [w.req[r] EXCEPT !.ends = @ + 1]
           told == SetReq(w, r, q)
           then == IF aborts THEN Destroy(told, s, FALSE) ELSE told
<1>0. w \in State /\ w.req[r] \in ARequest /\ RequestOk(w, r, w.req[r])
      /\ w.req[r].ends \in Nat
  BY StateType DEF Inv, Sound, ARequest
<1>1. CASE w.req[r].ends > 0
  <2>1. EmitEnd(w, r, aborts) = w
    BY <1>1 DEF EmitEnd
  <2>2. QED  BY <2>1, QuietLater
<1>2. CASE ~(w.req[r].ends > 0)
  <2>0. w.req[r].ends = 0
    BY <1>0, <1>2
  <2>1. EmitEnd(w, r, aborts) =
          IF w.req[r].res = "upgraded" THEN told ELSE ResponseOnEnd(then, r)
    BY <1>2 DEF EmitEnd, SetReq
  <2>2. /\ q \in ARequest /\ q.made = w.req[r].made /\ q.res = w.req[r].res
        /\ q.socket = w.req[r].socket /\ q.paused = w.req[r].paused
        /\ q.pending = w.req[r].pending /\ q.hadError = w.req[r].hadError
        /\ q.errors = w.req[r].errors /\ q.closes = w.req[r].closes
        /\ q.ends = w.req[r].ends + 1
    BY <1>0 DEF ARequest
  <2>3. q.ends = 1
    BY <2>0, <2>2
  <2>4. RequestMay(w, x, w.req[r], q)
    BY <2>2, <2>3 DEF RequestMay
  <2>5. RequestOk(w, r, q)
    BY <1>0, <2>2, <2>3 DEF RequestOk
  <2>6. s # None /\ s \in DOMAIN w.sock /\ w.sock[s].message = r
    BY <1>0, <2>0 DEF RequestOk
  <2> HIDE DEF q
  <2>7. Inv(told, x, None) /\ Later(w, told) /\ OneRequest(w, told, r, q)
    BY <2>2, <2>4, <2>5, AskKeeps
  <2> HIDE DEF told
  <2>8. NotHanded(w, s)
    <3>1. ASSUME NEW k \in DOMAIN w.ticks, w.ticks[k].kind = "onSocket",
                 w.ticks[k].sock = s
          PROVE  FALSE
      <4>1. TickOk(w, w.ticks[k])
        BY DEF Inv, Sound, Queue
      <4>2. w.req[r].ends = 1
        BY <4>1, <3>1, <2>6, ReqIsNat DEF TickOk
      <4>3. QED  BY <4>2, <2>0
    <3>2. QED  BY <3>1 DEF NotHanded
  <2>9. /\ NotHanded(told, s) /\ s \in DOMAIN told.sock /\ told.sock[s].message = r
        /\ told.req[r].ends = 1 /\ told.req[r].socket = s
    BY <2>2, <2>3, <2>6, <2>7, <2>8 DEF OneRequest, NotHanded
  <2>10. /\ Inv(then, x, None) /\ Later(w, then)
         /\ IsFree(then, s) /\ then.req[r].socket = s
    <3>1. CASE aborts
      <4>1. then = Destroy(told, s, FALSE)
        BY <3>1
      <4>2. Quietly(told, then) /\ Inv(then, x, None) /\ Later(told, then)
        BY <4>1, <2>7, <2>9, DestroyLater
      <4>3. Later(w, then)
        BY <4>2, <2>7, LaterTwice
      <4> HIDE DEF then
      <4>4. QED  BY <4>2, <4>3, <2>9 DEF Quietly, IsFree
    <3>2. CASE ~aborts
      BY <3>2, <2>7, <2>9 DEF IsFree
    <3>3. QED  BY <3>1, <3>2
  <2> HIDE DEF then
  <2>11. Inv(ResponseOnEnd(then, r), x, None) /\ Later(w, ResponseOnEnd(then, r))
    <3>1. IsFree(then, then.req[r].socket)
      BY <2>10
    <3>2. Inv(ResponseOnEnd(then, r), x, None) /\ Later(then, ResponseOnEnd(then, r))
      BY <3>1, <2>10, ResponseKeeps
    <3>3. QED  BY <3>2, <2>10, LaterTwice
  <2>12. QED  BY <2>1, <2>7, <2>11
<1>3. QED  BY <1>1, <1>2

LEMMA MessageCompleteKeeps ==
  ASSUME NEW w, NEW x, Inv(w, x, None), NEW r \in Req, w.req[r].res # "none",
         NEW aborts \in BOOLEAN
  PROVE  Inv(MessageComplete(w, r, aborts), x, None) /\ Later(w, MessageComplete(w, r, aborts))
<1> DEFINE p == [w.req[r] EXCEPT !.res = "complete", !.pending = TRUE]
           q == [w.req[r] EXCEPT !.res = "complete", !.readable = FALSE]
           done == [w EXCEPT !.req[r].res = "complete"]
<1>0. w \in State /\ w.req[r] \in ARequest /\ RequestOk(w, r, w.req[r])
  BY StateType DEF Inv, Sound
<1>1. /\ [done EXCEPT !.req[r].pending = TRUE] = SetReq(w, r, p)
      /\ [done EXCEPT !.req[r].readable = FALSE] = SetReq(w, r, q)
  BY <1>0, RecordOf, StateType DEF SetReq
<1>2. /\ p \in ARequest /\ p.made = w.req[r].made /\ p.res = "complete"
      /\ p.socket = w.req[r].socket /\ p.hadError = w.req[r].hadError
      /\ p.errors = w.req[r].errors /\ p.closes = w.req[r].closes
      /\ p.ends = w.req[r].ends
  BY <1>0 DEF ARequest
<1>3. /\ q \in ARequest /\ q.made = w.req[r].made /\ q.res = "complete"
      /\ q.socket = w.req[r].socket /\ q.hadError = w.req[r].hadError
      /\ q.errors = w.req[r].errors /\ q.closes = w.req[r].closes
      /\ q.ends = w.req[r].ends
  BY <1>0 DEF ARequest
<1>d. MessageComplete(w, r, aborts) =
        IF w.req[r].paused \/ w.req[r].pending THEN SetReq(w, r, p)
        ELSE EmitEnd(SetReq(w, r, q), r, aborts)
  BY <1>1 DEF MessageComplete
<1> HIDE DEF p, q
<1>4. RequestMay(w, x, w.req[r], p) /\ RequestMay(w, x, w.req[r], q)
  BY <1>2, <1>3 DEF RequestMay
<1>5. RequestOk(w, r, p) /\ RequestOk(w, r, q)
  <2>1. RequestOk(w, r, p)
    BY <1>0, <1>2 DEF RequestOk
  <2>2. RequestOk(w, r, q)
    BY <1>0, <1>3 DEF RequestOk
  <2>3. QED  BY <2>1, <2>2
<1> DEFINE u == SetReq(w, r, q)
<1>6. Inv(SetReq(w, r, p), x, None) /\ Later(w, SetReq(w, r, p))
  BY <1>2, <1>4, <1>5, AskKeeps
<1>7. Inv(u, x, None) /\ Later(w, u) /\ OneRequest(w, u, r, q)
  BY <1>3, <1>4, <1>5, AskKeeps
<1>d2. MessageComplete(w, r, aborts) \in {SetReq(w, r, p), EmitEnd(u, r, aborts)}
  BY <1>d
<1> HIDE DEF u
<1>8. u.req[r].res # "none"
  BY <1>3, <1>7 DEF OneRequest
<1>9. Inv(EmitEnd(u, r, aborts), x, None) /\ Later(w, EmitEnd(u, r, aborts))
  BY <1>7, <1>8, EmitEndKeeps, LaterTwice
<1>10. QED  BY <1>d2, <1>6, <1>9

LEMMA EmitPendingKeeps ==
  ASSUME NEW w, NEW x, Inv(w, x, None), NEW r \in Req, w.req[r].res # "none",
         NEW null \in BOOLEAN
  PROVE  Inv(EmitPending(w, r, null), x, None) /\ Later(w, EmitPending(w, r, null))
<1> DEFINE p == [w.req[r] EXCEPT !.pending = FALSE]
           q == [w.req[r] EXCEPT !.pending = FALSE, !.readable = FALSE]
           u == SetReq(w, r, q)
<1>0. w \in State /\ w.req[r] \in ARequest /\ RequestOk(w, r, w.req[r])
  BY StateType DEF Inv, Sound
<1>1. /\ [w EXCEPT !.req[r].pending = FALSE] = SetReq(w, r, p)
      /\ [w EXCEPT !.req[r].pending = FALSE, !.req[r].readable = FALSE] = u
  BY <1>0, RecordOf, StateType DEF SetReq
<1>2. /\ p \in ARequest /\ p.made = w.req[r].made /\ p.res = w.req[r].res
      /\ p.socket = w.req[r].socket /\ p.hadError = w.req[r].hadError
      /\ p.errors = w.req[r].errors /\ p.closes = w.req[r].closes
      /\ p.ends = w.req[r].ends
  BY <1>0 DEF ARequest
<1>3. /\ q \in ARequest /\ q.made = w.req[r].made /\ q.res = w.req[r].res
      /\ q.socket = w.req[r].socket /\ q.hadError = w.req[r].hadError
      /\ q.errors = w.req[r].errors /\ q.closes = w.req[r].closes
      /\ q.ends = w.req[r].ends
  BY <1>0 DEF ARequest
<1>d. EmitPending(w, r, null) \in {w, SetReq(w, r, p), EmitEnd(u, r, FALSE)}
  BY <1>1 DEF EmitPending
<1> HIDE DEF p, q
<1>4. RequestMay(w, x, w.req[r], p) /\ RequestMay(w, x, w.req[r], q)
  BY <1>2, <1>3 DEF RequestMay
<1>5. RequestOk(w, r, p) /\ RequestOk(w, r, q)
  <2>1. RequestOk(w, r, p)
    BY <1>0, <1>2 DEF RequestOk
  <2>2. RequestOk(w, r, q)
    BY <1>0, <1>3 DEF RequestOk
  <2>3. QED  BY <2>1, <2>2
<1>6. Inv(SetReq(w, r, p), x, None) /\ Later(w, SetReq(w, r, p))
  BY <1>2, <1>4, <1>5, AskKeeps
<1>7. Inv(u, x, None) /\ Later(w, u) /\ OneRequest(w, u, r, q)
  BY <1>3, <1>4, <1>5, AskKeeps
<1> HIDE DEF u
<1>8. u.req[r].res # "none"
  BY <1>3, <1>7 DEF OneRequest
<1>9. Inv(EmitEnd(u, r, FALSE), x, None) /\ Later(w, EmitEnd(u, r, FALSE))
  BY <1>7, <1>8, EmitEndKeeps, LaterTwice
<1>10. QED  BY <1>d, <1>6, <1>9, QuietLater

-----------------------------------------------------------------------------
(* The listeners of a request. *)

LEMMA FinishKeeps ==
  ASSUME NEW w, NEW x, Inv(w, x, None), NEW r \in Req, NEW aborts \in BOOLEAN,
         NEW cut \in BOOLEAN
  PROVE  Inv(Finish(w, r, aborts, cut), x, None) /\ Later(w, Finish(w, r, aborts, cut))
<1>1. CASE w.req[r].res = "reading" /\ ~w.req[r].keep /\ ~cut
  <2>1. Finish(w, r, aborts, cut) = MessageComplete(w, r, aborts)
    BY <1>1 DEF Finish
  <2>2. QED  BY <1>1, <2>1, MessageCompleteKeeps
<1>2. CASE ~(w.req[r].res = "reading" /\ ~w.req[r].keep /\ ~cut)
  <2>1. Finish(w, r, aborts, cut) = w
    BY <1>2 DEF Finish
  <2>2. QED  BY <2>1, QuietLater
<1>3. QED  BY <1>1, <1>2

(* OnSocket: the request r, which was on its way, has the socket s. *)
LEMMA BoundKeeps ==
  ASSUME NEW w, NEW r \in Req, Inv(w, None, r), w.req[r].made,
         NEW s \in DOMAIN w.sock, IsFree(w, s),
         NEW p \in ASocket, p.name = w.sock[s].name, p.agent = w.sock[s].agent,
         p.state = w.sock[s].state, p.message = r, p.listens = r,
         NEW q \in ARequest, q.socket = s, q.made = w.req[r].made, q.res = w.req[r].res,
         q.paused = w.req[r].paused, q.pending = w.req[r].pending,
         q.hadError = w.req[r].hadError, q.errors = w.req[r].errors,
         q.ends = w.req[r].ends, q.closes = w.req[r].closes
  PROVE  Inv(SetReq(SetSock(w, s, p), r, q), None, None)
<1> DEFINE u == SetSock(w, s, p)
           v == SetReq(u, r, q)
<1>0. w \in State /\ r # None /\ s # None /\ s \in Nat
  BY StateType, ReqIsNat DEF Inv, Sound, None
<1>1. OneSocket(w, u, s, p)
  BY <1>0, SetSockWorks
<1>2. OneRequest(u, v, r, q)
  BY <1>1, SetReqWorks DEF OneSocket
<1> HIDE DEF u, v
<1>3. /\ v \in State /\ v.sockets = w.sockets /\ v.waiting = w.waiting
      /\ v.ticks = w.ticks /\ DOMAIN v.sock = DOMAIN w.sock
      /\ v.sock[s] = p /\ v.req[r] = q
      /\ \A i \in DOMAIN w.sock : i # s => v.sock[i] = w.sock[i]
      /\ \A i \in Req : i # r => v.req[i] = w.req[i]
  BY <1>1, <1>2 DEF OneSocket, OneRequest
<1>4. /\ \A i \in DOMAIN w.sock : w.sock[i] \in ASocket /\ SocketOk(w, i, None)
      /\ \A i \in Req : RequestOk(w, i, w.req[i]) /\ PlaceOk(w, i, r)
  BY <1>0, StateType DEF Inv, Sound, Places
<1>5. ~Waits(w, r) /\ ~Handed(w, r) /\ w.req[r].socket = None
  BY <1>4 DEF PlaceOk, HasOne
<1>6. /\ q.errors = 0 /\ q.closes = 0 /\ q.res = "none" /\ q.ends = 0
      /\ ~q.paused /\ ~q.pending /\ ~q.hadError
  BY <1>4, <1>5 DEF RequestOk
<1>7. \A i \in DOMAIN w.sock : w.sock[i].message # r /\ w.sock[i].message \in Req \cup {None}
  BY <1>0, <1>4, <1>5, StateType DEF SocketOk, ASocket, None
<1>8. \A i \in DOMAIN w.sock : /\ v.sock[i].name = w.sock[i].name
                               /\ v.sock[i].agent = w.sock[i].agent
                               /\ v.sock[i].state = w.sock[i].state
  BY <1>3
<1>9. Pool(v, None) /\ Full(v)
  BY <1>3, <1>8 DEF Inv, Sound, Pool, Full
<1>10. ASSUME NEW i \in DOMAIN v.sock  PROVE SocketOk(v, i, None)
  <2>1. SocketOk(w, i, None)
    BY <1>3, <1>4, <1>10
  <2>2. CASE i = s
    <3>1. /\ v.sock[i].message = r /\ v.sock[i].listens = r
          /\ v.req[r].socket = i /\ v.req[r].closes = 0
          /\ v.sock[i].agent = w.sock[i].agent /\ v.sock[i].state = w.sock[i].state
      BY <2>2, <1>3, <1>6, <1>8, <1>10
    <3>2. QED  BY <2>1, <3>1, <1>0 DEF SocketOk
  <2>3. CASE i # s
    <3>1. v.sock[i] = w.sock[i] /\ w.sock[i].message # r
          /\ w.sock[i].message \in Req \cup {None}
      BY <2>3, <1>3, <1>7, <1>10
    <3>2. w.sock[i].message # None => v.req[w.sock[i].message] = w.req[w.sock[i].message]
      BY <3>1, <1>3
    <3>3. QED  BY <2>1, <3>1, <3>2, <1>0 DEF SocketOk
  <2>4. QED  BY <2>2, <2>3
<1>11. ASSUME NEW i \in Req  PROVE RequestOk(v, i, v.req[i])
  <2>1. CASE i = r
    BY <2>1, <1>0, <1>3, <1>6 DEF RequestOk
  <2>2. CASE i # r
    <3>1. RequestOk(w, i, w.req[i]) /\ v.req[i] = w.req[i]
      BY <2>2, <1>3, <1>4, <1>11
    <3>2. ASSUME w.req[i].socket \in DOMAIN w.sock, w.req[i].ends = 0,
                 w.sock[w.req[i].socket].message = i
          PROVE  v.sock[w.req[i].socket].message = i
      <4>1. w.req[i].socket # s
        <5>1. i # None
          BY <1>11, ReqIsNat
        <5>2. QED  BY <5>1, <3>2 DEF IsFree
      <4>2. QED  BY <4>1, <3>2, <1>3
    <3>3. QED  BY <3>1, <3>2, <1>3, <1>8 DEF RequestOk
  <2>3. QED  BY <2>1, <2>2
<1>12. ASSUME NEW j \in DOMAIN v.ticks  PROVE TickOk(v, v.ticks[j])
  <2> DEFINE t == w.ticks[j]
  <2>1. TickOk(w, t) /\ v.ticks[j] = t /\ (t.kind = "onSocket" => t.sock # s)
    BY <1>3, <1>12 DEF Inv, Sound, Queue, IsFree, NotHanded
  <2> HIDE DEF t
  <2>2. t.req \in Req => v.req[t.req].res = w.req[t.req].res
    BY <1>3
  <2>3. CASE t.sock = s
    BY <2>1, <2>2, <2>3, <1>3, <1>6, <1>8 DEF TickOk
  <2>4. CASE t.sock # s
    <3>1. t.sock \in DOMAIN w.sock =>
            /\ v.sock[t.sock] = w.sock[t.sock]
            /\ w.sock[t.sock].message # None =>
                 v.req[w.sock[t.sock].message] = w.req[w.sock[t.sock].message]
      BY <2>4, <1>3, <1>7
    <3>2. QED  BY <2>1, <2>2, <3>1, <1>3 DEF TickOk
  <2>5. QED  BY <2>3, <2>4
<1>13. Queue(v)
  BY <1>3, <1>12 DEF Inv, Sound, Queue
<1>14. ASSUME NEW i \in Req  PROVE PlaceOk(v, i, None)
  <2>1. (Waits(v, i) <=> Waits(w, i)) /\ (Handed(v, i) <=> Handed(w, i))
    BY <1>3 DEF Waits, Handed
  <2>2. PlaceOk(w, i, r) /\ i # None /\ v.req[i].made = w.req[i].made
    BY <1>3, <1>4, <1>14, ReqIsNat
  <2>3. CASE i = r
    BY <2>1, <2>3, <1>0, <1>3, <1>5 DEF PlaceOk, HasOne
  <2>4. CASE i # r
    BY <2>1, <2>2, <2>4, <1>3, <1>14 DEF PlaceOk, HasOne
  <2>5. QED  BY <2>3, <2>4
<1>15. Places(v, None)
  BY <1>3, <1>14 DEF Inv, Sound, Places
<1>16. QED  BY <1>3, <1>9, <1>10, <1>11, <1>13, <1>15 DEF Inv, Sound, v, u

LEMMA OnSocketKeeps ==
  ASSUME NEW w, NEW r \in Req, Inv(w, None, r), w.req[r].made, NEW s, IsFree(w, s)
  PROVE  Inv(OnSocket(w, r, s), None, None)
<1> DEFINE freed == IF w.sock[s].parser # None THEN FreeParser(w, s, r) ELSE w
           p == [freed.sock[s] EXCEPT !.parser = r, !.message = r, !.hooks = TRUE,
                                      !.listens = r, !.inFlight = @ \/ Writable(w, s)]
           q == [freed.req[r] EXCEPT !.socket = s, !.parser = TRUE]
           bound == SetReq(SetSock(freed, s, p), r, q)
<1>0. s \in DOMAIN w.sock /\ w \in State /\ s \in Nat
  BY StateType DEF IsFree, Inv, Sound
<1>1. /\ Inv(freed, None, r) /\ DOMAIN freed.sock = DOMAIN w.sock
      /\ IsFree(freed, s) /\ freed.req[r].made
  <2>1. CASE w.sock[s].parser # None
    <3>1. freed = FreeParser(w, s, r)
      BY <2>1
    <3> HIDE DEF freed
    <3>2. /\ Inv(freed, None, r) /\ Later(w, freed) /\ freed.ticks = w.ticks
          /\ \A i \in DOMAIN w.sock : freed.sock[i].message = w.sock[i].message
          /\ \A i \in Req : freed.req[i].ends = w.req[i].ends /\ freed.req[i].made = w.req[i].made
      BY <1>0, <3>1, FreeParserKeeps
    <3>3. w.sock[s].message \in Req \cup {None}
      BY <1>0, StateType DEF ASocket
    <3>4. QED  BY <1>0, <3>2, <3>3 DEF IsFree, NotHanded, Later
  <2>2. CASE ~(w.sock[s].parser # None)
    BY <2>2
  <2>3. QED  BY <2>1, <2>2
<1>2. OnSocket(w, r, s) =
        IF w.req[r].aborting /\ Writable(w, s) THEN Destroy(bound, s, FALSE) ELSE bound
  BY DEF OnSocket
<1> HIDE DEF freed
<1>3. freed \in State /\ freed.sock[s] \in ASocket /\ freed.req[r] \in ARequest
  BY <1>0, <1>1, StateType DEF Inv, Sound
<1>f. (freed.sock[s].inFlight \/ Writable(w, s)) \in BOOLEAN
  BY <1>3 DEF ASocket
<1>4. /\ p \in ASocket /\ p.name = freed.sock[s].name /\ p.agent = freed.sock[s].agent
      /\ p.state = freed.sock[s].state /\ p.message = r /\ p.listens = r
  BY <1>3, <1>f DEF ASocket
<1>5. /\ q \in ARequest /\ q.socket = s /\ q.made = freed.req[r].made
      /\ q.res = freed.req[r].res
      /\ q.paused = freed.req[r].paused /\ q.pending = freed.req[r].pending
      /\ q.hadError = freed.req[r].hadError /\ q.errors = freed.req[r].errors
      /\ q.ends = freed.req[r].ends /\ q.closes = freed.req[r].closes
  BY <1>0, <1>3 DEF ARequest
<1> HIDE DEF p, q
<1>6. Inv(bound, None, None)
  BY <1>0, <1>1, <1>4, <1>5, BoundKeeps
<1>7. s \in DOMAIN bound.sock
  <2>1. OneSocket(freed, SetSock(freed, s, p), s, p)
    BY <1>0, <1>1, <1>3, <1>4, SetSockWorks
  <2>2. OneRequest(SetSock(freed, s, p), bound, r, q)
    BY <2>1, <1>5, SetReqWorks DEF OneSocket
  <2> HIDE DEF bound
  <2>3. QED  BY <2>1, <2>2, <1>0, <1>1 DEF OneSocket, OneRequest
<1> HIDE DEF bound
<1>8. Inv(Destroy(bound, s, FALSE), None, None)
  BY <1>6, <1>7, DestroyLater
<1>9. QED  BY <1>2, <1>6, <1>8

LEMMA HadErrorType ==
  ASSUME NEW q \in ARequest
  PROVE  [q EXCEPT !.errors = @ + 1, !.hadError = TRUE] \in ARequest
<1>1. q.errors + 1 \in Nat
  BY DEF ARequest
<1> DEFINE e == q.errors + 1
<1>2. [q EXCEPT !.errors = e] \in ARequest
  BY <1>1 DEF ARequest
<1> DEFINE p == [q EXCEPT !.errors = e]
<1>3. [q EXCEPT !.errors = @ + 1, !.hadError = TRUE] = [p EXCEPT !.hadError = TRUE]
  BY DEF ARequest
<1> HIDE DEF p
<1>4. [p EXCEPT !.hadError = TRUE] \in ARequest
  BY <1>2 DEF ARequest, p
<1>5. QED  BY <1>3, <1>4

(* HadError, for the request of a socket that is destroyed. *)
LEMMA HadErrorKeeps ==
  ASSUME NEW w, NEW y, Inv(w, None, y), NEW r \in Req, w.req[r].socket # None,
         w.req[r].errors = 0, w.sock[w.req[r].socket].state \in Gone,
         NoErrorTick(w, w.req[r].socket)
  PROVE  /\ Inv(HadError(w, r), None, y) /\ Later(w, HadError(w, r))
         /\ HadError(w, r).sock = w.sock
<1> DEFINE q == [w.req[r] EXCEPT !.errors = @ + 1, !.hadError = TRUE]
<1>0. /\ w \in State /\ w.req[r] \in ARequest /\ RequestOk(w, r, w.req[r])
      /\ w.req[r].errors \in Nat
  BY StateType DEF Inv, Sound, ARequest
<1>1. HadError(w, r) = SetReq(w, r, q)
  BY <1>0, RecordOf, StateType DEF HadError, SetReq
<1>a. q \in ARequest
  BY <1>0, HadErrorType
<1>2. /\ q.made = w.req[r].made /\ q.res = w.req[r].res
      /\ q.socket = w.req[r].socket /\ q.paused = w.req[r].paused
      /\ q.pending = w.req[r].pending /\ q.hadError = TRUE /\ q.errors = w.req[r].errors + 1
      /\ q.closes = w.req[r].closes /\ q.ends = w.req[r].ends
  BY <1>0 DEF ARequest
<1>3. q.errors = 1
  BY <1>2
<1> HIDE DEF q
<1>4. RequestMay(w, None, w.req[r], q)
  BY <1>2 DEF RequestMay
<1>5. RequestOk(w, r, q)
  BY <1>0, <1>2, <1>3 DEF RequestOk
<1>6. LET v == SetReq(w, r, q)
      IN  Inv(v, None, y) /\ Later(w, v) /\ OneRequest(w, v, r, q)
  BY <1>a, <1>4, <1>5, AskKeeps
<1>7. QED  BY <1>1, <1>6 DEF OneRequest

(* Changes of different parts of the state. *)
LEMMA SetApart ==
  ASSUME NEW w \in State, NEW s, NEW r, NEW p, NEW q, NEW t
  PROVE  /\ SetSock(SetReq(w, r, q), s, p) = SetReq(SetSock(w, s, p), r, q)
         /\ NextTick(SetReq(w, r, q), t) = SetReq(NextTick(w, t), r, q)
<1> DEFINE a == w.sockets
           b == w.waiting
           c == w.sock
           d == w.req
           e == w.ticks
           cc == [c EXCEPT ![s] = p]
           dd == [d EXCEPT ![r] = q]
           ee == Append(e, t)
<1>1. w = [sockets |-> a, waiting |-> b, sock |-> c, req |-> d, ticks |-> e]
  BY RecordOf
<1>2. /\ SetReq(w, r, q) = [sockets |-> a, waiting |-> b, sock |-> c, req |-> dd,
                            ticks |-> e]
      /\ SetSock(w, s, p) = [sockets |-> a, waiting |-> b, sock |-> cc, req |-> d,
                             ticks |-> e]
      /\ NextTick(w, t) = [sockets |-> a, waiting |-> b, sock |-> c, req |-> d,
                           ticks |-> ee]
  <2> HIDE DEF a, b, c, d, e
  <2>1. SetReq(w, r, q) = [sockets |-> a, waiting |-> b, sock |-> c, req |-> dd,
                            ticks |-> e]
    BY <1>1 DEF SetReq
  <2>2. SetSock(w, s, p) = [sockets |-> a, waiting |-> b, sock |-> cc, req |-> d,
                             ticks |-> e]
    BY <1>1 DEF SetSock
  <2>3. NextTick(w, t) = [sockets |-> a, waiting |-> b, sock |-> c, req |-> d,
                           ticks |-> ee]
    <3>1. NextTick(w, t) = [w EXCEPT !.ticks = ee]
      BY Zenon DEF NextTick, e
    <3> HIDE DEF ee
    <3>2. QED  BY <3>1, <1>1
  <2>4. QED  BY <2>1, <2>2, <2>3
<1>3. SetSock(SetReq(w, r, q), s, p) =
        [sockets |-> a, waiting |-> b, sock |-> cc, req |-> dd, ticks |-> e]
  <2> HIDE DEF a, b, c, d, e, dd
  <2>1. SetSock([sockets |-> a, waiting |-> b, sock |-> c, req |-> dd, ticks |-> e], s, p)
          = [sockets |-> a, waiting |-> b, sock |-> cc, req |-> dd, ticks |-> e]
    BY DEF SetSock
  <2>2. QED  BY <1>2, <2>1
<1>4. NextTick(SetReq(w, r, q), t) =
        [sockets |-> a, waiting |-> b, sock |-> c, req |-> dd, ticks |-> ee]
  <2> HIDE DEF a, b, c, d, e, dd
  <2>1. NextTick([sockets |-> a, waiting |-> b, sock |-> c, req |-> dd, ticks |-> e], t)
          = [sockets |-> a, waiting |-> b, sock |-> c, req |-> dd, ticks |-> ee]
    <3> DEFINE u == [sockets |-> a, waiting |-> b, sock |-> c, req |-> dd, ticks |-> e]
    <3>1. u.ticks = e
      OBVIOUS
    <3>2. NextTick(u, t) = [u EXCEPT !.ticks = Append(u.ticks, t)]
      BY Zenon DEF NextTick
    <3>3. NextTick(u, t) = [u EXCEPT !.ticks = ee]
      BY <3>1, <3>2, Zenon
    <3> HIDE DEF ee
    <3>4. QED  BY <3>3
  <2>2. QED  BY <1>2, <2>1
<1>5. SetReq(SetSock(w, s, p), r, q) =
        [sockets |-> a, waiting |-> b, sock |-> cc, req |-> dd, ticks |-> e]
  <2> HIDE DEF a, b, c, d, e, cc
  <2>1. SetReq([sockets |-> a, waiting |-> b, sock |-> cc, req |-> d, ticks |-> e], r, q)
          = [sockets |-> a, waiting |-> b, sock |-> cc, req |-> dd, ticks |-> e]
    BY DEF SetReq
  <2>2. QED  BY <1>2, <2>1
<1>6. SetReq(NextTick(w, t), r, q) =
        [sockets |-> a, waiting |-> b, sock |-> c, req |-> dd, ticks |-> ee]
  <2> HIDE DEF a, b, c, d, e, ee
  <2>1. SetReq([sockets |-> a, waiting |-> b, sock |-> c, req |-> d, ticks |-> ee], r, q)
          = [sockets |-> a, waiting |-> b, sock |-> c, req |-> dd, ticks |-> ee]
    BY DEF SetReq
  <2>2. QED  BY <1>2, <2>1
<1> HIDE DEF a, b, c, d, e, cc, dd, ee
<1>7. QED  BY <1>3, <1>4, <1>5, <1>6

LEMMA SetTwice ==
  ASSUME NEW w \in State, NEW r \in Req, NEW p, NEW q
  PROVE  SetReq(SetReq(w, r, p), r, q) = SetReq(w, r, q)
<1> DEFINE a == w.sockets
           b == w.waiting
           c == w.sock
           d == w.req
           e == w.ticks
           dd == [d EXCEPT ![r] = p]
<1>1. w = [sockets |-> a, waiting |-> b, sock |-> c, req |-> d, ticks |-> e]
  BY RecordOf
<1>2. /\ SetReq(w, r, p) = [sockets |-> a, waiting |-> b, sock |-> c, req |-> dd,
                            ticks |-> e]
      /\ SetReq(w, r, q) = [sockets |-> a, waiting |-> b, sock |-> c,
                            req |-> [d EXCEPT ![r] = q], ticks |-> e]
  BY <1>1 DEF SetReq
<1>3. [dd EXCEPT ![r] = q] = [d EXCEPT ![r] = q]
  BY StateType
<1> HIDE DEF a, b, c, d, e, dd
<1>4. SetReq([sockets |-> a, waiting |-> b, sock |-> c, req |-> dd, ticks |-> e], r, q)
        = [sockets |-> a, waiting |-> b, sock |-> c, req |-> [dd EXCEPT ![r] = q],
           ticks |-> e]
  BY DEF SetReq
<1>5. QED  BY <1>2, <1>3, <1>4

(* destroy() does not look at the requests. *)
LEMMA DestroyApart ==
  ASSUME NEW w \in State, NEW s \in DOMAIN w.sock, NEW r \in Req, NEW q
  PROVE  Destroy(SetReq(w, r, q), s, FALSE) = SetReq(Destroy(w, s, FALSE), r, q)
<1> DEFINE u == SetReq(w, r, q)
           p == [w.sock[s] EXCEPT !.state = "destroyed"]
           c == Tick("close", None, s)
<1>1. u.sock = w.sock
  BY RecordOf DEF SetReq
<1>2. CASE w.sock[s].state \in Gone
  <2>1. Destroy(w, s, FALSE) = w
    BY <1>2 DEF Destroy, Gone
  <2> HIDE DEF u
  <2>2. Destroy(u, s, FALSE) = u
    BY <1>1, <1>2 DEF Destroy, Gone
  <2>3. QED  BY <2>1, <2>2 DEF u
<1>3. CASE w.sock[s].state \notin Gone
  <2>1. Destroy(w, s, FALSE) = NextTick(SetSock(w, s, p), c)
    BY <1>3 DEF Destroy, Gone
  <2> HIDE DEF u
  <2>2. Destroy(u, s, FALSE) = NextTick(SetSock(u, s, p), c)
    BY <1>1, <1>3 DEF Destroy, Gone
  <2>3. w.sock[s] \in ASocket
    BY StateType
  <2>4. p \in ASocket
    BY <2>3 DEF ASocket
  <2> HIDE DEF p, c
  <2>5. SetSock(u, s, p) = SetReq(SetSock(w, s, p), r, q)
    BY SetApart DEF u
  <2>6. SetSock(w, s, p) \in State
    BY <2>4, SetSockWorks DEF OneSocket
  <2>7. NextTick(SetReq(SetSock(w, s, p), r, q), c)
          = SetReq(NextTick(SetSock(w, s, p), c), r, q)
    BY <2>6, SetApart
  <2>8. QED  BY <2>1, <2>2, <2>5, <2>7 DEF u
<1>4. QED  BY <1>2, <1>3

(* Nor does what frees the parser look at what it was told before. *)
LEMMA FreeParserApart ==
  ASSUME NEW w \in State, NEW s \in DOMAIN w.sock, NEW r \in Req
  PROVE  LET u == FreeParser(w, s, r)
         IN  FreeParser(HadError(w, r), s, r) = HadError(u, r)
<1> DEFINE u  == FreeParser(w, s, r)
           h  == [w.req[r] EXCEPT !.errors = @ + 1, !.hadError = TRUE]
           k  == [w.req[r] EXCEPT !.parser = FALSE]
           hk == [h EXCEPT !.parser = FALSE]
           kh == [k EXCEPT !.errors = @ + 1, !.hadError = TRUE]
           p  == [w.sock[s] EXCEPT !.parser = None, !.hooks = FALSE]
           g  == SetSock(w, s, p)
           m  == SetReq(w, r, h)
<1>0. w.req[r] \in ARequest /\ w.sock[s] \in ASocket /\ w.req[r].errors \in Nat
  BY StateType DEF ARequest
<1>1. h \in ARequest /\ k \in ARequest /\ p \in ASocket
  <2>1. h \in ARequest
    BY <1>0, HadErrorType
  <2>2. k \in ARequest
    BY <1>0 DEF ARequest
  <2>3. p \in ASocket
    BY <1>0 DEF ASocket
  <2>4. QED  BY <2>1, <2>2, <2>3
<1>2. hk = kh
  BY <1>0 DEF ARequest
<1>3. HadError(w, r) = m
  BY RecordOf, StateType DEF HadError, SetReq
<1>4. u = SetReq(g, r, k)
  BY FreeParserIs
<1> HIDE DEF u, h, p, g
<1>5. OneRequest(w, m, r, h) /\ OneSocket(w, g, s, p)
  BY <1>1, SetReqWorks, SetSockWorks DEF g
<1>6. OneRequest(g, u, r, k)
  BY <1>1, <1>4, <1>5, SetReqWorks DEF OneSocket
<1>7. m \in State /\ m.sock = w.sock /\ m.req[r] = h /\ s \in DOMAIN m.sock
  BY <1>5 DEF OneRequest
<1>8. FreeParser(m, s, r) = SetReq(SetSock(m, s, p), r, hk)
  <2> HIDE DEF m
  <2>1. FreeParser(m, s, r) =
          SetReq(SetSock(m, s, [m.sock[s] EXCEPT !.parser = None, !.hooks = FALSE]),
                 r, [m.req[r] EXCEPT !.parser = FALSE])
    BY <1>7, FreeParserIs
  <2>2. QED  BY <2>1, <1>7 DEF p
<1>9. SetSock(m, s, p) = SetReq(g, r, h)
  BY SetApart DEF g
<1>10. g \in State /\ u \in State /\ u.req[r] = k
  BY <1>5, <1>6 DEF OneSocket, OneRequest
<1> HIDE DEF hk, kh, m, k
<1>11. FreeParser(m, s, r) = SetReq(g, r, hk)
  BY <1>8, <1>9, <1>10, SetTwice
<1>12. HadError(u, r) = SetReq(u, r, kh)
  BY <1>10, RecordOf, StateType DEF HadError, SetReq, kh
<1>13. SetReq(u, r, kh) = SetReq(g, r, kh)
  BY <1>4, <1>10, SetTwice
<1>14. QED  BY <1>2, <1>3, <1>11, <1>12, <1>13 DEF u

(* SocketOnEnd: the socket of a request that has no response is told of    *)
(* the error first and is destroyed then; it may as well be the other way  *)
(* round.                                                                  *)
LEMMA SocketOnEndKeeps ==
  ASSUME NEW w, Inv(w, None, None), NEW s \in DOMAIN w.sock, NoErrorTick(w, s),
         w.sock[s].message # None => w.req[w.sock[s].message].errors = 0,
         NEW aborts \in BOOLEAN, NEW cut \in BOOLEAN
  PROVE  Inv(SocketOnEnd(w, s, aborts, cut), None, None)
<1> DEFINE r == w.sock[s].message
           told == IF w.req[r].res = "none" THEN HadError(w, r) ELSE w
           done == Finish(told, r, aborts, cut)
           last == Destroy(FreeParser(done, s, r), s, FALSE)
<1>0. w \in State /\ w.sock[s] \in ASocket /\ SocketOk(w, s, None) /\ s \in Nat /\ s # None
  BY StateType DEF Inv, Sound, None
<1>1. SocketOnEnd(w, s, aborts, cut) = IF ~w.sock[s].hooks THEN w ELSE last
  BY DEF SocketOnEnd
<1>2. CASE ~w.sock[s].hooks
  BY <1>1, <1>2
<1>3. CASE w.sock[s].hooks
  <2>1. r \in Req /\ r # None /\ w.req[r].socket = s /\ w.req[r].errors = 0
    BY <1>0, <1>3 DEF SocketOk, ASocket
  <2>2. CASE w.req[r].res # "none"
    <3>1. done = Finish(w, r, aborts, cut)
      BY <2>2
    <3>2. Inv(done, None, None) /\ Later(w, done)
      BY <2>1, <3>1, FinishKeeps
    <3> HIDE DEF done, r
    <3>3. Inv(FreeParser(done, s, r), None, None) /\ Later(done, FreeParser(done, s, r))
      BY <2>1, <3>2, FreeParserKeeps DEF Later
    <3>4. s \in DOMAIN FreeParser(done, s, r).sock
      BY <3>2, <3>3 DEF Later
    <3>5. Inv(last, None, None)
      BY <3>3, <3>4, DestroyLater
    <3>6. QED  BY <1>1, <1>3, <3>5
  <2>3. CASE w.req[r].res = "none"
    <3> DEFINE u == FreeParser(w, s, r)
               v == Destroy(u, s, FALSE)
               q == [u.req[r] EXCEPT !.errors = @ + 1, !.hadError = TRUE]
    <3>1. done = HadError(w, r)
      <4>1. told = HadError(w, r)
        BY <2>3
      <4>2. w.req[r] \in ARequest /\ r \in DOMAIN w.req /\ w.req \in [Req -> ARequest]
        BY <1>0, <2>1, StateType
      <4>3. told.req[r].res = w.req[r].res
        BY <4>1, <4>2, <1>0, RecordOf DEF HadError, ARequest
      <4>4. QED  BY <4>1, <4>3, <2>3 DEF Finish
    <3> HIDE DEF done, r
    <3>2. /\ Inv(u, None, None) /\ Later(w, u) /\ u.ticks = w.ticks
          /\ u.req[r].socket = s /\ u.req[r].errors = 0
      BY <2>1, FreeParserKeeps
    <3>3. u \in State /\ s \in DOMAIN u.sock /\ NoErrorTick(u, s)
      BY <3>2 DEF Inv, Sound, Later, NoErrorTick
    <3>4. FreeParser(done, s, r) = HadError(u, r)
      BY <3>1, <2>1, <1>0, FreeParserApart
    <3> HIDE DEF u
    <3>5. HadError(u, r) = SetReq(u, r, q)
      BY <3>3, <2>1, RecordOf, StateType DEF HadError, SetReq
    <3> HIDE DEF q
    <3>6. /\ Inv(v, None, None) /\ v.sock[s].state \in Gone /\ Quietly(u, v)
          /\ NoErrorTick(v, s)
      BY <3>2, <3>3, DestroyLater
    <3>7. last = SetReq(v, r, q)
      <4>1. Destroy(SetReq(u, r, q), s, FALSE) = SetReq(Destroy(u, s, FALSE), r, q)
        BY <3>3, <2>1, DestroyApart
      <4>2. QED  BY <4>1, <3>4, <3>5
    <3> HIDE DEF v, last
    <3>8. v.req = u.req /\ v \in State
      BY <3>6 DEF Quietly, Inv, Sound
    <3>9. SetReq(v, r, q) = HadError(v, r)
      BY <3>8, <2>1, RecordOf, StateType DEF HadError, SetReq, q
    <3>10. Inv(HadError(v, r), None, None)
      BY <2>1, <3>2, <3>6, <3>8, <1>0, HadErrorKeeps
    <3>11. QED  BY <1>1, <1>3, <3>7, <3>9, <3>10
  <2>4. QED  BY <2>2, <2>3
<1>4. QED  BY <1>2, <1>3

LEMMA SocketErrorKeeps ==
  ASSUME NEW w, Inv(w, None, None), NEW s \in DOMAIN w.sock, NoErrorTick(w, s),
         w.sock[s].state \in Gone, NEW cut \in BOOLEAN,
         w.sock[s].message # None => w.req[w.sock[s].message].errors = 0
  PROVE  Inv(SocketError(w, s, cut), None, None)
<1> DEFINE r == w.sock[s].message
           told == HadError(w, r)
           done == Finish(told, r, FALSE, cut)
<1>0. w \in State /\ w.sock[s] \in ASocket /\ SocketOk(w, s, None) /\ s \in Nat /\ s # None
  BY StateType DEF Inv, Sound, None
<1>1. SocketError(w, s, cut) = IF w.sock[s].listens = None THEN w
        ELSE IF w.sock[s].parser # None THEN FreeParser(done, s, r) ELSE told
  BY DEF SocketError
<1>2. CASE w.sock[s].listens = None
  BY <1>1, <1>2
<1>3. CASE w.sock[s].listens # None
  <2>1. r \in Req /\ w.req[r].socket = s /\ w.req[r].errors = 0
    BY <1>0, <1>3 DEF SocketOk, ASocket
  <2> HIDE DEF r
  <2>2. Inv(told, None, None) /\ told.sock = w.sock
    BY <1>0, <2>1, HadErrorKeeps
  <2> HIDE DEF told
  <2>3. Inv(done, None, None) /\ Later(told, done)
    BY <2>1, <2>2, FinishKeeps
  <2> HIDE DEF done
  <2>4. s \in DOMAIN done.sock
    BY <2>2, <2>3 DEF Later
  <2>5. Inv(FreeParser(done, s, r), None, None)
    BY <2>1, <2>3, <2>4, FreeParserKeeps
  <2>6. QED  BY <1>1, <1>3, <2>2, <2>5
<1>4. QED  BY <1>2, <1>3

-----------------------------------------------------------------------------
(* The list of sockets of a name. *)

(* l is the list q without s. *)
Without(q, l, s) ==
  /\ l \in Seq(Nat) /\ Len(l) + 1 = Len(q)
  /\ \A k \in DOMAIN l : l[k] # s /\ \E j \in DOMAIN q : q[j] = l[k]
  /\ \A j, k \in DOMAIN l : l[j] = l[k] => j = k
  /\ \A j \in DOMAIN q : q[j] # s => \E k \in DOMAIN l : l[k] = q[j]

LEMMA IndexFact ==
  ASSUME NEW i \in Nat, NEW k \in Nat, NEW n \in Nat, NEW a, NEW b,
         i >= 1, k >= i, k <= n - 1, a = i - 1, b = n - i
  PROVE  ~(k <= a) /\ k - a \in 1..(n - i) /\ k \in 1..(a + b) /\ (k - a) + i = k + 1
OBVIOUS

LEMMA TailPart ==
  ASSUME NEW q, NEW m \in Int, NEW n \in Int, \A i \in m..n : q[i] \in Nat
  PROVE  /\ SubSeq(q, m, n) \in Seq(Nat)
         /\ Len(SubSeq(q, m, n)) = IF m <= n THEN n - m + 1 ELSE 0
         /\ \A i \in 1..(n - m + 1) : SubSeq(q, m, n)[i] = q[m + i - 1]
BY SubSeqProperties

LEMMA JoinWorks ==
  ASSUME NEW a \in Seq(Nat), NEW b \in Seq(Nat)
  PROVE  /\ a \o b \in Seq(Nat) /\ Len(a \o b) = Len(a) + Len(b)
         /\ \A k \in 1..(Len(a) + Len(b)) :
              (a \o b)[k] = IF k <= Len(a) THEN a[k] ELSE b[k - Len(a)]
OBVIOUS

LEMMA RemoveWorks ==
  ASSUME NEW q \in Seq(Nat), NEW i \in DOMAIN q,
         \A j, k \in DOMAIN q : q[j] = q[k] => j = k
  PROVE  Without(q, RemoveFirst(q, q[i]), q[i])
<1> DEFINE s == q[i]
           I == {j \in 1..Len(q) : q[j] = s}
           l == SubSeq(q, 1, i - 1) \o SubSeq(q, i + 1, Len(q))
<1>0. Len(q) \in Nat /\ DOMAIN q = 1..Len(q) /\ i \in 1..Len(q)
  OBVIOUS
<1>1. I = {i}
  BY <1>0
<1>2. RemoveFirst(q, s) = l
  <2>1. Min(I) = i
    <3>1. i \in I /\ \A y \in I : i <= y
      BY <1>0, <1>1
    <3>2. \A x \in I : x = i
      BY <1>1
    <3>3. QED  BY <3>1, <3>2 DEF Min
  <2>2. SelectInSeq(q, LAMBDA v : v = s) = i
    BY <1>1, <2>1 DEF SelectInSeq
  <2>3. QED  BY <1>0, <2>2 DEF RemoveFirst, RemoveAt
<1> DEFINE a == SubSeq(q, 1, i - 1)
           b == SubSeq(q, i + 1, Len(q))
<1>3. /\ a \in Seq(Nat) /\ Len(a) = i - 1
      /\ \A k \in 1..(i - 1) : a[k] = q[k]
  BY <1>0
<1>4. /\ b \in Seq(Nat) /\ Len(b) = Len(q) - i
      /\ \A k \in 1..(Len(q) - i) : b[k] = q[k + i]
  <2>1. \A k \in (i + 1)..Len(q) : q[k] \in Nat
    BY <1>0
  <2>2. i + 1 \in Int /\ Len(q) \in Int
    BY <1>0
  <2>3. /\ b \in Seq(Nat)
        /\ Len(b) = IF i + 1 <= Len(q) THEN Len(q) - (i + 1) + 1 ELSE 0
        /\ \A k \in 1..(Len(q) - (i + 1) + 1) : b[k] = q[(i + 1) + k - 1]
    BY <2>1, <2>2, TailPart
  <2> HIDE DEF b
  <2>4. Len(b) = Len(q) - i
    <3>1. Len(q) \in Nat /\ i \in Nat /\ 1 <= i /\ i <= Len(q)
      BY <1>0
    <3>2. Len(b) = IF i + 1 <= Len(q) THEN Len(q) - (i + 1) + 1 ELSE 0
      BY <2>3
    <3>3. QED  BY <3>1, <3>2
  <2>5. \A k \in 1..(Len(q) - i) : k \in 1..(Len(q) - (i + 1) + 1) /\ (i + 1) + k - 1 = k + i
    BY <1>0
  <2>6. QED  BY <2>3, <2>4, <2>5
<1> HIDE DEF a, b
<1>5. /\ l \in Seq(Nat) /\ Len(l) = Len(a) + Len(b)
      /\ \A k \in 1..(Len(a) + Len(b)) : l[k] = IF k <= Len(a) THEN a[k] ELSE b[k - Len(a)]
  <2>1. l = a \o b
    BY DEF a, b
  <2>2. /\ a \o b \in Seq(Nat) /\ Len(a \o b) = Len(a) + Len(b)
        /\ \A k \in 1..(Len(a) + Len(b)) :
             (a \o b)[k] = IF k <= Len(a) THEN a[k] ELSE b[k - Len(a)]
    <3>1. a \in Seq(Nat) /\ b \in Seq(Nat)
      BY <1>3, <1>4
    <3>2. QED  BY <3>1, JoinWorks
  <2> HIDE DEF l
  <2>3. QED  BY <2>1, <2>2, Zenon
<1> HIDE DEF l
<1>6. Len(l) = Len(q) - 1 /\ DOMAIN l = 1..(Len(q) - 1)
  BY <1>0, <1>3, <1>4, <1>5
<1>7. ASSUME NEW k \in 1..(Len(q) - 1)
      PROVE  l[k] = IF k < i THEN q[k] ELSE q[k + 1]
  <2>1. CASE k < i
    <3>1. k \in 1..(i - 1) /\ k <= Len(a) /\ k \in 1..(Len(a) + Len(b))
      BY <2>1, <1>0, <1>3, <1>4, <1>7
    <3>2. l[k] = a[k] /\ a[k] = q[k]
      BY <3>1, <1>3, <1>5
    <3>3. QED  BY <3>2, <2>1
  <2>2. CASE ~(k < i)
    <3>1. ~(k <= Len(a)) /\ k - Len(a) \in 1..(Len(q) - i) /\ k \in 1..(Len(a) + Len(b))
          /\ (k - Len(a)) + i = k + 1
      <4>1. Len(a) = i - 1 /\ Len(b) = Len(q) - i
        BY <1>3, <1>4
      <4>2. i \in Nat /\ i >= 1 /\ k \in Nat /\ k <= Len(q) - 1 /\ k >= i /\ Len(q) \in Nat
        BY <2>2, <1>0, <1>7
      <4>3. QED  BY <4>1, <4>2, IndexFact
    <3>2. l[k] = b[k - Len(a)] /\ b[k - Len(a)] = q[(k - Len(a)) + i]
      BY <3>1, <1>4, <1>5
    <3>3. QED  BY <3>1, <3>2, <2>2
  <2>3. QED  BY <2>1, <2>2
<1> DEFINE g(k) == IF k < i THEN k ELSE k + 1
<1>8. \A k \in DOMAIN l : g(k) \in DOMAIN q /\ g(k) # i /\ l[k] = q[g(k)]
  BY <1>0, <1>6, <1>7
<1>9. \A j, k \in DOMAIN l : g(j) = g(k) => j = k
  BY <1>0, <1>6
<1>10. \A j \in DOMAIN q : j # i => \E k \in DOMAIN l : g(k) = j
  <2>1. ASSUME NEW j \in DOMAIN q, j # i  PROVE \E k \in DOMAIN l : g(k) = j
    <3>1. CASE j < i
      <4>1. j \in DOMAIN l /\ g(j) = j
        BY <3>1, <1>0, <1>6, <2>1
      <4>2. QED  BY <4>1
    <3>2. CASE ~(j < i)
      <4>0. j \in 1..Len(q) /\ j > i /\ i >= 1 /\ Len(q) \in Nat /\ i \in Nat /\ j \in Nat
        BY <3>2, <1>0, <2>1
      <4>a. j - 1 \in 1..(Len(q) - 1) /\ ~(j - 1 < i) /\ (j - 1) + 1 = j
        BY <4>0
      <4>1. j - 1 \in DOMAIN l /\ g(j - 1) = j
        BY <4>a, <1>6
      <4>2. QED  BY <4>1
    <3>3. QED  BY <3>1, <3>2
  <2>2. QED  BY <2>1
<1> HIDE DEF g
<1>11. \A k \in DOMAIN l : l[k] # s /\ \E j \in DOMAIN q : q[j] = l[k]
  BY <1>8
<1>12. \A j, k \in DOMAIN l : l[j] = l[k] => j = k
  BY <1>8, <1>9
<1>13. \A j \in DOMAIN q : q[j] # s => \E k \in DOMAIN l : l[k] = q[j]
  BY <1>8, <1>10
<1>14. l \in Seq(Nat) /\ Len(l) + 1 = Len(q)
  <2>1. Len(l) + 1 = Len(q)
    BY <1>0, <1>6
  <2>2. QED  BY <1>5, <2>1
<1>15. QED  BY <1>2, <1>11, <1>12, <1>13, <1>14 DEF Without

(* The first half of removeSocket(): s is in the middle of its close.      *)
LEMMA LessSound ==
  ASSUME NEW w, Inv(w, None, None), NEW s \in DOMAIN w.sock, w.sock[s].agent
  PROVE  LET n == w.sock[s].name
             v == [w EXCEPT !.sockets[n] = RemoveFirst(@, s)]
         IN  /\ Sound(v, s, None) /\ v.sock = w.sock /\ v.req = w.req
             /\ v.ticks = w.ticks /\ v.waiting = w.waiting
             /\ Len(v.sockets[n]) + 1 = Len(w.sockets[n])
             /\ \A m \in Hosts : m # n => v.sockets[m] = w.sockets[m]
<1> DEFINE n == w.sock[s].name
           q == w.sockets[n]
           l == RemoveFirst(q, s)
           ls == [w.sockets EXCEPT ![n] = l]
           v == [w EXCEPT !.sockets[n] = RemoveFirst(@, s)]
<1>0. /\ w \in State /\ w.sock[s] \in ASocket /\ s \in Nat /\ s # None
      /\ w.sockets \in [Hosts -> Seq(Nat)]
  BY StateType DEF Inv, Sound, None
<1>1. n \in Hosts /\ q \in Seq(Nat)
  BY <1>0 DEF ASocket
<1>2. Without(q, l, s)
  <2>1. PICK i \in DOMAIN q : q[i] = s
    BY <1>0 DEF Inv, Sound, Pool
  <2>2. \A j, k \in DOMAIN q : q[j] = q[k] => j = k
    BY <1>1 DEF Inv, Sound, Pool
  <2>3. QED  BY <1>1, <2>1, <2>2, RemoveWorks
<1>3. v = [sockets |-> ls, waiting |-> w.waiting, sock |-> w.sock,
           req |-> w.req, ticks |-> w.ticks]
  <2>1. w = [sockets |-> w.sockets, waiting |-> w.waiting, sock |-> w.sock,
             req |-> w.req, ticks |-> w.ticks]
    BY <1>0, RecordOf
  <2>2. v = [w EXCEPT !.sockets = ls]
    BY <2>1
  <2> HIDE DEF ls, v
  <2>3. QED  BY <2>1, <2>2
<1> HIDE DEF l, n, v
<1>4. /\ ls \in [Hosts -> Seq(Nat)] /\ ls[n] = l
      /\ \A m \in Hosts : m # n => ls[m] = w.sockets[m]
  BY <1>0, <1>1, <1>2 DEF Without
<1> HIDE DEF ls
<1>5. /\ v.sockets = ls /\ v.sock = w.sock /\ v.req = w.req /\ v.ticks = w.ticks
      /\ v.waiting = w.waiting
  BY <1>3
<1>6. v \in State
  BY <1>0, <1>3, <1>4, StateType DEF State
<1>7. Pool(v, s)
  <2>1. ASSUME NEW m \in Hosts, NEW i \in DOMAIN ls[m]
        PROVE  ls[m][i] \in DOMAIN w.sock /\ ls[m][i] # s /\ w.sock[ls[m][i]].name = m
               /\ w.sock[ls[m][i]].agent
    <3>1. CASE m = n
      <4>1. PICK j \in DOMAIN q : q[j] = ls[m][i]
        BY <3>1, <2>1, <1>2, <1>4 DEF Without
      <4>2. ls[m][i] # s
        BY <3>1, <2>1, <1>2, <1>4 DEF Without
      <4>3. QED  BY <3>1, <4>1, <4>2 DEF Inv, Sound, Pool
    <3>2. CASE m # n
      <4>1. ls[m] = w.sockets[m]
        BY <3>2, <1>4
      <4>2. w.sock[ls[m][i]].name = m /\ ls[m][i] \in DOMAIN w.sock /\ w.sock[ls[m][i]].agent
        BY <4>1, <2>1 DEF Inv, Sound, Pool
      <4>3. QED  BY <4>2, <3>2 DEF n
    <3>3. QED  BY <3>1, <3>2
  <2>2. ASSUME NEW m \in Hosts, NEW i \in DOMAIN ls[m], NEW j \in DOMAIN ls[m],
               ls[m][i] = ls[m][j]
        PROVE  i = j
    <3>1. CASE m = n
      BY <3>1, <2>2, <1>2, <1>4 DEF Without
    <3>2. CASE m # n
      <4>1. ls[m] = w.sockets[m]
        BY <3>2, <1>4
      <4>2. QED  BY <4>1, <2>2 DEF Inv, Sound, Pool
    <3>3. QED  BY <3>1, <3>2
  <2>3. ASSUME NEW k \in DOMAIN w.sock, w.sock[k].agent, k # s
        PROVE  \E i \in DOMAIN ls[w.sock[k].name] : ls[w.sock[k].name][i] = k
    <3> DEFINE m == w.sock[k].name
    <3>0. m \in Hosts /\ k # None
      BY <1>0, <2>3, StateType DEF ASocket, None
    <3>1. PICK i \in DOMAIN w.sockets[m] : w.sockets[m][i] = k
      BY <2>3, <3>0 DEF Inv, Sound, Pool
    <3> HIDE DEF m
    <3>2. CASE m = n
      <4>1. PICK j \in DOMAIN l : l[j] = k
        BY <3>1, <3>2, <2>3, <1>2 DEF Without
      <4>2. QED  BY <4>1, <3>2, <1>4 DEF m
    <3>3. CASE m # n
      BY <3>0, <3>1, <3>3, <1>4 DEF m
    <3>4. QED  BY <3>2, <3>3
  <2>4. QED  BY <2>1, <2>2, <2>3, <1>5 DEF Pool
<1>8. \A i \in DOMAIN v.sock : SocketOk(v, i, s)
  <2>1. ASSUME NEW i \in DOMAIN v.sock  PROVE SocketOk(v, i, s)
    <3>1. SocketOk(w, i, None) /\ i # None
      BY <1>0, <1>5, <2>1, StateType DEF Inv, Sound, None
    <3>2. SocketOk(v, i, None)
      BY <3>1, <1>5, FrameOk
    <3>3. QED  BY <3>1, <3>2 DEF SocketOk
  <2>2. QED  BY <2>1
<1>9. /\ \A i \in Req : RequestOk(v, i, v.req[i])
      /\ Queue(v)
  BY <1>5, FrameOk DEF Inv, Sound, Queue
<1>10. Places(v, None)
  BY <1>5 DEF Inv, Sound, Places, PlaceOk, Waits, Handed, HasOne
<1>11. Sound(v, s, None)
  BY <1>6, <1>7, <1>8, <1>9, <1>10 DEF Sound
<1>12. Len(v.sockets[n]) + 1 = Len(w.sockets[n]) /\ \A m \in Hosts : m # n => v.sockets[m] = w.sockets[m]
  BY <1>2, <1>4, <1>5 DEF Without
<1>13. QED  BY <1>5, <1>11, <1>12 DEF v, n

(* createSocket(): the new socket is free, and in the list. *)
LEMMA CreateKeeps ==
  ASSUME NEW w, NEW x, NEW y, Sound(w, x, y), x \in {None} \cup DOMAIN w.sock,
         NEW n \in Hosts, Full(CreateSocket(w, n))
  PROVE  LET v  == CreateSocket(w, n)
             ns == Len(w.sock) + 1
         IN  /\ Inv(v, x, y) /\ IsFree(v, ns) /\ v.sock[ns].name = n
             /\ v.req = w.req /\ v.ticks = w.ticks /\ v.waiting = w.waiting
             /\ \A i \in DOMAIN w.sock : i \in DOMAIN v.sock /\ v.sock[i] = w.sock[i]
<1> DEFINE ns == Len(w.sock) + 1
           p  == NewSocket(n)
           ss == Append(w.sock, p)
           l  == Append(w.sockets[n], ns)
           ls == [w.sockets EXCEPT ![n] = l]
           v  == CreateSocket(w, n)
<1>0. /\ w \in State /\ Len(w.sock) \in Nat /\ DOMAIN w.sock = 1..Len(w.sock)
      /\ w.sockets[n] \in Seq(Nat) /\ w.sockets \in [Hosts -> Seq(Nat)]
      /\ w.sock \in Seq(ASocket) /\ ns \in Nat /\ ns \notin DOMAIN w.sock /\ ns # x
      /\ ns # None
  BY StateType DEF Sound, None
<1>1. v = [sockets |-> ls, waiting |-> w.waiting, sock |-> ss,
           req |-> w.req, ticks |-> w.ticks]
  <2>1. w = [sockets |-> w.sockets, waiting |-> w.waiting, sock |-> w.sock,
             req |-> w.req, ticks |-> w.ticks]
    BY <1>0, RecordOf
  <2>2. v = [w EXCEPT !.sock = ss, !.sockets = ls]
    BY <2>1 DEF CreateSocket
  <2> HIDE DEF ls, v, ss
  <2>3. QED  BY <2>1, <2>2
<1>2. /\ p \in ASocket /\ p.name = n /\ p.agent = TRUE /\ p.message = None
      /\ p.listens = None /\ p.hooks = FALSE
  BY DEF NewSocket, ASocket
<1>full. Full(v)
  OBVIOUS
<1> HIDE DEF p, v
<1>3. /\ ss \in Seq(ASocket) /\ ss[ns] = p /\ DOMAIN ss = 1..ns
      /\ \A i \in DOMAIN w.sock : ss[i] = w.sock[i]
  BY <1>0, <1>2
<1> HIDE DEF ss
<1>4. /\ l \in Seq(Nat) /\ DOMAIN l = 1..(Len(w.sockets[n]) + 1)
      /\ Len(w.sockets[n]) \in Nat /\ DOMAIN w.sockets[n] = 1..Len(w.sockets[n])
      /\ l[Len(w.sockets[n]) + 1] = ns
      /\ \A i \in DOMAIN w.sockets[n] : l[i] = w.sockets[n][i]
  BY <1>0
<1> HIDE DEF l
<1>5. /\ ls \in [Hosts -> Seq(Nat)] /\ ls[n] = l
      /\ \A m \in Hosts : m # n => ls[m] = w.sockets[m]
  BY <1>0, <1>4
<1> HIDE DEF ls
<1>6. /\ v.sockets = ls /\ v.sock = ss /\ v.req = w.req /\ v.ticks = w.ticks
      /\ v.waiting = w.waiting
  BY <1>1
<1>7. v \in State
  BY <1>0, <1>1, <1>3, <1>5, StateType DEF State
<1>8. /\ \A i \in DOMAIN w.sock : i \in DOMAIN v.sock /\ v.sock[i] = w.sock[i]
      /\ \A i \in DOMAIN v.sock : i \in DOMAIN w.sock \/ i = ns
      /\ ns \in DOMAIN v.sock /\ v.sock[ns] = p
  BY <1>0, <1>3, <1>6
<1>9. \A i \in DOMAIN l : \/ i \in DOMAIN w.sockets[n] /\ l[i] = w.sockets[n][i]
                          \/ i = Len(w.sockets[n]) + 1 /\ l[i] = ns
  BY <1>4
<1>10. \A i \in DOMAIN w.sockets[n] : w.sockets[n][i] # ns
  BY <1>0 DEF Sound, Pool
<1> HIDE DEF ns
<1>11. Pool(v, x)
  <2>1. ASSUME NEW m \in Hosts, NEW i \in DOMAIN ls[m]
        PROVE  ls[m][i] \in DOMAIN v.sock /\ ls[m][i] # x /\ v.sock[ls[m][i]].name = m
               /\ v.sock[ls[m][i]].agent
    <3>1. CASE i \in DOMAIN w.sockets[m] /\ ls[m][i] = w.sockets[m][i]
      <4>1. ls[m][i] \in DOMAIN w.sock /\ ls[m][i] # x /\ w.sock[ls[m][i]].name = m
            /\ w.sock[ls[m][i]].agent
        BY <3>1 DEF Sound, Pool
      <4>2. QED  BY <4>1, <1>8
    <3>2. CASE m = n /\ ls[m][i] = ns
      BY <3>2, <1>0, <1>2, <1>8
    <3>3. QED  BY <3>1, <3>2, <2>1, <1>5, <1>9
  <2>2. ASSUME NEW m \in Hosts, NEW i \in DOMAIN ls[m], NEW j \in DOMAIN ls[m],
               ls[m][i] = ls[m][j]
        PROVE  i = j
    <3>1. CASE m = n
      BY <3>1, <2>2, <1>5, <1>9, <1>10 DEF Sound, Pool
    <3>2. CASE m # n
      <4>1. ls[m] = w.sockets[m]
        BY <3>2, <1>5
      <4>2. QED  BY <4>1, <2>2 DEF Sound, Pool
    <3>3. QED  BY <3>1, <3>2
  <2>3. ASSUME NEW k \in DOMAIN v.sock, v.sock[k].agent, k # x
        PROVE  \E i \in DOMAIN ls[v.sock[k].name] : ls[v.sock[k].name][i] = k
    <3>1. CASE k = ns
      <4>1. Len(w.sockets[n]) + 1 \in DOMAIN l
        BY <1>4
      <4>2. QED  BY <4>1, <3>1, <1>2, <1>4, <1>5, <1>8
    <3>2. CASE k # ns
      <4>1. k \in DOMAIN w.sock /\ v.sock[k] = w.sock[k]
        BY <3>2, <2>3, <1>8
      <4> DEFINE m == w.sock[k].name
      <4>2. m \in Hosts
        BY <4>1, <1>0, StateType DEF ASocket
      <4>3. PICK i \in DOMAIN w.sockets[m] : w.sockets[m][i] = k
        BY <4>1, <2>3 DEF Sound, Pool
      <4> HIDE DEF m
      <4>4. CASE m = n
        <5>1. i \in DOMAIN l /\ l[i] = k
          BY <4>3, <4>4, <1>4
        <5>2. QED  BY <5>1, <4>1, <4>4, <1>5 DEF m
      <4>5. CASE m # n
        BY <4>1, <4>2, <4>3, <4>5, <1>5 DEF m
      <4>6. QED  BY <4>4, <4>5
    <3>3. QED  BY <3>1, <3>2
  <2>4. QED  BY <2>1, <2>2, <2>3, <1>6 DEF Pool
<1>12. ASSUME NEW i \in DOMAIN v.sock  PROVE SocketOk(v, i, x)
  <2>1. CASE i = ns
    BY <2>1, <1>2, <1>8 DEF SocketOk
  <2>2. CASE i # ns
    <3>1. SocketOk(w, i, x) /\ v.sock[i] = w.sock[i]
      BY <2>2, <1>8, <1>12 DEF Sound
    <3>2. QED  BY <3>1, <1>6 DEF SocketOk
  <2>3. QED  BY <2>1, <2>2
<1>13. ASSUME NEW r \in Req  PROVE RequestOk(v, r, v.req[r])
  <2>1. RequestOk(w, r, w.req[r])
    BY <1>13 DEF Sound
  <2>2. w.req[r].socket \in DOMAIN w.sock =>
          w.req[r].socket \in DOMAIN v.sock /\ v.sock[w.req[r].socket] = w.sock[w.req[r].socket]
    BY <1>8
  <2>3. QED  BY <2>1, <2>2, <1>6 DEF RequestOk
<1>14. ASSUME NEW j \in DOMAIN v.ticks  PROVE TickOk(v, v.ticks[j])
  <2> DEFINE t == w.ticks[j]
  <2>1. TickOk(w, t) /\ v.ticks[j] = t
    BY <1>6, <1>14 DEF Sound, Queue
  <2> HIDE DEF t
  <2>2. t.sock \in DOMAIN w.sock => t.sock \in DOMAIN v.sock /\ v.sock[t.sock] = w.sock[t.sock]
    BY <1>8
  <2>3. t.kind = "error" => t.sock \in DOMAIN w.sock
    BY <2>1 DEF TickOk
  <2>4. QED  BY <2>1, <2>2, <2>3, <1>6 DEF TickOk
<1>15. Queue(v)
  BY <1>6, <1>14 DEF Sound, Queue
<1>16. Places(v, y)
  BY <1>6 DEF Sound, Places, PlaceOk, Waits, Handed, HasOne
<1>17. Inv(v, x, y)
  BY <1>full, <1>7, <1>11, <1>12, <1>13, <1>15, <1>16 DEF Inv, Sound
<1>18. NotHanded(v, ns)
  <2>1. ASSUME NEW k \in DOMAIN w.ticks, w.ticks[k].kind = "onSocket"
        PROVE  w.ticks[k].sock # ns
    <3>1. TickOk(w, w.ticks[k])
      BY DEF Sound, Queue
    <3>2. QED  BY <3>1, <2>1, <1>0 DEF TickOk, ns
  <2>2. QED  BY <2>1, <1>6 DEF NotHanded
<1>19. IsFree(v, ns) /\ v.sock[ns].name = n
  BY <1>2, <1>8, <1>18 DEF IsFree
<1>20. QED  BY <1>6, <1>8, <1>17, <1>19 DEF v, ns

LEMMA CreateIs ==
  ASSUME NEW w, w \in State, NEW n \in Hosts
  PROVE  LET v == CreateSocket(w, n)
         IN  /\ Len(v.sockets[n]) = Len(w.sockets[n]) + 1
             /\ \A m \in Hosts : m # n => v.sockets[m] = w.sockets[m]
             /\ v.waiting = w.waiting
<1> DEFINE l  == Append(w.sockets[n], Len(w.sock) + 1)
           ls == [w.sockets EXCEPT ![n] = l]
           v  == CreateSocket(w, n)
<1>1. v.sockets = ls /\ v.waiting = w.waiting
  BY RecordOf DEF CreateSocket
<1>2. Len(l) = Len(w.sockets[n]) + 1
  BY StateType
<1> HIDE DEF l
<1>3. ls[n] = l /\ \A m \in Hosts : m # n => ls[m] = w.sockets[m]
  BY StateType
<1>4. QED  BY <1>1, <1>2, <1>3

(* removeSocket() *)
LEMMA RemoveSocketKeeps ==
  ASSUME NEW w, Inv(w, None, None), NEW s \in DOMAIN w.sock, w.sock[s].agent
  PROVE  LET v == RemoveSocket(w, s)
         IN  /\ Inv(v, s, None) /\ s \in DOMAIN v.sock /\ v.sock[s] = w.sock[s]
             /\ \A r \in Req : w.req[r].socket # None => v.req[r] = w.req[r]
             /\ NoTick(w, s) => NoTick(v, s)
<1> DEFINE n    == w.sock[s].name
           less == [w EXCEPT !.sockets[n] = RemoveFirst(@, s)]
           ns   == Len(w.sock) + 1
           u    == CreateSocket(less, n)
           v    == RemoveSocket(w, s)
<1>0. /\ w \in State /\ n \in Hosts /\ Len(w.sockets[n]) \in Nat /\ Full(w)
      /\ MaxSockets \in Nat
  BY StateType, AgentAssumption DEF Inv, Sound, ASocket
<1>1. /\ Sound(less, s, None) /\ less.sock = w.sock /\ less.req = w.req
      /\ less.ticks = w.ticks /\ less.waiting = w.waiting
      /\ Len(less.sockets[n]) + 1 = Len(w.sockets[n])
      /\ \A m \in Hosts : m # n => less.sockets[m] = w.sockets[m]
  BY LessSound
<1>2. v = IF w.waiting[n] # <<>> THEN Free(u, ns) ELSE less
  BY DEF RemoveSocket
<1> HIDE DEF less, n, v
<1>3. less \in State /\ Len(less.sockets[n]) \in Nat
  BY <1>0, <1>1, StateType DEF Sound
<1>4. CASE w.waiting[n] = <<>>
  <2>1. Full(less)
    <3>1. Len(less.sockets[n]) <= MaxSockets
      <4>1. Len(w.sockets[n]) <= MaxSockets
        BY <1>0 DEF Full
      <4>2. QED  BY <4>1, <1>0, <1>1, <1>3
    <3>2. QED  BY <3>1, <1>0, <1>1, <1>4 DEF Full
  <2>2. v = less
    BY <1>2, <1>4
  <2>3. QED  BY <2>1, <2>2, <1>1 DEF Inv, NoTick, v
<1>5. CASE w.waiting[n] # <<>>
  <2>1. /\ Len(u.sockets[n]) = Len(less.sockets[n]) + 1
        /\ \A m \in Hosts : m # n => u.sockets[m] = less.sockets[m]
        /\ u.waiting = less.waiting
    BY <1>0, <1>3, CreateIs
  <2>2. Full(u)
    <3>1. Len(u.sockets[n]) = Len(w.sockets[n])
      BY <2>1, <1>1
    <3> HIDE DEF u
    <3>2. QED  BY <2>1, <3>1, <1>0, <1>1 DEF Full
  <2>3. Len(less.sock) + 1 = ns
    BY <1>1
  <2> HIDE DEF ns
  <2>4. /\ Inv(u, s, None) /\ IsFree(u, ns) /\ u.sock[ns].name = n
        /\ u.req = less.req /\ u.ticks = less.ticks /\ u.waiting = less.waiting
        /\ \A i \in DOMAIN less.sock : i \in DOMAIN u.sock /\ u.sock[i] = less.sock[i]
    <3>1. s \in {None} \cup DOMAIN less.sock
      BY <1>1
    <3>2. QED  BY <3>1, <2>2, <2>3, <1>0, <1>1, CreateKeeps
  <2> HIDE DEF u
  <2>5. /\ Inv(Free(u, ns), s, None) /\ Free(u, ns).sock = u.sock
        /\ \A i \in Req : u.req[i].socket # None => Free(u, ns).req[i] = u.req[i]
        /\ \A i : NoTick(u, i) => NoTick(Free(u, ns), i)
    <3>1. u.waiting[u.sock[ns].name] # <<>>
      BY <2>4, <1>1, <1>5
    <3>2. QED  BY <3>1, <2>4, FreeKeeps
  <2>6. v = Free(u, ns)
    BY <1>2, <1>5
  <2>7. NoTick(w, s) => NoTick(v, s)
    BY <2>4, <2>5, <2>6, <1>1 DEF NoTick
  <2>8. QED  BY <2>4, <2>5, <2>6, <2>7, <1>1 DEF v
<1>6. QED  BY <1>4, <1>5

(* addRequest(), when the name has all its sockets. *)
LEMMA WaitKeeps ==
  ASSUME NEW w, NEW r \in Req, Inv(w, None, r), w.req[r].made,
         ~(Len(w.sockets[Host(r)]) < MaxSockets)
  PROVE  Inv([w EXCEPT !.waiting[Host(r)] = Append(@, r)], None, None)
<1> DEFINE n  == Host(r)
           l  == Append(w.waiting[n], r)
           ws == [w.waiting EXCEPT ![n] = l]
           v  == [w EXCEPT !.waiting[n] = Append(@, r)]
<1>0. /\ w \in State /\ n \in Hosts /\ w.waiting[n] \in Seq(Req)
      /\ w.waiting \in [Hosts -> Seq(Req)] /\ r # None
      /\ Len(w.sockets[n]) \in Nat /\ MaxSockets \in Nat
  BY StateType, ReqIsNat, AgentAssumption DEF Inv, Sound
<1>1. v = [sockets |-> w.sockets, waiting |-> ws, sock |-> w.sock,
           req |-> w.req, ticks |-> w.ticks]
  <2>1. w = [sockets |-> w.sockets, waiting |-> w.waiting, sock |-> w.sock,
             req |-> w.req, ticks |-> w.ticks]
    BY <1>0, RecordOf
  <2>2. v = [w EXCEPT !.waiting = ws]
    BY <2>1
  <2> HIDE DEF ws, v
  <2>3. QED  BY <2>1, <2>2
<1> HIDE DEF v
<1>2. /\ l \in Seq(Req) /\ DOMAIN l = 1..(Len(w.waiting[n]) + 1)
      /\ Len(w.waiting[n]) \in Nat /\ DOMAIN w.waiting[n] = 1..Len(w.waiting[n])
      /\ l[Len(w.waiting[n]) + 1] = r
      /\ \A i \in DOMAIN w.waiting[n] : l[i] = w.waiting[n][i]
  BY <1>0
<1> HIDE DEF l
<1>3. /\ ws \in [Hosts -> Seq(Req)] /\ ws[n] = l
      /\ \A m \in Hosts : m # n => ws[m] = w.waiting[m]
  BY <1>0, <1>2
<1> HIDE DEF ws
<1>4. /\ v.sockets = w.sockets /\ v.sock = w.sock /\ v.req = w.req
      /\ v.ticks = w.ticks /\ v.waiting = ws
  BY <1>1
<1>5. v \in State
  BY <1>0, <1>1, <1>3, StateType DEF State
<1>6. Pool(v, None)
  BY <1>4 DEF Inv, Sound, Pool
<1>7. Full(v)
  <2>1. Len(w.sockets[n]) = MaxSockets
    <3>1. Len(w.sockets[n]) <= MaxSockets
      BY <1>0 DEF Inv, Full
    <3>2. QED  BY <3>1, <1>0
  <2>2. QED  BY <2>1, <1>3, <1>4 DEF Inv, Full
<1>8. /\ \A i \in DOMAIN v.sock : SocketOk(v, i, None)
      /\ \A i \in Req : RequestOk(v, i, v.req[i])
      /\ Queue(v)
  BY <1>4, FrameOk DEF Inv, Sound, Queue
<1>9. \A i \in DOMAIN l : \/ i \in DOMAIN w.waiting[n] /\ l[i] = w.waiting[n][i]
                          \/ i = Len(w.waiting[n]) + 1 /\ l[i] = r
  BY <1>2
<1>10. PlaceOk(w, r, r)
  BY DEF Inv, Sound, Places
<1>11. ~Waits(w, r) /\ ~Handed(w, r) /\ ~HasOne(w, r)
  BY <1>10 DEF PlaceOk
<1>12. \A i \in DOMAIN w.waiting[n] : w.waiting[n][i] # r
  BY <1>11 DEF Waits
<1>13. ASSUME NEW m \in Hosts, NEW i \in DOMAIN ws[m]  PROVE Host(ws[m][i]) = m
  <2>1. CASE m = n
    BY <2>1, <1>3, <1>9, <1>13 DEF Inv, Sound, Places
  <2>2. CASE m # n
    BY <2>2, <1>3, <1>13 DEF Inv, Sound, Places
  <2>3. QED  BY <2>1, <2>2
<1>14. ASSUME NEW m \in Hosts, NEW i \in DOMAIN ws[m], NEW j \in DOMAIN ws[m],
              ws[m][i] = ws[m][j]
       PROVE  i = j
  <2>1. CASE m = n
    BY <2>1, <1>3, <1>9, <1>12, <1>14 DEF Inv, Sound, Places
  <2>2. CASE m # n
    BY <2>2, <1>3, <1>14 DEF Inv, Sound, Places
  <2>3. QED  BY <2>1, <2>2
<1>15. ASSUME NEW i \in Req  PROVE PlaceOk(v, i, None)
  <2>1. (Handed(v, i) <=> Handed(w, i)) /\ (HasOne(v, i) <=> HasOne(w, i))
    BY <1>4 DEF Handed, HasOne
  <2>2. PlaceOk(w, i, r) /\ i # None /\ v.req[i].made = w.req[i].made
    BY <1>4, <1>15, ReqIsNat DEF Inv, Sound, Places
  <2>3. CASE i = r
    <3>1. Len(w.waiting[n]) + 1 \in DOMAIN l
      BY <1>2
    <3>2. Waits(v, r)
      BY <3>1, <1>2, <1>3, <1>4 DEF Waits
    <3>3. QED  BY <3>2, <2>1, <2>2, <2>3, <1>11 DEF PlaceOk
  <2>4. CASE i # r
    <3>1. Waits(v, i) <=> Waits(w, i)
      <4>1. CASE Host(i) # n
        BY <4>1, <1>3, <1>4, <1>15, ReqIsNat DEF Waits
      <4>2. CASE Host(i) = n
        <5>1. \A k \in DOMAIN w.waiting[n] : k \in DOMAIN l /\ l[k] = w.waiting[n][k]
          BY <1>2
        <5>2. QED  BY <5>1, <4>2, <2>4, <1>3, <1>4, <1>9 DEF Waits
      <4>3. QED  BY <4>1, <4>2
    <3>2. QED  BY <3>1, <2>1, <2>2, <2>4 DEF PlaceOk
  <2>5. QED  BY <2>3, <2>4
<1>16. Places(v, None)
  BY <1>4, <1>13, <1>14, <1>15 DEF Inv, Sound, Places
<1>17. QED  BY <1>5, <1>6, <1>7, <1>8, <1>16 DEF Inv, Sound, v

LEMMA AddRequestKeeps ==
  ASSUME NEW w, NEW r \in Req, Inv(w, None, r), w.req[r].made
  PROVE  Inv(AddRequest(w, r), None, None)
<1> DEFINE n == Host(r)
           u == CreateSocket(w, n)
           ns == Len(w.sock) + 1
<1>0. /\ w \in State /\ n \in Hosts /\ Len(w.sockets[n]) \in Nat /\ Full(w)
      /\ MaxSockets \in Nat /\ Sound(w, None, r)
  BY StateType, ReqIsNat, AgentAssumption DEF Inv, Sound
<1>1. CASE Len(w.sockets[n]) < MaxSockets
  <2>1. AddRequest(w, r) = HandTo(u, r, ns)
    BY <1>1 DEF AddRequest
  <2>2. /\ Len(u.sockets[n]) = Len(w.sockets[n]) + 1
        /\ \A m \in Hosts : m # n => u.sockets[m] = w.sockets[m]
        /\ u.waiting = w.waiting
    BY <1>0, CreateIs
  <2>3. w.waiting[n] = <<>>
    BY <1>0, <1>1 DEF Full
  <2>4. Len(u.sockets[n]) <= MaxSockets
    BY <2>2, <1>0, <1>1
  <2>5. Full(u)
    <3> HIDE DEF u
    <3>1. QED  BY <2>2, <2>3, <2>4, <1>0 DEF Full
  <2>6. /\ Inv(u, None, r) /\ IsFree(u, ns) /\ u.req = w.req
    BY <2>5, <1>0, CreateKeeps
  <2> HIDE DEF u, ns
  <2>7. Inv(HandTo(u, r, ns), None, None)
    BY <2>6, HandToKeeps
  <2>8. QED  BY <2>1, <2>7
<1>2. CASE ~(Len(w.sockets[n]) < MaxSockets)
  BY <1>2, WaitKeeps DEF AddRequest
<1>3. QED  BY <1>1, <1>2

-----------------------------------------------------------------------------
(* The end of a socket. *)

(* The socket in the middle of its close loses its listeners. *)
LEMMA LeaveKeeps ==
  ASSUME NEW w, NEW s, Inv(w, s, None), s \in DOMAIN w.sock, NEW q \in ASocket,
         q.name = w.sock[s].name, q.message = w.sock[s].message,
         q.hooks => w.sock[s].hooks, q.agent = FALSE, q.listens = None,
         \/ q.state = "taken" /\ w.sock[s].state = "open"
         \/ q.state = "closed" /\ w.sock[s].state \in Gone /\ NoTick(w, s)
  PROVE  Inv(SetSock(w, s, q), None, None)
<1> DEFINE v == SetSock(w, s, q)
<1>0. w \in State /\ s \in Nat /\ s # None
  BY StateType DEF Inv, Sound, None
<1>1. OneSocket(w, v, s, q)
  BY <1>0, SetSockWorks
<1> HIDE DEF v
<1>2. /\ v \in State /\ v.sockets = w.sockets /\ v.waiting = w.waiting /\ v.req = w.req
      /\ v.ticks = w.ticks /\ DOMAIN v.sock = DOMAIN w.sock /\ v.sock[s] = q
      /\ \A i \in DOMAIN w.sock : i # s => v.sock[i] = w.sock[i]
      /\ \A i \in DOMAIN w.sock : /\ v.sock[i].name = w.sock[i].name
                                  /\ v.sock[i].message = w.sock[i].message
  BY <1>1 DEF OneSocket
<1>3. Pool(v, None)
  <2>1. ASSUME NEW n \in Hosts, NEW i \in DOMAIN w.sockets[n]
        PROVE  LET k == w.sockets[n][i]
               IN  k \in DOMAIN w.sock /\ k # None /\ v.sock[k].name = n /\ v.sock[k].agent
    <3> DEFINE k == w.sockets[n][i]
    <3>1. k \in DOMAIN w.sock /\ k # s /\ w.sock[k].name = n /\ w.sock[k].agent
      BY DEF Inv, Sound, Pool
    <3> HIDE DEF k
    <3>2. k # None
      BY <3>1, <1>0, StateType DEF None
    <3>3. QED  BY <3>1, <3>2, <1>2 DEF k
  <2>2. ASSUME NEW k \in DOMAIN w.sock, v.sock[k].agent
        PROVE  \E i \in DOMAIN w.sockets[v.sock[k].name] : w.sockets[v.sock[k].name][i] = k
    <3>1. k # s /\ v.sock[k] = w.sock[k]
      BY <2>2, <1>2
    <3>2. QED  BY <3>1, <2>2 DEF Inv, Sound, Pool
  <2>3. \A n \in Hosts : \A i, j \in DOMAIN w.sockets[n] :
          w.sockets[n][i] = w.sockets[n][j] => i = j
    BY DEF Inv, Sound, Pool
  <2>4. QED  BY <2>1, <2>2, <2>3, <1>2 DEF Pool
<1>4. Full(v)
  BY <1>2 DEF Inv, Full
<1>5. ASSUME NEW i \in DOMAIN v.sock  PROVE SocketOk(v, i, None)
  <2>1. SocketOk(w, i, s)
    BY <1>2, <1>5 DEF Inv, Sound
  <2>2. CASE i = s
    BY <2>1, <2>2, <1>2 DEF SocketOk, Alive
  <2>3. CASE i # s
    <3>1. v.sock[i] = w.sock[i]
      BY <2>3, <1>2, <1>5
    <3>2. QED  BY <2>1, <2>3, <3>1, <1>2 DEF SocketOk
  <2>4. QED  BY <2>2, <2>3
<1>6. ASSUME NEW r \in Req  PROVE RequestOk(v, r, v.req[r])
  <2>1. RequestOk(w, r, w.req[r])
    BY <1>6 DEF Inv, Sound
  <2>2. \A i \in DOMAIN w.sock :
          /\ w.sock[i].state \in Gone => v.sock[i].state \in Gone
          /\ w.sock[i].state \in Gone \cup {"taken"} => v.sock[i].state \in Gone \cup {"taken"}
    BY <1>2 DEF Gone
  <2>3. QED  BY <2>1, <2>2, <1>2 DEF RequestOk
<1>7. ASSUME NEW j \in DOMAIN v.ticks  PROVE TickOk(v, v.ticks[j])
  <2> DEFINE t == w.ticks[j]
  <2>0. v.ticks = w.ticks
    BY <1>2
  <2>1. TickOk(w, t) /\ v.ticks[j] = t
    BY <2>0, <1>7 DEF Inv, Sound, Queue
  <2>2. t.kind \in {"error", "close"} => t.sock # s
    BY <2>1, <1>2, <1>7 DEF TickOk, NoTick, Gone
  <2> HIDE DEF t
  <2>3. t.kind \in {"error", "close"} => v.sock[t.sock] = w.sock[t.sock]
    BY <2>1, <2>2, <1>2 DEF TickOk
  <2>4. t.sock \in DOMAIN w.sock => v.sock[t.sock].message = w.sock[t.sock].message
    BY <1>2
  <2>5. QED  BY <2>1, <2>3, <2>4, <1>2 DEF TickOk
<1>8. Queue(v)
  BY <1>2, <1>7 DEF Inv, Sound, Queue
<1>9. Places(v, None)
  BY <1>2 DEF Inv, Sound, Places, PlaceOk, Waits, Handed, HasOne
<1>10. QED  BY <1>2, <1>3, <1>4, <1>5, <1>6, <1>8, <1>9 DEF Inv, Sound, v

(* A socket without the agent's listeners may as well be leaving. *)
LEMMA MayLeave ==
  ASSUME NEW w, Inv(w, None, None), NEW s \in DOMAIN w.sock, ~w.sock[s].agent
  PROVE  Inv(w, s, None)
<1>0. w \in State
  BY DEF Inv, Sound
<1>1. Pool(w, s)
  <2>1. \A i \in DOMAIN w.sock : i # None
    BY <1>0, StateType DEF None
  <2>2. QED  BY <2>1 DEF Inv, Sound, Pool
<1>2. ASSUME NEW i \in DOMAIN w.sock  PROVE SocketOk(w, i, s)
  <2>1. SocketOk(w, i, None) /\ i # None
    BY <1>0, StateType DEF Inv, Sound, None
  <2>2. QED  BY <2>1 DEF SocketOk
<1>3. QED  BY <1>1, <1>2 DEF Inv, Sound

(* What the SocketCloseListener tells first.                              *)
LEMMA CloseToldKeeps ==
  ASSUME NEW w, NEW s, Inv(w, s, None), s \in DOMAIN w.sock, w.sock[s].state \in Gone,
         NoErrorTick(w, s), NEW r \in Req, w.req[r].socket = s, w.req[r].closes = 0
  PROVE  LET told == [w EXCEPT !.req[r].closes = @ + 1]
         IN  /\ w.req[r].res # "none" \/ w.req[r].hadError =>
                  /\ Inv(told, s, None) /\ Later(w, told) /\ told.sock = w.sock
                  /\ told.ticks = w.ticks
                  /\ w.req[r].res # "none" => told.req[r].res # "none"
             /\ w.req[r].res = "none" /\ ~w.req[r].hadError =>
                  Inv(ErrorEvent(told, r), s, None) /\ Later(w, ErrorEvent(told, r))
<1> DEFINE told == [w EXCEPT !.req[r].closes = @ + 1]
           p == [w.req[r] EXCEPT !.closes = @ + 1]
           q == [p EXCEPT !.errors = @ + 1]
<1>0. /\ w \in State /\ w.req[r] \in ARequest /\ RequestOk(w, r, w.req[r])
      /\ w.req[r].errors \in Nat /\ w.req[r].closes + 1 = 1 /\ s \in Nat /\ s # None
  BY StateType DEF Inv, Sound, ARequest, None
<1>1. told = SetReq(w, r, p)
  BY DEF SetReq
<1>2. /\ p \in ARequest
      /\ p.made = w.req[r].made /\ p.res = w.req[r].res
      /\ p.socket = w.req[r].socket /\ p.paused = w.req[r].paused
      /\ p.pending = w.req[r].pending /\ p.hadError = w.req[r].hadError
      /\ p.errors = w.req[r].errors /\ p.closes = 1 /\ p.ends = w.req[r].ends
  BY <1>0 DEF ARequest
<1> HIDE DEF p
<1>3. /\ q \in ARequest
      /\ q.made = p.made /\ q.res = p.res
      /\ q.socket = p.socket /\ q.paused = p.paused
      /\ q.pending = p.pending /\ q.hadError = p.hadError
      /\ q.errors = p.errors + 1 /\ q.closes = p.closes /\ q.ends = p.ends
  <2>1. p.errors + 1 \in Nat
    BY <1>0, <1>2
  <2>2. QED  BY <2>1, <1>2 DEF ARequest
<1> HIDE DEF q, told
<1>4. CASE w.req[r].res # "none" \/ w.req[r].hadError
  <2>1. RequestMay(w, s, w.req[r], p)
    BY <1>2 DEF RequestMay
  <2>2. RequestOk(w, r, p)
    BY <1>0, <1>2, <1>4 DEF RequestOk
  <2>3. Inv(told, s, None) /\ Later(w, told) /\ OneRequest(w, told, r, p)
    BY <2>1, <2>2, <1>1, <1>2, AskKeeps
  <2>4. QED  BY <1>2, <1>4, <2>3 DEF OneRequest, told
<1>5. CASE w.req[r].res = "none" /\ ~w.req[r].hadError
  <2>0. w.req[r].errors # 1
    BY <1>0, <1>5 DEF RequestOk
  <2>1. w.req[r].errors = 0
    BY <1>0, <2>0 DEF RequestOk
  <2>2. q.errors = 1
    BY <2>1, <1>2, <1>3
  <2>3. OneRequest(w, told, r, p)
    BY <1>0, <1>1, <1>2, SetReqWorks
  <2>4. ErrorEvent(told, r) = SetReq(told, r, q)
    BY <2>3, StateType DEF ErrorEvent, SetReq, OneRequest, q
  <2>5. SetReq(told, r, q) = SetReq(w, r, q)
    BY <1>0, <1>1, SetTwice
  <2>6. RequestMay(w, s, w.req[r], q)
    BY <1>2, <1>3 DEF RequestMay
  <2>7. RequestOk(w, r, q)
    BY <1>0, <1>2, <1>3, <2>2 DEF RequestOk
  <2>8. Inv(SetReq(w, r, q), s, None) /\ Later(w, SetReq(w, r, q))
    BY <2>6, <2>7, <1>3, AskKeeps
  <2>9. QED  BY <2>4, <2>5, <2>8, <1>5 DEF told
<1>6. QED  BY <1>4, <1>5

LEMMA SocketCloseKeeps ==
  ASSUME NEW w, NEW s, Inv(w, s, None), s \in DOMAIN w.sock, w.sock[s].state \in Gone,
         NoTick(w, s), w.sock[s].listens # None => w.req[w.sock[s].message].closes = 0,
         NEW cut \in BOOLEAN
  PROVE  Inv(SocketClose(w, s, cut), s, None) /\ Later(w, SocketClose(w, s, cut))
<1> DEFINE r     == w.sock[s].message
           q     == w.req[r]
           told  == [w EXCEPT !.req[r].closes = @ + 1]
           e     == Tick("emitClose", r, s)
           ended == IF q.res # "none" /\ q.readable
                    THEN IF q.pending THEN NextTick(told, e) ELSE EmitEnd(told, r, FALSE)
                    ELSE IF q.res = "none" /\ ~q.hadError THEN ErrorEvent(told, r)
                    ELSE told
           done  == Finish(ended, r, FALSE, cut)
<1>0. w \in State /\ w.sock[s] \in ASocket /\ SocketOk(w, s, s) /\ s \in Nat
  BY StateType DEF Inv, Sound
<1>1. SocketClose(w, s, cut) = IF w.sock[s].listens = None THEN w
        ELSE IF ended.req[r].parser THEN FreeParser(done, s, r) ELSE ended
  BY DEF SocketClose
<1>2. CASE w.sock[s].listens = None
  BY <1>1, <1>2, QuietLater
<1>3. CASE w.sock[s].listens # None
  <2>1. r \in Req /\ w.req[r].socket = s /\ w.req[r].closes = 0
    BY <1>0, <1>3 DEF SocketOk, ASocket
  <2>2. NoErrorTick(w, s)
    BY DEF NoTick, NoErrorTick
  <2> HIDE DEF r
  <2>3. /\ q.res # "none" \/ q.hadError =>
             /\ Inv(told, s, None) /\ Later(w, told) /\ told.sock = w.sock
             /\ told.ticks = w.ticks
             /\ q.res # "none" => told.req[r].res # "none"
        /\ q.res = "none" /\ ~q.hadError =>
             Inv(ErrorEvent(told, r), s, None) /\ Later(w, ErrorEvent(told, r))
    BY <2>1, <2>2, CloseToldKeeps
  <2> HIDE DEF told, q
  <2>4. Inv(ended, s, None) /\ Later(w, ended)
    <3>1. CASE q.res # "none" /\ q.readable /\ q.pending
      <4>1. e \in ATick /\ e.kind = "emitClose" /\ e.req = r /\ e.sock = s
        BY <1>0, <2>1 DEF Tick, ATick
      <4> HIDE DEF e
      <4>2. TickOk(told, e)
        BY <4>1, <3>1, <2>1, <2>3 DEF TickOk
      <4>3. \A j \in DOMAIN told.ticks : told.ticks[j].sock = e.sock => InTurn(told.ticks[j], e)
        BY <4>1 DEF InTurn
      <4>4. Inv(NextTick(told, e), s, None) /\ OneTick(told, NextTick(told, e), e)
        BY <4>1, <4>2, <4>3, <3>1, <2>3, TickKeeps
      <4>5. Later(told, NextTick(told, e))
        <5> DEFINE v == NextTick(told, e)
        <5>1. told \in State
          BY <2>3, <3>1 DEF Inv, Sound
        <5> HIDE DEF v
        <5>2. /\ v.sock = told.sock /\ v.req = told.req
              /\ \A k \in DOMAIN v.ticks : v.ticks[k] = e \/
                   (k \in DOMAIN told.ticks /\ v.ticks[k] = told.ticks[k])
          BY <4>4, <5>1, StateType DEF OneTick, v
        <5>3. \A i : NoTick(told, i) => NoTick(v, i)
          BY <5>2, <4>1 DEF NoTick
        <5>4. QED  BY <5>2, <5>3 DEF Later, v
      <4>6. ended = NextTick(told, e)
        BY <3>1
      <4> HIDE DEF ended
      <4>7. QED  BY <4>4, <4>5, <4>6, <3>1, <2>3, LaterTwice
    <3>2. CASE q.res # "none" /\ q.readable /\ ~q.pending
      <4>1. Inv(EmitEnd(told, r, FALSE), s, None) /\ Later(told, EmitEnd(told, r, FALSE))
        BY <3>2, <2>1, <2>3, EmitEndKeeps
      <4>2. ended = EmitEnd(told, r, FALSE)
        BY <3>2
      <4> HIDE DEF ended
      <4>3. QED  BY <4>1, <4>2, <3>2, <2>3, LaterTwice
    <3>3. CASE q.res = "none" /\ ~q.hadError
      BY <3>3, <2>3
    <3>4. CASE ~(q.res # "none" /\ q.readable) /\ ~(q.res = "none" /\ ~q.hadError)
      BY <3>4, <2>3
    <3>5. QED  BY <3>1, <3>2, <3>3, <3>4
  <2> HIDE DEF ended
  <2>0. Inv(done, s, None) /\ Later(ended, done)
    BY <2>1, <2>4, FinishKeeps
  <2> HIDE DEF done
  <2>5. Later(w, done) /\ s \in DOMAIN done.sock
    BY <2>0, <2>4, LaterTwice DEF Later
  <2>6. Inv(FreeParser(done, s, r), s, None) /\ Later(done, FreeParser(done, s, r))
    BY <2>0, <2>1, <2>5, FreeParserKeeps
  <2>7. Later(w, FreeParser(done, s, r))
    BY <2>5, <2>6, LaterTwice
  <2>8. QED  BY <1>1, <1>3, <2>4, <2>6, <2>7
<1>4. QED  BY <1>2, <1>3

(* "close" of net::Socket. *)
LEMMA SocketClosesKeeps ==
  ASSUME NEW w, Inv(w, None, None), NEW s \in DOMAIN w.sock, w.sock[s].state \in Gone,
         NoTick(w, s), NEW cut \in BOOLEAN
  PROVE  Inv(SocketCloses(w, s, cut), None, None)
<1> DEFINE e       == Tick("socketFree", None, s)
           u       == RemoveSocket(w, s)
           removed == IF w.sock[s].agent THEN NextTick(u, e) ELSE w
           heard   == SocketClose(removed, s, cut)
           q       == [heard.sock[s] EXCEPT !.state = "closed", !.agent = FALSE,
                                            !.listens = None]
<1>0. w \in State /\ w.sock[s] \in ASocket /\ SocketOk(w, s, None) /\ s \in Nat /\ s # None
  BY StateType DEF Inv, Sound, None
<1>1. e \in ATick /\ e.kind = "socketFree" /\ e.sock = s
  BY <1>0 DEF Tick, ATick
<1> HIDE DEF e
<1>2. w.sock[s].listens # None =>
        /\ w.sock[s].message \in Req /\ w.req[w.sock[s].message].socket # None
        /\ w.req[w.sock[s].message].closes = 0
  BY <1>0 DEF SocketOk, ASocket
<1>7. SocketCloses(w, s, cut) = SetSock(heard, s, q)
  BY DEF SocketCloses, e
<1>3. /\ Inv(removed, s, None) /\ s \in DOMAIN removed.sock
      /\ removed.sock[s].state \in Gone /\ NoTick(removed, s)
      /\ removed.sock[s].listens # None => removed.req[removed.sock[s].message].closes = 0
  <2>1. CASE w.sock[s].agent
    <3>1. /\ Inv(u, s, None) /\ s \in DOMAIN u.sock /\ u.sock[s] = w.sock[s]
          /\ \A r \in Req : w.req[r].socket # None => u.req[r] = w.req[r]
          /\ NoTick(w, s) => NoTick(u, s)
      BY <2>1, RemoveSocketKeeps
    <3> HIDE DEF u
    <3>2. TickOk(u, e)
      BY <1>1, <3>1 DEF TickOk
    <3>3. \A j \in DOMAIN u.ticks : u.ticks[j].sock = e.sock => InTurn(u.ticks[j], e)
      BY <1>1 DEF InTurn
    <3>4. Inv(NextTick(u, e), s, None) /\ OneTick(u, NextTick(u, e), e)
      BY <1>1, <3>1, <3>2, <3>3, TickKeeps
    <3>5. removed = NextTick(u, e)
      BY <2>1
    <3> HIDE DEF removed
    <3>6. u \in State
      BY <3>1 DEF Inv, Sound
    <3>7. /\ removed.sock = u.sock /\ removed.req = u.req
          /\ \A k \in DOMAIN removed.ticks : removed.ticks[k] = e \/
               (k \in DOMAIN u.ticks /\ removed.ticks[k] = u.ticks[k])
      BY <3>4, <3>5, <3>6, StateType DEF OneTick
    <3>8. NoTick(removed, s)
      BY <3>1, <3>7, <1>1 DEF NoTick
    <3>9. QED  BY <3>1, <3>4, <3>5, <3>7, <3>8, <1>2
  <2>2. CASE ~w.sock[s].agent
    BY <2>2, <1>2, MayLeave
  <2>3. QED  BY <2>1, <2>2
<1> HIDE DEF removed
<1>4. Inv(heard, s, None) /\ Later(removed, heard)
  BY <1>3, SocketCloseKeeps
<1> HIDE DEF heard
<1>5. s \in DOMAIN heard.sock /\ heard.sock[s].state \in Gone /\ NoTick(heard, s)
  BY <1>3, <1>4 DEF Later
<1>6. heard \in State /\ heard.sock[s] \in ASocket
  BY <1>4, <1>5, StateType DEF Inv, Sound
<1>8. /\ q \in ASocket /\ q.name = heard.sock[s].name /\ q.message = heard.sock[s].message
      /\ q.hooks = heard.sock[s].hooks /\ q.agent = FALSE /\ q.listens = None
      /\ q.state = "closed"
  BY <1>6 DEF ASocket, None
<1> HIDE DEF q
<1>9. Inv(SetSock(heard, s, q), None, None)
  BY <1>4, <1>5, <1>8, LeaveKeeps
<1>10. QED  BY <1>7, <1>9

-----------------------------------------------------------------------------
(* The queue of process::nextTick(). *)

LEMMA PopTickKeeps ==
  ASSUME NEW w, Inv(w, None, None), w.ticks # <<>>
  PROVE  LET v == [w EXCEPT !.ticks = Tail(w.ticks)]
             t == Head(w.ticks)
             y == IF t.kind = "onSocket" THEN t.req ELSE None
         IN  /\ Inv(v, None, y) /\ t \in ATick /\ TickOk(v, t)
             /\ t.kind = "onSocket" => v.req[t.req].made
             /\ \A k \in DOMAIN v.ticks : v.ticks[k].sock = t.sock => InTurn(t, v.ticks[k])
<1> DEFINE ts == Tail(w.ticks)
           v == [w EXCEPT !.ticks = ts]
           t == Head(w.ticks)
           y == IF t.kind = "onSocket" THEN t.req ELSE None
<1>0. w \in State /\ w.ticks \in Seq(ATick) /\ w.ticks # <<>>
  BY StateType DEF Inv, Sound
<1>1. /\ t \in ATick /\ t = w.ticks[1] /\ 1 \in DOMAIN w.ticks /\ ts \in Seq(ATick)
      /\ DOMAIN ts = 1..(Len(w.ticks) - 1) /\ DOMAIN w.ticks = 1..Len(w.ticks)
      /\ Len(w.ticks) \in Nat
      /\ \A i \in 1..(Len(w.ticks) - 1) : ts[i] = w.ticks[i + 1]
  BY <1>0
<1> HIDE DEF ts, t
<1>2. /\ v.sockets = w.sockets /\ v.sock = w.sock /\ v.req = w.req /\ v.ticks = ts
      /\ v.waiting = w.waiting
      /\ v = [sockets |-> w.sockets, waiting |-> w.waiting, sock |-> w.sock,
              req |-> w.req, ticks |-> ts]
  BY <1>0, RecordOf
<1>3. v \in State
  BY <1>0, <1>1, <1>2, StateType DEF State
<1> HIDE DEF v
<1>4. \A i \in DOMAIN ts : i + 1 \in DOMAIN w.ticks /\ ts[i] = w.ticks[i + 1] /\ 1 < i + 1
                           /\ i \in Nat
  BY <1>1
<1>5. Pool(v, None) /\ Full(v)
  BY <1>2 DEF Inv, Sound, Pool, Full
<1>6. /\ \A i \in DOMAIN v.sock : SocketOk(v, i, None)
      /\ \A i \in Req : RequestOk(v, i, v.req[i])
  BY <1>2, FrameOk DEF Inv, Sound
<1>7. TickOk(v, t)
  <2>1. TickOk(w, t)
    BY <1>1 DEF Inv, Sound, Queue
  <2>2. QED  BY <2>1, <1>2, FrameOk
<1>8. \A k \in DOMAIN v.ticks : v.ticks[k].sock = t.sock => InTurn(t, v.ticks[k])
  BY <1>1, <1>2, <1>4 DEF Inv, Sound, Queue
<1>9. Queue(v)
  <2>1. ASSUME NEW j \in DOMAIN ts  PROVE TickOk(v, ts[j])
    <3>1. TickOk(w, ts[j])
      BY <1>4, <2>1 DEF Inv, Sound, Queue
    <3>2. QED  BY <3>1, <1>2, FrameOk
  <2>2. ASSUME NEW j \in DOMAIN ts, NEW k \in DOMAIN ts, j < k, ts[j].sock = ts[k].sock
        PROVE  InTurn(ts[j], ts[k])
    <3>1. j + 1 \in DOMAIN w.ticks /\ k + 1 \in DOMAIN w.ticks /\ j + 1 < k + 1
      BY <1>4, <2>2
    <3>2. ts[j] = w.ticks[j + 1] /\ ts[k] = w.ticks[k + 1]
      BY <1>4
    <3>3. QED  BY <3>1, <3>2, <2>2 DEF Inv, Sound, Queue
  <2>3. QED  BY <2>1, <2>2, <1>2 DEF Queue
<1>10. ASSUME t.kind = "onSocket"
       PROVE  t.req \in Req /\ Handed(w, t.req) /\ ~Handed(v, t.req)
  <2>1. t.req \in Req
    BY <1>7, <1>10 DEF TickOk
  <2>2. Handed(w, t.req)
    BY <1>1, <1>10 DEF Handed
  <2>3. ~Handed(v, t.req)
    <3>1. SUFFICES ASSUME NEW k \in DOMAIN ts, ts[k].kind = "onSocket", ts[k].req = t.req
                   PROVE  FALSE
      BY <1>2 DEF Handed
    <3>2. k + 1 = 1
      BY <3>1, <1>1, <1>4, <1>10 DEF Inv, Sound, Places
    <3>3. QED  BY <3>2, <1>4
  <2>4. QED  BY <2>1, <2>2, <2>3
<1>11. ASSUME NEW i \in Req  PROVE PlaceOk(v, i, y)
  <2>1. (Waits(v, i) <=> Waits(w, i)) /\ (HasOne(v, i) <=> HasOne(w, i))
    BY <1>2 DEF Waits, HasOne
  <2>2. PlaceOk(w, i, None) /\ i # None /\ v.req[i].made = w.req[i].made
    BY <1>2, <1>11, ReqIsNat DEF Inv, Sound, Places
  <2>3. CASE t.kind = "onSocket" /\ i = t.req
    BY <2>1, <2>2, <2>3, <1>10 DEF PlaceOk
  <2>4. CASE ~(t.kind = "onSocket" /\ i = t.req)
    <3>1. ASSUME Handed(w, i)  PROVE Handed(v, i)
      <4>1. PICK k \in DOMAIN w.ticks : w.ticks[k].kind = "onSocket" /\ w.ticks[k].req = i
        BY <3>1 DEF Handed
      <4>2. k # 1
        BY <4>1, <2>4, <1>1
      <4>3. k - 1 \in DOMAIN ts /\ (k - 1) + 1 = k
        BY <4>2, <1>1
      <4>4. ts[k - 1] = w.ticks[k]
        BY <4>3, <1>4
      <4>5. QED  BY <4>1, <4>3, <4>4, <1>2 DEF Handed
    <3>2. ASSUME Handed(v, i)  PROVE Handed(w, i)
      BY <3>2, <1>2, <1>4 DEF Handed
    <3>3. i # y
      BY <2>2, <2>4
    <3>4. QED  BY <3>1, <3>2, <3>3, <2>1, <2>2 DEF PlaceOk
  <2>5. QED  BY <2>3, <2>4
<1>12. ASSUME NEW j \in DOMAIN ts, NEW k \in DOMAIN ts,
              ts[j].kind = "onSocket", ts[k].kind = "onSocket", ts[j].req = ts[k].req
       PROVE  j = k
  <2>1. j + 1 = k + 1
    BY <1>4, <1>12 DEF Inv, Sound, Places
  <2>2. j \in Nat /\ k \in Nat
    BY <1>4
  <2>3. QED  BY <2>1, <2>2
<1>13. Places(v, y)
  BY <1>2, <1>11, <1>12 DEF Inv, Sound, Places
<1>14. Inv(v, None, y)
  BY <1>3, <1>5, <1>6, <1>9, <1>13 DEF Inv, Sound
<1>15. t.kind = "onSocket" => v.req[t.req].made
  <2>1. ASSUME t.kind = "onSocket"  PROVE w.req[t.req].made
    <3>1. t.req \in Req /\ Handed(w, t.req)
      BY <1>10, <2>1
    <3>2. PlaceOk(w, t.req, None)
      BY <3>1 DEF Inv, Sound, Places
    <3>3. QED  BY <3>1, <3>2 DEF PlaceOk
  <2>2. QED  BY <2>1, <1>2
<1>16. QED  BY <1>1, <1>7, <1>8, <1>14, <1>15 DEF v, t, ts

LEMMA CalledKeeps ==
  ASSUME NEW w, NEW t \in ATick, TickOk(w, t), NEW cut \in BOOLEAN, NEW null \in BOOLEAN,
         Inv(w, None, IF t.kind = "onSocket" THEN t.req ELSE None),
         t.kind = "onSocket" => w.req[t.req].made,
         \A k \in DOMAIN w.ticks : w.ticks[k].sock = t.sock => InTurn(t, w.ticks[k])
  PROVE  Inv(Called(w, t, cut, null), None, None)
<1>0. t.kind \in {"onSocket", "error", "close", "socketFree", "emitPending", "emitClose"}
  BY DEF ATick
<1>1. CASE t.kind = "onSocket"
  <2>1. Called(w, t, cut, null) = OnSocket(w, t.req, t.sock)
    BY <1>1 DEF Called
  <2>2. t.req \in Req /\ Inv(w, None, t.req) /\ w.req[t.req].made
    BY <1>1 DEF TickOk
  <2>3. NotHanded(w, t.sock)
    BY <1>1 DEF NotHanded, InTurn
  <2>4. IsFree(w, t.sock)
    BY <1>1, <2>3 DEF IsFree, TickOk
  <2>5. QED  BY <2>1, <2>2, <2>4, OnSocketKeeps
<1>2. CASE t.kind = "error"
  <2>1. Called(w, t, cut, null) = SocketError(w, t.sock, cut)
    BY <1>2 DEF Called
  <2>2. Inv(w, None, None) /\ t.sock \in DOMAIN w.sock /\ w.sock[t.sock].state \in Gone
        /\ (w.sock[t.sock].message # None => w.req[w.sock[t.sock].message].errors = 0)
    BY <1>2 DEF TickOk, Gone
  <2>3. NoErrorTick(w, t.sock)
    BY <1>2 DEF NoErrorTick, InTurn
  <2>4. QED  BY <2>1, <2>2, <2>3, SocketErrorKeeps
<1>3. CASE t.kind = "close"
  <2>1. Called(w, t, cut, null) = SocketCloses(w, t.sock, cut)
    BY <1>3 DEF Called
  <2>2. Inv(w, None, None) /\ t.sock \in DOMAIN w.sock /\ w.sock[t.sock].state \in Gone
    BY <1>3 DEF TickOk, Gone
  <2>3. NoTick(w, t.sock)
    BY <1>3 DEF NoTick, InTurn
  <2>4. QED  BY <2>1, <2>2, <2>3, SocketClosesKeeps
<1>4. CASE t.kind = "socketFree"
  <2> DEFINE s == t.sock
             p == [w.sock[s] EXCEPT !.parser = None]
  <2>1. Called(w, t, cut, null) = SetSock(w, s, p)
    BY <1>4 DEF Called, SetSock
  <2>2. Inv(w, None, None) /\ s \in DOMAIN w.sock
    BY <1>4 DEF TickOk
  <2>3. w.sock[s] \in ASocket
    BY <2>2, StateType DEF Inv, Sound
  <2>4. p \in ASocket /\ SocketMay(w.sock[s], p)
    BY <2>3 DEF ASocket, SocketMay
  <2> HIDE DEF p, s
  <2>5. QED  BY <2>1, <2>2, <2>4, SockKeeps
<1>5. CASE t.kind = "emitPending"
  <2>1. Called(w, t, cut, null) = EmitPending(w, t.req, null)
    BY <1>5 DEF Called
  <2>2. Inv(w, None, None) /\ t.req \in Req /\ w.req[t.req].res # "none"
    BY <1>5 DEF TickOk
  <2>3. QED  BY <2>1, <2>2, EmitPendingKeeps
<1>6. CASE t.kind = "emitClose"
  <2> DEFINE u == EmitPending(w, t.req, null)
  <2>1. Called(w, t, cut, null) = EmitEnd(u, t.req, FALSE)
    BY <1>6 DEF Called
  <2>2. Inv(w, None, None) /\ t.req \in Req /\ w.req[t.req].res # "none"
    BY <1>6 DEF TickOk
  <2>3. Inv(u, None, None) /\ Later(w, u)
    BY <2>2, EmitPendingKeeps
  <2> HIDE DEF u
  <2>4. u.req[t.req].res # "none"
    BY <2>2, <2>3 DEF Later
  <2>5. QED  BY <2>1, <2>2, <2>3, <2>4, EmitEndKeeps
<1>7. QED  BY <1>0, <1>1, <1>2, <1>3, <1>4, <1>5, <1>6

-----------------------------------------------------------------------------
(* The actions. *)

AgentInv == Inv(W, None, None)

LEMMA PartsOfW ==
  /\ W.sockets = sockets /\ W.waiting = waiting /\ W.sock = sock
  /\ W.req = req /\ W.ticks = ticks
BY DEF W

LEMMA BecomesKeeps ==
  ASSUME NEW v, Inv(v, None, None), Becomes(v)
  PROVE  AgentInv'
<1>1. v = [sockets |-> v.sockets, waiting |-> v.waiting, sock |-> v.sock,
           req |-> v.req, ticks |-> v.ticks]
  BY RecordOf DEF Inv, Sound
<1>2. /\ sockets' = v.sockets /\ waiting' = v.waiting /\ sock' = v.sock
      /\ req' = v.req /\ ticks' = v.ticks
  BY DEF Becomes
<1>3. W' = v
  BY <1>1, <1>2 DEF W
<1>4. QED  BY <1>3 DEF AgentInv

LEMMA InitKeeps ==
  ASSUME AgentInit  PROVE AgentInv
<1>1. /\ W.sockets = [n \in Hosts |-> <<>>] /\ W.waiting = [n \in Hosts |-> <<>>]
      /\ W.sock = <<>> /\ W.req = [r \in Req |-> NewRequest] /\ W.ticks = <<>>
      /\ W = [sockets |-> W.sockets, waiting |-> W.waiting, sock |-> W.sock,
              req |-> W.req, ticks |-> W.ticks]
  BY DEF AgentInit, W
<1>2. NewRequest \in ARequest
  BY DEF NewRequest, ARequest, None
<1>3. /\ W.sockets \in [Hosts -> Seq(Nat)] /\ W.waiting \in [Hosts -> Seq(Req)]
      /\ W.sock \in Seq(ASocket) /\ W.req \in [Req -> ARequest] /\ W.ticks \in Seq(ATick)
  BY <1>1, <1>2
<1>4. W \in State
  BY <1>1, <1>3 DEF State
<1>5. /\ DOMAIN W.sock = {} /\ DOMAIN W.ticks = {}
      /\ \A n \in Hosts : /\ DOMAIN W.sockets[n] = {} /\ DOMAIN W.waiting[n] = {}
                          /\ Len(W.sockets[n]) = 0 /\ W.waiting[n] = <<>>
      /\ \A r \in Req : W.req[r] = NewRequest
  BY <1>1
<1>6. Pool(W, None) /\ Queue(W) /\ \A s \in DOMAIN W.sock : SocketOk(W, s, None)
  BY <1>5 DEF Pool, Queue
<1>7. Full(W)
  BY <1>5, AgentAssumption DEF Full
<1>8. \A r \in Req : RequestOk(W, r, W.req[r])
  BY <1>5 DEF RequestOk, NewRequest, None
<1>9. \A r \in Req : PlaceOk(W, r, None)
  BY <1>5, ReqIsNat DEF PlaceOk, Waits, Handed, HasOne, NewRequest
<1>10. Places(W, None)
  BY <1>5, <1>9 DEF Places
<1>11. QED  BY <1>4, <1>6, <1>7, <1>8, <1>10 DEF AgentInv, Inv, Sound

LEMMA MakeRequestKeeps ==
  ASSUME AgentInv, NEW r \in Req, MakeRequest(r)
  PROVE  AgentInv'
<1> DEFINE q == [W.req[r] EXCEPT !.made = TRUE]
           v == SetReq(W, r, q)
<1>0. /\ Inv(W, None, None) /\ W \in State /\ W.req[r] \in ARequest
      /\ RequestOk(W, r, W.req[r]) /\ ~W.req[r].made /\ r # None
  BY StateType, PartsOfW, ReqIsNat DEF AgentInv, Inv, Sound, MakeRequest
<1>1. Becomes(AddRequest(v, r))
  BY PartsOfW DEF MakeRequest, SetReq
<1>2. /\ q \in ARequest /\ q.made = TRUE /\ q.res = W.req[r].res
      /\ q.socket = W.req[r].socket /\ q.paused = W.req[r].paused
      /\ q.pending = W.req[r].pending /\ q.hadError = W.req[r].hadError
      /\ q.errors = W.req[r].errors /\ q.ends = W.req[r].ends
      /\ q.closes = W.req[r].closes
  BY <1>0 DEF ARequest
<1> HIDE DEF q
<1>3. OneRequest(W, v, r, q)
  BY <1>0, <1>2, SetReqWorks
<1> HIDE DEF v
<1>4. /\ v \in State /\ v.sockets = W.sockets /\ v.waiting = W.waiting
      /\ v.sock = W.sock /\ v.ticks = W.ticks /\ v.req[r] = q
      /\ \A i \in Req : i # r => v.req[i] = W.req[i]
  BY <1>3 DEF OneRequest
<1> DEFINE w == W
<1>5. Inv(w, None, None) /\ w.req[r].made = FALSE
  BY <1>0 DEF ARequest
<1> HIDE DEF w
<1>6. /\ v \in State /\ v.sockets = w.sockets /\ v.waiting = w.waiting
      /\ v.sock = w.sock /\ v.ticks = w.ticks /\ v.req[r] = q
      /\ \A i \in Req : i # r => v.req[i] = w.req[i]
      /\ \A i \in Req : /\ v.req[i].socket = w.req[i].socket
                        /\ v.req[i].closes = w.req[i].closes
                        /\ v.req[i].ends = w.req[i].ends
                        /\ v.req[i].errors = w.req[i].errors
                        /\ v.req[i].res = w.req[i].res
  BY <1>2, <1>4 DEF w
<1>7. Pool(v, None) /\ Full(v)
  BY <1>6, <1>5 DEF Inv, Sound, Pool, Full
<1>m. \A s \in DOMAIN w.sock : w.sock[s].message \in Req \cup {None}
  BY <1>5, StateType DEF Inv, Sound, ASocket
<1>8. ASSUME NEW s \in DOMAIN v.sock  PROVE SocketOk(v, s, None)
  <2>1. SocketOk(w, s, None)
    BY <1>5, <1>6, <1>8 DEF Inv, Sound
  <2>2. QED  BY <2>1, <1>6, <1>8, <1>m DEF SocketOk
<1>9. ASSUME NEW i \in Req  PROVE RequestOk(v, i, v.req[i])
  <2>1. RequestOk(w, i, w.req[i])
    BY <1>5, <1>9 DEF Inv, Sound
  <2>2. CASE i = r
    BY <2>1, <2>2, <1>2, <1>6 DEF RequestOk, w
  <2>3. CASE i # r
    BY <2>1, <2>3, <1>6, <1>9 DEF RequestOk
  <2>4. QED  BY <2>2, <2>3
<1>10. ASSUME NEW j \in DOMAIN v.ticks  PROVE TickOk(v, v.ticks[j])
  <2> DEFINE t == w.ticks[j]
  <2>1. TickOk(w, t) /\ v.ticks[j] = t
    BY <1>5, <1>6, <1>10 DEF Inv, Sound, Queue
  <2> HIDE DEF t
  <2>2. t.sock \in DOMAIN w.sock => w.sock[t.sock].message \in Req \cup {None}
    BY <1>m
  <2>3. t.kind = "error" => t.sock \in DOMAIN w.sock
    BY <2>1 DEF TickOk
  <2>4. QED  BY <2>1, <2>2, <2>3, <1>6 DEF TickOk
<1>11. Queue(v)
  BY <1>5, <1>6, <1>10 DEF Inv, Sound, Queue
<1>12. ASSUME NEW i \in Req  PROVE PlaceOk(v, i, r)
  <2>1. (Waits(v, i) <=> Waits(w, i)) /\ (Handed(v, i) <=> Handed(w, i))
        /\ (HasOne(v, i) <=> HasOne(w, i))
    BY <1>6 DEF Waits, Handed, HasOne
  <2>2. PlaceOk(w, i, None) /\ i # None
    BY <1>5, <1>12, ReqIsNat DEF Inv, Sound, Places
  <2>3. CASE i = r
    BY <2>1, <2>2, <2>3, <1>5 DEF PlaceOk
  <2>4. CASE i # r
    BY <2>1, <2>2, <2>4, <1>6, <1>12 DEF PlaceOk
  <2>5. QED  BY <2>3, <2>4
<1>13. Places(v, r)
  BY <1>5, <1>6, <1>12 DEF Inv, Sound, Places
<1>14. Inv(v, None, r)
  BY <1>6, <1>7, <1>8, <1>9, <1>11, <1>13 DEF Inv, Sound
<1>15. v.req[r].made
  BY <1>2, <1>6
<1>16. Inv(AddRequest(v, r), None, None)
  BY <1>14, <1>15, AddRequestKeeps
<1>17. QED  BY <1>1, <1>16, BecomesKeeps

LEMMA AbortKeeps ==
  ASSUME AgentInv, NEW r \in Req, Abort(r)
  PROVE  AgentInv'
<1> DEFINE q == [W.req[r] EXCEPT !.aborting = TRUE]
           v == SetReq(W, r, q)
<1>0. /\ Inv(W, None, None) /\ W \in State /\ W.req[r] \in ARequest
      /\ RequestOk(W, r, W.req[r])
  BY StateType DEF AgentInv, Inv, Sound
<1>1. Becomes(IF W.req[r].socket # None THEN Destroy(v, W.req[r].socket, FALSE) ELSE v)
  BY PartsOfW DEF Abort, SetReq
<1>2. /\ q \in ARequest /\ q.made = W.req[r].made /\ q.res = W.req[r].res
      /\ q.socket = W.req[r].socket /\ q.paused = W.req[r].paused
      /\ q.pending = W.req[r].pending /\ q.hadError = W.req[r].hadError
      /\ q.errors = W.req[r].errors /\ q.ends = W.req[r].ends
      /\ q.closes = W.req[r].closes
  BY <1>0 DEF ARequest
<1> HIDE DEF q
<1>3. RequestMay(W, None, W.req[r], q) /\ RequestOk(W, r, q)
  BY <1>0, <1>2 DEF RequestMay, RequestOk
<1>4. Inv(v, None, None) /\ OneRequest(W, v, r, q)
  BY <1>0, <1>2, <1>3, AskKeeps
<1> HIDE DEF v
<1>5. CASE W.req[r].socket # None
  <2>1. W.req[r].socket \in DOMAIN v.sock
    BY <1>0, <1>4, <1>5 DEF RequestOk, OneRequest
  <2>2. Inv(Destroy(v, W.req[r].socket, FALSE), None, None)
    BY <2>1, <1>4, DestroyLater
  <2>3. QED  BY <2>2, <1>1, <1>5, BecomesKeeps
<1>6. CASE W.req[r].socket = None
  BY <1>1, <1>4, <1>6, BecomesKeeps
<1>7. QED  BY <1>5, <1>6

LEMMA ResumeKeeps ==
  ASSUME AgentInv, NEW r \in Req, Resume(r)
  PROVE  AgentInv'
<1> DEFINE q == [W.req[r] EXCEPT !.paused = FALSE]
           v == SetReq(W, r, q)
           t == Tick("emitPending", r, None)
<1>0. /\ Inv(W, None, None) /\ W \in State /\ W.req[r] \in ARequest
      /\ RequestOk(W, r, W.req[r]) /\ W.req[r].paused
  BY StateType, PartsOfW DEF AgentInv, Inv, Sound, Resume
<1>1. Becomes(IF W.req[r].pending THEN NextTick(v, t) ELSE v)
  BY PartsOfW DEF Resume, SetReq
<1>2. /\ q \in ARequest /\ q.made = W.req[r].made /\ q.res = W.req[r].res
      /\ q.socket = W.req[r].socket /\ q.paused = FALSE
      /\ q.pending = W.req[r].pending /\ q.hadError = W.req[r].hadError
      /\ q.errors = W.req[r].errors /\ q.ends = W.req[r].ends
      /\ q.closes = W.req[r].closes
  BY <1>0 DEF ARequest
<1> HIDE DEF q
<1>3. RequestMay(W, None, W.req[r], q) /\ RequestOk(W, r, q) /\ q.res # "none"
  BY <1>0, <1>2 DEF RequestMay, RequestOk
<1>4. Inv(v, None, None) /\ OneRequest(W, v, r, q)
  BY <1>0, <1>2, <1>3, AskKeeps
<1> HIDE DEF v
<1>5. t \in ATick /\ t.kind = "emitPending" /\ t.req = r
  BY DEF Tick, ATick, None
<1> HIDE DEF t
<1>6. TickOk(v, t)
  BY <1>3, <1>4, <1>5 DEF TickOk, OneRequest
<1>7. \A j \in DOMAIN v.ticks : v.ticks[j].sock = t.sock => InTurn(v.ticks[j], t)
  BY <1>5 DEF InTurn
<1>8. Inv(NextTick(v, t), None, None)
  BY <1>4, <1>5, <1>6, <1>7, TickKeeps
<1>9. QED  BY <1>1, <1>4, <1>8, BecomesKeeps

(* What a socket that is not destroyed has. *)
LEMMA OpenSocket ==
  ASSUME NEW w, Inv(w, None, None), NEW s \in DOMAIN w.sock, w.sock[s].state \in Alive
  PROVE  /\ w \in State /\ w.sock[s] \in ASocket /\ w.sock[s].agent
         /\ w.sock[s].state \notin Gone /\ NoErrorTick(w, s) /\ NoTick(w, s)
         /\ w.sock[s].hooks => w.sock[s].message \in Req
         /\ w.sock[s].message # None =>
              /\ w.sock[s].message \in Req
              /\ w.req[w.sock[s].message] \in ARequest
              /\ RequestOk(w, w.sock[s].message, w.req[w.sock[s].message])
              /\ w.req[w.sock[s].message].socket = s /\ s # None
              /\ w.req[w.sock[s].message].errors = 0
              /\ w.req[w.sock[s].message].closes = 0
<1> DEFINE r == w.sock[s].message
<1>1. /\ w \in State /\ w.sock[s] \in ASocket /\ SocketOk(w, s, None) /\ s # None
      /\ w.sock[s].state \notin Gone \cup {"taken"}
  BY StateType DEF Inv, Sound, Alive, Gone, None
<1>2. w.sock[s].agent /\ (w.sock[s].hooks => r # None) /\ (r # None => w.req[r].socket = s)
  BY <1>1 DEF SocketOk
<1>3. r # None => r \in Req
  BY <1>1 DEF ASocket
<1>4. NoTick(w, s)
  <2>1. ASSUME NEW j \in DOMAIN w.ticks, w.ticks[j].kind \in {"error", "close"},
               w.ticks[j].sock = s
        PROVE  FALSE
    <3>1. TickOk(w, w.ticks[j])
      BY DEF Inv, Sound, Queue
    <3>2. QED  BY <3>1, <2>1, <1>1 DEF TickOk, Gone
  <2>2. QED  BY <2>1 DEF NoTick
<1>5. NoErrorTick(w, s)
  BY <1>4 DEF NoTick, NoErrorTick
<1>6. ASSUME r # None
      PROVE  /\ w.req[r] \in ARequest /\ RequestOk(w, r, w.req[r])
             /\ w.req[r].errors = 0 /\ w.req[r].closes = 0
  <2>1. w.req[r] \in ARequest /\ RequestOk(w, r, w.req[r]) /\ w.req[r].socket = s
    BY <1>1, <1>2, <1>3, <1>6, StateType DEF Inv, Sound
  <2>2. w.req[r].errors # 1 /\ w.req[r].closes # 1
    BY <2>1, <1>1 DEF RequestOk
  <2>3. w.req[r].errors \in Nat /\ w.req[r].closes \in Nat
        /\ w.req[r].errors <= 1 /\ w.req[r].closes <= 1
    BY <2>1 DEF RequestOk, ARequest
  <2>4. QED  BY <2>1, <2>2, <2>3
<1>7. QED  BY <1>1, <1>2, <1>3, <1>4, <1>5, <1>6

LEMMA ConnectsKeeps ==
  ASSUME AgentInv, NEW s \in DOMAIN sock, Connects(s)
  PROVE  AgentInv'
<1> DEFINE q == [W.sock[s] EXCEPT !.state = "open"]
<1>0. Inv(W, None, None) /\ s \in DOMAIN W.sock /\ W.sock[s] \in ASocket
      /\ W.sock[s].state = "connecting"
  BY StateType, PartsOfW DEF AgentInv, Inv, Sound, Connects
<1>1. Becomes(SetSock(W, s, q))
  BY PartsOfW DEF Connects
<1>2. q \in ASocket /\ SocketMay(W.sock[s], q)
  BY <1>0 DEF ASocket, SocketMay, Gone, Alive
<1> HIDE DEF q
<1>3. Inv(SetSock(W, s, q), None, None)
  BY <1>0, <1>2, SockKeeps
<1>4. QED  BY <1>1, <1>3, BecomesKeeps

LEMMA SocketFailsKeeps ==
  ASSUME AgentInv, NEW s \in DOMAIN sock, SocketFails(s)
  PROVE  AgentInv'
<1>0. Inv(W, None, None) /\ s \in DOMAIN W.sock /\ TRUE \in BOOLEAN
  BY PartsOfW DEF AgentInv
<1>1. Becomes(Destroy(W, s, TRUE))
  BY DEF SocketFails
<1> DEFINE e == TRUE
<1>e. e \in BOOLEAN
  OBVIOUS
<1> HIDE DEF e
<1>2. Inv(Destroy(W, s, e), None, None)
  BY <1>0, <1>e, DestroyKeeps
<1>3. QED  BY <1>1, <1>2, BecomesKeeps DEF e

LEMMA WritesDoneKeeps ==
  ASSUME AgentInv, NEW s \in DOMAIN sock, WritesDone(s)
  PROVE  AgentInv'
<1> DEFINE q == [W.sock[s] EXCEPT !.inFlight = FALSE]
           v == SetSock(W, s, q)
<1>0. Inv(W, None, None) /\ s \in DOMAIN W.sock /\ W.sock[s] \in ASocket
  BY StateType, PartsOfW DEF AgentInv, Inv, Sound
<1>1. Becomes(IF sock[s].state = "ending" THEN Destroy(v, s, FALSE) ELSE v)
  BY PartsOfW DEF WritesDone, SetSock
<1>2. q \in ASocket /\ SocketMay(W.sock[s], q)
  BY <1>0 DEF ASocket, SocketMay
<1> HIDE DEF q
<1>3. Inv(v, None, None) /\ s \in DOMAIN v.sock
  BY <1>0, <1>2, SockKeeps DEF OneSocket
<1> HIDE DEF v
<1>4. Inv(Destroy(v, s, FALSE), None, None)
  BY <1>3, DestroyLater
<1>5. QED  BY <1>1, <1>3, <1>4, BecomesKeeps

LEMMA PeerEndsKeeps ==
  ASSUME AgentInv, NEW s \in DOMAIN sock, NEW aborts \in BOOLEAN, NEW cut \in BOOLEAN,
         PeerEnds(s, aborts, cut)
  PROVE  AgentInv'
<1> DEFINE q == [W.sock[s] EXCEPT !.eof = TRUE]
           ended == SetSock(W, s, q)
           gone == IF sock[s].state = "ending" THEN Destroy(ended, s, FALSE)
                   ELSE DestroySoon(ended, s)
           r == W.sock[s].message
<1>0. Inv(W, None, None) /\ s \in DOMAIN W.sock /\ W.sock[s].state \in Alive
  BY PartsOfW DEF AgentInv, PeerEnds, Reads, Alive
<1>1. Becomes(SocketOnEnd(gone, s, aborts, cut))
  BY PartsOfW DEF PeerEnds, SetSock
<1>o. W.sock[s] \in ASocket
  BY <1>0, OpenSocket
<1>2. q \in ASocket /\ SocketMay(W.sock[s], q) /\ q.state = W.sock[s].state
      /\ q.inFlight = W.sock[s].inFlight
  BY <1>o DEF ASocket, SocketMay
<1> HIDE DEF q
<1>3. Inv(ended, None, None) /\ OneSocket(W, ended, s, q)
  BY <1>0, <1>2, SockKeeps
<1>4. s \in DOMAIN ended.sock /\ ended.sock[s].state \in Alive
  BY <1>0, <1>2, <1>3 DEF OneSocket
<1> HIDE DEF ended
<1> DEFINE w == ended
<1>5. /\ Inv(w, None, None) /\ s \in DOMAIN w.sock /\ w.sock[s].state \in Alive
      /\ w.sock[s] \in ASocket /\ w.sock[s].state \notin Gone /\ NoErrorTick(w, s)
      /\ w.sock[s].message # None =>
           w.sock[s].message \in Req /\ w.req[w.sock[s].message].errors = 0
  BY <1>3, <1>4, OpenSocket
<1> HIDE DEF w
<1>6. /\ Inv(gone, None, None) /\ s \in DOMAIN gone.sock /\ NoErrorTick(gone, s)
      /\ gone.sock[s].message # None => gone.req[gone.sock[s].message].errors = 0
  <2>1. CASE gone = Destroy(w, s, FALSE)
    <3> HIDE DEF gone
    <3>1. /\ Inv(gone, None, None) /\ Quietly(w, gone)
          /\ NoErrorTick(gone, s)
      BY <2>1, <1>5, DestroyLater
    <3>2. QED  BY <3>1, <1>5 DEF Quietly
  <2>2. CASE gone # Destroy(w, s, FALSE)
    <3> DEFINE p == [w.sock[s] EXCEPT !.state = "ending"]
    <3>1. gone = SetSock(w, s, p) /\ w.sock[s].state \in {"open", "ending"}
      BY <2>2 DEF w, DestroySoon
    <3> HIDE DEF gone
    <3>2. p \in ASocket /\ SocketMay(w.sock[s], p) /\ p.message = w.sock[s].message
      BY <1>5, <3>1 DEF ASocket, SocketMay, Gone, Alive
    <3> HIDE DEF p
    <3>3. Inv(gone, None, None) /\ OneSocket(w, gone, s, p)
      BY <1>5, <3>1, <3>2, SockKeeps
    <3>4. QED  BY <3>2, <3>3, <1>5 DEF OneSocket, NoErrorTick
  <2>3. QED  BY <2>1, <2>2
<1> HIDE DEF gone
<1>7. Inv(SocketOnEnd(gone, s, aborts, cut), None, None)
  BY <1>6, SocketOnEndKeeps
<1>8. QED  BY <1>1, <1>7, BecomesKeeps

LEMMA RespondsKeeps ==
  ASSUME AgentInv, NEW s \in DOMAIN sock, NEW keep \in BOOLEAN, NEW pauses \in BOOLEAN,
         NEW whole \in BOOLEAN, NEW aborts \in BOOLEAN,
         Responds(s, keep, pauses, whole, aborts)
  PROVE  AgentInv'
<1> DEFINE r == W.sock[s].message
           q == [W.req[r] EXCEPT !.res = "reading", !.keep = keep, !.paused = pauses]
           v == SetReq(W, r, q)
<1>0. Inv(W, None, None) /\ s \in DOMAIN W.sock /\ W.sock[s].state \in Alive
      /\ W.sock[s].hooks
  BY PartsOfW DEF AgentInv, Responds, Reads, Alive
<1>1. /\ r \in Req /\ W.req[r] \in ARequest /\ RequestOk(W, r, W.req[r])
      /\ W.req[r].closes = 0 /\ W.req[r].socket = s /\ s # None /\ W \in State
  BY <1>0, OpenSocket, ReqIsNat
<1>2. Becomes(IF whole THEN MessageComplete(v, r, aborts) ELSE v)
  <2>1. [W EXCEPT !.req[r].res = "reading", !.req[r].keep = keep, !.req[r].paused = pauses]
          = v
    BY <1>1, RecordOf, StateType DEF SetReq
  <2>2. QED  BY <2>1, PartsOfW DEF Responds
<1>3. /\ q \in ARequest /\ q.made = W.req[r].made /\ q.res = "reading"
      /\ q.socket = W.req[r].socket
      /\ q.hadError = W.req[r].hadError
      /\ q.errors = W.req[r].errors /\ q.ends = W.req[r].ends
      /\ q.closes = W.req[r].closes
  BY <1>1 DEF ARequest
<1> HIDE DEF q, r
<1>4. RequestMay(W, None, W.req[r], q) /\ RequestOk(W, r, q)
  BY <1>1, <1>3 DEF RequestMay, RequestOk
<1>5. Inv(v, None, None) /\ OneRequest(W, v, r, q)
  BY <1>0, <1>1, <1>3, <1>4, AskKeeps
<1> HIDE DEF v
<1>6. v.req[r].res # "none"
  BY <1>3, <1>5 DEF OneRequest
<1>7. Inv(MessageComplete(v, r, aborts), None, None)
  BY <1>1, <1>5, <1>6, MessageCompleteKeeps
<1>8. QED  BY <1>2, <1>5, <1>7, BecomesKeeps

LEMMA ContinuesKeeps ==
  ASSUME AgentInv, NEW s \in DOMAIN sock, Continues(s)
  PROVE  AgentInv'
<1> DEFINE r == W.sock[s].message
           q == [W.req[r] EXCEPT !.pending = TRUE]
           v == SetReq(W, r, q)
<1>0. Inv(W, None, None) /\ s \in DOMAIN W.sock /\ W.sock[s].state \in Alive
      /\ W.sock[s].hooks /\ W.req[r].res = "reading"
  BY PartsOfW DEF AgentInv, Continues, Reads, Alive
<1>1. /\ r \in Req /\ W.req[r] \in ARequest /\ RequestOk(W, r, W.req[r])
  BY <1>0, OpenSocket, ReqIsNat
<1>2. Becomes(v)
  BY PartsOfW DEF Continues, SetReq
<1>3. /\ q \in ARequest /\ q.made = W.req[r].made /\ q.res = W.req[r].res
      /\ q.socket = W.req[r].socket
      /\ q.hadError = W.req[r].hadError
      /\ q.errors = W.req[r].errors /\ q.ends = W.req[r].ends
      /\ q.closes = W.req[r].closes
  BY <1>1 DEF ARequest
<1> HIDE DEF q, r
<1>4. RequestMay(W, None, W.req[r], q) /\ RequestOk(W, r, q)
  BY <1>0, <1>1, <1>3 DEF RequestMay, RequestOk
<1>5. Inv(v, None, None)
  BY <1>0, <1>1, <1>3, <1>4, AskKeeps
<1>6. QED  BY <1>2, <1>5, BecomesKeeps

LEMMA CompletesKeeps ==
  ASSUME AgentInv, NEW s \in DOMAIN sock, NEW aborts \in BOOLEAN, Completes(s, aborts)
  PROVE  AgentInv'
<1> DEFINE r == W.sock[s].message
           v == MessageComplete(W, r, aborts)
<1>0. Inv(W, None, None) /\ s \in DOMAIN W.sock /\ W.sock[s].state \in Alive
      /\ W.sock[s].hooks /\ W.req[r].res = "reading"
  BY PartsOfW DEF AgentInv, Completes, Reads, Alive
<1>1. r \in Req
  BY <1>0, OpenSocket
<1>2. Becomes(FreeParser(v, s, r))
  BY PartsOfW DEF Completes
<1> HIDE DEF r
<1>3. Inv(v, None, None) /\ Later(W, v)
  BY <1>0, <1>1, MessageCompleteKeeps
<1> HIDE DEF v
<1>4. s \in DOMAIN v.sock
  BY <1>0, <1>3 DEF Later
<1>5. Inv(FreeParser(v, s, r), None, None)
  BY <1>1, <1>3, <1>4, FreeParserKeeps
<1>6. QED  BY <1>2, <1>5, BecomesKeeps

LEMMA IsIllegalKeeps ==
  ASSUME AgentInv, NEW s \in DOMAIN sock, IsIllegal(s)
  PROVE  AgentInv'
<1> DEFINE r == W.sock[s].message
           u == FreeParser(W, s, r)
           v == Destroy(u, s, FALSE)
<1>0. Inv(W, None, None) /\ s \in DOMAIN W.sock /\ W.sock[s].state \in Alive
      /\ W.sock[s].hooks
  BY PartsOfW DEF AgentInv, IsIllegal, Reads, Alive
<1>1. r \in Req /\ W.req[r].socket = s /\ W.req[r].errors = 0 /\ s # None
      /\ NoErrorTick(W, s)
  BY <1>0, OpenSocket, ReqIsNat
<1>2. Becomes(HadError(v, r))
  BY PartsOfW DEF IsIllegal
<1> HIDE DEF r
<1>3. /\ Inv(u, None, None) /\ Later(W, u) /\ u.ticks = W.ticks
      /\ u.req[r].socket = s /\ u.req[r].errors = 0
  BY <1>0, <1>1, FreeParserKeeps
<1> HIDE DEF u
<1>4. s \in DOMAIN u.sock /\ NoErrorTick(u, s)
  BY <1>0, <1>1, <1>3 DEF Later, NoErrorTick
<1>5. /\ Inv(v, None, None) /\ Quietly(u, v) /\ v.sock[s].state \in Gone
      /\ NoErrorTick(v, s)
  BY <1>3, <1>4, DestroyLater
<1> HIDE DEF v
<1>6. v.req = u.req
  BY <1>5 DEF Quietly
<1>7. Inv(HadError(v, r), None, None)
  BY <1>1, <1>3, <1>5, <1>6, HadErrorKeeps
<1>8. QED  BY <1>2, <1>7, BecomesKeeps

LEMMA UpgradesKeeps ==
  ASSUME AgentInv, NEW s \in DOMAIN sock, NEW taken \in BOOLEAN, Upgrades(s, taken)
  PROVE  AgentInv'
<1> DEFINE r    == W.sock[s].message
           gone == RemoveSocket(W, s)
           p    == [gone.sock[s] EXCEPT !.agent = FALSE, !.listens = None, !.state = "taken"]
           g    == SetSock(gone, s, p)
           k    == [gone.req[r] EXCEPT !.closes = @ + 1]
           mine == SetReq(g, r, k)
           left == IF taken THEN mine ELSE Destroy(W, s, FALSE)
           last == [left EXCEPT !.req[r].res = "upgraded"]
<1>0. Inv(W, None, None) /\ s \in DOMAIN W.sock /\ W.sock[s].state \in Alive
      /\ W.sock[s].hooks /\ W.sock[s].state = "open" /\ W.req[r].res = "none"
  BY PartsOfW, Zenon DEF AgentInv, Upgrades, Alive
<1>1. /\ W \in State /\ W.sock[s] \in ASocket /\ W.sock[s].agent
      /\ r \in Req /\ W.req[r] \in ARequest /\ RequestOk(W, r, W.req[r])
      /\ W.req[r].socket = s /\ W.req[r].closes = 0 /\ W.req[r].errors = 0 /\ s # None
  <2> HIDE DEF r
  <2>1. W.sock[s].message = r
    BY DEF r
  <2>2. r \in Req /\ r # None
    BY <1>0, <2>1, OpenSocket, ReqIsNat
  <2>3. QED  BY <1>0, <2>1, <2>2, OpenSocket
<1>2. Becomes(FreeParser(last, s, r))
  BY PartsOfW, Zenon DEF Upgrades
<1>r. W.sock[s].message = r
  OBVIOUS
<1> HIDE DEF r
<1>3. Inv(last, None, None) /\ s \in DOMAIN last.sock
  <2>1. CASE taken
    <3> DEFINE m == [k EXCEPT !.res = "upgraded"]
    <3>1. /\ Inv(gone, s, None) /\ s \in DOMAIN gone.sock /\ gone.sock[s] = W.sock[s]
          /\ gone.req[r] = W.req[r]
      BY <1>0, <1>1, RemoveSocketKeeps
    <3>2. left = mine
      BY <2>1
    <3>l. last = [mine EXCEPT !.req[r].res = "upgraded"]
      BY <3>2, Zenon
    <3> HIDE DEF gone, last, left
    <3>a. gone.sock[s] \in ASocket
      BY <3>1, <1>1
    <3>b. /\ p.name = gone.sock[s].name /\ p.message = gone.sock[s].message
          /\ p.hooks = gone.sock[s].hooks /\ p.agent = FALSE /\ p.listens = None
          /\ p.state = "taken"
      BY <3>a DEF ASocket
    <3>c. p \in ASocket
      BY <3>a DEF ASocket
    <3>3. /\ p \in ASocket /\ p.name = gone.sock[s].name /\ p.message = gone.sock[s].message
          /\ p.hooks = gone.sock[s].hooks /\ p.agent = FALSE /\ p.listens = None
          /\ p.state = "taken"
      BY <3>b, <3>c, Zenon
    <3> HIDE DEF p
    <3>4. gone \in State
      <4>1. Inv(gone, s, None)
        BY <3>1
      <4>2. QED  BY <4>1, Zenon DEF Inv, Sound
    <3>5. Inv(g, None, None)
      BY <3>1, <3>3, <1>0, LeaveKeeps
    <3>6. OneSocket(gone, g, s, p)
      BY <3>1, <3>3, <3>4, SetSockWorks
    <3> HIDE DEF g
    <3>7. g \in State /\ s \in DOMAIN g.sock /\ g.sock[s] = p /\ g.req[r] = W.req[r]
      BY <3>1, <3>6 DEF OneSocket
    <3>8. /\ k \in ARequest /\ k.closes = 1
      BY <3>1, <1>1 DEF ARequest
    <3>9. /\ k.made = W.req[r].made /\ k.errors = W.req[r].errors
          /\ k.socket = W.req[r].socket /\ k.paused = W.req[r].paused
          /\ k.pending = W.req[r].pending /\ k.hadError = W.req[r].hadError
          /\ k.ends = W.req[r].ends
      BY <3>1, <1>1 DEF ARequest
    <3> HIDE DEF k
    <3>10. /\ m \in ARequest /\ m.closes = 1 /\ m.res = "upgraded"
           /\ m.made = k.made /\ m.errors = k.errors
           /\ m.socket = k.socket /\ m.paused = k.paused
           /\ m.pending = k.pending /\ m.hadError = k.hadError
           /\ m.ends = k.ends
      BY <3>8 DEF ARequest
    <3>11. mine.req[r] = k /\ mine \in State
      BY <3>7, <3>8, <1>1, SetReqWorks DEF OneRequest
    <3> HIDE DEF mine
    <3>12. last = SetReq(mine, r, m)
      BY <3>l, <3>11 DEF SetReq
    <3> HIDE DEF m
    <3>13. last = SetReq(g, r, m)
      BY <3>12, <3>7, <1>1, SetTwice DEF mine
    <3>14. RequestMay(g, None, g.req[r], m)
      BY <3>3, <3>7, <3>9, <3>10, <1>0, <1>1 DEF RequestMay
    <3>15. RequestOk(g, r, m)
      <4>1. g.sock[s].message = r /\ g.sock[s].state = "taken"
        BY <3>1, <3>3, <3>7, <1>r
      <4>2. m.socket = s /\ m.errors = 0 /\ m.ends <= 1 /\ m.hadError = W.req[r].hadError
        BY <3>9, <3>10, <1>1 DEF RequestOk
      <4>3. ~W.req[r].hadError
        BY <1>1 DEF RequestOk
      <4>4. QED  BY <4>1, <4>2, <4>3, <3>7, <3>10, <1>1 DEF RequestOk, Gone
    <3>16. Inv(SetReq(g, r, m), None, None) /\ OneRequest(g, SetReq(g, r, m), r, m)
      BY <3>5, <3>10, <3>14, <3>15, <1>1, AskKeeps
    <3>17. QED  BY <3>7, <3>13, <3>16 DEF OneRequest
  <2>2. CASE ~taken
    <3> DEFINE v == Destroy(W, s, FALSE)
               m == [v.req[r] EXCEPT !.res = "upgraded"]
    <3>1. last = SetReq(v, r, m)
      <4>1. left = v
        BY <2>2
      <4> HIDE DEF left, v
      <4>2. QED  BY <4>1 DEF SetReq
    <3> HIDE DEF last
    <3>2. Inv(v, None, None) /\ Quietly(W, v)
      BY <1>0, DestroyLater
    <3> HIDE DEF v
    <3>3. v.req[r] = W.req[r] /\ s \in DOMAIN v.sock /\ RequestOk(v, r, v.req[r])
      BY <3>2, <1>0, <1>1 DEF Quietly, Inv, Sound
    <3>4. /\ m \in ARequest /\ m.made = v.req[r].made /\ m.res = "upgraded"
          /\ m.socket = v.req[r].socket /\ m.hadError = v.req[r].hadError
          /\ m.errors = v.req[r].errors /\ m.ends = v.req[r].ends
          /\ m.closes = v.req[r].closes
      BY <3>3, <1>1 DEF ARequest
    <3> HIDE DEF m
    <3>5. RequestMay(v, None, v.req[r], m) /\ RequestOk(v, r, m)
      BY <3>3, <3>4, <1>1 DEF RequestMay, RequestOk
    <3>6. Inv(SetReq(v, r, m), None, None) /\ OneRequest(v, SetReq(v, r, m), r, m)
      BY <3>2, <3>4, <3>5, <1>1, AskKeeps
    <3>7. QED  BY <3>1, <3>3, <3>6 DEF OneRequest
  <2>3. QED  BY <2>1, <2>2
<1> HIDE DEF last
<1>4. Inv(FreeParser(last, s, r), None, None)
  BY <1>1, <1>3, FreeParserKeeps
<1>5. QED  BY <1>2, <1>4, BecomesKeeps

LEMMA CallTickKeeps ==
  ASSUME AgentInv, NEW cut \in BOOLEAN, NEW null \in BOOLEAN, CallTick(cut, null)
  PROVE  AgentInv'
<1> DEFINE v == [W EXCEPT !.ticks = Tail(W.ticks)]
           t == Head(W.ticks)
           y == IF t.kind = "onSocket" THEN t.req ELSE None
<1>1. Inv(W, None, None) /\ W.ticks # <<>> /\ Becomes(Called(v, t, cut, null))
  BY PartsOfW DEF AgentInv, CallTick
<1>2. /\ Inv(v, None, y) /\ t \in ATick /\ TickOk(v, t)
      /\ t.kind = "onSocket" => v.req[t.req].made
      /\ \A k \in DOMAIN v.ticks : v.ticks[k].sock = t.sock => InTurn(t, v.ticks[k])
  BY <1>1, PopTickKeeps
<1> HIDE DEF v, t
<1>3. Inv(Called(v, t, cut, null), None, None)
  BY <1>2, CalledKeeps
<1>4. QED  BY <1>1, <1>3, BecomesKeeps

LEMMA NextKeeps ==
  ASSUME AgentInv, [AgentNext]_vars
  PROVE  AgentInv'
<1>1. ASSUME NEW cut \in BOOLEAN, NEW null \in BOOLEAN, CallTick(cut, null)  PROVE AgentInv'
  BY <1>1, CallTickKeeps
<1>2. ASSUME NEW r \in Req, MakeRequest(r) \/ Abort(r) \/ Resume(r)  PROVE AgentInv'
  BY <1>2, MakeRequestKeeps, AbortKeeps, ResumeKeeps
<1>3. ASSUME NEW s \in DOMAIN sock, SocketEvent(s)  PROVE AgentInv'
  <2>1. CASE Connects(s) \/ SocketFails(s) \/ IsIllegal(s) \/ Continues(s)
    BY <2>1, ConnectsKeeps, SocketFailsKeeps, IsIllegalKeeps, ContinuesKeeps
  <2>2. ASSUME NEW aborts \in BOOLEAN, NEW cut \in BOOLEAN, PeerEnds(s, aborts, cut)
        PROVE  AgentInv'
    BY <2>2, PeerEndsKeeps
  <2>3. ASSUME NEW aborts \in BOOLEAN, Completes(s, aborts)  PROVE AgentInv'
    BY <2>3, CompletesKeeps
  <2>4. ASSUME NEW keep \in BOOLEAN, NEW pauses \in BOOLEAN, NEW whole \in BOOLEAN,
               NEW aborts \in BOOLEAN, Responds(s, keep, pauses, whole, aborts)
        PROVE  AgentInv'
    BY <2>4, RespondsKeeps
  <2>5. ASSUME NEW taken \in BOOLEAN, Upgrades(s, taken)  PROVE AgentInv'
    BY <2>5, UpgradesKeeps
  <2>6. QED  BY <1>3, <2>1, <2>2, <2>3, <2>4, <2>5 DEF SocketEvent
<1>4. ASSUME NEW s \in DOMAIN sock, WritesDone(s)  PROVE AgentInv'
  BY <1>4, WritesDoneKeeps
<1>5. CASE UNCHANGED vars
  <2>1. W' = W
    BY <1>5 DEF W, vars
  <2>2. QED  BY <2>1 DEF AgentInv
<1>6. QED  BY <1>1, <1>2, <1>3, <1>4, <1>5 DEF AgentNext

LEMMA Invariance == AgentSpec => []AgentInv
<1>1. AgentInit => AgentInv
  BY InitKeeps
<1>2. AgentInv /\ [AgentNext]_vars => AgentInv'
  BY NextKeeps
<1>3. QED  BY <1>1, <1>2, PTL DEF AgentSpec

-----------------------------------------------------------------------------
(* The theorems. *)

(* No name has more sockets than maxSockets_, and a request waits only     *)
(* while its name has that many: every way a socket goes, OnClose,         *)
(* OnRemove and the listeners of an error and an end, opens its slot, and  *)
(* removeSocket() gives it to a request that waits.                        *)
THEOREM AgentWaitingMeansFull == AgentSpec => []WaitingMeansFull
<1>1. AgentInv => WaitingMeansFull
  BY PartsOfW DEF AgentInv, Inv, Full, WaitingMeansFull
<1>2. QED  BY <1>1, Invariance, PTL

(* However its end, its error, its close and an abort of it interleave, a  *)
(* request hears of each once at most (SocketCloseListener and             *)
(* SocketErrorListener), and of its close never without a response or an   *)
(* error.                                                                  *)
THEOREM AgentToldOnce == AgentSpec => []ToldOnce
<1>1. AgentInv => ToldOnce
  <2>1. SUFFICES ASSUME AgentInv, NEW r \in Req
                 PROVE  /\ req[r].errors <= 1 /\ req[r].ends <= 1 /\ req[r].closes <= 1
                        /\ req[r].closes = 1 => req[r].res # "none" \/ req[r].errors = 1
    BY DEF ToldOnce
  <2>2. RequestOk(W, r, req[r])
    BY <2>1, PartsOfW DEF AgentInv, Inv, Sound
  <2>3. QED  BY <2>2 DEF RequestOk
<1>2. QED  BY <1>1, Invariance, PTL

(* A set of places of which no two differ has one element at most. *)
LEMMA OneAtMost ==
  ASSUME NEW S, \A i, j \in S : i = j
  PROVE  IF S = {} THEN Cardinality(S) = 0 ELSE Cardinality(S) = 1
<1>1. CASE S = {}
  BY <1>1, FS_EmptySet
<1>2. CASE S # {}
  <2>1. PICK i : i \in S
    BY <1>2
  <2>2. S = {i}
    BY <2>1
  <2>3. QED  BY <1>2, <2>2, FS_Singleton
<1>3. QED  BY <1>1, <1>2

(* A request that addRequest() took is in the list of its name, in the     *)
(* tick that hands it a socket, or has one, and in one of the three alone; *)
(* a socket is handed to one request at a time, when the response of the   *)
(* one before has ended.                                                   *)
THEOREM AgentOneEach == AgentSpec => []OneEach
<1>1. AgentInv => OneEach
  <2> SUFFICES ASSUME AgentInv  PROVE OneEach
    OBVIOUS
  <2>0. /\ W \in State /\ Queue(W) /\ Places(W, None)
        /\ ticks \in Seq(ATick)
    BY PartsOfW, StateType DEF AgentInv, Inv, Sound
  <2>1. ASSUME NEW s \in DOMAIN sock
        PROVE  /\ Cardinality(HandedTo(s)) <= 1
               /\ HandedTo(s) # {} /\ sock[s].message # None
                    => req[sock[s].message].ends = 1
    <3>1. \A j, k \in HandedTo(s) : j = k
      <4>1. ASSUME NEW j \in HandedTo(s), NEW k \in HandedTo(s), j < k  PROVE FALSE
        <5>1. /\ j \in DOMAIN ticks /\ k \in DOMAIN ticks
              /\ ticks[j].kind = "onSocket" /\ ticks[k].kind = "onSocket"
              /\ ticks[j].sock = ticks[k].sock
          BY <4>1 DEF HandedTo
        <5>2. InTurn(ticks[j], ticks[k])
          BY <5>1, <4>1, <2>0, PartsOfW DEF Queue
        <5>3. QED  BY <5>1, <5>2 DEF InTurn
      <4>2. \A j \in HandedTo(s) : j \in Nat
        BY <2>0 DEF HandedTo
      <4>3. QED  BY <4>1, <4>2
    <3>2. Cardinality(HandedTo(s)) <= 1
      BY <3>1, OneAtMost
    <3>3. ASSUME NEW k \in HandedTo(s), sock[s].message # None
          PROVE  req[sock[s].message].ends = 1
      <4>1. k \in DOMAIN ticks /\ ticks[k].kind = "onSocket" /\ ticks[k].sock = s
        BY <3>3 DEF HandedTo
      <4>2. TickOk(W, ticks[k])
        BY <4>1, <2>0, PartsOfW DEF Queue
      <4>3. QED  BY <4>1, <4>2, <3>3, PartsOfW DEF TickOk
    <3>4. QED  BY <3>2, <3>3
  <2>2. ASSUME NEW r \in Req
        PROVE  Cardinality({k \in DOMAIN waiting[Host(r)] : waiting[Host(r)][k] = r})
               + Cardinality({k \in DOMAIN ticks : ticks[k].kind = "onSocket" /\ ticks[k].req = r})
               + (IF req[r].socket # None THEN 1 ELSE 0) = IF req[r].made THEN 1 ELSE 0
    <3> DEFINE A == {k \in DOMAIN waiting[Host(r)] : waiting[Host(r)][k] = r}
               B == {k \in DOMAIN ticks : ticks[k].kind = "onSocket" /\ ticks[k].req = r}
    <3>1. PlaceOk(W, r, None) /\ r # None
      BY <2>0, ReqIsNat DEF Places
    <3>2. (A # {} <=> Waits(W, r)) /\ (B # {} <=> Handed(W, r))
          /\ (req[r].socket # None <=> HasOne(W, r))
      BY PartsOfW DEF Waits, Handed, HasOne
    <3>3. \A i, j \in A : i = j
      BY <2>0, PartsOfW, ReqIsNat DEF Places
    <3>4. \A i, j \in B : i = j
      BY <2>0, PartsOfW DEF Places
    <3>5. IF A = {} THEN Cardinality(A) = 0 ELSE Cardinality(A) = 1
      BY <3>3, OneAtMost
    <3>6. IF B = {} THEN Cardinality(B) = 0 ELSE Cardinality(B) = 1
      BY <3>4, OneAtMost
    <3> HIDE DEF A, B
    <3>7. /\ ~(A # {} /\ B # {}) /\ ~(A # {} /\ req[r].socket # None)
          /\ ~(B # {} /\ req[r].socket # None)
          /\ (A # {} \/ B # {} \/ req[r].socket # None) <=> req[r].made
      BY <3>1, <3>2, PartsOfW DEF PlaceOk
    <3>8. Cardinality(A) + Cardinality(B) + (IF req[r].socket # None THEN 1 ELSE 0)
            = IF req[r].made THEN 1 ELSE 0
      BY <3>5, <3>6, <3>7
    <3>9. QED  BY <3>8 DEF A, B
  <2>3. QED  BY <2>1, <2>2 DEF OneEach
<1>2. QED  BY <1>1, Invariance, PTL
=============================================================================
