----------------------------- MODULE EventProofs -----------------------------
(***************************************************************************)
(* Theorems about the incoming messages of HTTP and about the lists of     *)
(* listeners of an EventEmitter.                                           *)
(*                                                                         *)
(* Incoming messages.  IncomingInv is inductive: a message is used by one  *)
(* connection and one request that is held at most, by none when it is in  *)
(* the FreeList, and its listeners are of requests that have it.           *)
(* When the application reads each request before it answers it, DataInv   *)
(* is inductive with it: a message that is used again has no listeners any *)
(* more, and what the listeners of a request have got and what its message *)
(* has pending are together what its parser has handed on.                 *)
(*                                                                         *)
(* Listeners.  EmitterInv is inductive, and is stated for any table, lists *)
(* and stack of walks, so that the lemmas can be put together: what an     *)
(* action does to the lists (Grown, Shrunk) and what it does to the walks. *)
(* The heart of it is what walks within each other know of each other:     *)
(* with the habits "none" and "clears" what an outer walk of a list still  *)
(* has before it has no once() in it, so that the removal of a Once, which *)
(* is by its function and not by its place, is behind it (StackOk).        *)
(***************************************************************************)
EXTENDS IncomingMessage, EventEmitter, TLAPS, SequenceTheorems, FiniteSetTheorems,
        WellFoundedInduction

LEMMA NatHasMin ==
  ASSUME NEW T \in SUBSET Nat, T # {}
  PROVE  \E x \in T : \A y \in T : x <= y
<1> DEFINE R == OpToRel(<, Nat)
<1>1. \E x \in T : \A y \in T : ~ (<<y, x>> \in R)
  BY NatLessThanWellFounded, WFMin
<1>2. \A x, y \in Nat : y < x => <<y, x>> \in R
  BY DEF OpToRel
<1> HIDE DEF R
<1>3. PICK x \in T : \A y \in T : ~ (<<y, x>> \in R)
  BY <1>1
<1>4. ASSUME NEW y \in T  PROVE x <= y
  <2>1. x \in Nat /\ y \in Nat
    OBVIOUS
  <2>2. ~ (y < x)
    BY <1>2, <1>3, <2>1
  <2>3. QED  BY <2>1, <2>2
<1>5. QED  BY <1>4

LEMMA BoundedHasMax ==
  ASSUME NEW n \in Nat, NEW T \in SUBSET (0..n), T # {}
  PROVE  \E x \in T : \A y \in T : y <= x
<1> DEFINE U == {i \in 0..n : n - i \in T}
<1>1. U \in SUBSET Nat /\ U # {}
  <2>1. PICK x \in T : TRUE
    OBVIOUS
  <2>2. n - x \in 0..n /\ n - (n - x) = x
    <3>1. x \in 0..n
      OBVIOUS
    <3>2. QED  BY <3>1
  <2>3. n - x \in U
    BY <2>2
  <2>4. U \subseteq Nat
    OBVIOUS
  <2> HIDE DEF U
  <2>5. QED  BY <2>3, <2>4
<1>2. PICK i \in U : \A j \in U : i <= j
  BY <1>1, NatHasMin
<1>3. n - i \in T
  BY <1>2
<1>4. ASSUME NEW y \in T PROVE y <= n - i
  <2>1. n - y \in U
    OBVIOUS
  <2>2. i <= n - y
    BY <1>2, <2>1
  <2>3. QED  BY <2>2
<1>5. QED  BY <1>3, <1>4

-----------------------------------------------------------------------------
(* The incoming messages. *)
IncomingSpec == IncomingInit /\ [][IncomingNext]_incomingVars

Event == [of : Nat, k : Nat]

AMessage ==
  [paused : BOOLEAN, endEmitted : BOOLEAN, unused : BOOLEAN, pendings : Seq(Event),
   onData : SUBSET Nat, onEnd : SUBSET Nat, onClose : SUBSET Nat]

AConnection ==
  [state : {"idle", "body", "closed"}, incoming : Nat, request : Nat, k : Nat,
   incomings : Seq(Nat)]

IncomingTypes ==
  /\ message \in Seq(AMessage) /\ free \in Seq(Nat) /\ ticks \in Seq(Nat)
  /\ conn \in [Conns -> AConnection]
  /\ running \in Nat /\ objectOf \in Seq(Nat) /\ held \subseteq DOMAIN objectOf
  /\ got \in Seq(Seq(Event)) /\ Len(got) = Len(objectOf)

(* Two use a message at most: the queue of one connection, and one request *)
(* that the application holds.  While both do it is not yet unused, and    *)
(* none does of those in the FreeList.  Listeners are those of requests    *)
(* that have the message.                                                  *)
UsersInv ==
  /\ \A q \in DOMAIN objectOf : objectOf[q] \in DOMAIN message
  /\ \A i \in DOMAIN free : free[i] \in DOMAIN message
  /\ \A c \in Conns : \A j \in DOMAIN conn[c].incomings :
       conn[c].incomings[j] \in DOMAIN message
  /\ \A c, d \in Conns :
       \A i \in DOMAIN conn[c].incomings, j \in DOMAIN conn[d].incomings :
         conn[c].incomings[i] = conn[d].incomings[j] => c = d /\ i = j
  /\ \A p, q \in held : objectOf[p] = objectOf[q] => p = q
  /\ FreeIsUnused
  /\ \A q \in held, c \in Conns : \A j \in DOMAIN conn[c].incomings :
       conn[c].incomings[j] = objectOf[q] => ~message[objectOf[q]].unused
  /\ \A o \in DOMAIN message : \A q \in message[o].onData \cup message[o].onEnd :
       q \in DOMAIN objectOf /\ objectOf[q] = o

(* What parses, runs or waits to run does so for a message there is. *)
PlacesInv ==
  /\ \A c \in Conns : conn[c].state = "body" => conn[c].incoming \in DOMAIN message
  /\ \A i \in DOMAIN ticks : ticks[i] \in DOMAIN message
  /\ running # None => running \in DOMAIN message

IncomingInv == IncomingTypes /\ UsersInv /\ PlacesInv

(* Messages keep their flag UNUSED, and get no new listeners. *)
MessagesStay ==
  /\ message' \in Seq(AMessage) /\ DOMAIN message' = DOMAIN message
  /\ \A o \in DOMAIN message :
       /\ message'[o].unused = message[o].unused
       /\ message'[o].onData \subseteq message[o].onData
       /\ message'[o].onEnd \subseteq message[o].onEnd

LEMMA EmitToWorks ==
  ASSUME NEW m \in AMessage, NEW e \in Event
  PROVE  LET r == EmitTo(m, e)
         IN  /\ r.msg \in AMessage /\ r.msg.unused = m.unused
             /\ r.msg.onData \subseteq m.onData /\ r.msg.onEnd \subseteq m.onEnd
             /\ r.to \subseteq m.onData \cup m.onEnd
<1>1. CASE e.k # EOF
  BY <1>1 DEF EmitTo
<1>2. CASE e.k = EOF /\ m.endEmitted
  BY <1>2 DEF EmitTo
<1>3. CASE e.k = EOF /\ ~m.endEmitted
  <2> DEFINE n == [m EXCEPT !.endEmitted = TRUE, !.onData = {}, !.onEnd = {}]
  <2>1. n \in AMessage /\ n.unused = m.unused /\ n.onData = {} /\ n.onEnd = {}
    BY DEF AMessage
  <2>2. EmitTo(m, e) = [msg |-> n, to |-> m.onEnd]
    BY <1>3 DEF EmitTo
  <2> HIDE DEF n
  <2>3. QED  BY <2>1, <2>2
<1>4. QED  BY <1>1, <1>2, <1>3 DEF AMessage

(* What is received by a message that is paused is not emitted. *)
LEMMA ReceiveWorks ==
  ASSUME NEW m \in AMessage, NEW e \in Event
  PROVE  LET r == Receive(m, e)
         IN  /\ r.msg \in AMessage /\ r.msg.unused = m.unused
             /\ r.msg.onData \subseteq m.onData /\ r.msg.onEnd \subseteq m.onEnd
             /\ r.to \subseteq m.onData \cup m.onEnd
             /\ m.paused => r.to = {}
<1>1. CASE m.paused \/ m.pendings # <<>>
  <2> DEFINE l == Append(m.pendings, e)
             n == [m EXCEPT !.pendings = l]
  <2>1. l \in Seq(Event)
    BY DEF AMessage
  <2> HIDE DEF l
  <2>2. n \in AMessage /\ n.unused = m.unused /\ n.onData = m.onData /\ n.onEnd = m.onEnd
    BY <2>1 DEF AMessage
  <2>3. Receive(m, e) = [msg |-> n, to |-> {}]
    BY <1>1 DEF Receive, l
  <2> HIDE DEF n
  <2>4. QED  BY <2>2, <2>3
<1>2. CASE ~(m.paused \/ m.pendings # <<>>)
  BY <1>2, EmitToWorks DEF Receive
<1>3. QED  BY <1>1, <1>2

(* A message in the place of another. *)
LEMMA OneMessageStays ==
  ASSUME IncomingInv, NEW o, NEW m,
         o \in DOMAIN message =>
           /\ m \in AMessage /\ m.unused = message[o].unused
           /\ m.onData \subseteq message[o].onData /\ m.onEnd \subseteq message[o].onEnd,
         message' = [message EXCEPT ![o] = m]
  PROVE  MessagesStay
<1>1. message \in Seq(AMessage)
  BY DEF IncomingInv, IncomingTypes
<1>2. DOMAIN message' = DOMAIN message /\ DOMAIN message = 1..Len(message)
      /\ Len(message) \in Nat
  BY <1>1
<1>3. \A p \in DOMAIN message : message'[p] = IF p = o THEN m ELSE message[p]
  OBVIOUS
<1>4. \A p \in DOMAIN message : message[p] \in AMessage
  BY <1>1, <1>2, ElementOfSeq
<1>5. message' \in [1..Len(message) -> AMessage]
  BY <1>2, <1>3, <1>4
<1>6. message' \in Seq(AMessage)
  <2>1. \A n \in Nat : \A f \in [1..n -> AMessage] : f \in Seq(AMessage)
    OBVIOUS
  <2>2. QED  BY <1>2, <1>5, <2>1
<1>7. QED  BY <1>2, <1>3, <1>6 DEF MessagesStay

(* A step that leaves alone who uses which message, but for connections    *)
(* that close.                                                             *)
LEMMA UsersStay ==
  ASSUME IncomingInv, MessagesStay,
         free' = free, objectOf' = objectOf, held' = held,
         conn' \in [Conns -> AConnection],
         \A c \in Conns : \/ conn'[c].incomings = conn[c].incomings
                          \/ conn'[c].incomings = <<>>
  PROVE  UsersInv'
<1>1. \A c \in Conns : \A j \in DOMAIN conn'[c].incomings :
        /\ j \in DOMAIN conn[c].incomings
        /\ conn'[c].incomings[j] = conn[c].incomings[j]
  OBVIOUS
<1>2. DOMAIN message' = DOMAIN message
  BY DEF MessagesStay
<1>3. FreeIsUnused'
  BY <1>1 DEF IncomingInv, UsersInv, FreeIsUnused
<1>4. \A c, d \in Conns :
       \A i \in DOMAIN conn'[c].incomings, j \in DOMAIN conn'[d].incomings :
         conn'[c].incomings[i] = conn'[d].incomings[j] => c = d /\ i = j
  BY <1>1 DEF IncomingInv, UsersInv
<1>5. \A q \in held, c \in Conns : \A j \in DOMAIN conn'[c].incomings :
       conn'[c].incomings[j] = objectOf[q] => ~message'[objectOf[q]].unused
  <2>1. \A q \in held : objectOf[q] \in DOMAIN message
    BY DEF IncomingInv, UsersInv, IncomingTypes
  <2>2. \A q \in held, c \in Conns : \A j \in DOMAIN conn[c].incomings :
          conn[c].incomings[j] = objectOf[q] => ~message[objectOf[q]].unused
    BY DEF IncomingInv, UsersInv
  <2>3. QED  BY <1>1, <2>1, <2>2 DEF MessagesStay
<1>6. \A c \in Conns : \A j \in DOMAIN conn'[c].incomings :
       conn'[c].incomings[j] \in DOMAIN message
  BY <1>1 DEF IncomingInv, UsersInv
<1>7. \A o \in DOMAIN message : \A q \in message'[o].onData \cup message'[o].onEnd :
       q \in DOMAIN objectOf /\ objectOf[q] = o
  BY DEF IncomingInv, UsersInv, MessagesStay
<1>8. QED  BY <1>2, <1>3, <1>4, <1>5, <1>6, <1>7 DEF IncomingInv, UsersInv

LEMMA GetsWorks ==
  ASSUME IncomingTypes, NEW to, NEW e \in Event, got' = Gets(to, e)
  PROVE  /\ got' \in Seq(Seq(Event)) /\ Len(got') = Len(got)
         /\ DOMAIN got' = DOMAIN got
         /\ \A q \in DOMAIN got : q \notin to => got'[q] = got[q]
<1>1. got \in Seq(Seq(Event))
  BY DEF IncomingTypes
<1>2. DOMAIN got = 1..Len(got) /\ Len(got) \in Nat
  BY <1>1
<1>3. \A q \in DOMAIN got : got[q] \in Seq(Event) /\ Append(got[q], e) \in Seq(Event)
  BY <1>1, <1>2
<1>4. got' = [q \in 1..Len(got) |-> IF q \in to THEN Append(got[q], e) ELSE got[q]]
  BY <1>2 DEF Gets
<1>5. got' \in [1..Len(got) -> Seq(Event)]
  BY <1>2, <1>3, <1>4
<1>6. \A n \in Nat : \A f \in [1..n -> Seq(Event)] : f \in Seq(Seq(Event)) /\ Len(f) = n
  OBVIOUS
<1>7. got' \in Seq(Seq(Event)) /\ Len(got') = Len(got)
  BY <1>2, <1>5, <1>6
<1>8. QED  BY <1>2, <1>4, <1>7

(* Nothing is emitted to a request whose message is paused. *)
Silent ==
  \A q \in DOMAIN got :
    message[objectOf[q]].paused
      => \A i \in DOMAIN got'[q] : i > Len(got[q]) => got'[q][i].k = Close

(* What the listeners of message o get is not for requests whose message   *)
(* is paused.                                                              *)
LEMMA EmittedSilent ==
  ASSUME IncomingInv, NEW o, NEW to, NEW e \in Event, got' = Gets(to, e),
         o \in DOMAIN message =>
           to \subseteq message[o].onData \cup message[o].onEnd,
         o \in DOMAIN message /\ message[o].paused => to = {}, o \in DOMAIN message
  PROVE  Silent
<1> SUFFICES ASSUME NEW q \in DOMAIN got, message[objectOf[q]].paused
             PROVE  got'[q] = got[q] /\ got[q] \in Seq(Event)
  BY DEF Silent
<1>1. got \in Seq(Seq(Event))
  BY DEF IncomingInv, IncomingTypes
<1>2. got[q] \in Seq(Event)
  BY <1>1
<1>3. q \notin to
  BY DEF IncomingInv, UsersInv
<1>4. QED  BY <1>2, <1>3, GetsWorks DEF IncomingInv

LEMMA FeedKeeps ==
  ASSUME IncomingInv, NEW c \in Conns, NEW k \in Nat, Feed(c, k),
         conn[c].state = "body",
         UNCHANGED <<free, ticks, running, objectOf, held>>,
         conn' \in [Conns -> AConnection],
         \A d \in Conns : /\ conn'[d].incomings = conn[d].incomings
                          /\ conn'[d].incoming = conn[d].incoming
                          /\ conn'[d].state = "body" => conn[d].state = "body"
  PROVE  IncomingInv' /\ Silent
<1> DEFINE o == conn[c].incoming
           e == [of |-> conn[c].request, k |-> k]
           r == Receive(message[o], e)
<1>1. /\ o \in DOMAIN message /\ message[o] \in AMessage
      /\ message' = [message EXCEPT ![o] = r.msg] /\ got' = Gets(r.to, e)
  BY DEF IncomingInv, IncomingTypes, PlacesInv, Feed
<1>2. conn[c] \in AConnection
  BY DEF IncomingInv, IncomingTypes
<1>3. e \in Event
  BY <1>2 DEF AConnection, Event
<1> HIDE DEF e
<1>4. /\ r.msg \in AMessage /\ r.msg.unused = message[o].unused
      /\ r.msg.onData \subseteq message[o].onData /\ r.msg.onEnd \subseteq message[o].onEnd
      /\ r.to \subseteq message[o].onData \cup message[o].onEnd
      /\ message[o].paused => r.to = {}
  BY <1>1, <1>3, ReceiveWorks
<1> HIDE DEF r, o
<1>5. MessagesStay
  BY <1>1, <1>4, OneMessageStays
<1>6. UsersInv'
  BY <1>5, UsersStay
<1>7. /\ got' \in Seq(Seq(Event)) /\ Len(got') = Len(got)
  BY <1>1, <1>3, GetsWorks DEF IncomingInv
<1>8. IncomingTypes'
  BY <1>5, <1>7 DEF IncomingInv, IncomingTypes, MessagesStay
<1>9. Silent
  BY <1>1, <1>3, <1>4, EmittedSilent
<1>10. PlacesInv'
  BY <1>5 DEF IncomingInv, PlacesInv, MessagesStay
<1>11. QED  BY <1>6, <1>8, <1>9, <1>10 DEF IncomingInv

LEMMA OnBodyKeeps ==
  ASSUME IncomingInv, NEW c \in Conns, OnBody(c)
  PROVE  IncomingInv' /\ Silent
<1> DEFINE k == conn[c].k + 1
           r == [conn[c] EXCEPT !.k = k]
<1>1. conn \in [Conns -> AConnection] /\ conn[c] \in AConnection
  BY DEF IncomingInv, IncomingTypes
<1>2. /\ conn[c].state = "body" /\ Feed(c, k) /\ conn' = [conn EXCEPT ![c] = r]
      /\ UNCHANGED <<free, ticks, running, objectOf, held>>
  BY <1>1 DEF OnBody
<1>3. k \in Nat
  BY <1>1 DEF AConnection
<1> HIDE DEF k
<1>4. /\ r \in AConnection /\ r.incomings = conn[c].incomings
      /\ r.incoming = conn[c].incoming /\ r.state = conn[c].state
  BY <1>1, <1>3 DEF AConnection
<1> HIDE DEF r
<1>5. /\ conn' \in [Conns -> AConnection]
      /\ \A d \in Conns : /\ conn'[d].incomings = conn[d].incomings
                          /\ conn'[d].incoming = conn[d].incoming
                          /\ conn'[d].state = "body" => conn[d].state = "body"
  BY <1>1, <1>2, <1>4
<1>6. QED  BY <1>2, <1>3, <1>5, FeedKeeps

LEMMA OnMessageCompleteKeeps ==
  ASSUME IncomingInv, NEW c \in Conns, OnMessageComplete(c)
  PROVE  IncomingInv' /\ Silent
<1> DEFINE r == [conn[c] EXCEPT !.state = "idle"]
<1>1. conn \in [Conns -> AConnection] /\ conn[c] \in AConnection
  BY DEF IncomingInv, IncomingTypes
<1>2. /\ conn[c].state = "body" /\ Feed(c, EOF) /\ conn' = [conn EXCEPT ![c] = r]
      /\ UNCHANGED <<free, ticks, running, objectOf, held>>
  BY <1>1 DEF OnMessageComplete
<1>3. EOF \in Nat
  BY ConstantsAssumption DEF EOF
<1>4. /\ r \in AConnection /\ r.incomings = conn[c].incomings
      /\ r.incoming = conn[c].incoming /\ r.state = "idle"
  BY <1>1 DEF AConnection
<1> HIDE DEF r
<1>5. /\ conn' \in [Conns -> AConnection]
      /\ \A d \in Conns : /\ conn'[d].incomings = conn[d].incomings
                          /\ conn'[d].incoming = conn[d].incoming
                          /\ conn'[d].state = "body" => conn[d].state = "body"
  BY <1>1, <1>2, <1>4
<1>6. QED  BY <1>2, <1>3, <1>5, FeedKeeps

(* What comes out of pendings is the event that went in, or an end. *)
LEMMA ToPtrGives ==
  ASSUME NEW h \in Event, NEW e \in ToPtr(h)
  PROVE  e \in Event /\ e.of = h.of /\ (e = h \/ e.k = EOF)
<1>1. e = h \/ e = [h EXCEPT !.k = EOF]
  BY DEF ToPtr
<1>2. EOF \in Nat
  BY ConstantsAssumption DEF EOF
<1>3. QED  BY <1>1, <1>2 DEF Event

LEMMA EmitNextKeeps ==
  ASSUME IncomingInv, EmitNext
  PROVE  IncomingInv' /\ Silent
<1> DEFINE o == running
           m == message[o]
           h == Head(m.pendings)
           l == Tail(m.pendings)
           n == [m EXCEPT !.pendings = l]
<1>e. PICK e \in ToPtr(h) : TakesOut(h, e)
  BY DEF EmitNext
<1> DEFINE r == EmitTo(n, e)
<1>1. /\ o \in DOMAIN message /\ m \in AMessage /\ ~m.paused /\ m.pendings # <<>>
      /\ message' = [message EXCEPT ![o] = r.msg] /\ got' = Gets(r.to, e)
      /\ UNCHANGED <<free, conn, ticks, running, objectOf, held>>
  <2>1. o # None /\ ~m.paused /\ m.pendings # <<>>
    BY DEF EmitNext
  <2>2. o \in DOMAIN message /\ m \in AMessage
    BY <2>1, ElementOfSeq DEF IncomingInv, IncomingTypes, PlacesInv
  <2>3. /\ message' = [message EXCEPT ![o] = r.msg] /\ got' = Gets(r.to, e)
        /\ UNCHANGED <<free, conn, ticks, running, objectOf, held>>
    BY <1>e DEF TakesOut
  <2>4. QED  BY <2>1, <2>2, <2>3
<1>2. e \in Event /\ l \in Seq(Event)
  <2>1. m.pendings \in Seq(Event) /\ m.pendings # <<>>
    BY <1>1 DEF AMessage
  <2> HIDE DEF m
  <2>2. h \in Event /\ l \in Seq(Event)
    BY <2>1
  <2> HIDE DEF h
  <2>3. QED  BY <1>e, <2>2, ToPtrGives
<1> HIDE DEF l
<1>3. n \in AMessage /\ n.unused = m.unused /\ n.onData = m.onData /\ n.onEnd = m.onEnd
  BY <1>1, <1>2 DEF AMessage
<1> HIDE DEF n, m
<1>4. /\ r.msg \in AMessage /\ r.msg.unused = m.unused
      /\ r.msg.onData \subseteq m.onData /\ r.msg.onEnd \subseteq m.onEnd
      /\ r.to \subseteq m.onData \cup m.onEnd
  BY <1>2, <1>3, EmitToWorks
<1> HIDE DEF r
<1>5. MessagesStay
  BY <1>1, <1>4, OneMessageStays DEF m
<1>6. conn' \in [Conns -> AConnection]
  BY <1>1 DEF IncomingInv, IncomingTypes
<1>7. UsersInv'
  BY <1>1, <1>5, <1>6, UsersStay
<1>8. /\ got' \in Seq(Seq(Event)) /\ Len(got') = Len(got)
  BY <1>1, <1>2, GetsWorks DEF IncomingInv
<1>9. IncomingTypes' /\ PlacesInv'
  BY <1>1, <1>5, <1>8 DEF IncomingInv, IncomingTypes, MessagesStay, PlacesInv
<1>10. Silent
  BY <1>1, <1>2, <1>4, EmittedSilent DEF m
<1>11. QED  BY <1>7, <1>9, <1>10 DEF IncomingInv

LEMMA AppendFacts ==
  ASSUME NEW S, NEW s \in Seq(S), NEW x \in S
  PROVE  /\ Append(s, x) \in Seq(S) /\ Len(Append(s, x)) = Len(s) + 1
         /\ DOMAIN Append(s, x) = DOMAIN s \cup {Len(s) + 1}
         /\ Append(s, x)[Len(s) + 1] = x
         /\ \A i \in DOMAIN s : Append(s, x)[i] = s[i]
OBVIOUS

LEMMA HeadersCompleteKeeps ==
  ASSUME IncomingInv, NEW c \in Conns, HeadersComplete(c)
  PROVE  IncomingInv' /\ Silent
<1> DEFINE q == Len(objectOf) + 1
           o == IF free = <<>> THEN Len(message) + 1 ELSE Head(free)
           m == IF free = <<>> THEN NewMessage ELSE SetNewSocket(message[o])
           d == m.onData \cup {q}
           e == m.onEnd \cup {q}
           x == m.onClose \cup {q}
           l == [m EXCEPT !.onData = d, !.onEnd = e, !.onClose = x]
           s == Append(conn[c].incomings, o)
           r == [conn[c] EXCEPT !.state = "body", !.incoming = o, !.request = q,
                                !.k = 0, !.incomings = s]
<1>1. /\ message \in Seq(AMessage) /\ free \in Seq(Nat) /\ objectOf \in Seq(Nat)
      /\ conn \in [Conns -> AConnection] /\ conn[c] \in AConnection
      /\ held \subseteq DOMAIN objectOf /\ got \in Seq(Seq(Event))
      /\ Len(got) = Len(objectOf) /\ Len(message) \in Nat /\ Len(objectOf) \in Nat
      /\ DOMAIN message = 1..Len(message) /\ DOMAIN objectOf = 1..Len(objectOf)
  BY DEF IncomingInv, IncomingTypes
<1>2. /\ message' = IF free = <<>> THEN Append(message, l)
                    ELSE [message EXCEPT ![o] = l]
      /\ free' = IF free = <<>> THEN <<>> ELSE Tail(free)
      /\ conn' = [conn EXCEPT ![c] = r]
      /\ objectOf' = Append(objectOf, o) /\ held' = held \cup {q}
      /\ got' = Append(got, <<>>) /\ ticks' = ticks /\ running' = running
  BY DEF HeadersComplete, Parses
<1>3. /\ q \in Nat /\ q \notin DOMAIN objectOf
      /\ \A p \in DOMAIN objectOf : p # q
  BY <1>1
<1>4. /\ o \in Nat
      /\ \A i \in DOMAIN free' :
           /\ free'[i] # o /\ free'[i] \in DOMAIN message
           /\ \A p \in held : objectOf[p] # free'[i]
           /\ \A k \in Conns : \A j \in DOMAIN conn[k].incomings :
                conn[k].incomings[j] # free'[i]
      /\ free' \in Seq(Nat)
      /\ \A i, j \in DOMAIN free' : free'[i] = free'[j] => i = j
      /\ \A p \in held : objectOf[p] # o
      /\ \A k \in Conns : \A j \in DOMAIN conn[k].incomings : conn[k].incomings[j] # o
      /\ free # <<>> => o \in DOMAIN message
  <2>1. CASE free = <<>>
    <3>1. o = Len(message) + 1 /\ free' = <<>> /\ DOMAIN free' = {} /\ o \in Nat
      BY <1>1, <1>2, <2>1
    <3>2. o \notin DOMAIN message
      BY <1>1, <3>1
    <3>3. <<>> \in Seq(Nat)
      OBVIOUS
    <3> HIDE DEF o
    <3>4. /\ \A p \in held : objectOf[p] # o
          /\ \A k \in Conns : \A j \in DOMAIN conn[k].incomings : conn[k].incomings[j] # o
      BY <3>2 DEF IncomingInv, IncomingTypes, UsersInv
    <3>5. QED  BY <2>1, <3>1, <3>3, <3>4
  <2>2. CASE free # <<>>
    <3>1. /\ o = free[1] /\ 1 \in DOMAIN free /\ free' \in Seq(Nat)
          /\ \A i \in DOMAIN free' :
               i \in Nat /\ i + 1 \in DOMAIN free /\ free'[i] = free[i + 1]
      BY <1>1, <1>2, <2>2
    <3> HIDE DEF o
    <3>2. o \in DOMAIN message /\ o \in Nat
      BY <1>1, <3>1 DEF IncomingInv, UsersInv
    <3>3. /\ \A p \in held : objectOf[p] # o
          /\ \A k \in Conns : \A j \in DOMAIN conn[k].incomings : conn[k].incomings[j] # o
      BY <3>1 DEF IncomingInv, UsersInv, FreeIsUnused
    <3>4. ASSUME NEW i \in DOMAIN free'
          PROVE  /\ free'[i] # o /\ free'[i] \in DOMAIN message
                 /\ \A p \in held : objectOf[p] # free'[i]
                 /\ \A k \in Conns : \A j \in DOMAIN conn[k].incomings :
                      conn[k].incomings[j] # free'[i]
      <4>1. i + 1 \in DOMAIN free /\ free'[i] = free[i + 1] /\ i + 1 # 1
        BY <3>1
      <4>2. QED  BY <3>1, <4>1 DEF IncomingInv, UsersInv, FreeIsUnused
    <3>5. ASSUME NEW i \in DOMAIN free', NEW j \in DOMAIN free', free'[i] = free'[j]
          PROVE  i = j
      <4>1. i + 1 = j + 1
        BY <3>1, <3>5 DEF IncomingInv, UsersInv, FreeIsUnused
      <4>2. i \in Nat /\ j \in Nat
        BY <3>1
      <4>3. QED  BY <4>1, <4>2
    <3>6. QED  BY <2>2, <3>1, <3>2, <3>3, <3>4, <3>5
  <2>3. QED  BY <2>1, <2>2
<1>5. /\ m \in AMessage /\ m.unused = FALSE
      /\ \A p \in m.onData \cup m.onEnd : p \in DOMAIN objectOf /\ objectOf[p] = o
  <2>1. CASE free = <<>>
    <3>1. <<>> \in Seq(Event)
      OBVIOUS
    <3>2. NewMessage \in AMessage /\ NewMessage.unused = FALSE
          /\ NewMessage.onData = {} /\ NewMessage.onEnd = {}
      BY <3>1 DEF NewMessage, AMessage
    <3>3. QED  BY <2>1, <3>2
  <2>2. CASE free # <<>>
    <3>1. o \in DOMAIN message
      BY <1>4, <2>2
    <3> HIDE DEF o
    <3>2. message[o] \in AMessage
      BY <1>1, <3>1, ElementOfSeq
    <3>3. <<>> \in Seq(Event)
      OBVIOUS
    <3>4. /\ SetNewSocket(message[o]) \in AMessage
          /\ SetNewSocket(message[o]).unused = FALSE
          /\ SetNewSocket(message[o]).onData = message[o].onData
          /\ SetNewSocket(message[o]).onEnd = message[o].onEnd
      BY <3>2, <3>3 DEF AMessage, SetNewSocket
    <3>5. QED  BY <2>2, <3>1, <3>4 DEF IncomingInv, UsersInv
  <2>3. QED  BY <2>1, <2>2
<1> HIDE DEF m, q
<1>6. /\ l \in AMessage /\ l.unused = FALSE /\ l.onData = d /\ l.onEnd = e
  BY <1>3, <1>5 DEF AMessage
<1> HIDE DEF l
<1>7. /\ message' \in Seq(AMessage) /\ DOMAIN message' = DOMAIN message \cup {o}
      /\ message'[o] = l
      /\ \A p \in DOMAIN message : p # o => message'[p] = message[p]
  <2>1. CASE free = <<>>
    <3>1. o = Len(message) + 1 /\ message' = Append(message, l)
      BY <1>2, <2>1
    <3> HIDE DEF o
    <3>2. QED  BY <1>1, <1>6, <3>1, AppendProperties
  <2>2. CASE free # <<>>
    <3>1. o \in 1..Len(message) /\ message' = [message EXCEPT ![o] = l]
      BY <1>1, <1>2, <1>4, <2>2
    <3> HIDE DEF o
    <3>2. message' \in Seq(AMessage)
      BY <1>1, <1>6, <3>1, ExceptSeq
    <3>3. QED  BY <1>1, <3>1, <3>2
  <2>3. QED  BY <2>1, <2>2
<1> HIDE DEF o
<1>8. /\ objectOf' \in Seq(Nat) /\ DOMAIN objectOf' = DOMAIN objectOf \cup {q}
      /\ objectOf'[q] = o /\ Len(objectOf') = q
      /\ \A p \in DOMAIN objectOf : objectOf'[p] = objectOf[p]
  <2>1. objectOf \in Seq(Nat) /\ o \in Nat /\ objectOf' = Append(objectOf, o)
    BY <1>1, <1>2, <1>4
  <2>2. q = Len(objectOf) + 1
    BY DEF q
  <2>3. QED  BY ONLY <2>1, <2>2, AppendFacts
<1>9. /\ got' \in Seq(Seq(Event)) /\ Len(got') = q
      /\ \A p \in DOMAIN got : got'[p] = got[p]
  <2>1. <<>> \in Seq(Event)
    OBVIOUS
  <2>2. got \in Seq(Seq(Event)) /\ got' = Append(got, <<>>) /\ Len(got) + 1 = q
    BY <1>1, <1>2 DEF q
  <2>3. QED  BY ONLY <2>1, <2>2, AppendFacts
<1>10. /\ s \in Seq(Nat) /\ Len(s) = Len(conn[c].incomings) + 1
       /\ \A j \in DOMAIN s : IF j \in DOMAIN conn[c].incomings
                              THEN s[j] = conn[c].incomings[j]
                              ELSE j = Len(s) /\ s[j] = o
  <2>1. conn[c].incomings \in Seq(Nat)
    BY <1>1 DEF AConnection
  <2>2. QED  BY <1>4, <2>1, AppendProperties
<1> HIDE DEF s
<1>11. /\ r \in AConnection /\ r.incomings = s /\ r.incoming = o
  BY <1>1, <1>3, <1>4, <1>10 DEF AConnection
<1> HIDE DEF r
<1>12. /\ conn' \in [Conns -> AConnection] /\ conn'[c] = r
       /\ \A k \in Conns : k # c => conn'[k] = conn[k]
  BY <1>1, <1>2, <1>11
<1>13. IncomingTypes'
  BY <1>1, <1>2, <1>4, <1>7, <1>8, <1>9, <1>12 DEF IncomingInv, IncomingTypes
<1>14. \A k \in Conns : \A j \in DOMAIN conn'[k].incomings :
         \/ /\ j \in DOMAIN conn[k].incomings
            /\ conn'[k].incomings[j] = conn[k].incomings[j]
         \/ k = c /\ j = Len(s) /\ conn'[k].incomings[j] = o
  BY <1>10, <1>11, <1>12
<1>15. PlacesInv'
  BY <1>2, <1>7, <1>11, <1>12 DEF IncomingInv, PlacesInv
<1>16. FreeIsUnused'
  <2>1. ASSUME NEW i \in DOMAIN free', NEW p \in held'
        PROVE  objectOf'[p] # free'[i]
    <3>1. CASE p = q
      BY <1>4, <1>8, <3>1
    <3>2. CASE p \in held
      BY <1>1, <1>4, <1>8, <3>2
    <3>3. QED  BY <1>2, <3>1, <3>2
  <2>2. ASSUME NEW i \in DOMAIN free', NEW k \in Conns, NEW j \in DOMAIN conn'[k].incomings
        PROVE  conn'[k].incomings[j] # free'[i]
    BY <1>4, <1>14
  <2>3. QED  BY <1>4, <2>1, <2>2 DEF FreeIsUnused
<1>17. \A a, b \in Conns :
         \A i \in DOMAIN conn'[a].incomings, j \in DOMAIN conn'[b].incomings :
           conn'[a].incomings[i] = conn'[b].incomings[j] => a = b /\ i = j
  BY <1>4, <1>14 DEF IncomingInv, UsersInv
<1>18. \A a, b \in held' : objectOf'[a] = objectOf'[b] => a = b
  BY <1>1, <1>2, <1>4, <1>8 DEF IncomingInv, UsersInv
<1>19. ASSUME NEW p \in held', NEW k \in Conns, NEW j \in DOMAIN conn'[k].incomings,
              conn'[k].incomings[j] = objectOf'[p]
       PROVE  ~message'[objectOf'[p]].unused
  <2>1. CASE objectOf'[p] = o
    BY <1>6, <1>7, <2>1
  <2>2. CASE objectOf'[p] # o
    <3>1. p \in held /\ objectOf'[p] = objectOf[p] /\ objectOf[p] \in DOMAIN message
      BY <1>1, <1>2, <1>8, <2>2 DEF IncomingInv, UsersInv
    <3>2. j \in DOMAIN conn[k].incomings /\ conn[k].incomings[j] = objectOf[p]
      BY <1>14, <1>19, <2>2, <3>1
    <3>3. QED  BY <1>7, <2>2, <3>1, <3>2 DEF IncomingInv, UsersInv
  <2>3. QED  BY <2>1, <2>2
<1>20. ASSUME NEW p \in DOMAIN message', NEW a \in message'[p].onData \cup message'[p].onEnd
       PROVE  a \in DOMAIN objectOf' /\ objectOf'[a] = p
  <2>1. CASE p = o
    BY <1>5, <1>6, <1>7, <1>8, <2>1
  <2>2. CASE p # o
    BY <1>7, <1>8, <2>2 DEF IncomingInv, UsersInv
  <2>3. QED  BY <2>1, <2>2
<1>21. /\ \A p \in DOMAIN objectOf' : objectOf'[p] \in DOMAIN message'
       /\ \A i \in DOMAIN free' : free'[i] \in DOMAIN message'
       /\ \A k \in Conns : \A j \in DOMAIN conn'[k].incomings :
            conn'[k].incomings[j] \in DOMAIN message'
  BY <1>4, <1>7, <1>8, <1>14 DEF IncomingInv, UsersInv
<1>22. Silent
  <2>1. \A p \in DOMAIN got : got[p] \in Seq(Event) /\ DOMAIN got[p] = 1..Len(got[p])
    BY <1>1
  <2>2. QED  BY <1>9, <2>1 DEF Silent
<1>23. QED  BY <1>13, <1>15, <1>16, <1>17, <1>18, <1>19, <1>20, <1>21, <1>22
           DEF IncomingInv, UsersInv

(* Release(o) by one of the two that use o, which then does so no more. *)
LEMMA ReleaseKeeps ==
  ASSUME IncomingInv, NEW o \in DOMAIN message, Release(o),
         UNCHANGED <<ticks, running, objectOf, got>>,
         held' \subseteq held, conn' \in [Conns -> AConnection],
         \A k \in Conns : /\ conn'[k].incoming = conn[k].incoming
                          /\ conn'[k].state = conn[k].state,
         \A k \in Conns : \A j \in DOMAIN conn'[k].incomings :
           \E i \in DOMAIN conn[k].incomings :
             conn'[k].incomings[j] = conn[k].incomings[i],
         \A a, b \in Conns :
           \A i \in DOMAIN conn'[a].incomings, j \in DOMAIN conn'[b].incomings :
             conn'[a].incomings[i] = conn'[b].incomings[j] => a = b /\ i = j,
         \A i \in DOMAIN free : free[i] # o,
         \/ \A p \in held' : objectOf[p] # o
         \/ \A k \in Conns : \A j \in DOMAIN conn'[k].incomings : conn'[k].incomings[j] # o,
         message[o].unused =>
           /\ \A p \in held' : objectOf[p] # o
           /\ \A k \in Conns : \A j \in DOMAIN conn'[k].incomings : conn'[k].incomings[j] # o
  PROVE  IncomingInv' /\ Silent
<1> DEFINE m == [message[o] EXCEPT !.unused = TRUE]
<1>1. /\ message \in Seq(AMessage) /\ free \in Seq(Nat) /\ Len(message) \in Nat
      /\ DOMAIN message = 1..Len(message) /\ message[o] \in AMessage /\ o \in Nat
  BY DEF IncomingInv, IncomingTypes
<1>2. /\ m \in AMessage /\ m.onData = message[o].onData /\ m.onEnd = message[o].onEnd
  BY <1>1 DEF AMessage
<1>3. /\ message' \in Seq(AMessage) /\ DOMAIN message' = DOMAIN message
      /\ \A p \in DOMAIN message :
           /\ p # o => message'[p] = message[p]
           /\ message'[p].onData = message[p].onData
           /\ message'[p].onEnd = message[p].onEnd
  <2>1. CASE message[o].unused
    BY <1>1, <2>1 DEF Release
  <2>2. CASE ~message[o].unused
    <3>1. message' = [message EXCEPT ![o] = m]
      BY <1>1, <2>2 DEF Release
    <3> HIDE DEF m
    <3>2. message' \in Seq(AMessage)
      BY <1>1, <1>2, <3>1, ExceptSeq
    <3>3. QED  BY <1>1, <1>2, <3>1, <3>2
  <2>3. QED  BY <2>1, <2>2
<1>4. /\ free' \in Seq(Nat)
      /\ \A i \in DOMAIN free' :
           IF i \in DOMAIN free THEN free'[i] = free[i]
           ELSE free'[i] = o /\ i = Len(free) + 1 /\ message[o].unused
  <2>1. CASE free' = free
    BY <1>1, <2>1
  <2>2. CASE free' = Append(free, o) /\ message[o].unused
    BY <1>1, <2>2, AppendFacts
  <2>3. QED  BY <2>1, <2>2 DEF Release
<1>5. IncomingTypes'
  BY <1>3, <1>4 DEF IncomingInv, IncomingTypes
<1>6. PlacesInv'
  BY <1>3 DEF IncomingInv, PlacesInv
<1>7. FreeIsUnused'
  <2>1. ASSUME NEW i \in DOMAIN free'
        PROVE  /\ \A q \in held' : objectOf[q] # free'[i]
               /\ \A k \in Conns : \A j \in DOMAIN conn'[k].incomings :
                    conn'[k].incomings[j] # free'[i]
    <3>1. CASE i \in DOMAIN free
      BY <1>4, <3>1 DEF IncomingInv, UsersInv, FreeIsUnused
    <3>2. CASE i \notin DOMAIN free
      BY <1>4, <3>2
    <3>3. QED  BY <3>1, <3>2
  <2>2. \A i, j \in DOMAIN free' : free'[i] = free'[j] => i = j
    BY <1>4 DEF IncomingInv, UsersInv, FreeIsUnused
  <2>3. QED  BY <2>1, <2>2 DEF FreeIsUnused
<1>8. ASSUME NEW q \in held', NEW k \in Conns, NEW j \in DOMAIN conn'[k].incomings,
             conn'[k].incomings[j] = objectOf[q]
      PROVE  ~message'[objectOf[q]].unused
  <2>1. objectOf[q] # o
    BY <1>8
  <2>2. objectOf[q] \in DOMAIN message
    BY DEF IncomingInv, UsersInv, IncomingTypes
  <2>3. ~message[objectOf[q]].unused
    BY <1>8 DEF IncomingInv, UsersInv
  <2>4. QED  BY <1>3, <2>1, <2>2, <2>3
<1>9. /\ \A i \in DOMAIN free' : free'[i] \in DOMAIN message'
      /\ \A k \in Conns : \A j \in DOMAIN conn'[k].incomings :
           conn'[k].incomings[j] \in DOMAIN message'
  BY <1>3, <1>4 DEF IncomingInv, UsersInv
<1>10. \A p, q \in held' : objectOf[p] = objectOf[q] => p = q
  BY DEF IncomingInv, UsersInv
<1>11. \A p \in DOMAIN message : \A q \in message'[p].onData \cup message'[p].onEnd :
        q \in DOMAIN objectOf /\ objectOf[q] = p
  BY <1>3 DEF IncomingInv, UsersInv
<1>12. \A q \in DOMAIN objectOf : objectOf[q] \in DOMAIN message
  BY DEF IncomingInv, UsersInv
<1>13. Silent
  <2>1. \A p \in DOMAIN got : got[p] \in Seq(Event) /\ DOMAIN got[p] = 1..Len(got[p])
    BY DEF IncomingInv, IncomingTypes
  <2>2. QED  BY <2>1 DEF Silent
<1>14. QED  BY <1>3, <1>5, <1>6, <1>7, <1>8, <1>9, <1>10, <1>11, <1>12, <1>13
           DEF IncomingInv, UsersInv

LEMMA AnswerKeeps ==
  ASSUME IncomingInv, NEW c \in Conns, Answer(c)
  PROVE  IncomingInv' /\ Silent
<1> DEFINE l == conn[c].incomings
           o == Head(l)
           t == Tail(l)
           r == [conn[c] EXCEPT !.incomings = t]
<1>1. conn \in [Conns -> AConnection] /\ conn[c] \in AConnection /\ l \in Seq(Nat)
  BY DEF IncomingInv, IncomingTypes, AConnection
<1>2. /\ l # <<>> /\ Release(o) /\ conn' = [conn EXCEPT ![c] = r] /\ held' = held
      /\ UNCHANGED <<ticks, running, objectOf, got>>
  BY <1>1 DEF Answer
<1>3. /\ o = l[1] /\ 1 \in DOMAIN l /\ t \in Seq(Nat)
      /\ \A j \in DOMAIN t :
           j \in Nat /\ j + 1 # 1 /\ j + 1 \in DOMAIN l /\ t[j] = l[j + 1]
  <2>1. l \in Seq(Nat) /\ l # <<>>
    BY <1>1, <1>2
  <2> HIDE DEF l
  <2>2. QED  BY <2>1
<1> HIDE DEF t, o
<1>4. r \in AConnection /\ r.incomings = t /\ r.incoming = conn[c].incoming
      /\ r.state = conn[c].state
  BY <1>1, <1>3 DEF AConnection
<1> HIDE DEF r
<1>5. /\ conn' \in [Conns -> AConnection] /\ conn'[c] = r
      /\ \A k \in Conns : k # c => conn'[k] = conn[k]
  BY <1>1, <1>2, <1>4
<1>6. \A k \in Conns : /\ conn'[k].incoming = conn[k].incoming
                       /\ conn'[k].state = conn[k].state
  BY <1>4, <1>5
<1>7. \A k \in Conns : \A j \in DOMAIN conn'[k].incomings :
        /\ k = c => /\ j \in Nat /\ j + 1 # 1 /\ j + 1 \in DOMAIN conn[k].incomings
                    /\ conn'[k].incomings[j] = conn[k].incomings[j + 1]
        /\ k # c => /\ j \in DOMAIN conn[k].incomings
                    /\ conn'[k].incomings[j] = conn[k].incomings[j]
  BY <1>3, <1>4, <1>5
<1>8. ASSUME NEW k \in Conns, NEW j \in DOMAIN conn'[k].incomings
      PROVE  /\ \E i \in DOMAIN conn[k].incomings :
                  conn'[k].incomings[j] = conn[k].incomings[i]
             /\ conn'[k].incomings[j] # o
  <2>1. CASE k = c
    <3>1. j \in Nat /\ j + 1 # 1
      BY <1>7, <2>1
    <3>2. QED  BY <1>3, <1>7, <2>1, <3>1 DEF IncomingInv, UsersInv
  <2>2. CASE k # c
    BY <1>3, <1>7, <2>2 DEF IncomingInv, UsersInv
  <2>3. QED  BY <2>1, <2>2
<1>9. ASSUME NEW a \in Conns, NEW b \in Conns, NEW i \in DOMAIN conn'[a].incomings,
             NEW j \in DOMAIN conn'[b].incomings,
             conn'[a].incomings[i] = conn'[b].incomings[j]
      PROVE  a = b /\ i = j
  <2>1. a = b
    BY <1>7, <1>9 DEF IncomingInv, UsersInv
  <2>2. CASE a = c
    <3>1. i + 1 = j + 1
      BY <1>7, <1>9, <2>1, <2>2 DEF IncomingInv, UsersInv
    <3>2. i \in Nat /\ j \in Nat
      BY <1>7, <2>1, <2>2
    <3>3. QED  BY <2>1, <3>1, <3>2
  <2>3. CASE a # c
    BY <1>7, <1>9, <2>1, <2>3 DEF IncomingInv, UsersInv
  <2>4. QED  BY <2>2, <2>3
<1>10. /\ o \in DOMAIN message /\ \A i \in DOMAIN free : free[i] # o
       /\ message[o].unused => \A p \in held' : objectOf[p] # o
  BY <1>2, <1>3 DEF IncomingInv, UsersInv, FreeIsUnused
<1>11. QED  BY <1>2, <1>5, <1>6, <1>8, <1>9, <1>10, ReleaseKeeps

LEMMA DropKeeps ==
  ASSUME IncomingInv, NEW q \in held, Drop(q)
  PROVE  IncomingInv' /\ Silent
<1> DEFINE o == objectOf[q]
<1>1. /\ held' = held \ {q} /\ Release(o)
      /\ UNCHANGED <<conn, ticks, running, objectOf, got>>
  BY DEF Drop
<1>2. o \in DOMAIN message /\ conn' \in [Conns -> AConnection]
  BY <1>1 DEF IncomingInv, UsersInv, IncomingTypes
<1>3. \A p \in held' : objectOf[p] # o
  BY <1>1 DEF IncomingInv, UsersInv
<1>4. \A i \in DOMAIN free : free[i] # o
  BY DEF IncomingInv, UsersInv, FreeIsUnused
<1>5. message[o].unused =>
        \A k \in Conns : \A j \in DOMAIN conn'[k].incomings : conn'[k].incomings[j] # o
  BY <1>1 DEF IncomingInv, UsersInv
<1>6. \A a, b \in Conns :
        \A i \in DOMAIN conn'[a].incomings, j \in DOMAIN conn'[b].incomings :
          conn'[a].incomings[i] = conn'[b].incomings[j] => a = b /\ i = j
  BY <1>1 DEF IncomingInv, UsersInv
<1>7. /\ held' \subseteq held
      /\ \A k \in Conns : /\ conn'[k].incoming = conn[k].incoming
                          /\ conn'[k].state = conn[k].state
      /\ \A k \in Conns : \A j \in DOMAIN conn'[k].incomings :
           \E i \in DOMAIN conn[k].incomings :
             conn'[k].incomings[j] = conn[k].incomings[i]
  BY <1>1
<1> HIDE DEF o
<1>8. QED  BY <1>1, <1>2, <1>3, <1>4, <1>5, <1>6, <1>7, ReleaseKeeps

LEMMA SocketOnCloseKeeps ==
  ASSUME IncomingInv, NEW c \in Conns, SocketOnClose(c)
  PROVE  IncomingInv' /\ Silent
<1> DEFINE aborted == Range(conn[c].incomings)
           r == [conn[c] EXCEPT !.state = "closed", !.incoming = None, !.incomings = <<>>]
           M(o) == IF o \in aborted THEN Aborted(message[o]) ELSE message[o]
           E(q) == [of |-> RequestOf(objectOf[q]), k |-> Close]
           G(q) == IF objectOf[q] \in aborted /\ q \in message[objectOf[q]].onClose
                   THEN Append(got[q], E(q)) ELSE got[q]
<1>1. /\ message \in Seq(AMessage) /\ Len(message) \in Nat
      /\ DOMAIN message = 1..Len(message) /\ conn \in [Conns -> AConnection]
      /\ conn[c] \in AConnection /\ objectOf \in Seq(Nat) /\ got \in Seq(Seq(Event))
      /\ DOMAIN got = DOMAIN objectOf /\ DOMAIN got = 1..Len(got) /\ Len(got) \in Nat
      /\ Len(objectOf) = Len(got)
      /\ \A o \in DOMAIN message : message[o] \in AMessage
  BY ElementOfSeq DEF IncomingInv, IncomingTypes
<1>2. /\ conn' = [conn EXCEPT ![c] = r]
      /\ message' = [o \in DOMAIN message |-> M(o)]
      /\ got' = [q \in DOMAIN got |-> G(q)]
      /\ UNCHANGED <<free, ticks, running, objectOf, held>>
  BY DEF SocketOnClose
<1>3. \A o \in DOMAIN message :
        /\ M(o) \in AMessage /\ M(o).unused = message[o].unused
        /\ M(o).onData \subseteq message[o].onData /\ M(o).onEnd \subseteq message[o].onEnd
  BY <1>1 DEF Aborted, AMessage
<1>4. ASSUME NEW q \in DOMAIN got
      PROVE  G(q) \in Seq(Event)
             /\ \A i \in DOMAIN G(q) : i > Len(got[q]) => G(q)[i].k = Close
  <2> DEFINE T == {p \in DOMAIN objectOf : objectOf[p] = objectOf[q]}
  <2>1. got[q] \in Seq(Event) /\ Len(got[q]) \in Nat /\ DOMAIN got[q] = 1..Len(got[q])
    BY <1>1
  <2>2. T \in SUBSET (0..Len(objectOf)) /\ T # {} /\ Len(objectOf) \in Nat
    BY <1>1
  <2> HIDE DEF T
  <2>3. \E x \in T : \A y \in T : x >= y
    <3>1. PICK x \in T : \A y \in T : y <= x
      BY <2>2, BoundedHasMax
    <3>2. \A y \in T : x >= y
      BY <2>2, <3>1
    <3>3. QED  BY <3>2
  <2>4. Max(T) \in T
    BY <2>3 DEF Max
  <2>5. RequestOf(objectOf[q]) \in Nat
    BY <2>2, <2>4 DEF RequestOf, T
  <2>6. E(q) \in Event /\ E(q).k = Close
    BY <2>5, ConstantsAssumption DEF Event, Close
  <2> HIDE DEF E
  <2>7. /\ Append(got[q], E(q)) \in Seq(Event)
        /\ \A i \in DOMAIN Append(got[q], E(q)) :
             i > Len(got[q]) => Append(got[q], E(q))[i].k = Close
    BY <2>1, <2>6, AppendFacts
  <2>8. QED  BY <2>1, <2>7
<1> HIDE DEF G, M, aborted
<1>5. MessagesStay
  <2>1. message' \in [1..Len(message) -> AMessage]
    BY <1>1, <1>2, <1>3
  <2>2. \A n \in Nat : \A f \in [1..n -> AMessage] : f \in Seq(AMessage)
    OBVIOUS
  <2>3. message' \in Seq(AMessage)
    BY <1>1, <2>1, <2>2
  <2>4. QED  BY <1>2, <1>3, <2>3 DEF MessagesStay
<1>6. /\ got' \in Seq(Seq(Event)) /\ Len(got') = Len(got)
  <2>1. got' \in [1..Len(got) -> Seq(Event)]
    BY <1>1, <1>2, <1>4
  <2>2. \A n \in Nat : \A f \in [1..n -> Seq(Event)] : f \in Seq(Seq(Event)) /\ Len(f) = n
    OBVIOUS
  <2>3. QED  BY <1>1, <2>1, <2>2
<1>7. r \in AConnection /\ r.incomings = <<>> /\ r.state = "closed"
  <2>1. <<>> \in Seq(Nat) /\ None \in Nat
    BY DEF None
  <2>2. QED  BY <1>1, <2>1 DEF AConnection
<1> HIDE DEF r
<1>8. /\ conn' \in [Conns -> AConnection] /\ conn'[c] = r
      /\ \A k \in Conns : k # c => conn'[k] = conn[k]
  BY <1>1, <1>2, <1>7
<1>9. UsersInv'
  BY <1>2, <1>5, <1>7, <1>8, UsersStay
<1>10. PlacesInv'
  BY <1>2, <1>5, <1>7, <1>8 DEF IncomingInv, PlacesInv, MessagesStay
<1>11. IncomingTypes'
  BY <1>2, <1>5, <1>6, <1>8 DEF IncomingInv, IncomingTypes, MessagesStay
<1>12. Silent
  BY <1>2, <1>4 DEF Silent
<1>13. QED  BY <1>9, <1>10, <1>11, <1>12 DEF IncomingInv

(* pause() and resume() of message o. *)
LEMMA PausedKeeps ==
  ASSUME IncomingInv, NEW o \in DOMAIN message, NEW b \in BOOLEAN,
         message' = [message EXCEPT ![o].paused = b],
         UNCHANGED <<free, conn, running, objectOf, held, got>>,
         ticks' = ticks \/ ticks' = Append(ticks, o)
  PROVE  IncomingInv' /\ Silent
<1> DEFINE m == [message[o] EXCEPT !.paused = b]
<1>1. message[o] \in AMessage /\ o \in Nat /\ ticks \in Seq(Nat)
  BY ElementOfSeq DEF IncomingInv, IncomingTypes
<1>2. /\ m \in AMessage /\ m.unused = message[o].unused
      /\ m.onData = message[o].onData /\ m.onEnd = message[o].onEnd
  BY <1>1 DEF AMessage
<1>3. message' = [message EXCEPT ![o] = m]
  OBVIOUS
<1> HIDE DEF m
<1>4. MessagesStay
  BY <1>2, <1>3, OneMessageStays
<1>5. UsersInv'
  BY <1>4, UsersStay DEF IncomingInv, IncomingTypes
<1>6. /\ ticks' \in Seq(Nat)
      /\ \A i \in DOMAIN ticks' :
           (i \in DOMAIN ticks /\ ticks'[i] = ticks[i]) \/ ticks'[i] = o
  <2>1. CASE ticks' = ticks
    BY <1>1, <2>1
  <2>2. CASE ticks' = Append(ticks, o)
    BY <1>1, <2>2, AppendFacts
  <2>3. QED  BY <2>1, <2>2
<1>7. IncomingTypes' /\ PlacesInv'
  BY <1>4, <1>6 DEF IncomingInv, IncomingTypes, PlacesInv, MessagesStay
<1>8. Silent
  <2>1. \A p \in DOMAIN got : got[p] \in Seq(Event) /\ DOMAIN got[p] = 1..Len(got[p])
    BY DEF IncomingInv, IncomingTypes
  <2>2. QED  BY <2>1 DEF Silent
<1>9. QED  BY <1>5, <1>7, <1>8 DEF IncomingInv

LEMMA TickKeeps ==
  ASSUME IncomingInv, EmitPending \/ EmitPendingEnds
  PROVE  IncomingInv' /\ Silent
<1>1. UNCHANGED <<message, free, conn, objectOf, held, got>>
  BY DEF EmitPending, EmitPendingEnds
<1>2. UsersInv'
  BY <1>1 DEF IncomingInv, UsersInv, FreeIsUnused
<1>3. ticks \in Seq(Nat)
  BY DEF IncomingInv, IncomingTypes
<1>4. /\ ticks' \in Seq(Nat) /\ running' \in Nat
      /\ running' # None => running' \in DOMAIN message
      /\ \A i \in DOMAIN ticks' : ticks'[i] \in DOMAIN message
  <2>1. CASE EmitPendingEnds
    BY <1>3, <2>1 DEF EmitPendingEnds, IncomingInv, PlacesInv, None
  <2>2. CASE EmitPending
    <3>1. ticks # <<>> /\ running' = Head(ticks) /\ ticks' = Tail(ticks)
      BY <2>2 DEF EmitPending
    <3>2. /\ ticks' \in Seq(Nat) /\ running' = ticks[1] /\ 1 \in DOMAIN ticks
          /\ \A i \in DOMAIN ticks' : i + 1 \in DOMAIN ticks /\ ticks'[i] = ticks[i + 1]
      BY <1>3, <3>1
    <3>3. ticks[1] \in Nat
      BY <1>3, <3>2
    <3>4. QED  BY <3>2, <3>3 DEF IncomingInv, PlacesInv
  <2>3. QED  BY <2>1, <2>2
<1>5. IncomingTypes' /\ PlacesInv'
  BY <1>1, <1>4 DEF IncomingInv, IncomingTypes, PlacesInv
<1>6. Silent
  <2>1. \A p \in DOMAIN got : got[p] \in Seq(Event) /\ DOMAIN got[p] = 1..Len(got[p])
    BY DEF IncomingInv, IncomingTypes
  <2>2. QED  BY <1>1, <2>1 DEF Silent
<1>7. QED  BY <1>2, <1>5, <1>6 DEF IncomingInv

LEMMA IncomingInitial == IncomingInit => IncomingInv
<1> SUFFICES ASSUME IncomingInit  PROVE IncomingInv
  OBVIOUS
<1>1. /\ message = <<>> /\ free = <<>> /\ ticks = <<>> /\ objectOf = <<>> /\ held = {}
      /\ got = <<>> /\ running = None
      /\ conn = [c \in Conns |-> [state |-> "idle", incoming |-> None,
                                  request |-> None, k |-> 0, incomings |-> <<>>]]
  BY DEF IncomingInit
<1>2. /\ <<>> \in Seq(AMessage) /\ <<>> \in Seq(Nat) /\ <<>> \in Seq(Seq(Event))
      /\ DOMAIN <<>> = {} /\ Len(<<>>) = 0 /\ None \in Nat /\ 0 \in Nat
  BY DEF None
<1>3. conn \in [Conns -> AConnection]
      /\ \A c \in Conns : conn[c].incomings = <<>> /\ conn[c].state = "idle"
  BY <1>1, <1>2 DEF AConnection
<1>4. \A c \in Conns : DOMAIN conn[c].incomings = {}
  BY <1>2, <1>3
<1>5. DOMAIN message = {} /\ DOMAIN free = {} /\ DOMAIN objectOf = {} /\ DOMAIN ticks = {}
  BY <1>1, <1>2
<1>6. IncomingTypes
  <2>1. held \subseteq DOMAIN objectOf
    BY <1>1
  <2>2. running \in Nat /\ Len(got) = Len(objectOf)
    BY <1>1, <1>2
  <2>3. QED  BY <1>1, <1>2, <1>3, <2>1, <2>2 DEF IncomingTypes
<1>7. FreeIsUnused
  BY <1>5 DEF FreeIsUnused
<1>8. PlacesInv
  BY <1>1, <1>3, <1>5 DEF PlacesInv
<1>9. QED  BY <1>1, <1>4, <1>5, <1>6, <1>7, <1>8 DEF IncomingInv, UsersInv

LEMMA IncomingKeeps ==
  ASSUME IncomingInv, IncomingNext
  PROVE  IncomingInv' /\ Silent
<1>1. ASSUME NEW q \in held, Pause(q)
      PROVE  IncomingInv' /\ Silent
  <2>1. objectOf[q] \in DOMAIN message
    BY DEF IncomingInv, UsersInv, IncomingTypes
  <2>2. /\ message' = [message EXCEPT ![objectOf[q]].paused = TRUE]
        /\ UNCHANGED <<free, conn, ticks, running, objectOf, held, got>>
    BY <1>1 DEF Pause
  <2>3. QED  BY <2>1, <2>2, PausedKeeps
<1>2. ASSUME NEW q \in held, Resume(q)
      PROVE  IncomingInv' /\ Silent
  <2>1. objectOf[q] \in DOMAIN message
    BY DEF IncomingInv, UsersInv, IncomingTypes
  <2>2. /\ message' = [message EXCEPT ![objectOf[q]].paused = FALSE]
        /\ UNCHANGED <<free, conn, running, objectOf, held, got>>
        /\ ticks' = ticks \/ ticks' = Append(ticks, objectOf[q])
    BY <1>2 DEF Resume
  <2>3. QED  BY <2>1, <2>2, PausedKeeps
<1>3. ASSUME NEW q \in held, Drop(q)
      PROVE  IncomingInv' /\ Silent
  BY <1>3, DropKeeps
<1>4. ASSUME NEW c \in Conns,
             \/ HeadersComplete(c) \/ OnBody(c) \/ OnMessageComplete(c)
             \/ SocketOnClose(c) \/ Answer(c)
      PROVE  IncomingInv' /\ Silent
  BY <1>4, HeadersCompleteKeeps, OnBodyKeeps, OnMessageCompleteKeeps,
     SocketOnCloseKeeps, AnswerKeeps
<1>5. CASE EmitPending \/ EmitNext \/ EmitPendingEnds
  BY <1>5, TickKeeps, EmitNextKeeps
<1>6. QED  BY <1>1, <1>2, <1>3, <1>4, <1>5 DEF IncomingNext

LEMMA IncomingStays ==
  ASSUME IncomingInv, UNCHANGED incomingVars
  PROVE  IncomingInv'
BY DEF IncomingInv, incomingVars, IncomingTypes, UsersInv, PlacesInv, FreeIsUnused

(* The FreeList, for any connections, requests, chunks and limit of the    *)
(* list: a message in it is there once, and no request that is held or not *)
(* answered uses it (OutgoingOnFinish, ~ServerRequest, free_list.h).       *)
THEOREM RecycledIsUnused == IncomingSpec => []FreeIsUnused
<1>1. IncomingInv /\ [IncomingNext]_incomingVars => IncomingInv'
  BY IncomingKeeps, IncomingStays
<1>2. IncomingInv => FreeIsUnused
  BY DEF IncomingInv, UsersInv
<1>3. QED  BY <1>1, <1>2, IncomingInitial, PTL DEF IncomingSpec

(* No listener gets data or the end while its message is paused, whatever  *)
(* the parser and the ticks of EmitPending do (http/incoming_message.h).   *)
THEOREM PausedIsSilent == IncomingSpec => SilentWhilePaused
<1>1. IncomingInv /\ [IncomingNext]_incomingVars => IncomingInv'
  BY IncomingKeeps, IncomingStays
<1>2. IncomingInv /\ [IncomingNext]_incomingVars =>
        [\A q \in DOMAIN got :
           (/\ message[objectOf[q]].paused
            /\ \A p \in DOMAIN objectOf : objectOf[p] = objectOf[q] => p <= q)
           => \A i \in DOMAIN got'[q] : i > Len(got[q]) => got'[q][i].k = Close]_incomingVars
  BY IncomingKeeps DEF Silent
<1>3. QED  BY <1>1, <1>2, IncomingInitial, PTL DEF IncomingSpec, SilentWhilePaused


-----------------------------------------------------------------------------
(* What the listeners of a request are told.                               *)

Latest(q) == \A p \in DOMAIN objectOf : objectOf[p] = objectOf[q] => p <= q
Parsed(q) == \E c \in Conns : conn[c].state = "body" /\ conn[c].request = q

(* The last part of request q that its parser has handed on, if k. *)
IsFed(q, k) ==
  IF Parsed(q)
  THEN \E c \in Conns : conn[c].state = "body" /\ conn[c].request = q /\ conn[c].k = k
  ELSE k = EOF

(* What request q has got: parts 1, 2, ... of it, and then "close" only.   *)
GotOk(g, q) ==
  /\ \A i \in DOMAIN g : g[i].k # Close => g[i].of = q /\ g[i].k = i /\ i <= EOF
  /\ \A i, j \in DOMAIN g : i < j /\ g[i].k = Close => g[j].k = Close

(* Or, of a request that lost a chunk: the parts before it, and the end.   *)
GotCut(g, q) ==
  \E n \in Nat :
    /\ n + 1 \in DOMAIN g
    /\ \A i \in DOMAIN g :
         /\ i <= n => g[i].of = q /\ g[i].k = i /\ g[i].k \notin {EOF, Close}
         /\ i = n + 1 => g[i].k = EOF
         /\ i > n + 1 => g[i].k = Close

Told(q) == GotOk(got[q], q) \/ (q \in cut /\ GotCut(got[q], q))

(* No request lost a chunk in the message o. *)
Clean(o) == \A p \in cut : objectOf[p] # o

(* The listeners of q are there, have got g, and m has what is left of the *)
(* first k parts of q pending.                                             *)
ListensTo(q, m, g, k) ==
  /\ ~m.endEmitted
  /\ \A i \in DOMAIN g : g[i].k \notin {EOF, Close}
  /\ \A i \in DOMAIN m.pendings : m.pendings[i].of = q /\ m.pendings[i].k = Len(g) + i
  /\ Len(g) + Len(m.pendings) = k

GotInv == \A q \in DOMAIN got : ~Spoilt(q) => Told(q)

(* A request that lost a chunk is not listened for any more. *)
ListenInv ==
  /\ \A o \in DOMAIN message : message[o].onEnd = message[o].onData
  /\ \A q \in DOMAIN objectOf :
       q \in message[objectOf[q]].onData /\ ~Spoilt(q) => Clean(objectOf[q])
  /\ \A q \in DOMAIN objectOf :
       q \in message[objectOf[q]].onData /\ Clean(objectOf[q]) =>
         /\ Latest(q)
         /\ \E k \in 0..EOF : IsFed(q, k) /\ ListensTo(q, message[objectOf[q]], got[q], k)

(* A request has got its end before another has its message. *)
EndInv ==
  \A q \in DOMAIN objectOf : Clean(objectOf[q]) =>
    /\ ~Latest(q) => Ended(q)
    /\ q \in held => Latest(q)
    /\ q \in held /\ message[objectOf[q]].unused => Ended(q)
    /\ \A i \in DOMAIN free : free[i] = objectOf[q] => Ended(q)

ParseInv ==
  /\ \A c \in Conns : conn[c].state = "body" =>
       /\ conn[c].request \in DOMAIN objectOf
       /\ objectOf[conn[c].request] = conn[c].incoming
       /\ conn[c].k \in 0..Chunks
       /\ Clean(conn[c].incoming) =>
            /\ conn[c].request \in message[conn[c].incoming].onData
            /\ \E j \in DOMAIN conn[c].incomings : conn[c].incomings[j] = conn[c].incoming
  /\ \A c, d \in Conns :
       conn[c].state = "body" /\ conn[d].state = "body"
         /\ conn[c].request = conn[d].request => c = d

OnItsWay(o) == running = o \/ \E i \in DOMAIN ticks : ticks[i] = o
PendingInv ==
  \A o \in DOMAIN message :
    ~message[o].paused /\ message[o].pendings # <<>> => OnItsWay(o)

CutInv ==
  /\ cut \subseteq DOMAIN objectOf
  /\ \A o \in DOMAIN message : \E q \in DOMAIN objectOf : objectOf[q] = o

DataInv == GotInv /\ ListenInv /\ EndInv /\ ParseInv /\ PendingInv /\ CutInv

LEMMA EOFIsNat == Chunks \in Nat /\ EOF = Chunks + 1 /\ EOF \in Nat /\ Close = EOF + 1
BY ConstantsAssumption DEF EOF, Close

(* More is pending. *)
LEMMA Appends ==
  ASSUME NEW m \in AMessage, NEW g \in Seq(Event), NEW q \in Nat, NEW k \in Nat,
         ListensTo(q, m, g, k)
  PROVE  ListensTo(q, [m EXCEPT !.pendings = Append(@, [of |-> q, k |-> k + 1])], g, k + 1)
<1> DEFINE p == m.pendings
           e == [of |-> q, k |-> k + 1]
           l == Append(p, e)
           n == [m EXCEPT !.pendings = l]
<1>1. p \in Seq(Event) /\ e \in Event /\ e.of = q /\ e.k = k + 1
  BY DEF AMessage, Event
<1> HIDE DEF e
<1>2. /\ Len(l) = Len(p) + 1 /\ DOMAIN l = DOMAIN p \cup {Len(p) + 1}
      /\ l[Len(p) + 1] = e /\ \A i \in DOMAIN p : l[i] = p[i]
  BY <1>1, AppendFacts
<1>3. n.pendings = l /\ n.endEmitted = m.endEmitted
  BY DEF AMessage
<1>4. /\ ~m.endEmitted /\ \A i \in DOMAIN g : g[i].k \notin {EOF, Close}
      /\ \A i \in DOMAIN p : p[i].of = q /\ p[i].k = Len(g) + i
      /\ Len(g) + Len(p) = k /\ Len(g) \in Nat /\ Len(p) \in Nat
  BY <1>1 DEF ListensTo
<1>5. ASSUME NEW i \in DOMAIN l  PROVE l[i].of = q /\ l[i].k = Len(g) + i
  <2>1. CASE i \in DOMAIN p
    BY <2>1, <1>2, <1>4
  <2>2. CASE i = Len(p) + 1
    <3>1. Len(g) + (Len(p) + 1) = k + 1
      BY <1>4
    <3>2. QED  BY <2>2, <3>1, <1>1, <1>2
  <2>3. QED  BY <2>1, <2>2, <1>2
<1> HIDE DEF l, n
<1>6. Len(g) + Len(l) = k + 1
  BY <1>2, <1>4
<1>7. ListensTo(q, n, g, k + 1)
  BY <1>3, <1>4, <1>5, <1>6 DEF ListensTo
<1>8. QED  BY <1>7 DEF n, l, e

(* One part more is emitted. *)
LEMMA GotMore ==
  ASSUME NEW g \in Seq(Event), NEW q \in Nat, NEW e \in Event, GotOk(g, q),
         e.of = q, e.k = Len(g) + 1, e.k <= EOF, \A i \in DOMAIN g : g[i].k # Close
  PROVE  GotOk(Append(g, e), q)
<1> DEFINE h == Append(g, e)
<1>1. /\ Len(h) = Len(g) + 1 /\ DOMAIN h = DOMAIN g \cup {Len(g) + 1}
      /\ h[Len(g) + 1] = e /\ \A i \in DOMAIN g : h[i] = g[i]
  BY AppendFacts
<1>2. DOMAIN g = 1..Len(g) /\ Len(g) \in Nat
  OBVIOUS
<1> HIDE DEF h
<1>3. \A i \in DOMAIN h : h[i].k # Close => h[i].of = q /\ h[i].k = i /\ i <= EOF
  BY <1>1 DEF GotOk
<1>4. ASSUME NEW i \in DOMAIN h, NEW j \in DOMAIN h, i < j, h[i].k = Close
      PROVE  FALSE
  <2>1. i \in DOMAIN g
    BY <1>1, <1>2, <1>4
  <2>2. QED  BY <2>1, <1>1, <1>4
<1>5. GotOk(h, q)
  BY <1>3, <1>4 DEF GotOk
<1>6. QED  BY <1>5 DEF h

LEMMA Shifted ==
  ASSUME NEW a \in Nat, NEW b \in Nat, NEW c \in Nat
  PROVE  a + (b + 1) = (a + 1) + b /\ (a + (b + 1) = c => (a + 1) + b = c)
OBVIOUS

LEMMA Emits ==
  ASSUME NEW m \in AMessage, NEW g \in Seq(Event), NEW q \in Nat, NEW k \in 0..EOF,
         ListensTo(q, m, g, k), GotOk(g, q), m.pendings # <<>>
  PROVE  LET e == Head(m.pendings)
             n == [m EXCEPT !.pendings = Tail(@)]
         IN  /\ e \in Event /\ GotOk(Append(g, e), q) /\ e.k \in 1..k
             /\ e.k # EOF => ListensTo(q, n, Append(g, e), k)
             /\ e.k = EOF => n.pendings = <<>>
<1> DEFINE p == m.pendings
           e == Head(p)
           l == Tail(p)
           n == [m EXCEPT !.pendings = l]
           h == Append(g, e)
<1>1. p \in Seq(Event) /\ p # <<>>
  BY DEF AMessage
<1> HIDE DEF p
<1>2. /\ e \in Event /\ e = p[1] /\ 1 \in DOMAIN p /\ l \in Seq(Event)
      /\ Len(l) + 1 = Len(p) /\ Len(l) \in Nat /\ Len(p) \in Nat
      /\ \A i \in DOMAIN l : i + 1 \in DOMAIN p /\ l[i] = p[i + 1] /\ i \in Nat
  BY <1>1
<1>3. n.pendings = l /\ n.endEmitted = m.endEmitted
  BY DEF AMessage
<1>4. /\ ~m.endEmitted /\ \A i \in DOMAIN g : g[i].k \notin {EOF, Close}
      /\ \A i \in DOMAIN p : p[i].of = q /\ p[i].k = Len(g) + i
      /\ Len(g) + Len(p) = k /\ Len(g) \in Nat
  BY <1>1 DEF ListensTo, p
<1> HIDE DEF e, l
<1>5. e.of = q /\ e.k = Len(g) + 1 /\ e.k \in 1..k
  <2>1. e.of = q /\ e.k = Len(g) + 1
    BY <1>2, <1>4
  <2>2. Len(g) + 1 \in 1..k
    BY <1>2, <1>4, EOFIsNat
  <2>3. QED  BY <2>1, <2>2
<1>6. GotOk(h, q)
  <2>1. e.k <= EOF
    BY <1>5, EOFIsNat
  <2>2. QED  BY <2>1, <1>2, <1>4, <1>5, GotMore
<1>7. /\ Len(h) = Len(g) + 1 /\ DOMAIN h = DOMAIN g \cup {Len(g) + 1}
      /\ h[Len(g) + 1] = e /\ \A i \in DOMAIN g : h[i] = g[i]
  BY <1>2, AppendFacts
<1> HIDE DEF h, n
<1>8. ASSUME e.k # EOF  PROVE ListensTo(q, n, h, k)
  <2>1. \A i \in DOMAIN h : h[i].k \notin {EOF, Close}
    <3>1. e.k # Close
      BY <1>5, EOFIsNat
    <3>2. QED  BY <1>4, <1>7, <1>8, <3>1
  <2>2. ASSUME NEW i \in DOMAIN l  PROVE l[i].of = q /\ l[i].k = Len(h) + i
    <3>1. l[i].of = q /\ l[i].k = Len(g) + (i + 1) /\ i \in Nat
      BY <1>2, <1>4
    <3>2. Len(g) + (i + 1) = Len(h) + i
      BY <3>1, <1>4, <1>7, Shifted
    <3>3. QED  BY <3>1, <3>2
  <2>3. Len(h) + Len(l) = k
    <3>1. Len(h) = Len(g) + 1 /\ Len(p) = Len(l) + 1 /\ Len(g) + Len(p) = k
      BY <1>2, <1>4, <1>7
    <3>2. Len(g) \in Nat /\ Len(l) \in Nat /\ k \in Nat
      BY <1>2, <1>4, EOFIsNat
    <3>3. QED  BY <3>1, <3>2, Shifted
  <2>4. QED  BY <1>3, <1>4, <2>1, <2>2, <2>3 DEF ListensTo
<1>9. ASSUME e.k = EOF  PROVE n.pendings = <<>>
  <2>1. Len(l) = 0
    BY <1>2, <1>4, <1>5, <1>9, EOFIsNat
  <2>2. QED  BY <2>1, <1>2, <1>3
<1>10. QED  BY <1>2, <1>5, <1>6, <1>8, <1>9 DEF n, h, e, l, p

(* A message receives the next part of its request. *)
LEMMA Receives ==
  ASSUME NEW m \in AMessage, NEW g \in Seq(Event), NEW q \in Nat, NEW k \in 0..Chunks,
         NEW e \in Event, e = [of |-> q, k |-> k + 1],
         ListensTo(q, m, g, k), GotOk(g, q), m.onEnd = m.onData, q \in m.onData
  PROVE  LET r == Receive(m, e)
         IN  /\ r.msg.onEnd = r.msg.onData /\ r.to \subseteq m.onData
             /\ r.msg.onData \subseteq m.onData
             /\ r.msg.paused = m.paused
             /\ q \in r.to => GotOk(Append(g, e), q)
             /\ q \in r.msg.onData =>
                  ListensTo(q, r.msg, IF q \in r.to THEN Append(g, e) ELSE g, k + 1)
             /\ r.msg.pendings # <<>> => m.paused \/ m.pendings # <<>>
             /\ k + 1 # EOF => r.msg.onData = m.onData
<1> DEFINE r == Receive(m, e)
           a == [m EXCEPT !.pendings = Append(@, e)]
<1>1. k \in Nat /\ k + 1 \in 0..EOF /\ e.k = k + 1 /\ e.of = q
  BY EOFIsNat
<1>2. ListensTo(q, a, g, k + 1)
  BY <1>1, Appends
<1>3. /\ a.pendings = Append(m.pendings, e) /\ a.onEnd = m.onEnd /\ a.onData = m.onData
      /\ a.paused = m.paused /\ a.pendings # <<>> /\ a \in AMessage
  <2> DEFINE p == m.pendings
             l == Append(m.pendings, e)
  <2>0. p \in Seq(Event)
    BY DEF AMessage
  <2> HIDE DEF p
  <2>1. Append(p, e) \in Seq(Event) /\ Append(p, e) # <<>>
    BY <2>0
  <2>2. a = [m EXCEPT !.pendings = l]
    OBVIOUS
  <2> HIDE DEF l, a
  <2>3. a.pendings = l /\ a.onEnd = m.onEnd /\ a.onData = m.onData /\ a.paused = m.paused
        /\ a \in AMessage
    <3>1. l \in Seq(Event)
      BY <2>1 DEF l, p
    <3>2. QED  BY <2>2, <3>1 DEF AMessage
  <2>4. QED  BY <2>1, <2>3 DEF l, p
<1>4. CASE m.paused \/ m.pendings # <<>>
  <2>1. r = [msg |-> a, to |-> {}]
    BY <1>4 DEF Receive
  <2> HIDE DEF a
  <2>2. r.msg = a /\ r.to = {}
    BY <2>1
  <2> HIDE DEF r
  <2>3. QED  BY <1>2, <1>3, <1>4, <2>2 DEF r
<1>5. CASE ~(m.paused \/ m.pendings # <<>>)
  <2>1. r = EmitTo(m, e) /\ m.pendings = <<>> /\ ~m.endEmitted
    BY <1>5 DEF Receive, ListensTo
  <2>2. Head(a.pendings) = e /\ Tail(a.pendings) = <<>>
    BY <1>3, <2>1
  <2>3. [a EXCEPT !.pendings = Tail(@)] = m
    <3>1. [a EXCEPT !.pendings = Tail(@)] = [a EXCEPT !.pendings = <<>>]
      BY <2>2
    <3>2. [a EXCEPT !.pendings = <<>>] = m
      BY <2>1 DEF AMessage
    <3>3. QED  BY <3>1, <3>2
  <2> HIDE DEF a
  <2>4. /\ GotOk(Append(g, e), q)
        /\ e.k # EOF => ListensTo(q, m, Append(g, e), k + 1)
    BY <1>1, <1>2, <1>3, <2>2, <2>3, Emits
  <2>5. CASE e.k # EOF
    <3>1. r = [msg |-> m, to |-> m.onData]
      BY <2>1, <2>5 DEF EmitTo
    <3>2. r.msg = m /\ r.to = m.onData
      BY <3>1
    <3> HIDE DEF r
    <3>3. QED  BY <2>1, <2>4, <2>5, <3>2 DEF r
  <2>6. CASE e.k = EOF
    <3> DEFINE n == [m EXCEPT !.endEmitted = TRUE, !.onData = {}, !.onEnd = {}]
    <3>1. r = [msg |-> n, to |-> m.onEnd]
      BY <2>1, <2>6 DEF EmitTo
    <3>2. /\ n.onData = {} /\ n.onEnd = {} /\ n.paused = m.paused
          /\ n.pendings = m.pendings
      BY DEF AMessage
    <3> HIDE DEF n
    <3>3. r.msg = n /\ r.to = m.onData
      BY <3>1
    <3> HIDE DEF r
    <3>4. QED  BY <1>1, <2>1, <2>4, <2>6, <3>2, <3>3 DEF r
  <2>7. QED  BY <2>5, <2>6
<1>6. QED  BY <1>4, <1>5

(* What was got stays got. *)
Longer ==
  \A q \in DOMAIN got :
    /\ q \in DOMAIN got'
    /\ \A i \in DOMAIN got[q] : i \in DOMAIN got'[q] /\ got'[q][i] = got[q][i]

(* Nothing is lost: what is spoilt and clean stays so. *)
LEMMA CutStays ==
  ASSUME cut' = cut, objectOf' = objectOf
  PROVE  /\ \A q : Spoilt(q)' <=> Spoilt(q)
         /\ \A o : Clean(o)' <=> Clean(o)
         /\ \A q : Latest(q)' <=> Latest(q)
BY DEF Spoilt, Clean, Latest

LEMMA CleanIsNotSpoilt ==
  ASSUME NEW q, Clean(objectOf[q])
  PROVE  ~Spoilt(q)
BY DEF Clean, Spoilt

LEMMA EndStays ==
  ASSUME IncomingInv, EndInv, Longer, objectOf' = objectOf, free' = free,
         held' \subseteq held,
         \A q \in held : message'[objectOf[q]].unused => message[objectOf[q]].unused,
         \A q \in DOMAIN objectOf : Clean(objectOf[q])' => Clean(objectOf[q])
  PROVE  EndInv'
<1>1. DOMAIN got = DOMAIN objectOf /\ held \subseteq DOMAIN objectOf
  BY DEF IncomingInv, IncomingTypes
<1>2. \A q \in DOMAIN objectOf : Ended(q) => Ended(q)'
  BY <1>1 DEF Longer, Ended, EOF
<1>3. \A q \in DOMAIN objectOf : Latest(q)' <=> Latest(q)
  BY DEF Latest
<1>4. QED  BY <1>1, <1>2, <1>3 DEF EndInv

LEMMA GetsEach ==
  ASSUME IncomingTypes, NEW to, NEW e \in Event, got' = Gets(to, e)
  PROVE  /\ DOMAIN got' = DOMAIN got /\ Longer
         /\ \A q \in DOMAIN got :
              /\ got[q] \in Seq(Event)
              /\ got'[q] = IF q \in to THEN Append(got[q], e) ELSE got[q]
<1>1. got \in Seq(Seq(Event))
  BY DEF IncomingTypes
<1>2. \A q \in DOMAIN got : got[q] \in Seq(Event)
  BY <1>1
<1>3. /\ DOMAIN got' = DOMAIN got
      /\ \A q \in DOMAIN got : got'[q] = IF q \in to THEN Append(got[q], e) ELSE got[q]
  BY DEF Gets
<1>4. ASSUME NEW q \in DOMAIN got, NEW i \in DOMAIN got[q]
      PROVE  i \in DOMAIN got'[q] /\ got'[q][i] = got[q][i]
  <2>1. CASE q \in to
    <3>1. DOMAIN Append(got[q], e) = DOMAIN got[q] \cup {Len(got[q]) + 1}
          /\ \A j \in DOMAIN got[q] : Append(got[q], e)[j] = got[q][j]
      BY <1>2, AppendFacts
    <3>2. QED  BY <2>1, <3>1, <1>3
  <2>2. CASE q \notin to
    BY <2>2, <1>3
  <2>3. QED  BY <2>1, <2>2
<1>5. Longer
  BY <1>3, <1>4 DEF Longer
<1>6. QED  BY <1>2, <1>3, <1>5

(* The message o changes, and tells the requests in to of e. *)
LEMMA EmissionKeeps ==
  ASSUME IncomingInv, DataInv, NEW o \in DOMAIN message, NEW n \in AMessage,
         NEW e \in Event, NEW to,
         message' = [message EXCEPT ![o] = n], got' = Gets(to, e),
         UNCHANGED <<objectOf, free, held, cut>>, Clean(o),
         n.unused = message[o].unused, n.onEnd = n.onData,
         n.onData \subseteq message[o].onData, to \subseteq message[o].onData,
         \A q \in to : GotOk(Append(got[q], e), q),
         \A q \in n.onData : \E k \in 0..EOF :
           IsFed(q, k)' /\ ListensTo(q, n, IF q \in to THEN Append(got[q], e) ELSE got[q], k),
         \A q \in DOMAIN objectOf : objectOf[q] # o =>
           \A k \in 0..EOF : IsFed(q, k) => IsFed(q, k)'
  PROVE  GotInv' /\ ListenInv' /\ EndInv'
<1>0. /\ IncomingTypes /\ GotInv /\ ListenInv /\ EndInv
      /\ DOMAIN got = DOMAIN objectOf /\ objectOf' = objectOf
      /\ \A q \in DOMAIN objectOf : objectOf[q] \in DOMAIN message
      /\ \A q \in message[o].onData : q \in DOMAIN objectOf /\ objectOf[q] = o
  BY DEF IncomingInv, IncomingTypes, DataInv, UsersInv
<1>1. /\ DOMAIN got' = DOMAIN got /\ Longer
      /\ \A q \in DOMAIN got :
           got'[q] = IF q \in to THEN Append(got[q], e) ELSE got[q]
  BY <1>0, GetsEach
<1>c. /\ \A q : Spoilt(q)' <=> Spoilt(q)
      /\ \A p : Clean(p)' <=> Clean(p)
      /\ \A q : Latest(q)' <=> Latest(q)
  BY <1>0, CutStays
<1>2. GotInv'
  <2>1. ASSUME NEW q \in DOMAIN got, ~Spoilt(q)  PROVE Told(q)'
    <3>1. CASE q \in to
      <4>1. GotOk(got'[q], q)
        BY <1>1, <3>1
      <4>2. QED  BY <4>1 DEF Told, GotOk, EOF, Close
    <3>2. CASE q \notin to
      BY <1>0, <1>1, <2>1, <3>2 DEF GotInv, Told, GotOk, GotCut, EOF, Close
    <3>3. QED  BY <3>1, <3>2
  <2>2. QED  BY <2>1, <1>1, <1>c DEF GotInv
<1>3. /\ DOMAIN message' = DOMAIN message
      /\ \A p \in DOMAIN message : message'[p] = IF p = o THEN n ELSE message[p]
  OBVIOUS
<1>4. \A p \in DOMAIN message' : message'[p].onEnd = message'[p].onData
  BY <1>0, <1>3 DEF ListenInv
<1>5. ASSUME NEW q \in DOMAIN objectOf, q \in message'[objectOf[q]].onData,
             Clean(objectOf[q])
      PROVE  /\ Latest(q)'
             /\ \E k \in 0..EOF :
                  IsFed(q, k)' /\ ListensTo(q, message'[objectOf[q]], got'[q], k)
  <2>1. q \in message[objectOf[q]].onData
    BY <1>0, <1>3, <1>5
  <2>2. Latest(q)'
    BY <2>1, <1>0, <1>5, <1>c DEF ListenInv
  <2>3. CASE objectOf[q] = o
    <3>1. PICK k \in 0..EOF :
            IsFed(q, k)' /\ ListensTo(q, n, IF q \in to THEN Append(got[q], e) ELSE got[q], k)
      BY <1>3, <1>5, <2>3
    <3>2. message'[objectOf[q]] = n
          /\ got'[q] = IF q \in to THEN Append(got[q], e) ELSE got[q]
      BY <1>0, <1>1, <1>3, <2>3
    <3>3. QED  BY <2>2, <3>1, <3>2
  <2>4. CASE objectOf[q] # o
    <3>1. PICK k \in 0..EOF : IsFed(q, k) /\ ListensTo(q, message[objectOf[q]], got[q], k)
      BY <2>1, <1>0, <1>5 DEF ListenInv
    <3>2. IsFed(q, k)'
      BY <3>1, <2>4
    <3>3. q \notin to
      BY <1>0, <2>4
    <3>4. message'[objectOf[q]] = message[objectOf[q]] /\ got'[q] = got[q]
      BY <1>0, <1>1, <1>3, <2>4, <3>3
    <3>5. QED  BY <2>2, <3>1, <3>2, <3>4
  <2>5. QED  BY <2>3, <2>4
<1>6. ListenInv'
  <2>1. ASSUME NEW q \in DOMAIN objectOf, q \in message'[objectOf[q]].onData, ~Spoilt(q)
        PROVE  Clean(objectOf[q])
    BY <1>0, <1>3, <2>1 DEF ListenInv
  <2>2. QED  BY <1>0, <1>4, <1>5, <1>c, <2>1 DEF ListenInv, EOF
<1>7. EndInv'
  <2>1. \A q \in held : message'[objectOf[q]].unused => message[objectOf[q]].unused
    BY <1>0, <1>3 DEF IncomingTypes
  <2>2. QED  BY <2>1, <1>0, <1>1, <1>c, EndStays
<1>8. QED  BY <1>2, <1>6, <1>7

LEMMA OneListens ==
  ASSUME IncomingInv, DataInv, NEW o \in DOMAIN message, NEW q \in message[o].onData,
         Clean(o)
  PROVE  /\ message[o].onData = {q} /\ message[o].onEnd = {q}
         /\ q \in DOMAIN objectOf /\ objectOf[q] = o /\ q \in DOMAIN got /\ q \in Nat
         /\ got[q] \in Seq(Event) /\ GotOk(got[q], q)
         /\ \E k \in 0..EOF : IsFed(q, k) /\ ListensTo(q, message[o], got[q], k)
<1>1. \A p \in message[o].onData : p \in DOMAIN objectOf /\ objectOf[p] = o
  BY DEF IncomingInv, UsersInv
<1>2. /\ DOMAIN got = DOMAIN objectOf /\ got \in Seq(Seq(Event))
      /\ DOMAIN objectOf = 1..Len(objectOf) /\ Len(objectOf) \in Nat
  BY DEF IncomingInv, IncomingTypes
<1>3. q \in DOMAIN got /\ q \in Nat /\ got[q] \in Seq(Event) /\ GotOk(got[q], q)
  <2>1. Clean(objectOf[q]) /\ q \notin cut
    BY <1>1 DEF Clean
  <2>2. QED  BY <1>1, <1>2, <2>1, CleanIsNotSpoilt DEF DataInv, GotInv, Told
<1>4. \A p \in message[o].onData : Latest(p)
  BY <1>1 DEF DataInv, ListenInv
<1>5. ASSUME NEW p \in message[o].onData  PROVE p = q
  <2>1. p <= q /\ q <= p
    BY <1>1, <1>4 DEF Latest
  <2>2. p \in Nat
    BY <1>1, <1>2
  <2>3. QED  BY <2>1, <2>2, <1>3
<1>6. message[o].onData = {q} /\ message[o].onEnd = message[o].onData
  BY <1>5 DEF DataInv, ListenInv
<1>7. \E k \in 0..EOF : IsFed(q, k) /\ ListensTo(q, message[o], got[q], k)
  BY <1>1 DEF DataInv, ListenInv
<1>8. QED  BY <1>1, <1>3, <1>6, <1>7

LEMMA CutKeeps ==
  ASSUME CutInv, cut' = cut, objectOf' = objectOf, DOMAIN message' = DOMAIN message
  PROVE  CutInv'
BY DEF CutInv

(* The message o changes in which a chunk is, or was, lost.                *)
LEMMA AwayKeeps ==
  ASSUME IncomingInv, DataInv, NEW o \in DOMAIN message, NEW n \in AMessage,
         NEW e \in Event, NEW to,
         message' = [message EXCEPT ![o] = n], got' = Gets(to, e),
         UNCHANGED <<objectOf, free, held>>, cut \subseteq cut',
         \A p \in cut' : p \in cut \/ objectOf[p] = o,
         \E p \in cut' : objectOf[p] = o,
         n.unused = message[o].unused, n.onEnd = n.onData,
         n.onData \subseteq message[o].onData, to \subseteq message[o].onData,
         \A q \in to : ~Spoilt(q)' => Told(q)',
         \A q \in n.onData : Spoilt(q)',
         \A q \in DOMAIN objectOf : objectOf[q] # o =>
           \A k \in 0..EOF : IsFed(q, k) => IsFed(q, k)'
  PROVE  GotInv' /\ ListenInv' /\ EndInv'
<1>0. /\ IncomingTypes /\ GotInv /\ ListenInv /\ EndInv
      /\ DOMAIN got = DOMAIN objectOf /\ objectOf' = objectOf
      /\ \A q \in DOMAIN objectOf : objectOf[q] \in DOMAIN message
      /\ \A q \in message[o].onData : q \in DOMAIN objectOf /\ objectOf[q] = o
  BY DEF IncomingInv, IncomingTypes, DataInv, UsersInv
<1>1. /\ DOMAIN got' = DOMAIN got /\ Longer
      /\ \A q \in DOMAIN got :
           got'[q] = IF q \in to THEN Append(got[q], e) ELSE got[q]
  BY <1>0, GetsEach
<1>2. /\ \A q : Spoilt(q) => Spoilt(q)'
      /\ \A q \in DOMAIN objectOf : objectOf[q] # o => (Spoilt(q)' <=> Spoilt(q))
      /\ \A p : Clean(p)' <=> p # o /\ Clean(p)
      /\ \A q : Latest(q)' <=> Latest(q)
  BY <1>0 DEF Spoilt, Clean, Latest
<1>3. /\ DOMAIN message' = DOMAIN message
      /\ \A p \in DOMAIN message : message'[p] = IF p = o THEN n ELSE message[p]
  OBVIOUS
<1>4. GotInv'
  <2>1. ASSUME NEW q \in DOMAIN got, ~Spoilt(q)', q \notin to  PROVE Told(q)'
    BY <1>0, <1>1, <1>2, <2>1 DEF GotInv, Told, GotOk, GotCut, EOF, Close
  <2>2. QED  BY <1>1, <2>1 DEF GotInv
<1>5. ASSUME NEW q \in DOMAIN objectOf, q \in message'[objectOf[q]].onData
      PROVE  /\ ~Spoilt(q)' => Clean(objectOf[q])'
             /\ Clean(objectOf[q])' =>
                  /\ Latest(q)'
                  /\ \E k \in 0..EOF :
                       IsFed(q, k)' /\ ListensTo(q, message'[objectOf[q]], got'[q], k)
  <2>1. CASE objectOf[q] = o
    BY <1>2, <1>3, <1>5, <2>1
  <2>2. CASE objectOf[q] # o
    <3>1. /\ message'[objectOf[q]] = message[objectOf[q]]
          /\ q \in message[objectOf[q]].onData /\ q \notin to /\ got'[q] = got[q]
      BY <1>0, <1>1, <1>3, <1>5, <2>2
    <3>2. ~Spoilt(q)' => Clean(objectOf[q])'
      BY <1>0, <1>2, <2>2, <3>1 DEF ListenInv
    <3>3. ASSUME Clean(objectOf[q])
          PROVE  /\ Latest(q)'
                 /\ \E k \in 0..EOF :
                      IsFed(q, k)' /\ ListensTo(q, message'[objectOf[q]], got'[q], k)
      <4>1. PICK k \in 0..EOF : IsFed(q, k) /\ ListensTo(q, message[objectOf[q]], got[q], k)
        BY <1>0, <3>1, <3>3 DEF ListenInv
      <4>2. IsFed(q, k)'
        BY <2>2, <4>1
      <4>3. Latest(q)
        BY <1>0, <3>1, <3>3 DEF ListenInv
      <4>4. QED  BY <1>2, <3>1, <4>1, <4>2, <4>3
    <3>4. QED  BY <1>2, <3>2, <3>3
  <2>3. QED  BY <2>1, <2>2
<1>6. ListenInv'
  <2>1. \A p \in DOMAIN message' : message'[p].onEnd = message'[p].onData
    BY <1>0, <1>3 DEF ListenInv
  <2>2. QED  BY <1>0, <1>5, <2>1 DEF ListenInv, EOF
<1>7. EndInv'
  <2>1. \A q \in held : message'[objectOf[q]].unused => message[objectOf[q]].unused
    BY <1>0, <1>3 DEF IncomingTypes
  <2>2. QED  BY <2>1, <1>0, <1>1, <1>2, EndStays
<1>8. QED  BY <1>4, <1>6, <1>7

(* What any message does with an event. *)
LEMMA EmitToShape ==
  ASSUME NEW m \in AMessage, NEW e \in Event, m.onEnd = m.onData
  PROVE  LET r == EmitTo(m, e)
         IN  /\ r.msg.onEnd = r.msg.onData /\ r.to \subseteq m.onData
             /\ r.msg.onData \subseteq m.onData
             /\ r.msg.paused = m.paused /\ r.msg.pendings = m.pendings
<1> DEFINE x == [m EXCEPT !.endEmitted = TRUE, !.onData = {}, !.onEnd = {}]
           r == EmitTo(m, e)
<1>1. /\ x.onData = {} /\ x.onEnd = {} /\ x.paused = m.paused
      /\ x.pendings = m.pendings
  BY DEF AMessage
<1>2. \/ r = [msg |-> m, to |-> m.onData] \/ r = [msg |-> m, to |-> {}]
      \/ r = [msg |-> x, to |-> m.onEnd]
  BY DEF EmitTo
<1> HIDE DEF x
<1>3. (r.msg = m \/ r.msg = x) /\ r.to \subseteq m.onData
  BY <1>2
<1> HIDE DEF r
<1>4. QED  BY <1>1, <1>3 DEF r

LEMMA ReceiveShape ==
  ASSUME NEW m \in AMessage, NEW e \in Event, m.onEnd = m.onData
  PROVE  LET r == Receive(m, e)
         IN  /\ r.msg.onEnd = r.msg.onData /\ r.to \subseteq m.onData
             /\ r.msg.onData \subseteq m.onData
             /\ r.msg.paused = m.paused
             /\ r.msg.pendings # <<>> => m.paused \/ m.pendings # <<>>
<1>1. CASE m.paused \/ m.pendings # <<>>
  <2> DEFINE a == [m EXCEPT !.pendings = Append(@, e)]
  <2>1. a.onEnd = m.onEnd /\ a.onData = m.onData /\ a.paused = m.paused
    BY DEF AMessage
  <2>2. Receive(m, e) = [msg |-> a, to |-> {}]
    BY <1>1 DEF Receive
  <2> HIDE DEF a
  <2>3. Receive(m, e).msg = a /\ Receive(m, e).to = {}
    BY <2>2
  <2>4. QED  BY <1>1, <2>1, <2>3
<1>2. CASE ~(m.paused \/ m.pendings # <<>>)
  <2>1. Receive(m, e) = EmitTo(m, e)
    BY <1>2 DEF Receive
  <2>2. QED  BY <1>2, <2>1, EmitToShape
<1>3. QED  BY <1>1, <1>2

LEMMA FedOn ==
  ASSUME IncomingInv, DataInv, NEW c \in Conns, NEW k, NEW r \in AConnection,
         conn[c].state = "body", k = conn[c].k, Feed(c, k + 1),
         UNCHANGED <<free, ticks, running, objectOf, held, cut>>,
         Clean(conn[c].incoming),
         conn' = [conn EXCEPT ![c] = r],
         r.incomings = conn[c].incomings, r.incoming = conn[c].incoming,
         r.request = conn[c].request,
         \/ r.state = "body" /\ r.k = k + 1 /\ k < Chunks
         \/ r.state = "idle" /\ k = Chunks
  PROVE  DataInv'
<1>q. PICK q : q = conn[c].request
  OBVIOUS
<1> DEFINE o == conn[c].incoming
           m == message[o]
           e == [of |-> q, k |-> k + 1]
           s == Receive(m, e)
<1>1. /\ o \in DOMAIN message /\ m \in AMessage
      /\ message' = [message EXCEPT ![o] = s.msg] /\ got' = Gets(s.to, e)
  BY <1>q DEF IncomingInv, IncomingTypes, PlacesInv, Feed
<1>2. /\ q \in DOMAIN objectOf /\ objectOf[q] = o /\ q \in m.onData /\ k \in 0..Chunks
      /\ Clean(o)
  BY <1>q DEF DataInv, ParseInv
<1>3. /\ m.onData = {q} /\ m.onEnd = {q} /\ q \in DOMAIN got /\ q \in Nat
      /\ got[q] \in Seq(Event) /\ GotOk(got[q], q)
      /\ \E j \in 0..EOF : IsFed(q, j) /\ ListensTo(q, m, got[q], j)
  BY <1>1, <1>2, OneListens
<1>4. \A d \in Conns : conn[d].state = "body" /\ conn[d].request = q => d = c
  BY <1>q DEF DataInv, ParseInv
<1>5. ListensTo(q, m, got[q], k)
  BY <1>q, <1>3, <1>4 DEF IsFed, Parsed
<1>6. e \in Event /\ e = [of |-> q, k |-> k + 1] /\ k + 1 \in 0..EOF
  BY <1>2, <1>3, EOFIsNat DEF Event
<1> HIDE DEF o, m, e
<1>7. /\ s.msg.onEnd = s.msg.onData /\ s.to \subseteq m.onData
      /\ s.msg.onData \subseteq m.onData /\ s.msg.paused = m.paused
      /\ q \in s.to => GotOk(Append(got[q], e), q)
      /\ q \in s.msg.onData =>
           ListensTo(q, s.msg, IF q \in s.to THEN Append(got[q], e) ELSE got[q], k + 1)
      /\ s.msg.pendings # <<>> => m.paused \/ m.pendings # <<>>
      /\ k + 1 # EOF => s.msg.onData = m.onData
  <2>1. m \in AMessage /\ got[q] \in Seq(Event) /\ q \in Nat /\ k \in 0..Chunks
        /\ e \in Event /\ e = [of |-> q, k |-> k + 1]
    BY <1>1, <1>2, <1>3, <1>6
  <2>2. ListensTo(q, m, got[q], k) /\ GotOk(got[q], q) /\ m.onEnd = m.onData /\ q \in m.onData
    BY <1>2, <1>3, <1>5
  <2>3. QED  BY <2>1, <2>2, Receives
<1>8. s.msg \in AMessage /\ s.msg.unused = m.unused
  BY <1>1, <1>6, ReceiveWorks
<1> HIDE DEF s
<1>9. /\ conn'[c] = r /\ \A d \in Conns : d # c => conn'[d] = conn[d]
  BY DEF IncomingInv, IncomingTypes
<1>10. IsFed(q, k + 1)'
  <2>1. CASE r.state = "body" /\ r.k = k + 1
    <3>1. conn'[c].state = "body" /\ conn'[c].request = q /\ conn'[c].k = k + 1
      BY <2>1, <1>9, <1>q
    <3>2. Parsed(q)'
      BY <3>1 DEF Parsed
    <3>3. \E d \in Conns : conn'[d].state = "body" /\ conn'[d].request = q /\ conn'[d].k = k + 1
      BY <3>1
    <3>4. QED  BY <3>2, <3>3 DEF IsFed
  <2>2. CASE r.state = "idle" /\ k = Chunks
    <3>1. ASSUME NEW d \in Conns, conn'[d].state = "body", conn'[d].request = q
          PROVE  FALSE
      <4>1. d # c
        BY <3>1, <2>2, <1>9
      <4>2. QED  BY <4>1, <3>1, <1>4, <1>9
    <3>2. ~Parsed(q)'
      BY <3>1 DEF Parsed
    <3>3. k + 1 = EOF
      BY <2>2, EOFIsNat
    <3>4. QED  BY <3>2, <3>3 DEF IsFed, EOF
  <2>3. QED  BY <2>1, <2>2
<1>11. ASSUME NEW p \in DOMAIN objectOf, objectOf[p] # o, NEW j \in 0..EOF, IsFed(p, j)
       PROVE  IsFed(p, j)'
  <2>1. p # q
    BY <1>2, <1>11
  <2>2. \A d \in Conns : conn[d].request = p \/ conn'[d].request = p =>
          d # c /\ conn'[d] = conn[d]
    BY <2>1, <1>9, <1>q
  <2>3. QED  BY <1>11, <2>2 DEF IsFed, Parsed, EOF
<1>12. \A p \in s.to : GotOk(Append(got[p], e), p)
  BY <1>3, <1>7
<1>13. \A p \in s.msg.onData : \E j \in 0..EOF :
         IsFed(p, j)' /\ ListensTo(p, s.msg, IF p \in s.to THEN Append(got[p], e) ELSE got[p], j)
  <2> SUFFICES ASSUME NEW p \in s.msg.onData
               PROVE  \E j \in 0..EOF : IsFed(p, j)' /\
                        ListensTo(p, s.msg, IF p \in s.to THEN Append(got[p], e) ELSE got[p], j)
    OBVIOUS
  <2>1. p = q
    BY <1>3, <1>7
  <2>2. ListensTo(q, s.msg, IF q \in s.to THEN Append(got[q], e) ELSE got[q], k + 1)
    BY <2>1, <1>7
  <2>3. QED  BY <2>1, <2>2, <1>6, <1>10, Zenon
<1>14. GotInv' /\ ListenInv' /\ EndInv'
  <2>1. /\ o \in DOMAIN message /\ s.msg \in AMessage /\ e \in Event
        /\ message' = [message EXCEPT ![o] = s.msg] /\ got' = Gets(s.to, e)
        /\ s.msg.unused = message[o].unused /\ s.msg.onEnd = s.msg.onData
        /\ s.msg.onData \subseteq message[o].onData /\ s.to \subseteq message[o].onData
        /\ Clean(o)
    BY <1>1, <1>2, <1>6, <1>7, <1>8 DEF m
  <2>2. \A p \in DOMAIN objectOf : objectOf[p] # o =>
          \A j \in 0..EOF : IsFed(p, j) => IsFed(p, j)'
    BY <1>11
  <2>3. UNCHANGED <<objectOf, free, held, cut>>
    OBVIOUS
  <2>4. QED  BY <2>1, <2>2, <2>3, <1>12, <1>13, EmissionKeeps, Zenon
<1>15. /\ DOMAIN message' = DOMAIN message /\ message'[o] = s.msg
       /\ \A p \in DOMAIN message : p # o => message'[p] = message[p]
  BY <1>1
<1>16. ASSUME NEW d \in Conns, conn'[d].state = "body"
       PROVE  /\ conn[d].state = "body" /\ conn'[d].request = conn[d].request
              /\ conn'[d].request \in DOMAIN objectOf
              /\ objectOf[conn'[d].request] = conn'[d].incoming
              /\ conn'[d].k \in 0..Chunks
              /\ Clean(conn'[d].incoming) =>
                   /\ conn'[d].request \in message'[conn'[d].incoming].onData
                   /\ \E j \in DOMAIN conn'[d].incomings :
                        conn'[d].incomings[j] = conn'[d].incoming
  <2>1. CASE d = c
    <3>1. r.state = "body" /\ r.k = k + 1 /\ k < Chunks
      BY <2>1, <1>9, <1>16
    <3>2. k + 1 # EOF /\ k + 1 \in 0..Chunks
      BY <3>1, <1>2, EOFIsNat
    <3>3. q \in message'[o].onData
      BY <3>2, <1>3, <1>7, <1>15
    <3>4. \E j \in DOMAIN conn[c].incomings : conn[c].incomings[j] = conn[c].incoming
      BY DEF DataInv, ParseInv
    <3>5. QED  BY <2>1, <3>1, <3>2, <3>3, <3>4, <1>2, <1>9, <1>q DEF o
  <2>2. CASE d # c
    <3>1. conn'[d] = conn[d]
      BY <2>2, <1>9
    <3>2. /\ conn[d].request \in DOMAIN objectOf
          /\ objectOf[conn[d].request] = conn[d].incoming
          /\ conn[d].k \in 0..Chunks
          /\ Clean(conn[d].incoming) =>
               /\ conn[d].request \in message[conn[d].incoming].onData
               /\ \E j \in DOMAIN conn[d].incomings : conn[d].incomings[j] = conn[d].incoming
      BY <3>1, <1>16 DEF DataInv, ParseInv
    <3>3. conn[d].request # q
      BY <2>2, <3>1, <1>4, <1>16
    <3>4. conn[d].incoming # o
      BY <3>2, <3>3, <1>2, <1>3 DEF m
    <3>5. conn[d].incoming \in DOMAIN message
      BY <3>2 DEF IncomingInv, UsersInv
    <3>6. QED  BY <3>1, <3>2, <3>4, <3>5, <1>15, <1>16
  <2>3. QED  BY <2>1, <2>2
<1>17. ParseInv'
  BY <1>16, CutStays DEF DataInv, ParseInv
<1>18. PendingInv'
  <2>1. \A p \in DOMAIN message : OnItsWay(p)' <=> OnItsWay(p)
    BY DEF OnItsWay
  <2>2. \A p \in DOMAIN message :
          ~message'[p].paused /\ message'[p].pendings # <<>> =>
            ~message[p].paused /\ message[p].pendings # <<>>
    BY <1>7, <1>15 DEF m
  <2>3. QED  BY <2>1, <2>2, <1>15 DEF DataInv, PendingInv
<1>19. QED  BY <1>14, <1>15, <1>17, <1>18, CutKeeps DEF DataInv

(* A parser feeds a message in which a chunk was lost. *)
LEMMA FedAway ==
  ASSUME IncomingInv, DataInv, NEW c \in Conns, NEW k, NEW r \in AConnection,
         conn[c].state = "body", k = conn[c].k, Feed(c, k + 1),
         UNCHANGED <<free, ticks, running, objectOf, held, cut>>,
         ~Clean(conn[c].incoming),
         conn' = [conn EXCEPT ![c] = r],
         r.incomings = conn[c].incomings, r.incoming = conn[c].incoming,
         r.request = conn[c].request,
         \/ r.state = "body" /\ r.k = k + 1 /\ k < Chunks
         \/ r.state = "idle" /\ k = Chunks
  PROVE  DataInv'
<1>q. PICK q : q = conn[c].request
  OBVIOUS
<1> DEFINE o == conn[c].incoming
           m == message[o]
           e == [of |-> q, k |-> k + 1]
           s == Receive(m, e)
<1>1. /\ o \in DOMAIN message /\ m \in AMessage
      /\ message' = [message EXCEPT ![o] = s.msg] /\ got' = Gets(s.to, e)
  BY <1>q DEF IncomingInv, IncomingTypes, PlacesInv, Feed
<1>2. q \in DOMAIN objectOf /\ objectOf[q] = o /\ q \in Nat /\ k \in 0..Chunks
  BY <1>q DEF DataInv, ParseInv, IncomingInv, IncomingTypes
<1>3. e \in Event /\ m.onEnd = m.onData
  BY <1>1, <1>2, EOFIsNat DEF Event, DataInv, ListenInv
<1> HIDE DEF o, m, e
<1>4. /\ s.msg.onEnd = s.msg.onData /\ s.to \subseteq m.onData
      /\ s.msg.onData \subseteq m.onData /\ s.msg.paused = m.paused
      /\ s.msg.pendings # <<>> => m.paused \/ m.pendings # <<>>
      /\ s.msg \in AMessage /\ s.msg.unused = m.unused
  BY <1>1, <1>3, ReceiveShape, ReceiveWorks
<1> HIDE DEF s
<1>5. /\ \E p \in cut : objectOf[p] = o
      /\ \A p \in m.onData : Spoilt(p)
  <2>1. \E p \in cut : objectOf[p] = o
    BY DEF Clean, o
  <2>2. ASSUME NEW p \in m.onData  PROVE Spoilt(p)
    <3>1. p \in DOMAIN objectOf /\ objectOf[p] = o
      BY <1>1 DEF IncomingInv, UsersInv, m
    <3>2. QED  BY <2>1, <3>1 DEF DataInv, ListenInv, Clean, m
  <2>3. QED  BY <2>1, <2>2
<1>6. conn'[c] = r /\ \A d \in Conns : d # c => conn'[d] = conn[d]
  BY DEF IncomingInv, IncomingTypes
<1>7. ASSUME NEW p \in DOMAIN objectOf, objectOf[p] # o, NEW j \in 0..EOF, IsFed(p, j)
      PROVE  IsFed(p, j)'
  <2>1. p # q
    BY <1>2, <1>7
  <2>2. \A d \in Conns : conn[d].request = p \/ conn'[d].request = p =>
          d # c /\ conn'[d] = conn[d]
    BY <2>1, <1>6, <1>q
  <2>3. QED  BY <1>7, <2>2 DEF IsFed, Parsed, EOF
<1>8. \A p : (Spoilt(p)' <=> Spoilt(p)) /\ (Clean(p)' <=> Clean(p))
  BY CutStays
<1>9. GotInv' /\ ListenInv' /\ EndInv'
  BY <1>1, <1>3, <1>4, <1>5, <1>7, <1>8, AwayKeeps DEF m
<1>10. /\ DOMAIN message' = DOMAIN message /\ message'[o] = s.msg
       /\ \A p \in DOMAIN message : p # o => message'[p] = message[p]
  BY <1>1
<1>11. ASSUME NEW d \in Conns, conn'[d].state = "body"
       PROVE  /\ conn[d].state = "body" /\ conn'[d].request = conn[d].request
              /\ conn'[d].request \in DOMAIN objectOf
              /\ objectOf[conn'[d].request] = conn'[d].incoming
              /\ conn'[d].k \in 0..Chunks
              /\ Clean(conn'[d].incoming) =>
                   /\ conn'[d].request \in message'[conn'[d].incoming].onData
                   /\ \E j \in DOMAIN conn'[d].incomings :
                        conn'[d].incomings[j] = conn'[d].incoming
  <2>1. CASE d = c
    <3>1. r.state = "body" /\ r.k = k + 1 /\ k < Chunks
      BY <2>1, <1>6, <1>11
    <3>2. k + 1 \in 0..Chunks
      BY <3>1, <1>2, EOFIsNat
    <3>3. QED  BY <2>1, <3>1, <3>2, <1>2, <1>6, <1>q DEF o
  <2>2. CASE d # c
    <3>1. conn'[d] = conn[d]
      BY <2>2, <1>6
    <3>2. /\ conn[d].request \in DOMAIN objectOf
          /\ objectOf[conn[d].request] = conn[d].incoming
          /\ conn[d].k \in 0..Chunks
          /\ Clean(conn[d].incoming) =>
               /\ conn[d].request \in message[conn[d].incoming].onData
               /\ \E j \in DOMAIN conn[d].incomings : conn[d].incomings[j] = conn[d].incoming
      BY <3>1, <1>11 DEF DataInv, ParseInv
    <3>3. conn[d].incoming \in DOMAIN message
      BY <3>2 DEF IncomingInv, UsersInv
    <3>4. Clean(conn[d].incoming) => conn[d].incoming # o
      BY <1>5 DEF Clean
    <3>5. QED  BY <3>1, <3>2, <3>3, <3>4, <1>10, <1>11
  <2>3. QED  BY <2>1, <2>2
<1>12. ParseInv'
  BY <1>8, <1>11 DEF DataInv, ParseInv
<1>13. PendingInv'
  <2>1. \A p \in DOMAIN message : OnItsWay(p)' <=> OnItsWay(p)
    BY DEF OnItsWay
  <2>2. \A p \in DOMAIN message :
          ~message'[p].paused /\ message'[p].pendings # <<>> =>
            ~message[p].paused /\ message[p].pendings # <<>>
    BY <1>4, <1>10 DEF m
  <2>3. QED  BY <2>1, <2>2, <1>10 DEF DataInv, PendingInv
<1>14. QED  BY <1>9, <1>10, <1>12, <1>13, CutKeeps DEF DataInv

LEMMA OnBodyTells ==
  ASSUME IncomingInv, DataInv, NEW c \in Conns, OnBody(c)
  PROVE  DataInv'
<1> DEFINE k == conn[c].k
           i == k + 1
           r == [conn[c] EXCEPT !.k = i]
<1>1. conn \in [Conns -> AConnection] /\ conn[c] \in AConnection
  BY DEF IncomingInv, IncomingTypes
<1>2. /\ conn[c].state = "body" /\ Feed(c, i) /\ conn' = [conn EXCEPT ![c] = r]
      /\ k < Chunks /\ UNCHANGED <<free, ticks, running, objectOf, held, cut>>
  BY <1>1 DEF OnBody
<1>3. i \in Nat
  BY <1>1 DEF AConnection
<1> HIDE DEF i
<1>4. /\ r \in AConnection /\ r.incomings = conn[c].incomings
      /\ r.incoming = conn[c].incoming /\ r.state = conn[c].state
      /\ r.request = conn[c].request /\ r.k = i
  BY <1>1, <1>3 DEF AConnection
<1> HIDE DEF r
<1>5. QED  BY <1>2, <1>4, FedOn, FedAway DEF i

LEMMA OnMessageCompleteTells ==
  ASSUME IncomingInv, DataInv, NEW c \in Conns, OnMessageComplete(c)
  PROVE  DataInv'
<1> DEFINE k == conn[c].k
           r == [conn[c] EXCEPT !.state = "idle"]
<1>1. conn \in [Conns -> AConnection] /\ conn[c] \in AConnection
  BY DEF IncomingInv, IncomingTypes
<1>2. /\ conn[c].state = "body" /\ Feed(c, k + 1) /\ conn' = [conn EXCEPT ![c] = r]
      /\ k = Chunks /\ UNCHANGED <<free, ticks, running, objectOf, held, cut>>
  BY <1>1, EOFIsNat DEF OnMessageComplete
<1>3. /\ r \in AConnection /\ r.incomings = conn[c].incomings
      /\ r.incoming = conn[c].incoming /\ r.state = "idle"
      /\ r.request = conn[c].request
  BY <1>1 DEF AConnection
<1> HIDE DEF r
<1>4. QED  BY <1>2, <1>3, FedOn, FedAway DEF k

(* The request a message has is the latest that had it. *)
LEMMA RequestOfIsLatest ==
  ASSUME IncomingTypes, NEW q \in DOMAIN objectOf, Latest(q)
  PROVE  RequestOf(objectOf[q]) = q
<1> DEFINE T == {p \in DOMAIN objectOf : objectOf[p] = objectOf[q]}
<1>1. q \in T /\ T \subseteq Nat /\ \A y \in T : y <= q
  BY DEF Latest, IncomingTypes
<1> HIDE DEF T
<1>2. Max(T) \in T /\ \A y \in T : Max(T) >= y
  <2>1. \A y \in T : q >= y
    BY <1>1
  <2>2. QED  BY <1>1, <2>1 DEF Max
<1>3. Max(T) = q
  BY <1>1, <1>2
<1>4. QED  BY <1>3 DEF RequestOf, T

LEMMA RequestOfHas ==
  ASSUME IncomingTypes, CutInv, NEW o \in DOMAIN message
  PROVE  RequestOf(o) \in DOMAIN objectOf /\ objectOf[RequestOf(o)] = o
<1> DEFINE T == {p \in DOMAIN objectOf : objectOf[p] = o}
<1>1. T \in SUBSET (0..Len(objectOf)) /\ T # {} /\ Len(objectOf) \in Nat
  BY DEF IncomingTypes, CutInv
<1> HIDE DEF T
<1>2. \E x \in T : \A y \in T : x >= y
  <2>1. PICK x \in T : \A y \in T : y <= x
    BY <1>1, BoundedHasMax
  <2>2. \A y \in T : x >= y
    BY <1>1, <2>1
  <2>3. QED  BY <2>2
<1>3. Max(T) \in T
  BY <1>2 DEF Max
<1>4. QED  BY <1>3 DEF RequestOf, T

(* In the place of a chunk comes the end: what the request gets then. *)
LEMMA EndsEarly ==
  ASSUME NEW g \in Seq(Event), NEW q, NEW e \in Event, GotOk(g, q), e.k = EOF,
         \A i \in DOMAIN g : g[i].k \notin {EOF, Close}
  PROVE  GotCut(Append(g, e), q)
<1> DEFINE h == Append(g, e)
<1>1. /\ DOMAIN h = DOMAIN g \cup {Len(g) + 1}
      /\ h[Len(g) + 1] = e /\ \A i \in DOMAIN g : h[i] = g[i]
  BY AppendFacts
<1>2. DOMAIN g = 1..Len(g) /\ Len(g) \in Nat
  OBVIOUS
<1> HIDE DEF h
<1>3. Len(g) + 1 \in DOMAIN h /\ \A i \in DOMAIN h :
        /\ i <= Len(g) => h[i].of = q /\ h[i].k = i /\ h[i].k \notin {EOF, Close}
        /\ i = Len(g) + 1 => h[i].k = EOF
        /\ ~(i > Len(g) + 1)
  BY <1>1, <1>2 DEF GotOk
<1>4. QED  BY <1>2, <1>3 DEF GotCut, h

(* A chunk that was pending is emitted. *)
LEMMA TakenClean ==
  ASSUME IncomingInv, DataInv, running \in DOMAIN message,
         message[running].pendings # <<>>, Clean(running),
         TakesOut(Head(message[running].pendings), Head(message[running].pendings))
  PROVE  /\ GotInv' /\ ListenInv' /\ EndInv' /\ cut' = cut
         /\ \A q \in message[running].onData : Parsed(q) => q \in message'[running].onData
<1> DEFINE o == running
           m == message[o]
           e == Head(m.pendings)
           n == [m EXCEPT !.pendings = Tail(@)]
           r == EmitTo(n, e)
<1>1. /\ o \in DOMAIN message /\ m \in AMessage /\ m.pendings # <<>>
      /\ message' = [message EXCEPT ![o] = r.msg] /\ got' = Gets(r.to, e)
      /\ UNCHANGED <<free, conn, ticks, running, objectOf, held, cut>>
      /\ Clean(o)
  BY DEF IncomingInv, IncomingTypes, TakesOut
<1>2. e \in Event /\ n \in AMessage /\ n.unused = m.unused /\ n.onData = m.onData
      /\ n.onEnd = m.onEnd /\ n.endEmitted = m.endEmitted
  <2> DEFINE p == m.pendings
             l == Tail(p)
  <2>1. p \in Seq(Event) /\ p # <<>>
    BY <1>1 DEF AMessage
  <2> HIDE DEF p
  <2>2. Head(p) \in Event /\ l \in Seq(Event)
    BY <2>1
  <2>3. n = [m EXCEPT !.pendings = l]
    BY DEF p
  <2> HIDE DEF l, n
  <2>4. n \in AMessage /\ n.unused = m.unused /\ n.onData = m.onData
        /\ n.onEnd = m.onEnd /\ n.endEmitted = m.endEmitted
    BY <1>1, <2>2, <2>3 DEF AMessage
  <2>5. QED  BY <2>2, <2>4 DEF p
<1>3. m.onEnd = m.onData
  BY <1>1 DEF DataInv, ListenInv
<1>4. ASSUME NEW q \in m.onData
      PROVE  /\ m.onData = {q} /\ GotOk(Append(got[q], e), q) /\ ~m.endEmitted
             /\ e.k = EOF => ~Parsed(q)
             /\ e.k # EOF => \E k \in 0..EOF :
                  IsFed(q, k) /\ ListensTo(q, n, Append(got[q], e), k)
  <2>1. /\ m.onData = {q} /\ q \in Nat /\ got[q] \in Seq(Event) /\ GotOk(got[q], q)
        /\ \E k \in 0..EOF : IsFed(q, k) /\ ListensTo(q, m, got[q], k)
    BY <1>1, OneListens
  <2>2. PICK k \in 0..EOF : IsFed(q, k) /\ ListensTo(q, m, got[q], k)
    BY <2>1
  <2> HIDE DEF m
  <2>3. /\ GotOk(Append(got[q], e), q) /\ e.k \in 1..k
        /\ e.k # EOF => ListensTo(q, n, Append(got[q], e), k)
    BY <1>1, <2>1, <2>2, Emits
  <2> HIDE DEF e, n
  <2>4. ASSUME e.k = EOF, Parsed(q)  PROVE FALSE
    <3>1. PICK c \in Conns : conn[c].state = "body" /\ conn[c].k = k
      BY <2>2, <2>4 DEF IsFed
    <3>2. k \in 0..Chunks
      BY <3>1 DEF DataInv, ParseInv
    <3>3. QED  BY <3>2, <2>3, <2>4, EOFIsNat
  <2>5. ~m.endEmitted
    BY <2>2 DEF ListensTo
  <2>6. QED  BY <2>1, <2>2, <2>3, <2>4, <2>5
<1> HIDE DEF n, e
<1>5. /\ r.msg \in AMessage /\ r.msg.unused = m.unused
      /\ r.msg.onEnd = r.msg.onData /\ r.msg.onData \subseteq m.onData
      /\ r.to \subseteq m.onData
      /\ e.k # EOF => r.msg = n /\ r.to = m.onData
      /\ e.k = EOF /\ m.onData # {} => r.msg.onData = {}
  <2>1. r.msg \in AMessage /\ r.msg.unused = n.unused
    BY <1>2, EmitToWorks
  <2>2. CASE e.k # EOF
    <3>1. r = [msg |-> n, to |-> n.onData]
      BY <2>2 DEF EmitTo
    <3>2. r.msg = n /\ r.to = m.onData
      BY <3>1, <1>2
    <3>3. QED  BY <2>1, <2>2, <3>2, <1>2, <1>3
  <2>3. CASE e.k = EOF /\ n.endEmitted
    <3>1. r = [msg |-> n, to |-> {}]
      BY <2>3 DEF EmitTo
    <3>2. r.msg = n /\ r.to = {}
      BY <3>1
    <3>3. m.onData = {}
      BY <2>3, <1>2, <1>4
    <3>4. QED  BY <2>1, <2>3, <3>2, <3>3, <1>2, <1>3
  <2>4. CASE e.k = EOF /\ ~n.endEmitted
    <3> DEFINE x == [n EXCEPT !.endEmitted = TRUE, !.onData = {}, !.onEnd = {}]
    <3>1. r = [msg |-> x, to |-> n.onEnd]
      BY <2>4 DEF EmitTo
    <3>2. x.onData = {} /\ x.onEnd = {}
      BY <1>2 DEF AMessage
    <3> HIDE DEF x
    <3>3. r.msg = x /\ r.to = m.onData
      BY <3>1, <1>2, <1>3
    <3>4. QED  BY <2>1, <2>4, <3>2, <3>3, <1>2
  <2>5. QED  BY <2>2, <2>3, <2>4
<1> HIDE DEF r
<1>6. \A q \in r.to : GotOk(Append(got[q], e), q)
  BY <1>4, <1>5
<1>7. \A q \in DOMAIN objectOf : \A k \in 0..EOF : IsFed(q, k) <=> IsFed(q, k)'
  BY <1>1 DEF IsFed, Parsed, EOF
<1>8. ASSUME NEW q \in r.msg.onData
      PROVE  \E k \in 0..EOF :
        IsFed(q, k)' /\ ListensTo(q, r.msg, IF q \in r.to THEN Append(got[q], e) ELSE got[q], k)
  <2>1. q \in m.onData
    BY <1>5
  <2>2. e.k # EOF /\ q \in DOMAIN objectOf
    BY <2>1, <1>1, <1>5, OneListens
  <2>3. PICK k \in 0..EOF : IsFed(q, k) /\ ListensTo(q, n, Append(got[q], e), k)
    BY <2>1, <2>2, <1>4
  <2>4. IsFed(q, k)'
    BY <2>2, <2>3, <1>7
  <2>5. r.msg = n /\ q \in r.to
    BY <2>1, <2>2, <1>5
  <2>6. QED  BY <2>3, <2>4, <2>5
<1>9. GotInv' /\ ListenInv' /\ EndInv'
  BY <1>1, <1>2, <1>5, <1>6, <1>7, <1>8, EmissionKeeps DEF m
<1>10. message'[o] = r.msg
  BY <1>1
<1>11. ASSUME NEW q \in m.onData, Parsed(q)  PROVE q \in r.msg.onData
  <2>1. e.k # EOF
    BY <1>4, <1>11
  <2>2. QED  BY <2>1, <1>2, <1>5, <1>11
<1>12. QED  BY <1>1, <1>9, <1>10, <1>11 DEF m, o

(* A chunk is lost that was pending, or one was before in that message. *)
LEMMA TakenAway ==
  ASSUME IncomingInv, DataInv, running \in DOMAIN message,
         message[running].pendings # <<>>,
         NEW chunk \in ToPtr(Head(message[running].pendings)),
         TakesOut(Head(message[running].pendings), chunk),
         chunk # Head(message[running].pendings) \/ ~Clean(running)
  PROVE  /\ GotInv' /\ ListenInv' /\ EndInv' /\ cut \subseteq cut'
         /\ cut' \subseteq DOMAIN objectOf /\ \A p : Clean(p)' <=> p # running /\ Clean(p)
<1> DEFINE o == running
           m == message[o]
           e == Head(m.pendings)
           n == [m EXCEPT !.pendings = Tail(@)]
           r == EmitTo(n, chunk)
           l == RequestOf(o)
<1>1. /\ o \in DOMAIN message /\ m \in AMessage
      /\ message' = [message EXCEPT ![o] = r.msg] /\ got' = Gets(r.to, chunk)
      /\ UNCHANGED <<free, conn, ticks, running, objectOf, held>>
      /\ cut' = IF chunk = e THEN cut ELSE cut \cup {l}
      /\ l \in DOMAIN objectOf /\ objectOf[l] = o
      /\ cut \subseteq DOMAIN objectOf
      /\ m.onEnd = m.onData
      /\ chunk # e \/ ~Clean(o)
  BY RequestOfHas DEF IncomingInv, IncomingTypes, TakesOut, DataInv, CutInv, ListenInv
<1>2. /\ chunk \in Event /\ n \in AMessage /\ n.unused = m.unused /\ n.onData = m.onData
      /\ n.onEnd = m.onEnd /\ n.endEmitted = m.endEmitted
      /\ chunk # e => chunk.k = EOF
  <2> DEFINE p == m.pendings
             t == Tail(p)
  <2>1. p \in Seq(Event) /\ p # <<>>
    BY <1>1 DEF AMessage
  <2> HIDE DEF p
  <2>2. Head(p) \in Event /\ t \in Seq(Event)
    BY <2>1
  <2>3. n = [m EXCEPT !.pendings = t]
    BY DEF p
  <2>4. chunk \in Event /\ (chunk # Head(p) => chunk.k = EOF)
    BY <2>2, ToPtrGives DEF p
  <2> HIDE DEF t, n
  <2>5. n \in AMessage /\ n.unused = m.unused /\ n.onData = m.onData
        /\ n.onEnd = m.onEnd /\ n.endEmitted = m.endEmitted
    BY <1>1, <2>2, <2>3 DEF AMessage
  <2>6. QED  BY <2>4, <2>5 DEF p
<1> HIDE DEF e, n, l
<1>3. /\ r.msg \in AMessage /\ r.msg.unused = m.unused
      /\ r.msg.onEnd = r.msg.onData /\ r.msg.onData \subseteq m.onData
      /\ r.to \subseteq m.onData
  BY <1>1, <1>2, EmitToWorks, EmitToShape
<1>4. /\ cut \subseteq cut' /\ cut' \subseteq DOMAIN objectOf
      /\ \A p \in cut' : p \in cut \/ objectOf[p] = o
      /\ \E p \in cut' : objectOf[p] = o
  BY <1>1 DEF Clean
<1>5. \A p : /\ Clean(p)' <=> p # o /\ Clean(p)
             /\ Spoilt(p) => Spoilt(p)'
  BY <1>1, <1>4 DEF Clean, Spoilt
<1>6. ASSUME NEW q \in m.onData, Clean(o)
      PROVE  r.msg.onData = {} /\ Told(q)'
  <2>1. /\ q \in DOMAIN objectOf /\ objectOf[q] = o /\ q \in DOMAIN got
        /\ got[q] \in Seq(Event) /\ GotOk(got[q], q) /\ m.onData = {q}
        /\ \E k \in 0..EOF : ListensTo(q, m, got[q], k)
    BY <1>1, <1>6, OneListens
  <2>2. /\ ~m.endEmitted /\ \A i \in DOMAIN got[q] : got[q][i].k \notin {EOF, Close}
    BY <2>1 DEF ListensTo
  <2>3. chunk.k = EOF /\ chunk # e
    BY <1>1, <1>2, <1>6
  <2>4. r.msg.onData = {} /\ r.to = {q}
    <3> DEFINE x == [n EXCEPT !.endEmitted = TRUE, !.onData = {}, !.onEnd = {}]
    <3>1. r = [msg |-> x, to |-> n.onEnd]
      BY <1>2, <2>2, <2>3 DEF EmitTo
    <3>2. x.onData = {}
      BY <1>2 DEF AMessage
    <3> HIDE DEF x
    <3>3. QED  BY <3>1, <3>2, <1>1, <1>2, <2>1
  <2>5. GotCut(Append(got[q], chunk), q)
    BY <1>2, <2>1, <2>2, <2>3, EndsEarly
  <2>6. got'[q] = Append(got[q], chunk)
    BY <1>1, <2>1, <2>4 DEF Gets
  <2>7. q \in cut'
    <3>1. Latest(q)
      BY <1>6, <2>1 DEF DataInv, ListenInv, m
    <3>2. l = q
      BY <2>1, <3>1, RequestOfIsLatest DEF l, IncomingInv
    <3>3. QED  BY <1>1, <2>3, <3>2
  <2>8. GotCut(got'[q], q)
    BY <2>5, <2>6
  <2>9. Told(q)'
    BY <2>7, <2>8 DEF Told, GotCut, EOF, Close
  <2>10. QED  BY <2>4, <2>9
<1>7. ASSUME NEW q \in m.onData, ~Clean(o)  PROVE Spoilt(q)'
  <2>1. q \in DOMAIN objectOf /\ objectOf[q] = o
    BY <1>1 DEF IncomingInv, UsersInv, m
  <2>2. Spoilt(q)
    BY <1>7, <2>1 DEF DataInv, ListenInv, m
  <2>3. QED  BY <2>2, <1>5
<1>8. \A q \in DOMAIN objectOf : \A k \in 0..EOF : IsFed(q, k) => IsFed(q, k)'
  BY <1>1 DEF IsFed, Parsed, EOF
<1> HIDE DEF r
<1>9. /\ \A q \in r.to : ~Spoilt(q)' => Told(q)'
      /\ \A q \in r.msg.onData : Spoilt(q)'
  BY <1>3, <1>6, <1>7
<1>10. GotInv' /\ ListenInv' /\ EndInv'
  BY <1>1, <1>2, <1>3, <1>4, <1>8, <1>9, AwayKeeps DEF m
<1>11. QED  BY <1>4, <1>5, <1>10 DEF o

LEMMA EmitNextTells ==
  ASSUME IncomingInv, DataInv, EmitNext
  PROVE  DataInv'
<1> DEFINE o == running
           m == message[o]
           e == Head(m.pendings)
<1>1. PICK chunk \in ToPtr(e) : TakesOut(e, chunk)
  BY DEF EmitNext
<1>2. /\ o \in DOMAIN message /\ m.pendings # <<>> /\ m \in AMessage
      /\ ~m.paused
      /\ UNCHANGED <<free, conn, ticks, running, objectOf, held>>
  BY <1>1 DEF IncomingInv, IncomingTypes, PlacesInv, EmitNext, TakesOut
<1>3. /\ DOMAIN message' = DOMAIN message
      /\ \A p \in DOMAIN message : p # o => message'[p] = message[p]
  BY <1>1 DEF TakesOut
<1>4. /\ GotInv' /\ ListenInv' /\ EndInv' /\ cut' \subseteq DOMAIN objectOf
      /\ \A p : Clean(p)' => Clean(p)
      /\ Clean(o)' => \A q \in m.onData : Parsed(q) => q \in message'[o].onData
  <2>1. CASE chunk = e /\ Clean(o)
    <3>1. /\ GotInv' /\ ListenInv' /\ EndInv' /\ cut' = cut
          /\ \A q \in m.onData : Parsed(q) => q \in message'[o].onData
      BY <1>1, <1>2, <2>1, TakenClean
    <3>2. cut' \subseteq DOMAIN objectOf /\ \A p : Clean(p)' => Clean(p)
      BY <1>2, <3>1 DEF DataInv, CutInv, Clean
    <3>3. QED  BY <3>1, <3>2
  <2>2. CASE chunk # e \/ ~Clean(o)
    BY <1>1, <1>2, <2>2, TakenAway
  <2>3. QED  BY <2>1, <2>2
<1>5. ASSUME NEW c \in Conns, conn[c].state = "body", Clean(conn[c].incoming)'
      PROVE  conn[c].request \in message'[conn[c].incoming].onData
  <2>1. /\ conn[c].request \in message[conn[c].incoming].onData
        /\ conn[c].incoming \in DOMAIN message /\ Parsed(conn[c].request)
    BY <1>2, <1>4, <1>5 DEF DataInv, ParseInv, IncomingInv, PlacesInv, Parsed
  <2>2. CASE conn[c].incoming = o
    <3>1. Clean(o)'
      BY <1>2, <1>5, <2>2 DEF Clean
    <3>2. QED  BY <1>4, <2>1, <2>2, <3>1
  <2>3. CASE conn[c].incoming # o
    BY <1>3, <2>1, <2>3
  <2>4. QED  BY <2>2, <2>3
<1>6. \A c \in Conns : Clean(conn[c].incoming)' => Clean(conn[c].incoming)
  BY <1>2, <1>4 DEF Clean
<1>7. ParseInv'
  <2>1. ASSUME NEW c \in Conns, conn[c].state = "body"
        PROVE  /\ conn[c].request \in DOMAIN objectOf
               /\ objectOf[conn[c].request] = conn[c].incoming
               /\ conn[c].k \in 0..Chunks
               /\ Clean(conn[c].incoming)' =>
                    /\ conn[c].request \in message'[conn[c].incoming].onData
                    /\ \E j \in DOMAIN conn[c].incomings :
                         conn[c].incomings[j] = conn[c].incoming
    BY <1>5, <1>6, <2>1 DEF DataInv, ParseInv
  <2>2. \A c, d \in Conns :
          conn[c].state = "body" /\ conn[d].state = "body"
            /\ conn[c].request = conn[d].request => c = d
    BY DEF DataInv, ParseInv
  <2>3. QED  BY <1>2, <2>1, <2>2 DEF ParseInv
<1>8. PendingInv'
  BY <1>2, <1>3 DEF DataInv, PendingInv, OnItsWay
<1>9. CutInv'
  BY <1>2, <1>3, <1>4 DEF DataInv, CutInv
<1>10. QED  BY <1>4, <1>7, <1>8, <1>9 DEF DataInv

(* A step that only pauses, resumes or has its turn. *)
LEMMA QuietTells ==
  ASSUME IncomingInv, DataInv, UNCHANGED <<free, conn, objectOf, held, got, cut>>,
         DOMAIN message' = DOMAIN message,
         \A o \in DOMAIN message :
           /\ message'[o].onData = message[o].onData /\ message'[o].onEnd = message[o].onEnd
           /\ message'[o].unused = message[o].unused
           /\ message'[o].endEmitted = message[o].endEmitted
           /\ message'[o].pendings = message[o].pendings,
         PendingInv'
  PROVE  DataInv'
<1>1. /\ \A q \in DOMAIN objectOf : objectOf[q] \in DOMAIN message
      /\ held \subseteq DOMAIN objectOf
      /\ \A c \in Conns : conn[c].state = "body" => conn[c].incoming \in DOMAIN message
  BY DEF IncomingInv, IncomingTypes, UsersInv, PlacesInv
<1>c. /\ \A q : Spoilt(q)' <=> Spoilt(q)
      /\ \A p : Clean(p)' <=> Clean(p)
      /\ \A q : Latest(q)' <=> Latest(q)
  BY CutStays
<1>2. GotInv' /\ EndInv'
  <2>1. \A q : Told(q)' <=> Told(q)
    BY DEF Told, GotOk, GotCut, EOF, Close
  <2>2. Longer
    BY DEF Longer
  <2>3. \A q \in held : message'[objectOf[q]].unused => message[objectOf[q]].unused
    BY <1>1
  <2>4. EndInv'
    BY <1>c, <2>2, <2>3, EndStays DEF DataInv
  <2>5. QED  BY <1>c, <2>1, <2>4 DEF DataInv, GotInv
<1>3. \A q \in DOMAIN objectOf : \A k \in 0..EOF :
        /\ IsFed(q, k)' <=> IsFed(q, k)
        /\ ListensTo(q, message'[objectOf[q]], got[q], k)
             <=> ListensTo(q, message[objectOf[q]], got[q], k)
  BY <1>1 DEF IsFed, Parsed, ListensTo, EOF
<1>4. ASSUME NEW q \in DOMAIN objectOf, q \in message'[objectOf[q]].onData, Clean(objectOf[q])
      PROVE  /\ Latest(q)'
             /\ \E k \in 0..EOF : IsFed(q, k)' /\ ListensTo(q, message'[objectOf[q]], got[q], k)
  <2>1. /\ Latest(q)
        /\ \E k \in 0..EOF : IsFed(q, k) /\ ListensTo(q, message[objectOf[q]], got[q], k)
    BY <1>1, <1>4 DEF DataInv, ListenInv
  <2>2. PICK k \in 0..EOF : IsFed(q, k) /\ ListensTo(q, message[objectOf[q]], got[q], k)
    BY <2>1
  <2>3. IsFed(q, k)' /\ ListensTo(q, message'[objectOf[q]], got[q], k)
    BY <1>3, <2>2
  <2>4. QED  BY <1>c, <2>1, <2>3
<1>5. ListenInv'
  <2>1. \A o \in DOMAIN message' : message'[o].onEnd = message'[o].onData
    BY DEF DataInv, ListenInv
  <2>2. \A q \in DOMAIN objectOf :
          q \in message'[objectOf[q]].onData /\ ~Spoilt(q) => Clean(objectOf[q])
    BY <1>1 DEF DataInv, ListenInv
  <2>3. QED  BY <1>c, <1>4, <2>1, <2>2 DEF ListenInv, EOF
<1>6. ParseInv'
  BY <1>1, <1>c DEF DataInv, ParseInv
<1>7. QED  BY <1>2, <1>5, <1>6, CutKeeps DEF DataInv

LEMMA TickTells ==
  ASSUME IncomingInv, DataInv, EmitPending \/ EmitPendingEnds
  PROVE  DataInv'
<1>1. UNCHANGED <<message, free, conn, objectOf, held, got, cut>>
  BY DEF EmitPending, EmitPendingEnds
<1>2. ticks \in Seq(Nat) /\ 0 \notin DOMAIN message
  BY DEF IncomingInv, IncomingTypes
<1>3. ASSUME NEW o \in DOMAIN message, ~message[o].paused, message[o].pendings # <<>>
      PROVE  OnItsWay(o)'
  <2>1. OnItsWay(o)
    BY <1>3 DEF DataInv, PendingInv
  <2>2. CASE EmitPendingEnds
    BY <1>3, <2>1, <2>2 DEF EmitPendingEnds, OnItsWay
  <2>3. CASE EmitPending
    <3>1. running = None /\ ticks # <<>> /\ running' = Head(ticks) /\ ticks' = Tail(ticks)
      BY <2>3 DEF EmitPending, Turn
    <3>2. PICK i \in DOMAIN ticks : ticks[i] = o
      BY <2>1, <3>1, <1>2, <1>3 DEF OnItsWay, None
    <3>3. CASE i = 1
      BY <3>1, <3>2, <3>3, <1>2 DEF OnItsWay
    <3>4. CASE i # 1
      <4>1. i - 1 \in DOMAIN ticks' /\ ticks'[i - 1] = ticks[i]
        BY <1>2, <3>1, <3>2, <3>4
      <4>2. QED  BY <3>2, <4>1 DEF OnItsWay
    <3>5. QED  BY <3>3, <3>4
  <2>4. QED  BY <2>2, <2>3
<1>4. PendingInv'
  BY <1>1, <1>3 DEF PendingInv
<1>5. QED  BY <1>1, <1>4, QuietTells

LEMMA PausedTells ==
  ASSUME IncomingInv, DataInv, NEW o \in DOMAIN message, NEW b \in BOOLEAN,
         message' = [message EXCEPT ![o].paused = b],
         UNCHANGED <<free, conn, running, objectOf, held, got, cut>>,
         \/ ticks' = ticks /\ (b \/ message[o].pendings = <<>>)
         \/ ticks' = Append(ticks, o)
  PROVE  DataInv'
<1> DEFINE m == [message[o] EXCEPT !.paused = b]
<1>1. message[o] \in AMessage /\ o \in Nat /\ ticks \in Seq(Nat)
  BY ElementOfSeq DEF IncomingInv, IncomingTypes
<1>2. /\ m.paused = b /\ m.onData = message[o].onData /\ m.onEnd = message[o].onEnd
      /\ m.unused = message[o].unused /\ m.endEmitted = message[o].endEmitted
      /\ m.pendings = message[o].pendings
  BY <1>1 DEF AMessage
<1>3. message' = [message EXCEPT ![o] = m]
  OBVIOUS
<1> HIDE DEF m
<1>4. /\ DOMAIN message' = DOMAIN message /\ message'[o] = m
      /\ \A p \in DOMAIN message : p # o => message'[p] = message[p]
  BY <1>3
<1>5. \A p \in DOMAIN message :
        /\ message'[p].onData = message[p].onData /\ message'[p].onEnd = message[p].onEnd
        /\ message'[p].unused = message[p].unused
        /\ message'[p].endEmitted = message[p].endEmitted
        /\ message'[p].pendings = message[p].pendings
  BY <1>2, <1>4
<1>6. \A p \in DOMAIN message : OnItsWay(p) => OnItsWay(p)'
  <2>1. CASE ticks' = ticks
    BY <2>1 DEF OnItsWay
  <2>2. CASE ticks' = Append(ticks, o)
    <3>1. \A i \in DOMAIN ticks : i \in DOMAIN ticks' /\ ticks'[i] = ticks[i]
      BY <1>1, <2>2, AppendFacts
    <3>2. QED  BY <3>1 DEF OnItsWay
  <2>3. QED  BY <2>1, <2>2
<1>7. b \/ message[o].pendings = <<>> \/ OnItsWay(o)'
  <2>1. CASE ticks' = Append(ticks, o)
    <3>1. Len(ticks) + 1 \in DOMAIN ticks' /\ ticks'[Len(ticks) + 1] = o
      BY <1>1, <2>1, AppendFacts
    <3>2. QED  BY <3>1 DEF OnItsWay
  <2>2. QED  BY <2>1
<1>8. PendingInv'
  BY <1>2, <1>4, <1>6, <1>7 DEF DataInv, PendingInv
<1>9. QED  BY <1>4, <1>5, <1>8, QuietTells

(* The message o is released by one of the two that use it. *)
LEMMA ReleaseTells ==
  ASSUME IncomingInv, DataInv, NEW o \in DOMAIN message, Release(o),
         UNCHANGED <<ticks, running, objectOf, got, cut>>, held' \subseteq held,
         \A c \in Conns : /\ conn'[c].state = conn[c].state /\ conn'[c].k = conn[c].k
                          /\ conn'[c].request = conn[c].request
                          /\ conn'[c].incoming = conn[c].incoming,
         \A c \in Conns : conn[c].state = "body" /\ Clean(conn[c].incoming) =>
           \E j \in DOMAIN conn'[c].incomings : conn'[c].incomings[j] = conn[c].incoming,
         Clean(o) /\ message[o].unused => \A q \in DOMAIN objectOf : objectOf[q] = o => Ended(q),
         Clean(o) => \A q \in held' : objectOf[q] = o => Ended(q)
  PROVE  DataInv'
<1> DEFINE m == [message[o] EXCEPT !.unused = TRUE]
<1>1. /\ message[o] \in AMessage /\ free \in Seq(Nat) /\ o \in Nat
      /\ \A q \in DOMAIN objectOf : objectOf[q] \in DOMAIN message
      /\ held \subseteq DOMAIN objectOf
      /\ \A c \in Conns : conn[c].state = "body" => conn[c].incoming \in DOMAIN message
  BY ElementOfSeq DEF IncomingInv, IncomingTypes, UsersInv, PlacesInv
<1>2. /\ m.paused = message[o].paused /\ m.pendings = message[o].pendings
      /\ m.onData = message[o].onData /\ m.onEnd = message[o].onEnd
      /\ m.endEmitted = message[o].endEmitted
  BY <1>1 DEF AMessage
<1>3. /\ DOMAIN message' = DOMAIN message
      /\ \A p \in DOMAIN message :
           /\ p # o => message'[p] = message[p]
           /\ message'[p].paused = message[p].paused
           /\ message'[p].pendings = message[p].pendings
           /\ message'[p].onData = message[p].onData
           /\ message'[p].onEnd = message[p].onEnd
           /\ message'[p].endEmitted = message[p].endEmitted
  <2>1. CASE message[o].unused
    BY <2>1 DEF Release
  <2>2. CASE ~message[o].unused
    <3>1. message' = [message EXCEPT ![o] = m]
      BY <2>2 DEF Release
    <3> HIDE DEF m
    <3>2. QED  BY <1>2, <3>1
  <2>3. QED  BY <2>1, <2>2
<1>4. \A i \in DOMAIN free' :
        (i \in DOMAIN free /\ free'[i] = free[i]) \/ (free'[i] = o /\ message[o].unused)
  <2>1. CASE free' = free
    BY <2>1
  <2>2. CASE free' = Append(free, o) /\ message[o].unused
    BY <1>1, <2>2, AppendFacts
  <2>3. QED  BY <2>1, <2>2 DEF Release
<1>c. /\ \A q : Spoilt(q)' <=> Spoilt(q)
      /\ \A p : Clean(p)' <=> Clean(p)
      /\ \A q : Latest(q)' <=> Latest(q)
  BY CutStays
<1>5. GotInv' /\ \A q \in DOMAIN objectOf : Ended(q)' <=> Ended(q)
  <2>1. \A q : Told(q)' <=> Told(q)
    BY DEF Told, GotOk, GotCut, EOF, Close
  <2>2. QED  BY <1>c, <2>1 DEF DataInv, GotInv, Ended, EOF
<1>6. EndInv'
  <2>1. ASSUME NEW q \in held', message'[objectOf[q]].unused, Clean(objectOf[q])
        PROVE Ended(q)
    <3>1. CASE objectOf[q] = o
      BY <2>1, <3>1
    <3>2. CASE objectOf[q] # o
      BY <1>1, <1>3, <2>1, <3>2 DEF DataInv, EndInv
    <3>3. QED  BY <3>1, <3>2
  <2>2. ASSUME NEW q \in DOMAIN objectOf, NEW i \in DOMAIN free', free'[i] = objectOf[q],
               Clean(objectOf[q])
        PROVE  Ended(q)
    BY <1>4, <2>2 DEF DataInv, EndInv
  <2>3. QED  BY <1>1, <1>5, <1>c, <2>1, <2>2 DEF DataInv, EndInv
<1>7. \A q \in DOMAIN objectOf : \A k \in 0..EOF :
        /\ IsFed(q, k)' <=> IsFed(q, k)
        /\ ListensTo(q, message'[objectOf[q]], got[q], k)
             <=> ListensTo(q, message[objectOf[q]], got[q], k)
  <2>1. \A q \in DOMAIN objectOf : \A k \in 0..EOF : IsFed(q, k)' <=> IsFed(q, k)
    BY DEF IsFed, Parsed, EOF
  <2>2. \A q \in DOMAIN objectOf : \A k \in 0..EOF :
          ListensTo(q, message'[objectOf[q]], got[q], k)
            <=> ListensTo(q, message[objectOf[q]], got[q], k)
    BY <1>1, <1>3 DEF ListensTo
  <2>3. QED  BY <2>1, <2>2
<1>8. ASSUME NEW q \in DOMAIN objectOf, q \in message'[objectOf[q]].onData, Clean(objectOf[q])
      PROVE  /\ Latest(q)'
             /\ \E k \in 0..EOF : IsFed(q, k)' /\ ListensTo(q, message'[objectOf[q]], got[q], k)
  <2>1. /\ Latest(q)
        /\ \E k \in 0..EOF : IsFed(q, k) /\ ListensTo(q, message[objectOf[q]], got[q], k)
    BY <1>1, <1>3, <1>8 DEF DataInv, ListenInv
  <2>2. PICK k \in 0..EOF : IsFed(q, k) /\ ListensTo(q, message[objectOf[q]], got[q], k)
    BY <2>1
  <2>3. IsFed(q, k)' /\ ListensTo(q, message'[objectOf[q]], got[q], k)
    BY <1>7, <2>2
  <2>4. QED  BY <1>c, <2>1, <2>3
<1>9. ListenInv'
  <2>1. \A p \in DOMAIN message' : message'[p].onEnd = message'[p].onData
    BY <1>3 DEF DataInv, ListenInv
  <2>2. \A q \in DOMAIN objectOf :
          q \in message'[objectOf[q]].onData /\ ~Spoilt(q) => Clean(objectOf[q])
    BY <1>1, <1>3 DEF DataInv, ListenInv
  <2>3. QED  BY <1>c, <1>8, <2>1, <2>2 DEF ListenInv, EOF
<1>10. ParseInv'
  BY <1>1, <1>3, <1>c DEF DataInv, ParseInv
<1>11. PendingInv'
  BY <1>3 DEF DataInv, PendingInv, OnItsWay
<1>12. QED  BY <1>3, <1>5, <1>6, <1>9, <1>10, <1>11, CutKeeps DEF DataInv

LEMMA AnswerTells ==
  ASSUME IncomingInv, DataInv, ReadsAll, NEW c \in Conns, Answer(c)
  PROVE  DataInv'
<1> DEFINE l == conn[c].incomings
           o == Head(l)
           t == Tail(l)
           r == [conn[c] EXCEPT !.incomings = t]
<1>1. conn \in [Conns -> AConnection] /\ conn[c] \in AConnection /\ l \in Seq(Nat)
  BY DEF IncomingInv, IncomingTypes, AConnection
<1>2. /\ l # <<>> /\ Release(o) /\ conn' = [conn EXCEPT ![c] = r] /\ held' = held
      /\ Ended(RequestOf(o)) /\ UNCHANGED <<ticks, running, objectOf, got, cut>>
  BY <1>1 DEF Answer
<1>3. /\ o = l[1] /\ 1 \in DOMAIN l /\ t \in Seq(Nat)
      /\ \A j \in DOMAIN l : j # 1 => j - 1 \in DOMAIN t /\ t[j - 1] = l[j]
  <2>1. l \in Seq(Nat) /\ l # <<>>
    BY <1>1, <1>2
  <2> HIDE DEF l
  <2>2. QED  BY <2>1
<1> HIDE DEF t, o
<1>4. /\ r.incomings = t /\ r.incoming = conn[c].incoming /\ r.k = conn[c].k
      /\ r.state = conn[c].state /\ r.request = conn[c].request
  BY <1>1, <1>3 DEF AConnection
<1> HIDE DEF r
<1>5. conn'[c] = r /\ \A k \in Conns : k # c => conn'[k] = conn[k]
  BY <1>1, <1>2
<1>6. o \in DOMAIN message
  BY <1>3 DEF IncomingInv, UsersInv
<1>7. ASSUME NEW q \in DOMAIN objectOf, objectOf[q] = o, Clean(o)  PROVE Ended(q)
  <2>1. CASE Latest(q)
    BY <1>2, <1>7, <2>1, RequestOfIsLatest DEF IncomingInv
  <2>2. CASE ~Latest(q)
    BY <1>7, <2>2 DEF DataInv, EndInv
  <2>3. QED  BY <2>1, <2>2
<1>8. ASSUME NEW d \in Conns, conn[d].state = "body", Clean(conn[d].incoming)
      PROVE  \E j \in DOMAIN conn'[d].incomings : conn'[d].incomings[j] = conn[d].incoming
  <2>q. PICK q : q = conn[d].request
    OBVIOUS
  <2>1. /\ q \in DOMAIN objectOf /\ objectOf[q] = conn[d].incoming
        /\ q \in message[objectOf[q]].onData
    BY <1>8, <2>q DEF DataInv, ParseInv
  <2>2. PICK j \in DOMAIN conn[d].incomings : conn[d].incomings[j] = conn[d].incoming
    BY <1>8 DEF DataInv, ParseInv
  <2>3. objectOf[q] \in DOMAIN message /\ q \in DOMAIN got
    BY <2>1 DEF IncomingInv, IncomingTypes, UsersInv
  <2>4. PICK k \in 0..EOF : ListensTo(q, message[objectOf[q]], got[q], k)
    BY <1>8, <2>1 DEF DataInv, ListenInv
  <2>5. ~Ended(q)
    BY <2>4 DEF ListensTo, Ended
  <2>6. conn[d].incoming # o
    BY <1>7, <1>8, <2>1, <2>5
  <2>7. CASE d = c
    <3>1. j # 1
      BY <1>3, <2>2, <2>6, <2>7
    <3>2. j - 1 \in DOMAIN t /\ t[j - 1] = conn[c].incoming
      BY <1>3, <2>2, <2>7, <3>1
    <3>3. QED  BY <1>4, <1>5, <2>7, <3>2
  <2>8. CASE d # c
    BY <1>5, <2>2, <2>8
  <2>9. QED  BY <2>7, <2>8
<1>9. \A q \in held' : q \in DOMAIN objectOf
  BY <1>2 DEF IncomingInv, IncomingTypes
<1>10. \A d \in Conns : /\ conn'[d].state = conn[d].state /\ conn'[d].k = conn[d].k
                        /\ conn'[d].request = conn[d].request
                        /\ conn'[d].incoming = conn[d].incoming
  BY <1>4, <1>5
<1>11. QED  BY <1>2, <1>6, <1>7, <1>8, <1>9, <1>10, ReleaseTells

LEMMA DropTells ==
  ASSUME IncomingInv, DataInv, NEW q \in held, Drop(q)
  PROVE  DataInv'
<1>o. PICK o : o = objectOf[q]
  OBVIOUS
<1>1. /\ held' = held \ {q} /\ Release(o)
      /\ UNCHANGED <<conn, ticks, running, objectOf, got, cut>>
  BY <1>o DEF Drop
<1>2. o \in DOMAIN message /\ q \in DOMAIN objectOf /\ DOMAIN objectOf \subseteq Nat
  BY <1>o DEF IncomingInv, UsersInv, IncomingTypes
<1>3. \A p \in held' : objectOf[p] # o
  BY <1>o, <1>1 DEF IncomingInv, UsersInv
<1>4. ASSUME Clean(o), message[o].unused, NEW p \in DOMAIN objectOf, objectOf[p] = o
      PROVE  Ended(p)
  <2>1. Latest(q) /\ Ended(q)
    BY <1>o, <1>2, <1>4 DEF DataInv, EndInv
  <2>2. CASE Latest(p)
    <3>1. p <= q /\ q <= p
      BY <1>o, <1>2, <1>4, <2>1, <2>2 DEF Latest
    <3>2. p = q
      BY <1>2, <3>1
    <3>3. QED  BY <2>1, <3>2
  <2>3. CASE ~Latest(p)
    BY <1>4, <2>3 DEF DataInv, EndInv
  <2>4. QED  BY <2>2, <2>3
<1>5. \A c \in Conns : conn[c].state = "body" /\ Clean(conn[c].incoming) =>
        \E j \in DOMAIN conn'[c].incomings : conn'[c].incomings[j] = conn[c].incoming
  BY <1>1 DEF DataInv, ParseInv
<1>6. QED  BY <1>1, <1>2, <1>3, <1>4, <1>5, ReleaseTells

(* Behind "close" comes "close" only. *)
LEMMA ClosesMore ==
  ASSUME NEW g \in Seq(Event), NEW q, NEW e \in Event, e.k = Close
  PROVE  /\ GotOk(g, q) => GotOk(Append(g, e), q)
         /\ GotCut(g, q) => GotCut(Append(g, e), q)
         /\ \A i \in DOMAIN g : i \in DOMAIN Append(g, e) /\ Append(g, e)[i] = g[i]
<1> DEFINE h == Append(g, e)
<1>1. /\ Len(h) = Len(g) + 1 /\ DOMAIN h = DOMAIN g \cup {Len(g) + 1}
      /\ h[Len(g) + 1] = e /\ \A i \in DOMAIN g : h[i] = g[i]
  BY AppendFacts
<1>2. DOMAIN g = 1..Len(g) /\ Len(g) \in Nat /\ e.k \notin {EOF} /\ e.k = Close
  BY EOFIsNat
<1> HIDE DEF h
<1>3. GotOk(g, q) => \A i \in DOMAIN h : h[i].k # Close => h[i].of = q /\ h[i].k = i /\ i <= EOF
  BY <1>1, <1>2 DEF GotOk
<1>4. ASSUME GotOk(g, q), NEW i \in DOMAIN h, NEW j \in DOMAIN h, i < j, h[i].k = Close
      PROVE  h[j].k = Close
  <2>1. i \in DOMAIN g
    BY <1>1, <1>2, <1>4
  <2>2. QED  BY <2>1, <1>1, <1>4 DEF GotOk
<1>5. GotOk(g, q) => GotOk(h, q)
  BY <1>1, <1>3, <1>4 DEF GotOk
<1>6. ASSUME GotCut(g, q)  PROVE GotCut(h, q)
  <2>1. PICK n \in Nat :
          /\ n + 1 \in DOMAIN g
          /\ \A i \in DOMAIN g :
               /\ i <= n => g[i].of = q /\ g[i].k = i /\ g[i].k \notin {EOF, Close}
               /\ i = n + 1 => g[i].k = EOF
               /\ i > n + 1 => g[i].k = Close
    BY <1>6 DEF GotCut
  <2>2. n + 1 \in DOMAIN h /\ \A i \in DOMAIN h : i \notin DOMAIN g => i > n + 1
    BY <1>1, <1>2, <2>1
  <2>3. \A i \in DOMAIN h :
          /\ i <= n => h[i].of = q /\ h[i].k = i /\ h[i].k \notin {EOF, Close}
          /\ i = n + 1 => h[i].k = EOF
          /\ i > n + 1 => h[i].k = Close
    <3>1. \A i \in DOMAIN h : i \notin DOMAIN g => ~(i <= n) /\ i # n + 1 /\ h[i].k = Close
      BY <1>1, <1>2, <2>1, <2>2
    <3>2. QED  BY <1>1, <2>1, <3>1
  <2>4. QED  BY <2>2, <2>3 DEF GotCut
<1>7. \A i \in DOMAIN g : i \in DOMAIN h /\ h[i] = g[i]
  BY <1>1
<1>8. QED  BY <1>5, <1>6, <1>7 DEF h

LEMMA SocketOnCloseTells ==
  ASSUME IncomingInv, DataInv, NEW c \in Conns, SocketOnClose(c)
  PROVE  DataInv'
<1> DEFINE aborted == Range(conn[c].incomings)
           r == [conn[c] EXCEPT !.state = "closed", !.incoming = None, !.incomings = <<>>]
           M(o) == IF o \in aborted THEN Aborted(message[o]) ELSE message[o]
           E(q) == [of |-> RequestOf(objectOf[q]), k |-> Close]
           G(q) == IF objectOf[q] \in aborted /\ q \in message[objectOf[q]].onClose
                   THEN Append(got[q], E(q)) ELSE got[q]
<1>1. /\ conn \in [Conns -> AConnection] /\ conn[c] \in AConnection
      /\ objectOf \in Seq(Nat) /\ got \in Seq(Seq(Event)) /\ DOMAIN got = DOMAIN objectOf
      /\ Len(objectOf) \in Nat /\ DOMAIN objectOf = 1..Len(objectOf)
      /\ \A o \in DOMAIN message : message[o] \in AMessage
      /\ \A q \in DOMAIN objectOf : objectOf[q] \in DOMAIN message
      /\ IncomingTypes /\ GotInv /\ ListenInv /\ EndInv /\ ParseInv /\ PendingInv
      /\ CutInv
  BY ElementOfSeq DEF IncomingInv, IncomingTypes, UsersInv, DataInv
<1>2. /\ conn' = [conn EXCEPT ![c] = r]
      /\ message' = [o \in DOMAIN message |-> M(o)]
      /\ got' = [q \in DOMAIN got |-> G(q)]
      /\ UNCHANGED <<free, ticks, running, objectOf, held, cut>>
  BY DEF SocketOnClose
<1>3. \A o \in DOMAIN message :
        /\ o \notin aborted => M(o) = message[o]
        /\ o \in aborted => M(o).onData = {} /\ M(o).onEnd = {}
        /\ M(o).paused = message[o].paused /\ M(o).pendings = message[o].pendings
        /\ M(o).unused = message[o].unused
  BY <1>1 DEF Aborted, AMessage
<1>4. ASSUME NEW q \in DOMAIN got
      PROVE  /\ GotOk(got[q], q) => GotOk(G(q), q)
             /\ GotCut(got[q], q) => GotCut(G(q), q)
             /\ objectOf[q] \notin aborted => G(q) = got[q]
             /\ \A i \in DOMAIN got[q] : i \in DOMAIN G(q) /\ G(q)[i] = got[q][i]
  <2>1. got[q] \in Seq(Event) /\ objectOf[q] \in DOMAIN message
    BY <1>1
  <2>5. RequestOf(objectOf[q]) \in Nat
    BY <1>1, <2>1, RequestOfHas
  <2>6. E(q) \in Event /\ E(q).k = Close
    BY <2>5, EOFIsNat DEF Event
  <2> HIDE DEF E
  <2>7. /\ GotOk(got[q], q) => GotOk(Append(got[q], E(q)), q)
        /\ GotCut(got[q], q) => GotCut(Append(got[q], E(q)), q)
        /\ \A i \in DOMAIN got[q] : /\ i \in DOMAIN Append(got[q], E(q))
                                    /\ Append(got[q], E(q))[i] = got[q][i]
    BY <2>1, <2>6, ClosesMore
  <2>8. QED  BY <2>1, <2>7
<1>5. \A d \in Conns : \A j \in DOMAIN conn[d].incomings :
        conn[d].incomings[j] \in aborted => d = c
  <2>1. \A x \in aborted : \E j \in DOMAIN conn[c].incomings : conn[c].incomings[j] = x
    BY DEF Range
  <2>2. QED  BY <2>1 DEF IncomingInv, UsersInv
<1>6. \A j \in DOMAIN conn[c].incomings : conn[c].incomings[j] \in aborted
  BY DEF Range
<1> HIDE DEF G, M, aborted
<1>7. r \in AConnection /\ r.state = "closed"
  <2>1. <<>> \in Seq(Nat) /\ None \in Nat
    BY DEF None
  <2>2. QED  BY <1>1, <2>1 DEF AConnection
<1> HIDE DEF r
<1>8. conn'[c] = r /\ \A d \in Conns : d # c => conn'[d] = conn[d]
  BY <1>1, <1>2
<1>17. /\ DOMAIN got' = DOMAIN got /\ DOMAIN message' = DOMAIN message
       /\ \A q \in DOMAIN got : got'[q] = G(q)
       /\ \A o \in DOMAIN message : message'[o] = M(o)
  BY <1>2
<1>c. /\ \A q : Spoilt(q)' <=> Spoilt(q)
      /\ \A p : Clean(p)' <=> Clean(p)
      /\ \A q : Latest(q)' <=> Latest(q)
  BY <1>2, CutStays
<1>9. GotInv'
  <2>1. ASSUME NEW q \in DOMAIN got, Told(q)  PROVE Told(q)'
    <3>1. GotOk(got'[q], q) \/ (q \in cut /\ GotCut(got'[q], q))
      BY <1>4, <1>17, <2>1 DEF Told
    <3>2. QED  BY <1>2, <3>1 DEF Told, GotOk, GotCut, EOF, Close
  <2>2. QED  BY <1>1, <1>17, <1>c, <2>1 DEF GotInv
<1>10. EndInv'
  <2>1. Longer
    BY <1>2, <1>4 DEF Longer
  <2>2. \A q \in held : message'[objectOf[q]].unused => message[objectOf[q]].unused
    BY <1>1, <1>2, <1>3 DEF IncomingTypes
  <2>3. QED  BY <1>1, <1>2, <1>c, <2>1, <2>2, EndStays
<1>11. ASSUME NEW q \in DOMAIN objectOf, q \in message'[objectOf[q]].onData, Clean(objectOf[q])
       PROVE  /\ Latest(q)'
              /\ \E k \in 0..EOF : IsFed(q, k)' /\ ListensTo(q, message'[objectOf[q]], got'[q], k)
  <2>1. objectOf[q] \notin aborted /\ message'[objectOf[q]] = message[objectOf[q]]
        /\ got'[q] = got[q] /\ q \in message[objectOf[q]].onData
    <3>1. objectOf[q] \in DOMAIN message /\ q \in DOMAIN got
      BY <1>1
    <3>2. message'[objectOf[q]] = M(objectOf[q])
      BY <1>17, <3>1
    <3>3. objectOf[q] \notin aborted
      BY <1>3, <1>11, <3>1, <3>2
    <3>4. QED  BY <1>3, <1>4, <1>11, <1>17, <3>1, <3>2, <3>3
  <2>2. Latest(q) /\ \E k \in 0..EOF : IsFed(q, k) /\ ListensTo(q, message[objectOf[q]], got[q], k)
    BY <1>1, <1>11, <2>1 DEF ListenInv
  <2>3. PICK k \in 0..EOF : IsFed(q, k) /\ ListensTo(q, message[objectOf[q]], got[q], k)
    BY <2>2
  <2>4. ~(conn[c].state = "body" /\ conn[c].request = q)
    BY <1>1, <1>6, <1>11, <2>1 DEF ParseInv
  <2>5. \A d \in Conns :
          /\ conn'[d].state = "body" => d # c /\ conn'[d] = conn[d]
          /\ conn[d].state = "body" /\ conn[d].request = q => d # c /\ conn'[d] = conn[d]
    BY <1>7, <1>8, <2>4
  <2>6. IsFed(q, k)'
    BY <2>3, <2>5 DEF IsFed, Parsed, EOF
  <2>7. Latest(q)'
    BY <1>c, <2>2
  <2>8. QED  BY <2>1, <2>3, <2>6, <2>7
<1>12. ListenInv'
  <2>1. \A o \in DOMAIN message' : message'[o].onEnd = message'[o].onData
    BY <1>1, <1>2, <1>3 DEF ListenInv
  <2>2. ASSUME NEW q \in DOMAIN objectOf, q \in message'[objectOf[q]].onData, ~Spoilt(q)
        PROVE  Clean(objectOf[q])
    <3>1. objectOf[q] \in DOMAIN message /\ message'[objectOf[q]] = M(objectOf[q])
      BY <1>1, <1>17
    <3>2. q \in message[objectOf[q]].onData
      BY <1>3, <2>2, <3>1
    <3>3. QED  BY <1>1, <2>2, <3>2 DEF ListenInv
  <2>3. QED  BY <1>2, <1>c, <1>11, <2>1, <2>2 DEF ListenInv, EOF
<1>13. ASSUME NEW d \in Conns, conn'[d].state = "body"
       PROVE  /\ conn'[d] = conn[d]
              /\ Clean(conn[d].incoming) =>
                   message'[conn[d].incoming] = message[conn[d].incoming]
  <2>1. d # c /\ conn'[d] = conn[d]
    BY <1>7, <1>8, <1>13
  <2>2. /\ conn[d].incoming \in DOMAIN message
        /\ Clean(conn[d].incoming) => \E j \in DOMAIN conn[d].incomings : conn[d].incomings[j] = conn[d].incoming
    BY <1>1, <1>13, <2>1 DEF ParseInv
  <2>3. Clean(conn[d].incoming) => conn[d].incoming \notin aborted
    BY <1>5, <2>1, <2>2
  <2>4. QED  BY <1>2, <1>3, <2>1, <2>2, <2>3
<1>14. ParseInv'
  <2>1. ASSUME NEW d \in Conns, conn'[d].state = "body"
        PROVE  /\ conn'[d].request \in DOMAIN objectOf
               /\ objectOf[conn'[d].request] = conn'[d].incoming
               /\ conn'[d].k \in 0..Chunks
               /\ Clean(conn'[d].incoming) =>
                    /\ conn'[d].request \in message'[conn'[d].incoming].onData
                    /\ \E j \in DOMAIN conn'[d].incomings :
                         conn'[d].incomings[j] = conn'[d].incoming
    <3>1. /\ conn'[d] = conn[d]
          /\ Clean(conn[d].incoming) =>
               message'[conn[d].incoming] = message[conn[d].incoming]
      BY <1>13, <2>1
    <3>2. conn[d].state = "body"
      BY <2>1, <3>1
    <3>3. QED  BY <1>1, <3>1, <3>2 DEF ParseInv
  <2>2. \A d, e \in Conns :
          conn'[d].state = "body" /\ conn'[e].state = "body"
            /\ conn'[d].request = conn'[e].request => d = e
    BY <1>1, <1>13 DEF ParseInv
  <2>3. \A d \in Conns : Clean(conn'[d].incoming) <=> Clean(conn[d].incoming)'
    BY <1>2 DEF Clean
  <2>4. QED  BY <1>2, <2>1, <2>2, <2>3 DEF ParseInv
<1>15. PendingInv'
  BY <1>1, <1>2, <1>3 DEF PendingInv, OnItsWay
<1>16. QED  BY <1>1, <1>2, <1>9, <1>10, <1>12, <1>14, <1>15, <1>17, CutKeeps DEF DataInv

(* A new request: the message it gets has no listeners any more, unless a *)
(* chunk was lost in it.                                                   *)
LEMMA HeadersCompleteTells ==
  ASSUME IncomingInv, DataInv, NEW c \in Conns, HeadersComplete(c)
  PROVE  DataInv'
<1>q. PICK q : q = Len(objectOf) + 1
  OBVIOUS
<1> DEFINE o == IF free = <<>> THEN Len(message) + 1 ELSE Head(free)
           m == IF free = <<>> THEN NewMessage ELSE SetNewSocket(message[o])
           d == m.onData \cup {q}
           e == m.onEnd \cup {q}
           x == m.onClose \cup {q}
           l == [m EXCEPT !.onData = d, !.onEnd = e, !.onClose = x]
           s == Append(conn[c].incomings, o)
           r == [conn[c] EXCEPT !.state = "body", !.incoming = o, !.request = q,
                                !.k = 0, !.incomings = s]
<1>1. /\ message \in Seq(AMessage) /\ free \in Seq(Nat) /\ objectOf \in Seq(Nat)
      /\ conn \in [Conns -> AConnection] /\ conn[c] \in AConnection
      /\ held \subseteq DOMAIN objectOf /\ got \in Seq(Seq(Event))
      /\ Len(got) = Len(objectOf) /\ Len(message) \in Nat /\ Len(objectOf) \in Nat
      /\ DOMAIN message = 1..Len(message) /\ DOMAIN objectOf = 1..Len(objectOf)
      /\ DOMAIN got = DOMAIN objectOf
      /\ GotInv /\ ListenInv /\ EndInv /\ ParseInv /\ PendingInv /\ CutInv
  BY DEF IncomingInv, IncomingTypes, DataInv
<1>2. /\ message' = IF free = <<>> THEN Append(message, l)
                    ELSE [message EXCEPT ![o] = l]
      /\ free' = IF free = <<>> THEN <<>> ELSE Tail(free)
      /\ conn' = [conn EXCEPT ![c] = r]
      /\ objectOf' = Append(objectOf, o) /\ held' = held \cup {q}
      /\ got' = Append(got, <<>>) /\ ticks' = ticks /\ running' = running /\ cut' = cut
      /\ conn[c].state = "idle"
  BY <1>q DEF HeadersComplete, Parses
<1>3. q \in Nat /\ q \notin DOMAIN objectOf /\ \A p \in DOMAIN objectOf : p \in Nat /\ p < q
  BY <1>q, <1>1
<1>4. /\ o \in Nat
      /\ free # <<>> => o \in DOMAIN message
      /\ \A p \in DOMAIN objectOf : objectOf[p] = o /\ Clean(o) => Ended(p)
      /\ free = <<>> => \A p \in DOMAIN objectOf : objectOf[p] # o
      /\ \A p \in held : objectOf[p] # o
      /\ \A k \in Conns : \A j \in DOMAIN conn[k].incomings : conn[k].incomings[j] # o
      /\ \A i \in DOMAIN free' : free'[i] # o /\ \E j \in DOMAIN free : free'[i] = free[j]
  <2>1. CASE free = <<>>
    <3>1. o = Len(message) + 1 /\ free' = <<>> /\ DOMAIN free' = {} /\ o \in Nat
      BY <1>1, <1>2, <2>1
    <3>2. o \notin DOMAIN message
      BY <1>1, <3>1
    <3> HIDE DEF o
    <3>3. /\ \A p \in DOMAIN objectOf : objectOf[p] # o
          /\ \A k \in Conns : \A j \in DOMAIN conn[k].incomings : conn[k].incomings[j] # o
      BY <3>2 DEF IncomingInv, UsersInv
    <3>4. QED  BY <1>1, <2>1, <3>1, <3>3
  <2>2. CASE free # <<>>
    <3>1. /\ o = free[1] /\ 1 \in DOMAIN free
          /\ \A i \in DOMAIN free' :
               i + 1 \in DOMAIN free /\ i + 1 # 1 /\ free'[i] = free[i + 1]
      BY <1>1, <1>2, <2>2
    <3> HIDE DEF o
    <3>2. o \in DOMAIN message /\ o \in Nat
      BY <1>1, <3>1 DEF IncomingInv, UsersInv
    <3>3. /\ \A p \in held : objectOf[p] # o
          /\ \A k \in Conns : \A j \in DOMAIN conn[k].incomings : conn[k].incomings[j] # o
      BY <3>1 DEF IncomingInv, UsersInv, FreeIsUnused
    <3>4. \A p \in DOMAIN objectOf : objectOf[p] = o /\ Clean(o) => Ended(p)
      BY <1>1, <3>1 DEF EndInv
    <3>5. \A i, j \in DOMAIN free : free[i] = free[j] => i = j
      BY DEF IncomingInv, UsersInv, FreeIsUnused
    <3>6. \A i \in DOMAIN free' : free'[i] # o /\ \E j \in DOMAIN free : free'[i] = free[j]
      BY <3>1, <3>5
    <3>7. QED  BY <2>2, <3>2, <3>3, <3>4, <3>6
  <2>3. QED  BY <2>1, <2>2
<1>5. /\ m \in AMessage /\ ~m.unused /\ ~m.endEmitted /\ m.pendings = <<>>
      /\ m.onEnd = m.onData /\ (Clean(o) => m.onData = {})
      /\ \A p \in m.onData : p \in DOMAIN objectOf /\ objectOf[p] = o
           /\ o \in DOMAIN message /\ p \in message[o].onData
  <2>1. <<>> \in Seq(Event)
    OBVIOUS
  <2>2. CASE free = <<>>
    BY <2>1, <2>2 DEF NewMessage, AMessage
  <2>3. CASE free # <<>>
    <3>1. o \in DOMAIN message
      BY <1>4, <2>3
    <3> HIDE DEF o
    <3>2. message[o] \in AMessage
      BY <1>1, <3>1, ElementOfSeq
    <3>3. ASSUME NEW p \in message[o].onData, Clean(o)  PROVE FALSE
      <4>1. p \in DOMAIN objectOf /\ objectOf[p] = o
        BY <3>1 DEF IncomingInv, UsersInv
      <4>2. PICK k \in 0..EOF : ListensTo(p, message[o], got[p], k)
        BY <4>1, <1>1, <3>3 DEF ListenInv
      <4>3. QED  BY <3>3, <4>1, <4>2, <1>4 DEF ListensTo, Ended
    <3>4. message[o].onEnd = message[o].onData /\ (Clean(o) => message[o].onData = {})
      BY <1>1, <3>1, <3>3 DEF ListenInv
    <3>5. \A p \in message[o].onData : p \in DOMAIN objectOf /\ objectOf[p] = o
      BY <3>1 DEF IncomingInv, UsersInv
    <3>6. /\ SetNewSocket(message[o]) \in AMessage
          /\ SetNewSocket(message[o]).unused = FALSE
          /\ SetNewSocket(message[o]).endEmitted = FALSE
          /\ SetNewSocket(message[o]).pendings = <<>>
          /\ SetNewSocket(message[o]).onData = message[o].onData
          /\ SetNewSocket(message[o]).onEnd = message[o].onEnd
      BY <3>2, <2>1 DEF AMessage, SetNewSocket
    <3>7. QED  BY <2>3, <3>1, <3>4, <3>5, <3>6
  <2>4. QED  BY <2>2, <2>3
<1> HIDE DEF m
<1>6. /\ l \in AMessage /\ ~l.unused /\ ~l.endEmitted /\ l.pendings = <<>>
      /\ l.onEnd = l.onData /\ l.onData = m.onData \cup {q}
  BY <1>3, <1>5 DEF AMessage
<1> HIDE DEF l
<1>c. /\ Clean(o) => l.onData = {q}
      /\ \A p \in l.onData : p # q => p \in DOMAIN objectOf /\ objectOf[p] = o
           /\ o \in DOMAIN message /\ p \in message[o].onData
  BY <1>5, <1>6
<1>7. /\ DOMAIN message' = DOMAIN message \cup {o} /\ message'[o] = l
      /\ \A p \in DOMAIN message : p # o => message'[p] = message[p]
  <2>1. CASE free = <<>>
    <3>1. o = Len(message) + 1 /\ message' = Append(message, l)
      BY <1>2, <2>1
    <3> HIDE DEF o
    <3>2. QED  BY <1>1, <1>6, <3>1, AppendProperties
  <2>2. CASE free # <<>>
    <3>1. o \in 1..Len(message) /\ message' = [message EXCEPT ![o] = l]
      BY <1>1, <1>2, <1>4, <2>2
    <3> HIDE DEF o
    <3>2. QED  BY <1>1, <3>1
  <2>3. QED  BY <2>1, <2>2
<1> HIDE DEF o
<1>8. /\ DOMAIN objectOf' = DOMAIN objectOf \cup {q} /\ objectOf'[q] = o
      /\ \A p \in DOMAIN objectOf : objectOf'[p] = objectOf[p]
  <2>1. objectOf \in Seq(Nat) /\ o \in Nat /\ objectOf' = Append(objectOf, o)
    BY <1>1, <1>2, <1>4
  <2>2. QED  BY ONLY <1>q, <2>1, AppendFacts
<1>9. /\ DOMAIN got' = DOMAIN got \cup {q} /\ got'[q] = <<>>
      /\ \A p \in DOMAIN got : got'[p] = got[p]
  <2>1. <<>> \in Seq(Event)
    OBVIOUS
  <2>2. got \in Seq(Seq(Event)) /\ got' = Append(got, <<>>) /\ Len(got) + 1 = q
    BY <1>q, <1>1, <1>2
  <2>3. QED  BY ONLY <2>1, <2>2, AppendFacts
<1>10. /\ s \in Seq(Nat) /\ \E j \in DOMAIN s : s[j] = o
  <2>1. conn[c].incomings \in Seq(Nat)
    BY <1>1 DEF AConnection
  <2>2. QED  BY <1>4, <2>1, AppendFacts
<1> HIDE DEF s
<1>11. /\ r.state = "body" /\ r.incoming = o /\ r.request = q /\ r.k = 0
       /\ r.incomings = s
  BY <1>1 DEF AConnection
<1> HIDE DEF r
<1>12. conn'[c] = r /\ \A k \in Conns : k # c => conn'[k] = conn[k]
  BY <1>1, <1>2
<1>s. /\ \A p : Clean(p)' <=> Clean(p)
      /\ \A p \in DOMAIN objectOf : Spoilt(p)' <=> Spoilt(p)
      /\ Spoilt(q)' <=> ~Clean(o)
  <2>1. cut' = cut /\ \A p \in cut : objectOf'[p] = objectOf[p] /\ p < q
    BY <1>1, <1>2, <1>3, <1>8 DEF CutInv
  <2>2. \A p \in DOMAIN objectOf : objectOf'[p] = objectOf[p]
    BY <1>8
  <2>3. \A p : Clean(p)' <=> Clean(p)
    BY <2>1 DEF Clean
  <2>4. \A p \in DOMAIN objectOf : Spoilt(p)' <=> Spoilt(p)
    BY <2>1, <2>2 DEF Spoilt
  <2>5. Spoilt(q)' <=> ~Clean(o)
    BY <1>8, <2>1 DEF Spoilt, Clean
  <2>6. QED  BY <2>3, <2>4, <2>5
<1>13. ASSUME NEW p \in DOMAIN objectOf
       PROVE  /\ p # q /\ p \in DOMAIN got /\ objectOf'[p] = objectOf[p]
              /\ objectOf[p] \in DOMAIN message
              /\ Ended(p)' <=> Ended(p)
              /\ objectOf[p] # o => (Latest(p)' <=> Latest(p))
  <2>1. p # q /\ p \in DOMAIN got /\ objectOf'[p] = objectOf[p] /\ got'[p] = got[p]
    BY <1>1, <1>3, <1>8, <1>9
  <2>2. Ended(p)' <=> Ended(p)
    BY <2>1 DEF Ended, EOF
  <2>3. objectOf[p] # o => (Latest(p)' <=> Latest(p))
    BY <1>8, <2>1 DEF Latest
  <2>4. objectOf[p] \in DOMAIN message
    BY DEF IncomingInv, UsersInv
  <2>5. QED  BY <2>1, <2>2, <2>3, <2>4
<1>14. Latest(q)'
  <2>1. \A p \in DOMAIN objectOf' : p <= q
    BY <1>3, <1>8
  <2>2. QED  BY <2>1 DEF Latest
<1>15. GotInv'
  <2>1. GotOk(got'[q], q)
    BY <1>9 DEF GotOk
  <2>2. Told(q)'
    BY <2>1 DEF Told, GotOk, EOF, Close
  <2>3. ASSUME NEW p \in DOMAIN got, Told(p)  PROVE Told(p)'
    <3>1. GotOk(got'[p], p) \/ (p \in cut /\ GotCut(got'[p], p))
      BY <1>9, <2>3 DEF Told
    <3>2. QED  BY <1>2, <3>1 DEF Told, GotOk, GotCut, EOF, Close
  <2>4. QED  BY <1>1, <1>9, <1>s, <2>2, <2>3 DEF GotInv
<1>16. ASSUME NEW p \in DOMAIN objectOf', p \in message'[objectOf'[p]].onData,
              Clean(objectOf'[p])
       PROVE  /\ Latest(p)'
              /\ \E k \in 0..EOF : IsFed(p, k)' /\ ListensTo(p, message'[objectOf'[p]], got'[p], k)
  <2>1. CASE objectOf'[p] = o
    <3>1. p = q /\ message'[objectOf'[p]] = l /\ got'[p] = <<>>
      BY <1>c, <1>7, <1>9, <1>16, <2>1
    <3>2. 0 \in 0..EOF
      BY EOFIsNat
    <3>3. conn'[c].state = "body" /\ conn'[c].request = q /\ conn'[c].k = 0
      BY <1>11, <1>12
    <3>4. Parsed(q)'
      BY <3>3 DEF Parsed
    <3>5. \E k \in Conns : conn'[k].state = "body" /\ conn'[k].request = q /\ conn'[k].k = 0
      BY <3>3
    <3>6. IsFed(q, 0)'
      BY <3>4, <3>5 DEF IsFed
    <3>7. ListensTo(q, l, <<>>, 0)
      BY <1>6 DEF ListensTo
    <3>8. QED  BY <1>14, <3>1, <3>2, <3>6, <3>7
  <2>2. CASE objectOf'[p] # o
    <3>1. p \in DOMAIN objectOf
      BY <1>8, <2>2
    <3>2. /\ objectOf'[p] = objectOf[p] /\ objectOf[p] # o /\ p # q
          /\ message'[objectOf'[p]] = message[objectOf[p]] /\ got'[p] = got[p]
      BY <1>7, <1>9, <1>13, <2>2, <3>1
    <3>3. Latest(p) /\ \E k \in 0..EOF : IsFed(p, k) /\ ListensTo(p, message[objectOf[p]], got[p], k)
      BY <1>1, <1>16, <3>1, <3>2 DEF ListenInv
    <3>4. PICK k \in 0..EOF : IsFed(p, k) /\ ListensTo(p, message[objectOf[p]], got[p], k)
      BY <3>3
    <3>5. \A b \in Conns :
            /\ conn'[b].state = "body" /\ conn'[b].request = p => conn'[b] = conn[b]
            /\ conn[b].state = "body" => conn'[b] = conn[b]
      BY <1>2, <1>11, <1>12, <3>2
    <3>6. IsFed(p, k)'
      BY <3>4, <3>5 DEF IsFed, Parsed, EOF
    <3>7. QED  BY <1>13, <3>1, <3>2, <3>3, <3>4, <3>6
  <2>3. QED  BY <2>1, <2>2
<1>17. ListenInv'
  <2>1. \A p \in DOMAIN message' : message'[p].onEnd = message'[p].onData
    BY <1>1, <1>6, <1>7 DEF ListenInv
  <2>2. ASSUME NEW p \in DOMAIN objectOf', p \in message'[objectOf'[p]].onData, ~Spoilt(p)'
        PROVE  Clean(objectOf'[p])
    <3>1. CASE p = q
      BY <1>8, <1>s, <2>2, <3>1
    <3>2. CASE p # q /\ objectOf'[p] = o
      BY <1>1, <1>7, <1>8, <1>c, <1>s, <2>2, <3>2 DEF ListenInv
    <3>3. CASE p # q /\ objectOf'[p] # o
      <4>1. p \in DOMAIN objectOf /\ objectOf'[p] = objectOf[p]
        BY <1>8, <3>3
      <4>2. message'[objectOf'[p]] = message[objectOf[p]]
        BY <1>7, <1>13, <3>3, <4>1
      <4>3. QED  BY <1>1, <1>s, <2>2, <4>1, <4>2 DEF ListenInv
    <3>4. QED  BY <3>1, <3>2, <3>3
  <2>3. \A p \in DOMAIN objectOf' : Clean(objectOf'[p]) <=> Clean(objectOf[p])'
    BY <1>2, <1>s DEF Clean
  <2>4. QED  BY <1>16, <2>1, <2>2, <2>3 DEF ListenInv, EOF
<1>18. EndInv'
  <2>1. ASSUME NEW p \in DOMAIN objectOf', Clean(objectOf'[p])
        PROVE  /\ ~Latest(p)' => Ended(p)'
               /\ p \in held' => Latest(p)'
               /\ p \in held' /\ message'[objectOf'[p]].unused => Ended(p)'
               /\ \A i \in DOMAIN free' : free'[i] = objectOf'[p] => Ended(p)'
    <3>1. CASE p = q
      <4>1. /\ objectOf'[p] = o /\ ~message'[o].unused
            /\ \A i \in DOMAIN free' : free'[i] # o
        BY <1>4, <1>6, <1>7, <1>8, <3>1
      <4>2. Latest(p)'
        BY <1>14, <3>1
      <4>3. QED  BY <4>1, <4>2
    <3>2. CASE p \in DOMAIN objectOf /\ objectOf[p] = o
      BY <1>2, <1>4, <1>13, <2>1, <3>2
    <3>3. CASE p \in DOMAIN objectOf /\ objectOf[p] # o
      <4>1. /\ objectOf'[p] = objectOf[p] /\ message'[objectOf[p]] = message[objectOf[p]]
            /\ Ended(p)' <=> Ended(p)
            /\ Latest(p)' <=> Latest(p)
            /\ p \in held' <=> p \in held
        BY <1>2, <1>7, <1>13, <3>3
      <4>2. \A i \in DOMAIN free' : free'[i] = objectOf[p] => Ended(p)
        BY <1>1, <1>4, <2>1, <3>3, <4>1 DEF EndInv
      <4>3. QED  BY <1>1, <2>1, <3>3, <4>1, <4>2 DEF EndInv
    <3>4. QED  BY <1>8, <3>1, <3>2, <3>3
  <2>2. \A p \in DOMAIN objectOf' : Clean(objectOf[p])' => Clean(objectOf'[p])
    BY <1>2, <1>s DEF Clean
  <2>3. QED  BY <2>1, <2>2 DEF EndInv
<1>19. ASSUME NEW b \in Conns, b # c, conn'[b].state = "body"
       PROVE  /\ conn'[b] = conn[b] /\ (Clean(conn[b].incoming) => conn[b].incoming # o)
              /\ conn[b].request \in DOMAIN objectOf
              /\ objectOf[conn[b].request] = conn[b].incoming
              /\ conn[b].incoming \in DOMAIN message
  <2>1. conn'[b] = conn[b]
    BY <1>12, <1>19
  <2>2. /\ conn[b].request \in DOMAIN objectOf
        /\ objectOf[conn[b].request] = conn[b].incoming
        /\ Clean(conn[b].incoming) =>
             \E j \in DOMAIN conn[b].incomings : conn[b].incomings[j] = conn[b].incoming
    BY <1>1, <1>19, <2>1 DEF ParseInv
  <2>3. QED  BY <1>4, <1>13, <2>1, <2>2
<1>20. ASSUME NEW b \in Conns, conn'[b].state = "body"
       PROVE  /\ conn'[b].request \in DOMAIN objectOf'
              /\ objectOf'[conn'[b].request] = conn'[b].incoming
              /\ conn'[b].k \in 0..Chunks
              /\ Clean(conn'[b].incoming) =>
                   /\ conn'[b].request \in message'[conn'[b].incoming].onData
                   /\ \E j \in DOMAIN conn'[b].incomings :
                        conn'[b].incomings[j] = conn'[b].incoming
  <2>1. CASE b = c
    <3>1. 0 \in 0..Chunks
      BY EOFIsNat
    <3>2. q \in l.onData
      BY <1>6
    <3>3. QED  BY <1>7, <1>8, <1>10, <1>11, <1>12, <2>1, <3>1, <3>2
  <2>2. CASE b # c
    <3>1. /\ conn'[b] = conn[b] /\ (Clean(conn[b].incoming) => conn[b].incoming # o)
          /\ conn[b].incoming \in DOMAIN message
          /\ conn[b].request \in DOMAIN objectOf
      BY <1>19, <1>20, <2>2
    <3>2. /\ objectOf'[conn[b].request] = objectOf[conn[b].request]
          /\ Clean(conn[b].incoming) =>
               message'[conn[b].incoming] = message[conn[b].incoming]
          /\ conn[b].request \in DOMAIN objectOf'
      BY <1>7, <1>8, <3>1
    <3>3. conn[b].state = "body"
      BY <1>20, <3>1
    <3>4. QED  BY <1>1, <3>1, <3>2, <3>3 DEF ParseInv
  <2>3. QED  BY <2>1, <2>2
<1>21. ParseInv'
  <2>1. \A a, b \in Conns :
          conn'[a].state = "body" /\ conn'[b].state = "body"
            /\ conn'[a].request = conn'[b].request => a = b
    <3>1. \A b \in Conns : conn'[b].state = "body" /\ conn'[b].request = q => b = c
      BY <1>3, <1>19
    <3>2. conn'[c].request = q
      BY <1>11, <1>12
    <3>3. \A b \in Conns : b # c => conn'[b] = conn[b]
      BY <1>12
    <3>4. QED  BY <1>1, <3>1, <3>2, <3>3 DEF ParseInv
  <2>2. \A b \in Conns : Clean(conn[b].incoming)' => Clean(conn'[b].incoming)
    BY <1>2, <1>s DEF Clean
  <2>3. QED  BY <1>20, <2>1, <2>2 DEF ParseInv
<1>22. PendingInv'
  <2>1. \A p \in DOMAIN message : OnItsWay(p)' <=> OnItsWay(p)
    BY <1>2 DEF OnItsWay
  <2>2. QED  BY <1>1, <1>6, <1>7, <2>1 DEF PendingInv
<1>23. CutInv'
  <2>1. \A p \in DOMAIN message' : \E y \in DOMAIN objectOf' : objectOf'[y] = p
    BY <1>1, <1>7, <1>8 DEF CutInv
  <2>2. QED  BY <1>1, <1>2, <1>8, <2>1 DEF CutInv
<1>24. QED  BY <1>15, <1>17, <1>18, <1>21, <1>22, <1>23 DEF DataInv

LEMMA DataInitially ==
  ASSUME IncomingInit
  PROVE  DataInv
BY DEF IncomingInit, DataInv, GotInv, ListenInv, EndInv, ParseInv, PendingInv, CutInv

LEMMA DataStep ==
  ASSUME ReadsAll, IncomingInv, DataInv, [IncomingNext]_incomingVars
  PROVE  DataInv'
<1>1. ASSUME NEW c \in Conns,
             \/ HeadersComplete(c) \/ OnBody(c) \/ OnMessageComplete(c)
             \/ SocketOnClose(c) \/ Answer(c)
      PROVE  DataInv'
  BY <1>1, HeadersCompleteTells, OnBodyTells, OnMessageCompleteTells,
     SocketOnCloseTells, AnswerTells
<1>2. CASE EmitPending \/ EmitNext \/ EmitPendingEnds
  BY <1>2, TickTells, EmitNextTells
<1>3. ASSUME NEW q \in held, Drop(q) \/ Pause(q) \/ Resume(q)
      PROVE  DataInv'
  <2>1. CASE Drop(q)
    BY <2>1, DropTells
  <2>o. PICK o : o = objectOf[q]
    OBVIOUS
  <2>2. o \in DOMAIN message
    BY <2>o DEF IncomingInv, IncomingTypes, UsersInv
  <2>3. CASE Pause(q)
    BY <2>o, <2>2, <2>3, PausedTells DEF Pause
  <2>4. CASE Resume(q)
    BY <2>o, <2>2, <2>4, PausedTells DEF Resume
  <2>5. QED  BY <1>3, <2>1, <2>3, <2>4
<1>4. CASE UNCHANGED incomingVars
  <2>1. UNCHANGED <<message, free, conn, ticks, running, objectOf, held, got, cut>>
    BY <1>4 DEF incomingVars
  <2>2. PendingInv'
    BY <2>1 DEF DataInv, PendingInv, OnItsWay
  <2>3. QED  BY <2>1, <2>2, QuietTells
<1>5. QED  BY <1>1, <1>2, <1>3, <1>4 DEF IncomingNext

(* What a request has got is in order. *)
LEMMA InOrder ==
  ASSUME NEW g \in Seq(Event), NEW q, GotOk(g, q)
  PROVE  /\ \A i \in DOMAIN g :
              LET data == {j \in 1..i : g[j].k # Close}
              IN  i \in data => g[i] = [of |-> q, k |-> Cardinality(data)]
         /\ \A i, j \in DOMAIN g : i < j /\ g[i].k \in {EOF, Close} => g[j].k = Close
<1>1. ASSUME NEW i \in DOMAIN g
      PROVE  LET data == {j \in 1..i : g[j].k # Close}
             IN  i \in data => g[i] = [of |-> q, k |-> Cardinality(data)]
  <2> DEFINE data == {j \in 1..i : g[j].k # Close}
  <2> SUFFICES ASSUME i \in data  PROVE g[i] = [of |-> q, k |-> Cardinality(data)]
    OBVIOUS
  <2>1. g[i] \in Event /\ i \in Nat /\ i >= 1 /\ 1..i \subseteq DOMAIN g /\ g[i].k # Close
    OBVIOUS
  <2>2. ASSUME NEW j \in 1..i  PROVE g[j].k # Close
    <3>1. j = i \/ j < i
      BY <2>1
    <3>2. QED  BY <3>1, <2>1 DEF GotOk
  <2>3. data = 1..i
    BY <2>2
  <2>4. Cardinality(1..i) = i
    BY <2>1, FS_Interval
  <2>5. g[i].of = q /\ g[i].k = i
    BY <2>1 DEF GotOk
  <2> HIDE DEF data
  <2>6. g[i] = [of |-> q, k |-> i]
    BY <2>1, <2>5 DEF Event
  <2>7. QED  BY <2>3, <2>4, <2>6
<1>2. ASSUME NEW i \in DOMAIN g, NEW j \in DOMAIN g, i < j, g[i].k \in {EOF, Close}
      PROVE  g[j].k = Close
  <2>1. CASE g[i].k = Close
    BY <1>2, <2>1 DEF GotOk
  <2>2. CASE g[i].k # Close /\ g[j].k # Close
    <3>1. i = EOF /\ j <= EOF /\ j \in Nat
      BY <1>2, <2>2 DEF GotOk
    <3>2. QED  BY <1>2, <3>1, EOFIsNat
  <2>3. QED  BY <2>1, <2>2
<1>3. QED  BY <1>1, <1>2

(* What a request has got that lost a chunk. *)
LEMMA InOrderCut ==
  ASSUME NEW g \in Seq(Event), NEW q, GotCut(g, q)
  PROVE  /\ \A i \in DOMAIN g :
              LET data == {j \in 1..i : g[j].k # Close}
              IN  i \in data => \/ g[i] = [of |-> q, k |-> Cardinality(data)]
                                \/ g[i].k = EOF
         /\ \A i, j \in DOMAIN g : i < j /\ g[i].k \in {EOF, Close} => g[j].k = Close
<1>1. PICK n \in Nat :
        /\ n + 1 \in DOMAIN g
        /\ \A i \in DOMAIN g :
             /\ i <= n => g[i].of = q /\ g[i].k = i /\ g[i].k \notin {EOF, Close}
             /\ i = n + 1 => g[i].k = EOF
             /\ i > n + 1 => g[i].k = Close
  BY DEF GotCut
<1>2. ASSUME NEW i \in DOMAIN g
      PROVE  LET data == {j \in 1..i : g[j].k # Close}
             IN  i \in data => \/ g[i] = [of |-> q, k |-> Cardinality(data)]
                               \/ g[i].k = EOF
  <2> DEFINE data == {j \in 1..i : g[j].k # Close}
  <2> SUFFICES ASSUME i <= n  PROVE g[i] = [of |-> q, k |-> Cardinality(data)]
    BY <1>1
  <2>1. g[i] \in Event /\ i \in Nat /\ i >= 1 /\ 1..i \subseteq DOMAIN g
    OBVIOUS
  <2>2. \A j \in 1..i : g[j].k # Close
    BY <1>1, <2>1
  <2>3. data = 1..i
    BY <2>2
  <2>4. Cardinality(1..i) = i
    BY <2>1, FS_Interval
  <2>5. g[i].of = q /\ g[i].k = i
    BY <1>1
  <2> HIDE DEF data
  <2>6. g[i] = [of |-> q, k |-> i]
    BY <2>1, <2>5 DEF Event
  <2>7. QED  BY <2>3, <2>4, <2>6
<1>3. \A i, j \in DOMAIN g : i < j /\ g[i].k \in {EOF, Close} => g[j].k = Close
  <2>1. DOMAIN g \subseteq Nat
    OBVIOUS
  <2>2. QED  BY <1>1, <2>1
<1>4. QED  BY <1>2, <1>3

LEMMA DataImplies ==
  ASSUME IncomingInv, DataInv
  PROVE  DataInOrder
<1>1. ASSUME NEW q \in DOMAIN got, ~Spoilt(q)
      PROVE  /\ \A i \in DOMAIN got[q] :
                  LET data == {j \in 1..i : got[q][j].k # Close}
                  IN  i \in data =>
                        \/ got[q][i] = [of |-> q, k |-> Cardinality(data)]
                        \/ q \in cut /\ got[q][i].k = EOF
             /\ \A i, j \in DOMAIN got[q] :
                  i < j /\ got[q][i].k \in {EOF, Close} => got[q][j].k = Close
  <2>1. got[q] \in Seq(Event) /\ Told(q)
    BY <1>1 DEF IncomingInv, IncomingTypes, DataInv, GotInv
  <2>2. CASE GotOk(got[q], q)
    BY <2>1, <2>2, InOrder
  <2>3. CASE q \in cut /\ GotCut(got[q], q)
    BY <2>1, <2>3, InOrderCut
  <2>4. QED  BY <2>1, <2>2, <2>3 DEF Told
<1>2. \A o \in DOMAIN message :
        ~message[o].paused /\ message[o].pendings # <<>> =>
          running = o \/ \E i \in DOMAIN ticks : ticks[i] = o
  BY DEF DataInv, PendingInv, OnItsWay
<1>3. QED  BY <1>1, <1>2 DEF DataInOrder

(* The listeners of every request get chunk after chunk of its own body    *)
(* and then its end, however connections, pauses, ticks and the FreeList   *)
(* interleave (http/parser.h, http/incoming_message.h, free_list.h), for   *)
(* any connections, requests and chunks, if the application answers a      *)
(* request only when it has read it: the counterexample of the run with    *)
(* ReadsAll FALSE shows that it must.  A chunk that EmitPending takes for  *)
(* the end cuts the body of its request off there and spoils no request    *)
(* but those that get the same message later.                              *)
THEOREM DataArrivesInOrder ==
  ASSUME ReadsAll
  PROVE  IncomingSpec => []DataInOrder
<1>1. IncomingInv /\ [IncomingNext]_incomingVars => IncomingInv'
  BY IncomingKeeps, IncomingStays
<1>2. IncomingInv /\ DataInv /\ [IncomingNext]_incomingVars => DataInv'
  BY DataStep
<1>3. IncomingInit => IncomingInv /\ DataInv
  BY IncomingInitial, DataInitially
<1>4. IncomingInv /\ DataInv => DataInOrder
  BY DataImplies
<1>5. QED  BY <1>1, <1>2, <1>3, <1>4, PTL DEF IncomingSpec

(* Nothing is pending behind the end of a request. *)
EndLast(l) == \A i \in DOMAIN l : l[i].k = EOF => i = Len(l)
EndLastInv == ~broken /\ \A o \in DOMAIN message : EndLast(message[o].pendings)

LEMMA EmitToPends ==
  ASSUME NEW m \in AMessage, NEW e
  PROVE  EmitTo(m, e).msg.pendings = m.pendings
<1> DEFINE n == [m EXCEPT !.endEmitted = TRUE, !.onData = {}, !.onEnd = {}]
<1>1. n.pendings = m.pendings
  BY DEF AMessage
<1>2. EmitTo(m, e).msg = m \/ EmitTo(m, e).msg = n
  BY DEF EmitTo
<1> HIDE DEF n
<1>3. QED  BY <1>1, <1>2

LEMMA ReceivePends ==
  ASSUME NEW m \in AMessage, NEW e \in Event
  PROVE  Receive(m, e).msg.pendings \in {m.pendings, Append(m.pendings, e)}
<1>1. CASE m.paused \/ m.pendings # <<>>
  <2> DEFINE n == [m EXCEPT !.pendings = Append(@, e)]
  <2>1. n.pendings = Append(m.pendings, e)
    BY DEF AMessage
  <2>2. Receive(m, e).msg = n
    BY <1>1 DEF Receive
  <2> HIDE DEF n
  <2>3. QED  BY <2>1, <2>2
<1>2. CASE ~(m.paused \/ m.pendings # <<>>)
  BY <1>2, EmitToPends DEF Receive
<1>3. QED  BY <1>1, <1>2

(* A step that changes what is pending of no message but o. *)
LEMMA OnePends ==
  ASSUME EndLastInv, ~broken', NEW o,
         \A p \in DOMAIN message' : p # o =>
           p \in DOMAIN message /\ message'[p].pendings = message[p].pendings,
         o \in DOMAIN message' => EndLast(message'[o].pendings)
  PROVE  EndLastInv'
<1>1. \A p \in DOMAIN message' : EndLast(message'[p].pendings)
  BY DEF EndLastInv
<1>2. QED  BY <1>1 DEF EndLastInv, EndLast, EOF

LEMMA BeforeTheEnd ==
  ASSUME NEW a \in Nat, NEW b \in Nat, NEW i \in 1..b, NEW j \in Nat, NEW n \in Nat,
         a + b = j, j <= n
  PROVE  a + i # n + 1
OBVIOUS

(* The message that is parsed has no end pending. *)
LEMMA FeedEnds ==
  ASSUME IncomingInv, DataInv, EndLastInv, cut = {}, NEW c \in Conns, NEW k \in Nat,
         conn[c].state = "body", Feed(c, k), broken' = broken
  PROVE  EndLastInv'
<1>q. PICK q : q = conn[c].request
  OBVIOUS
<1>o. PICK o : o = conn[c].incoming
  OBVIOUS
<1>1. /\ o \in DOMAIN message /\ message[o] \in AMessage /\ conn[c] \in AConnection
      /\ q \in message[o].onData /\ conn[c].k \in 0..Chunks
      /\ \A d \in Conns : conn[d].state = "body" /\ conn[d].request = q => d = c
      /\ Clean(o)
  BY <1>q, <1>o DEF IncomingInv, IncomingTypes, PlacesInv, DataInv, ParseInv, Clean
<1> DEFINE e == [of |-> q, k |-> k]
           p == message[o].pendings
           r == Receive(message[o], e)
<1>2. e \in Event
  BY <1>1, <1>q DEF AConnection, Event
<1>3. p \in Seq(Event)
  BY <1>1 DEF AMessage
<1>4. message' = [message EXCEPT ![o] = r.msg]
  BY <1>q, <1>o DEF Feed
<1> HIDE DEF e
<1>5. r.msg.pendings \in {p, Append(p, e)}
  BY <1>1, <1>2, ReceivePends
<1> HIDE DEF r
<1>6. PICK j \in 0..EOF : IsFed(q, j) /\ ListensTo(q, message[o], got[q], j)
  BY <1>1, OneListens
<1>7. j = conn[c].k /\ j \in 0..Chunks
  BY <1>1, <1>q, <1>6 DEF IsFed, Parsed
<1>8. \A i \in DOMAIN p : p[i].k # EOF
  <2>1. got[q] \in Seq(Event)
    BY <1>1, OneListens
  <2>2. Len(got[q]) + Len(p) = j /\ \A i \in DOMAIN p : p[i].k = Len(got[q]) + i
    BY <1>6 DEF ListensTo
  <2>3. Len(got[q]) \in Nat /\ Len(p) \in Nat /\ DOMAIN p = 1..Len(p)
    BY <2>1, <1>3
  <2>4. ASSUME NEW i \in DOMAIN p  PROVE Len(got[q]) + i # EOF
    <3>1. j \in Nat /\ j <= Chunks /\ Chunks \in Nat /\ EOF = Chunks + 1
      BY <1>7, EOFIsNat
    <3>a. PICK a : a = Len(got[q])
      OBVIOUS
    <3>b. PICK b : b = Len(p)
      OBVIOUS
    <3>2. a \in Nat /\ b \in Nat /\ i \in 1..b /\ a + b = j
      BY <2>2, <2>3, <3>a, <3>b
    <3>3. a + i # Chunks + 1
      BY ONLY <3>1, <3>2, BeforeTheEnd
    <3>4. QED  BY <3>1, <3>3, <3>a
  <2>5. QED  BY <2>2, <2>4
<1>9. EndLast(r.msg.pendings)
  <2>1. CASE r.msg.pendings = p
    BY <1>8, <2>1 DEF EndLast
  <2>2. CASE r.msg.pendings = Append(p, e)
    <3>1. /\ DOMAIN Append(p, e) = DOMAIN p \cup {Len(p) + 1}
          /\ Len(Append(p, e)) = Len(p) + 1
          /\ \A i \in DOMAIN p : Append(p, e)[i] = p[i]
      BY <1>2, <1>3, AppendFacts
    <3> HIDE DEF p
    <3>2. QED  BY <1>8, <2>2, <3>1 DEF EndLast
  <2>3. QED  BY <1>5, <2>1, <2>2
<1>10. /\ DOMAIN message' = DOMAIN message /\ message'[o] = r.msg
       /\ \A x \in DOMAIN message : x # o => message'[x] = message[x]
  BY <1>1, <1>4
<1>11. ~broken'
  BY DEF EndLastInv
<1>12. QED  BY <1>9, <1>10, <1>11, OnePends

LEMMA EmitNextEnds ==
  ASSUME IncomingInv, EndLastInv, EmitNext, cut' = {}
  PROVE  EndLastInv'
<1> DEFINE o == running
           m == message[o]
           e == Head(m.pendings)
           n == [m EXCEPT !.pendings = Tail(@)]
           r == EmitTo(n, e)
<1>1. /\ o \in DOMAIN message /\ m \in AMessage /\ m.pendings # <<>>
      /\ message' = [message EXCEPT ![o] = r.msg]
      /\ broken' = (broken \/ (e.k = EOF /\ r.msg.pendings # <<>>))
      /\ EndLast(m.pendings) /\ ~broken
  <2>1. PICK chunk \in ToPtr(e) : TakesOut(e, chunk)
    BY DEF EmitNext
  <2>2. chunk = e
    BY <2>1 DEF TakesOut
  <2>3. /\ message' = [message EXCEPT ![o] = r.msg]
        /\ broken' = (broken \/ (e.k = EOF /\ r.msg.pendings # <<>>))
    BY <2>1, <2>2 DEF TakesOut
  <2>4. QED  BY <2>3 DEF IncomingInv, IncomingTypes, PlacesInv, EmitNext, EndLastInv
<1>2. n \in AMessage /\ n.pendings = Tail(m.pendings)
  <2> DEFINE p == m.pendings
             l == Tail(p)
  <2>1. p \in Seq(Event) /\ p # <<>>
    BY <1>1 DEF AMessage
  <2> HIDE DEF p
  <2>2. l \in Seq(Event)
    BY <2>1
  <2>3. n = [m EXCEPT !.pendings = l]
    BY DEF p
  <2> HIDE DEF l, n
  <2>4. n \in AMessage /\ n.pendings = l
    BY <1>1, <2>2, <2>3 DEF AMessage
  <2>5. QED  BY <2>4 DEF p, l
<1>3. r.msg.pendings = Tail(m.pendings)
  BY <1>2, EmitToPends
<1> HIDE DEF r, n
<1>4. /\ EndLast(Tail(m.pendings))
      /\ e.k = EOF => Tail(m.pendings) = <<>>
  <2> DEFINE p == m.pendings
  <2>1. p \in Seq(Event) /\ p # <<>> /\ EndLast(p) /\ e = Head(p)
    BY <1>1 DEF AMessage
  <2> HIDE DEF p, e
  <2> DEFINE t == Tail(p)
  <2>2. /\ e = p[1] /\ 1 \in DOMAIN p /\ t \in Seq(Event)
        /\ Len(t) + 1 = Len(p) /\ Len(t) \in Nat
        /\ \A i \in DOMAIN t : i \in Nat /\ i + 1 \in DOMAIN p /\ t[i] = p[i + 1]
    BY <2>1
  <2> HIDE DEF t
  <2>3. ASSUME NEW i \in DOMAIN t, t[i].k = EOF  PROVE i = Len(t)
    <3>1. i + 1 = Len(t) + 1 /\ i \in Nat
      BY <2>1, <2>2, <2>3 DEF EndLast
    <3>2. Len(t) \in Nat
      BY <2>2
    <3>3. QED  BY ONLY <3>1, <3>2
  <2>4. ASSUME e.k = EOF  PROVE t = <<>>
    <3>1. Len(p) = 1
      BY <2>1, <2>2, <2>4 DEF EndLast
    <3>2. t \in Seq(Event) /\ Len(t) + 1 = 1 /\ Len(t) \in Nat
      BY <2>2, <3>1
    <3>3. QED  BY ONLY <3>2
  <2>5. EndLast(t)
    BY <2>3 DEF EndLast
  <2>6. QED  BY <2>4, <2>5 DEF p, t
<1>5. /\ DOMAIN message' = DOMAIN message /\ message'[o] = r.msg /\ ~broken'
      /\ \A x \in DOMAIN message : x # o => message'[x] = message[x]
  BY <1>1, <1>3, <1>4
<1> HIDE DEF o
<1>6. QED  BY <1>3, <1>4, <1>5, OnePends

LEMMA HeadersCompleteEnds ==
  ASSUME IncomingInv, EndLastInv, NEW c \in Conns, HeadersComplete(c)
  PROVE  EndLastInv'
<1>q. PICK q : q = Len(objectOf) + 1
  OBVIOUS
<1> DEFINE o == IF free = <<>> THEN Len(message) + 1 ELSE Head(free)
           m == IF free = <<>> THEN NewMessage ELSE SetNewSocket(message[o])
           d == m.onData \cup {q}
           e == m.onEnd \cup {q}
           x == m.onClose \cup {q}
           l == [m EXCEPT !.onData = d, !.onEnd = e, !.onClose = x]
<1>1. /\ message' = IF free = <<>> THEN Append(message, l) ELSE [message EXCEPT ![o] = l]
      /\ broken' = broken
  BY <1>q DEF HeadersComplete
<1>2. /\ message \in Seq(AMessage) /\ Len(message) \in Nat /\ free \in Seq(Nat)
      /\ DOMAIN message = 1..Len(message) /\ objectOf \in Seq(Nat)
  BY DEF IncomingInv, IncomingTypes
<1>3. free # <<>> => o \in DOMAIN message
  <2>1. ASSUME free # <<>>  PROVE 1 \in DOMAIN free /\ o = free[1]
    BY <1>2, <2>1
  <2>2. QED  BY <2>1 DEF IncomingInv, UsersInv
<1>4. m \in AMessage /\ m.pendings = <<>>
  <2>1. <<>> \in Seq(Event)
    OBVIOUS
  <2>2. CASE free = <<>>
    BY <2>1, <2>2 DEF NewMessage, AMessage
  <2>3. CASE free # <<>>
    <3>1. o \in DOMAIN message
      BY <1>3, <2>3
    <3> HIDE DEF o
    <3>2. message[o] \in AMessage
      BY <1>2, <3>1, ElementOfSeq
    <3>3. SetNewSocket(message[o]) \in AMessage /\ SetNewSocket(message[o]).pendings = <<>>
      BY <3>2, <2>1 DEF AMessage, SetNewSocket
    <3>4. QED  BY <2>3, <3>3
  <2>4. QED  BY <2>2, <2>3
<1> HIDE DEF m
<1>5. l \in AMessage /\ l.pendings = <<>>
  <2>1. q \in Nat
    BY <1>q, <1>2
  <2>2. QED  BY <1>4, <2>1 DEF AMessage
<1> HIDE DEF l
<1>6. /\ message'[o] = l
      /\ \A p \in DOMAIN message' : p # o => p \in DOMAIN message /\ message'[p] = message[p]
  <2>1. CASE free = <<>>
    <3>1. o = Len(message) + 1 /\ message' = Append(message, l)
      BY <1>1, <2>1
    <3> HIDE DEF o
    <3>2. QED  BY <1>2, <1>5, <3>1, AppendFacts
  <2>2. CASE free # <<>>
    <3>1. o \in DOMAIN message /\ message' = [message EXCEPT ![o] = l]
      BY <1>1, <1>3, <2>2
    <3> HIDE DEF o
    <3>2. QED  BY <3>1
  <2>3. QED  BY <2>1, <2>2
<1>o. PICK y : y = o
  OBVIOUS
<1> HIDE DEF o
<1>7. EndLast(<<>>)
  BY DEF EndLast
<1>8. QED  BY <1>o, <1>1, <1>5, <1>6, <1>7, OnePends DEF EndLastInv

(* A step that changes nothing of what is pending. *)
LEMMA NonePends ==
  ASSUME EndLastInv, broken' = broken, DOMAIN message' = DOMAIN message,
         \A p \in DOMAIN message : message'[p].pendings = message[p].pendings
  PROVE  EndLastInv'
<1>1. \A p \in DOMAIN message' : EndLast(message'[p].pendings)
  BY DEF EndLastInv
<1>2. QED  BY <1>1 DEF EndLastInv, EndLast, EOF

(* One flag of a message changes. *)
LEMMA FlagsPend ==
  ASSUME IncomingInv, NEW o, NEW b,
         message' \in {[message EXCEPT ![o].paused = b], [message EXCEPT ![o].unused = b], message}
  PROVE  /\ DOMAIN message' = DOMAIN message
         /\ \A p \in DOMAIN message : message'[p].pendings = message[p].pendings
<1>1. \A p \in DOMAIN message : message[p] \in AMessage
  BY ElementOfSeq DEF IncomingInv, IncomingTypes
<1>2. \A m \in AMessage : /\ [m EXCEPT !.paused = b].pendings = m.pendings
                          /\ [m EXCEPT !.unused = b].pendings = m.pendings
  BY DEF AMessage
<1>3. CASE message' = [message EXCEPT ![o].paused = b]
  BY <1>1, <1>2, <1>3
<1>4. CASE message' = [message EXCEPT ![o].unused = b]
  BY <1>1, <1>2, <1>4
<1>5. QED  BY <1>3, <1>4

LEMMA EndLastStep ==
  ASSUME IncomingInv, DataInv, EndLastInv, [IncomingNext]_incomingVars,
         cut = {}, cut' = {}
  PROVE  EndLastInv'
<1>1. ASSUME NEW c \in Conns, OnBody(c) \/ OnMessageComplete(c)
      PROVE  EndLastInv'
  <2>1. conn[c].k + 1 \in Nat /\ EOF \in Nat
    BY EOFIsNat DEF IncomingInv, IncomingTypes, AConnection
  <2>2. CASE OnBody(c)
    BY <2>1, <2>2, FeedEnds DEF OnBody
  <2>3. CASE OnMessageComplete(c)
    BY <2>1, <2>3, FeedEnds DEF OnMessageComplete
  <2>4. QED  BY <1>1, <2>2, <2>3
<1>2. ASSUME NEW c \in Conns, SocketOnClose(c)
      PROVE  EndLastInv'
  <2>1. \A p \in DOMAIN message : message[p] \in AMessage
    BY ElementOfSeq DEF IncomingInv, IncomingTypes
  <2>2. \A m \in AMessage : Aborted(m).pendings = m.pendings
    BY DEF AMessage, Aborted
  <2>3. /\ DOMAIN message' = DOMAIN message /\ broken' = broken
        /\ \A p \in DOMAIN message : message'[p] = Aborted(message[p]) \/ message'[p] = message[p]
    BY <1>2 DEF SocketOnClose
  <2>4. QED  BY <2>1, <2>2, <2>3, NonePends
<1>3. ASSUME NEW o, Release(o), broken' = broken
      PROVE  EndLastInv'
  <2>1. message' \in {[message EXCEPT ![o].unused = TRUE], message}
    BY <1>3 DEF Release
  <2>2. /\ DOMAIN message' = DOMAIN message
        /\ \A p \in DOMAIN message : message'[p].pendings = message[p].pendings
    BY <2>1, FlagsPend
  <2>3. QED  BY <1>3, <2>2, NonePends
<1>4. ASSUME NEW c \in Conns, Answer(c)
      PROVE  EndLastInv'
  BY <1>3, <1>4 DEF Answer
<1>5. ASSUME NEW q \in held, Drop(q) \/ Pause(q) \/ Resume(q)
      PROVE  EndLastInv'
  <2>1. CASE Drop(q)
    BY <1>3, <2>1 DEF Drop
  <2>2. CASE Pause(q)
    BY <2>2, FlagsPend, NonePends DEF Pause
  <2>3. CASE Resume(q)
    BY <2>3, FlagsPend, NonePends DEF Resume
  <2>4. QED  BY <1>5, <2>1, <2>2, <2>3
<1>6. CASE EmitPending \/ EmitPendingEnds \/ UNCHANGED incomingVars
  <2>1. UNCHANGED <<message, broken>>
    BY <1>6 DEF EmitPending, EmitPendingEnds, incomingVars
  <2>2. QED  BY <2>1, NonePends
<1>7. QED  BY <1>1, <1>2, <1>4, <1>5, <1>6, EmitNextEnds, HeadersCompleteEnds DEF IncomingNext

LEMMA CutGrows ==
  ASSUME [IncomingNext]_incomingVars
  PROVE  cut \subseteq cut'
<1>1. CASE EmitNext
  <2>1. cut' = cut \/ cut' = cut \cup {RequestOf(running)}
    BY <1>1 DEF EmitNext, TakesOut
  <2>2. QED  BY <2>1
<1>2. CASE [IncomingNext]_incomingVars /\ ~EmitNext
  BY <1>2 DEF IncomingNext, incomingVars, HeadersComplete, OnBody, OnMessageComplete,
              SocketOnClose, Answer, EmitPending, EmitPendingEnds, Drop, Pause, Resume
<1>3. QED  BY <1>1, <1>2

(* The assertion of EmitPending (http/incoming_message.h:270), that        *)
(* nothing is pending behind the end of a request, holds under the same    *)
(* condition until a chunk that was pending has been taken for the end:    *)
(* that is the only way in which it can fail then.                         *)
THEOREM AssertionHolds ==
  ASSUME ReadsAll
  PROVE  IncomingSpec => [](cut = {} => NoAssertionFails)
<1>1. IncomingInv /\ [IncomingNext]_incomingVars => IncomingInv'
  BY IncomingKeeps, IncomingStays
<1>2. IncomingInv /\ DataInv /\ [IncomingNext]_incomingVars => DataInv'
  BY DataStep
<1>3. /\ IncomingInv /\ DataInv /\ (cut = {} => EndLastInv) /\ [IncomingNext]_incomingVars
      => (cut = {} => EndLastInv)'
  BY EndLastStep, CutGrows
<1>4. IncomingInit => IncomingInv /\ DataInv /\ (cut = {} => EndLastInv)
  <2>1. IncomingInit => EndLastInv
    BY DEF IncomingInit, EndLastInv
  <2>2. QED  BY <2>1, IncomingInitial, DataInitially
<1>5. (cut = {} => EndLastInv) => (cut = {} => NoAssertionFails)
  BY DEF EndLastInv, NoAssertionFails
<1>6. QED  BY <1>1, <1>2, <1>3, <1>4, <1>5, PTL DEF IncomingSpec

-----------------------------------------------------------------------------
(* The lists of listeners. *)
EmitterSpec == EmitterInit /\ [][EmitterNext]_emitterVars

LEMMA FirstFacts ==
  ASSUME NEW S \in SUBSET Nat, S # {}
  PROVE  First(S) \in S /\ \A j \in S : First(S) <= j
BY NatHasMin DEF First

LEMMA RemoveAtFacts ==
  ASSUME NEW S, NEW s \in Seq(S), NEW p \in 1..Len(s)
  PROVE  /\ RemoveAt(s, p) \in Seq(S) /\ Len(RemoveAt(s, p)) = Len(s) - 1
         /\ \A k \in 1..(Len(s) - 1) :
              RemoveAt(s, p)[k] = IF k < p THEN s[k] ELSE s[k + 1]
<1> DEFINE u == SubSeq(s, 1, p - 1)
           v == SubSeq(s, p + 1, Len(s))
<1>1. RemoveAt(s, p) = u \o v
  BY DEF RemoveAt
<1>2. /\ u \in Seq(S) /\ Len(u) = p - 1 /\ \A k \in 1..(p - 1) : u[k] = s[k]
  BY SubSeqProperties
<1>3. /\ v \in Seq(S) /\ Len(v) = Len(s) - p
      /\ \A k \in 1..(Len(s) - p) : v[k] = s[p + k]
  BY SubSeqProperties
<1> HIDE DEF u, v
<1>4. /\ u \o v \in Seq(S) /\ Len(u \o v) = Len(s) - 1
  BY <1>2, <1>3
<1>5. ASSUME NEW k \in 1..(Len(s) - 1)
      PROVE  (u \o v)[k] = IF k < p THEN s[k] ELSE s[k + 1]
  <2>1. CASE k < p
    BY <1>2, <1>3, <2>1
  <2>2. CASE ~(k < p)
    <3>1. k - (p - 1) \in 1..(Len(s) - p) /\ p + (k - (p - 1)) = k + 1
      BY <2>2
    <3>2. (u \o v)[k] = v[k - (p - 1)]
      BY <1>2, <1>3, <2>2, <3>1
    <3>3. QED  BY <1>3, <2>2, <3>1, <3>2
  <2>3. QED  BY <2>1, <2>2
<1>6. QED  BY <1>1, <1>4, <1>5

(* Removal takes the first match of the function. *)
LEMMA RemoveFromFacts ==
  ASSUME NEW s \in Seq(Entry), NEW fn
  PROVE  \/ Matches(s, fn) = {} /\ RemoveFrom(s, fn) = s
         \/ \E p \in 1..Len(s) :
              /\ s[p].fn = fn /\ \A k \in DOMAIN s : s[k].fn = fn => p <= k
              /\ p = First(Matches(s, fn)) /\ RemoveFrom(s, fn) \in Seq(Entry)
              /\ Len(RemoveFrom(s, fn)) = Len(s) - 1
              /\ \A k \in 1..(Len(s) - 1) :
                   RemoveFrom(s, fn)[k] = IF k < p THEN s[k] ELSE s[k + 1]
<1>1. CASE Matches(s, fn) = {}
  BY <1>1 DEF RemoveFrom
<1>2. CASE Matches(s, fn) # {}
  <2> DEFINE p == First(Matches(s, fn))
  <2>1. Matches(s, fn) \in SUBSET Nat /\ DOMAIN s = 1..Len(s)
    BY DEF Matches
  <2>2. p \in Matches(s, fn) /\ \A k \in Matches(s, fn) : p <= k
    BY <1>2, <2>1, FirstFacts
  <2>3. p \in 1..Len(s) /\ s[p].fn = fn /\ \A k \in DOMAIN s : s[k].fn = fn => p <= k
    BY <2>1, <2>2 DEF Matches
  <2>4. RemoveFrom(s, fn) = RemoveAt(s, p)
    BY <1>2 DEF RemoveFrom
  <2> HIDE DEF p
  <2>5. /\ RemoveAt(s, p) \in Seq(Entry) /\ Len(RemoveAt(s, p)) = Len(s) - 1
        /\ \A k \in 1..(Len(s) - 1) :
             RemoveAt(s, p)[k] = IF k < p THEN s[k] ELSE s[k + 1]
    BY <2>3, RemoveAtFacts
  <2>6. QED  BY <2>3, <2>4, <2>5 DEF p
<1>3. QED  BY <1>1, <1>2

(* The lists: an entry is in one list and at one place, the lists of the   *)
(* events have the entries of their own event, and without duplicates a    *)
(* function at most once.                                                  *)
TablesOk(h, t, l, n) ==
  /\ n \in 0..MaxEntries /\ l \in Seq(Seq(Entry)) /\ Len(l) <= n
  /\ t \in [Events -> 0..Len(l)]
  /\ \A a \in DOMAIN l : \A p \in DOMAIN l[a] : l[a][p].id <= n
  /\ \A a, b \in DOMAIN l : \A p \in DOMAIN l[a], q \in DOMAIN l[b] :
       l[a][p].id = l[b][q].id => a = b /\ p = q
  /\ \A x, y \in Events : t[x] = t[y] /\ t[x] # NoList => x = y
  /\ \A x \in Events : t[x] # NoList =>
       \A p \in DOMAIN l[t[x]] : l[t[x]][p].ev = x
  /\ h # "duplicates" => \A x \in Events : t[x] # NoList =>
       \A p, q \in DOMAIN l[t[x]] : l[t[x]][p].fn = l[t[x]][q].fn => p = q

(* A walk: what it has passed and what is left of it. *)
FrameOk(h, t, l, f) ==
  /\ f \in Frame /\ f.list \in DOMAIN l
  /\ h \in {"none", "duplicates", "clears"} =>
       /\ f.i <= f.len /\ LastIndex(f) <= Len(l[f.list])
       /\ OnceRunning(f) => l[f.list][f.i + 1] = f.running
  /\ h \in {"none", "duplicates"} =>
       /\ Len(f.atStart) = Len(f.called) + LastIndex(f) - Passed(f)
       /\ \A j \in 1..Len(f.called) : f.called[j] = f.atStart[j]
       /\ \A p \in (Passed(f) + 1)..LastIndex(f) :
            l[f.list][p].id = f.atStart[Len(f.called) + p - Passed(f)]
       /\ \A p \in Left(f) : l[f.list][p].once => t[l[f.list][p].ev] = f.list
  /\ h \in {"none", "clears"} => \A p \in 1..f.i : ~l[f.list][p].once

(* Walks within each other. *)
StackOk(h, t, l, s) ==
  /\ s \in Seq(Frame) /\ \A k \in DOMAIN s : FrameOk(h, t, l, s[k])
  /\ h = "duplicates" => Len(s) <= 1
  /\ h \in {"none", "clears"} =>
       \A k \in DOMAIN s : \A j \in 1..(k - 1) : s[j].list = s[k].list =>
         \A p \in 1..LastIndex(s[j]) : ~l[s[j].list][p].once
  /\ \A k \in DOMAIN s : \A j \in 1..(k - 1) : \A p \in DOMAIN l[s[k].list] :
       s[j].list = t[l[s[k].list][p].ev] => s[j].list = s[k].list

(* A registration by once() that has been called is being called, or has   *)
(* gone.                                                                   *)
SpentOk(h, t, l, s, n, sp) ==
  /\ sp \subseteq 1..n
  /\ h # "duplicates" => \A x \in Events : t[x] # NoList =>
       \A p \in DOMAIN l[t[x]] : l[t[x]][p].id \in sp =>
         l[t[x]][p].once /\ \E k \in DOMAIN s : s[k].running = l[t[x]][p]
  /\ h = "none" => \A a \in DOMAIN l : \A p \in DOMAIN l[a] : l[a][p].id \in sp =>
       \E k \in DOMAIN s : OnceRunning(s[k]) /\ s[k].list = a /\ s[k].i + 1 = p

EmInv(h, t, l, s, n, sp) ==
  /\ h \in Habits /\ TablesOk(h, t, l, n) /\ StackOk(h, t, l, s)
  /\ SpentOk(h, t, l, s, n, sp)

EmitterInv ==
  /\ EmInv(habit, table, lists, stack, entries, spent)
  /\ habit = "none" => again = {}

LEMMA Indexes ==
  ASSUME NEW f \in Frame
  PROVE  /\ f.i \in Nat /\ f.len \in Nat /\ LastIndex(f) \in Nat /\ Passed(f) \in Nat
         /\ f.i <= Passed(f)
         /\ f.i <= f.len => Passed(f) <= LastIndex(f) /\ f.i <= LastIndex(f)
         /\ OnceRunning(f) => Passed(f) = f.i + 1 /\ LastIndex(f) = f.len + 1
         /\ ~OnceRunning(f) => Passed(f) = f.i /\ LastIndex(f) = f.len
         /\ OnceRunning(f) <=> f.running \in Entry /\ f.running.once
<1>1. f.i \in Nat /\ f.len \in Nat /\ f.running \in Entry \cup {NoEntry}
  BY DEF Frame
<1>2. OnceRunning(f) \/ ~OnceRunning(f)
  OBVIOUS
<1>3. NoEntry \notin Entry
  BY DEF NoEntry, Entry
<1>4. OnceRunning(f) <=> f.running \in Entry /\ f.running.once
  BY <1>1, <1>3 DEF OnceRunning
<1>5. CASE OnceRunning(f)
  BY <1>1, <1>4, <1>5 DEF LastIndex, Passed
<1>6. CASE ~OnceRunning(f)
  BY <1>1, <1>4, <1>6 DEF LastIndex, Passed
<1>7. QED  BY <1>5, <1>6

LEMMA SeqOfEntries ==
  ASSUME NEW l \in Seq(Seq(Entry)), NEW a \in DOMAIN l
  PROVE  /\ a \in 1..Len(l) /\ l[a] \in Seq(Entry) /\ Len(l[a]) \in Nat
         /\ DOMAIN l[a] = 1..Len(l[a]) /\ \A p \in DOMAIN l[a] : l[a][p] \in Entry
<1>1. a \in 1..Len(l) /\ l[a] \in Seq(Entry)
  BY ElementOfSeq
<1>2. QED  BY <1>1, ElementOfSeq

(* What a walk needs of the lists. *)
SameFor(h, t, l, t2, l2, f) ==
  /\ f.list \in DOMAIN l2
  /\ h \in {"none", "duplicates", "clears"} =>
       /\ LastIndex(f) <= Len(l2[f.list])
       /\ \A p \in 1..LastIndex(f) : l2[f.list][p] = l[f.list][p]
  /\ h \in {"none", "duplicates"} => \A p \in Left(f) : l[f.list][p].once =>
       t2[l[f.list][p].ev] = t[l[f.list][p].ev]

LEMMA FrameStays ==
  ASSUME NEW h, NEW t, NEW l, NEW t2, NEW l2, NEW f,
         FrameOk(h, t, l, f), SameFor(h, t, l, t2, l2, f)
  PROVE  FrameOk(h, t2, l2, f)
<1>1. f \in Frame
  BY DEF FrameOk
<1>2. /\ f.i \in Nat /\ f.len \in Nat /\ LastIndex(f) \in Nat /\ Passed(f) \in Nat
      /\ f.i <= f.len => Passed(f) <= LastIndex(f) /\ f.i <= LastIndex(f)
      /\ OnceRunning(f) => LastIndex(f) = f.len + 1
  BY <1>1, Indexes
<1>3. ASSUME h \in {"none", "duplicates", "clears"}
      PROVE  /\ f.i <= f.len /\ LastIndex(f) <= Len(l2[f.list])
             /\ OnceRunning(f) => l2[f.list][f.i + 1] = f.running
  <2>1. f.i <= f.len /\ (OnceRunning(f) => l[f.list][f.i + 1] = f.running)
    BY <1>3 DEF FrameOk
  <2>2. OnceRunning(f) => f.i + 1 \in 1..LastIndex(f)
    BY <1>2, <2>1
  <2>3. LastIndex(f) <= Len(l2[f.list])
        /\ \A p \in 1..LastIndex(f) : l2[f.list][p] = l[f.list][p]
    BY <1>3 DEF SameFor
  <2>4. QED  BY <2>1, <2>2, <2>3
<1>4. ASSUME h \in {"none", "duplicates"}
      PROVE  /\ \A p \in (Passed(f) + 1)..LastIndex(f) :
                  l2[f.list][p].id = f.atStart[Len(f.called) + p - Passed(f)]
             /\ \A p \in Left(f) : l2[f.list][p].once => t2[l2[f.list][p].ev] = f.list
  <2>1. \A p \in (Passed(f) + 1)..LastIndex(f) : p \in 1..LastIndex(f)
    BY <1>2
  <2>2. \A p \in Left(f) : p \in 1..LastIndex(f)
    BY <1>2 DEF Left
  <2>3. \A p \in 1..LastIndex(f) : l2[f.list][p] = l[f.list][p]
    BY <1>4 DEF SameFor
  <2>4. /\ \A p \in (Passed(f) + 1)..LastIndex(f) :
             l[f.list][p].id = f.atStart[Len(f.called) + p - Passed(f)]
        /\ \A p \in Left(f) : l[f.list][p].once => t[l[f.list][p].ev] = f.list
    BY <1>4 DEF FrameOk
  <2>5. \A p \in Left(f) : l[f.list][p].once =>
          t2[l[f.list][p].ev] = t[l[f.list][p].ev]
    BY <1>4 DEF SameFor
  <2>6. QED  BY <2>1, <2>2, <2>3, <2>4, <2>5
<1>5. ASSUME h \in {"none", "clears"}
      PROVE  \A p \in 1..f.i : ~l2[f.list][p].once
  <2>1. f.i <= LastIndex(f)
    BY <1>2, <1>5 DEF FrameOk
  <2>2. \A p \in 1..f.i : p \in 1..LastIndex(f)
    BY <1>2, <2>1
  <2>3. \A p \in 1..LastIndex(f) : l2[f.list][p] = l[f.list][p]
    BY <1>5 DEF SameFor
  <2>4. \A p \in 1..f.i : ~l[f.list][p].once
    BY <1>5 DEF FrameOk
  <2>5. QED  BY <2>2, <2>3, <2>4
<1>6. f.list \in DOMAIN l2
  BY DEF SameFor
<1>7. h \in {"none", "duplicates"} =>
        /\ Len(f.atStart) = Len(f.called) + LastIndex(f) - Passed(f)
        /\ \A j \in 1..Len(f.called) : f.called[j] = f.atStart[j]
  BY DEF FrameOk
<1>8. QED  BY <1>1, <1>3, <1>4, <1>5, <1>6, <1>7 DEF FrameOk

(* The walks go on when lists change behind what they have left. *)
LEMMA StackStays ==
  ASSUME NEW h, NEW t, NEW l, NEW t2, NEW l2, NEW s, StackOk(h, t, l, s),
         \A k \in DOMAIN s : SameFor(h, t, l, t2, l2, s[k]),
         \A k \in DOMAIN s : \A j \in 1..(k - 1) : \A p \in DOMAIN l2[s[k].list] :
           s[j].list = t2[l2[s[k].list][p].ev] =>
             \/ s[j].list = s[k].list
             \/ \E q \in DOMAIN l[s[k].list] : s[j].list = t[l[s[k].list][q].ev]
  PROVE  StackOk(h, t2, l2, s)
<1>1. s \in Seq(Frame) /\ DOMAIN s = 1..Len(s) /\ Len(s) \in Nat
  BY DEF StackOk
<1>2. \A k \in DOMAIN s : FrameOk(h, t2, l2, s[k])
  BY FrameStays DEF StackOk
<1>3. ASSUME h \in {"none", "clears"}, NEW k \in DOMAIN s, NEW j \in 1..(k - 1),
             s[j].list = s[k].list, NEW p \in 1..LastIndex(s[j])
      PROVE  ~l2[s[j].list][p].once
  <2>1. j \in DOMAIN s
    BY <1>1
  <2>2. l2[s[j].list][p] = l[s[j].list][p]
    BY <1>3, <2>1 DEF SameFor
  <2>3. ~l[s[j].list][p].once
    BY <1>3 DEF StackOk
  <2>4. QED  BY <2>2, <2>3
<1>4. ASSUME NEW k \in DOMAIN s, NEW j \in 1..(k - 1), NEW p \in DOMAIN l2[s[k].list],
             s[j].list = t2[l2[s[k].list][p].ev]
      PROVE  s[j].list = s[k].list
  BY <1>4 DEF StackOk
<1>5. h = "duplicates" => Len(s) <= 1
  BY DEF StackOk
<1>6. QED  BY <1>1, <1>2, <1>3, <1>4, <1>5 DEF StackOk

(* A walk that begins. *)
LEMMA NewFrame ==
  ASSUME NEW h, NEW t, NEW l, NEW n, TablesOk(h, t, l, n), BoundsAssumption,
         NEW ev \in Events, t[ev] # NoList,
         NEW f, f = [list |-> t[ev], i |-> 0, len |-> Len(l[t[ev]]),
                     running |-> NoEntry,
                     atStart |-> [k \in DOMAIN l[t[ev]] |-> l[t[ev]][k].id],
                     called |-> <<>>]
  PROVE  f.list = t[ev] /\ f.running = NoEntry /\ FrameOk(h, t, l, f)
<1> DEFINE a == t[ev]
           ids == [k \in DOMAIN l[a] |-> l[a][k].id]
<1>1. /\ l \in Seq(Seq(Entry)) /\ a \in DOMAIN l /\ Len(l) <= MaxEntries /\ Len(l) \in Nat
  BY DEF TablesOk, NoList, BoundsAssumption
<1>2. /\ l[a] \in Seq(Entry) /\ Len(l[a]) \in Nat /\ DOMAIN l[a] = 1..Len(l[a])
      /\ \A p \in DOMAIN l[a] : l[a][p] \in Entry
  BY <1>1, SeqOfEntries
<1>3. a \in Lists
  BY <1>1 DEF Lists, BoundsAssumption
<1>4. ids \in [1..Len(l[a]) -> 1..MaxEntries]
  BY <1>2 DEF Entry
<1>5. ids \in Seq(1..MaxEntries) /\ Len(ids) = Len(l[a])
      /\ \A p \in 1..Len(l[a]) : ids[p] = l[a][p].id
  <2>1. \A m \in Nat : \A g \in [1..m -> 1..MaxEntries] :
          g \in Seq(1..MaxEntries) /\ Len(g) = m
    OBVIOUS
  <2>2. QED  BY <1>2, <1>4, <2>1
<1>6. \A p \in DOMAIN l[a] : l[a][p].ev = ev
  BY DEF TablesOk
<1> HIDE DEF ids
<1>7. /\ f.list = a /\ f.i = 0 /\ f.len = Len(l[a]) /\ f.running = NoEntry
      /\ f.atStart = ids /\ f.called = <<>>
  BY DEF ids
<1>8. f \in Frame
  <2>1. f = [list |-> a, i |-> 0, len |-> Len(l[a]), running |-> NoEntry,
             atStart |-> ids, called |-> <<>>]
    BY DEF ids
  <2>2. <<>> \in Seq(1..MaxEntries)
    OBVIOUS
  <2> HIDE DEF a
  <2>3. QED  BY ONLY <1>2, <1>3, <1>5, <2>1, <2>2 DEF Frame
<1>9. ~OnceRunning(f)
  BY <1>7 DEF OnceRunning
<1>10. LastIndex(f) = Len(l[a]) /\ Passed(f) = 0
  BY <1>7, <1>9 DEF LastIndex, Passed
<1>11. Left(f) = 1..Len(l[a])
  BY <1>7, <1>10 DEF Left
<1>12. Len(f.called) = 0
  BY <1>7
<1> HIDE DEF a
<1>13. /\ f.i <= f.len /\ LastIndex(f) <= Len(l[f.list])
       /\ OnceRunning(f) => l[f.list][f.i + 1] = f.running
  BY ONLY <1>2, <1>7, <1>9, <1>10
<1>14. /\ Len(f.atStart) = Len(f.called) + LastIndex(f) - Passed(f)
       /\ \A j \in 1..Len(f.called) : f.called[j] = f.atStart[j]
       /\ \A p \in (Passed(f) + 1)..LastIndex(f) :
            l[f.list][p].id = f.atStart[Len(f.called) + p - Passed(f)]
  <2>1. Len(f.atStart) = Len(f.called) + LastIndex(f) - Passed(f)
    <3>1. Len(f.atStart) = Len(l[a])
      BY <1>5, <1>7
    <3>2. QED  BY <1>2, <1>10, <1>12, <3>1
  <2>2. \A j \in 1..Len(f.called) : FALSE
    BY <1>12
  <2>3. ASSUME NEW p \in (Passed(f) + 1)..LastIndex(f)
        PROVE  l[f.list][p].id = f.atStart[Len(f.called) + p - Passed(f)]
    <3>1. p \in 1..Len(l[a])
      BY <1>2, <1>10
    <3>2. Len(f.called) + p - Passed(f) = p
      BY <1>10, <1>12, <3>1
    <3>3. f.atStart[p] = l[f.list][p].id
      BY <1>5, <1>7, <3>1
    <3>4. QED  BY <3>2, <3>3
  <2>4. QED  BY <2>1, <2>2, <2>3
<1>15. \A p \in Left(f) : t[l[f.list][p].ev] = f.list
  BY <1>2, <1>6, <1>7, <1>11 DEF a
<1>16. \A p \in 1..f.i : FALSE
  BY <1>7
<1>17. QED  BY <1>1, <1>7, <1>8, <1>13, <1>14, <1>15, <1>16 DEF FrameOk, a

LEMMA PushedStack ==
  ASSUME NEW s \in Seq(Frame), NEW f \in Frame
  PROVE  /\ Append(s, f) \in Seq(Frame) /\ Len(Append(s, f)) = Len(s) + 1
         /\ Append(s, f)[Len(s) + 1] = f
         /\ \A k \in DOMAIN s : Append(s, f)[k] = s[k]
         /\ DOMAIN s = 1..Len(s) /\ Len(s) \in Nat
         /\ \A k \in DOMAIN Append(s, f) : k \in DOMAIN s \/ k = Len(s) + 1
         /\ \A k \in DOMAIN s : k \in DOMAIN Append(s, f)
OBVIOUS

LEMMA WalkKeeps ==
  ASSUME NEW h, NEW t, NEW l, NEW s, NEW n, NEW sp,
         EmInv(h, t, l, s, n, sp), BoundsAssumption, NEW ev \in Events,
         h \in {"none", "clears"} => \A k \in DOMAIN s :
           s[k].list = t[ev] => \A p \in 1..LastIndex(s[k]) : ~l[s[k].list][p].once,
         h = "duplicates" => s = <<>>
  PROVE  EmInv(h, t, l, Walk(ev, t, l, s), n, sp)
<1>1. CASE t[ev] = NoList \/ l[t[ev]] = <<>>
  BY <1>1 DEF Walk
<1>2. CASE ~(t[ev] = NoList \/ l[t[ev]] = <<>>)
  <2> DEFINE f == [list |-> t[ev], i |-> 0, len |-> Len(l[t[ev]]),
                   running |-> NoEntry,
                   atStart |-> [k \in DOMAIN l[t[ev]] |-> l[t[ev]][k].id],
                   called |-> <<>>]
             u == Append(s, f)
  <2>1. Walk(ev, t, l, s) = u
    BY <1>2 DEF Walk
  <2>2. f.list = t[ev] /\ f.running = NoEntry /\ FrameOk(h, t, l, f)
    <3>1. TablesOk(h, t, l, n) /\ t[ev] # NoList
      BY <1>2 DEF EmInv
    <3>2. QED  BY <3>1, NewFrame
  <2> HIDE DEF f
  <2>3. f \in Frame /\ s \in Seq(Frame)
    BY <2>2 DEF FrameOk, EmInv, StackOk
  <2>4. /\ u \in Seq(Frame) /\ Len(u) = Len(s) + 1 /\ u[Len(s) + 1] = f
        /\ \A k \in DOMAIN s : u[k] = s[k]
        /\ DOMAIN s = 1..Len(s) /\ Len(s) \in Nat
        /\ \A k \in DOMAIN u : k \in DOMAIN s \/ k = Len(s) + 1
        /\ \A k \in DOMAIN s : k \in DOMAIN u
    BY <2>3, PushedStack
  <2> HIDE DEF u
  <2>5. \A k \in DOMAIN u : FrameOk(h, t, l, u[k])
    BY <2>2, <2>4 DEF EmInv, StackOk
  <2>6. h = "duplicates" => Len(u) <= 1
    BY <2>4
  <2>7. \A k \in DOMAIN u : \A j \in 1..(k - 1) : j \in DOMAIN s /\ u[j] = s[j]
    BY <2>4
  <2>8. ASSUME h \in {"none", "clears"}, NEW k \in DOMAIN u, NEW j \in 1..(k - 1),
               u[j].list = u[k].list, NEW p \in 1..LastIndex(u[j])
        PROVE  ~l[u[j].list][p].once
    <3>0. j \in DOMAIN s /\ u[j] = s[j]
      BY <2>7
    <3>1. CASE k \in DOMAIN s
      <4>1. u[k] = s[k]
        BY <2>4, <3>1
      <4>2. QED  BY <2>8, <3>0, <3>1, <4>1 DEF EmInv, StackOk
    <3>2. CASE k = Len(s) + 1
      BY <2>2, <2>4, <2>8, <3>0, <3>2
    <3>3. QED  BY <2>4, <3>1, <3>2
  <2>9. ASSUME NEW k \in DOMAIN u, NEW j \in 1..(k - 1), NEW p \in DOMAIN l[u[k].list],
               u[j].list = t[l[u[k].list][p].ev]
        PROVE  u[j].list = u[k].list
    <3>0. j \in DOMAIN s /\ u[j] = s[j]
      BY <2>7
    <3>1. CASE k \in DOMAIN s
      <4>1. u[k] = s[k]
        BY <2>4, <3>1
      <4>2. QED  BY <2>9, <3>0, <3>1, <4>1 DEF EmInv, StackOk
    <3>2. CASE k = Len(s) + 1
      <4>1. u[k].list = t[ev]
        BY <2>2, <2>4, <3>2
      <4>2. l[t[ev]][p].ev = ev
        BY <1>2, <2>9, <4>1 DEF EmInv, TablesOk
      <4>3. QED  BY <2>9, <4>1, <4>2
    <3>3. QED  BY <2>4, <3>1, <3>2
  <2>10. StackOk(h, t, l, u)
    BY <2>4, <2>5, <2>6, <2>8, <2>9 DEF StackOk
  <2>11. SpentOk(h, t, l, u, n, sp)
    <3>1. SpentOk(h, t, l, s, n, sp)
      BY DEF EmInv
    <3>2. \A k \in DOMAIN s : k \in DOMAIN u /\ u[k] = s[k]
      BY <2>4
    <3>3. QED  BY <3>1, <3>2 DEF SpentOk
  <2>12. QED  BY <2>1, <2>10, <2>11 DEF EmInv
<1>3. QED  BY <1>1, <1>2

-----------------------------------------------------------------------------
(* The actions. *)

LEMMA MayWalkMeans ==
  ASSUME EmitterInv, NEW ev, MayWalk(ev)
  PROVE  /\ habit \in {"none", "clears"} => \A k \in DOMAIN stack :
              stack[k].list = table[ev] =>
                \A p \in 1..LastIndex(stack[k]) : ~lists[stack[k].list][p].once
         /\ habit = "duplicates" => stack = <<>>
<1>1. ASSUME habit \in {"none", "clears"}, NEW k \in DOMAIN stack,
             stack[k].list = table[ev], NEW p \in 1..LastIndex(stack[k])
      PROVE  ~lists[stack[k].list][p].once
  <2> DEFINE f == stack[k]
  <2>1. FrameOk(habit, table, lists, f)
    BY DEF EmitterInv, EmInv, StackOk
  <2>2. f \in Frame /\ f.list \in DOMAIN lists /\ LastIndex(f) <= Len(lists[f.list])
    BY <1>1, <2>1 DEF FrameOk
  <2>3. f.i \in Nat /\ LastIndex(f) \in Nat
    BY <2>2, Indexes
  <2>4. p \in DOMAIN lists[f.list]
    <3>1. lists \in Seq(Seq(Entry))
      BY DEF EmitterInv, EmInv, TablesOk
    <3>2. DOMAIN lists[f.list] = 1..Len(lists[f.list]) /\ Len(lists[f.list]) \in Nat
      BY <2>2, <3>1, SeqOfEntries
    <3>3. QED  BY <2>2, <2>3, <3>2
  <2>5. ~OnceIn(f)
    BY <1>1 DEF MayWalk, Walks
  <2>6. CASE p <= f.i
    BY <1>1, <2>1, <2>3, <2>6 DEF FrameOk
  <2>7. CASE ~(p <= f.i)
    <3>1. p \in Left(f)
      BY <2>3, <2>7 DEF Left
    <3>2. QED  BY <2>4, <2>5, <3>1 DEF OnceIn
  <2>8. QED  BY <2>6, <2>7
<1>2. habit = "duplicates" => stack = <<>>
  BY DEF MayWalk
<1>3. QED  BY <1>1, <1>2

LEMMA EmitKeeps ==
  ASSUME EmitterInv, BoundsAssumption, NEW ev \in Events, Emit(ev)
  PROVE  EmitterInv'
<1>1. EmInv(habit, table, lists, Walk(ev, table, lists, stack), entries, spent)
  <2>1. EmInv(habit, table, lists, stack, entries, spent) /\ MayWalk(ev)
    BY DEF EmitterInv, Emit
  <2>2. QED  BY <2>1, MayWalkMeans, WalkKeeps
<1>2. /\ stack' = Walk(ev, table, lists, stack)
      /\ UNCHANGED <<table, lists, entries, spent, again, habit>>
  BY DEF Emit
<1>3. QED  BY <1>1, <1>2 DEF EmitterInv

LEMMA RemoveAllKeeps ==
  ASSUME EmitterInv, NEW evs, RemoveAllListeners(evs)
  PROVE  EmitterInv'
<1>1. /\ table' = [ev \in Events |-> IF ev \in evs THEN NoList ELSE table[ev]]
      /\ UNCHANGED <<lists, stack, entries, spent, again, habit>>
      /\ habit # "clears" => \A k \in DOMAIN stack : ~OnceIn(stack[k])
  BY DEF RemoveAllListeners
<1> DEFINE h == habit
           t == table
           l == lists
           s == stack
<1>2. /\ h \in Habits /\ TablesOk(h, t, l, entries) /\ StackOk(h, t, l, s)
      /\ SpentOk(h, t, l, s, entries, spent)
  BY DEF EmitterInv, EmInv
<1>3. l \in Seq(Seq(Entry)) /\ Len(l) \in Nat /\ DOMAIN l = 1..Len(l)
  BY <1>2 DEF TablesOk
<1>4. \A x \in Events : table'[x] = NoList \/ table'[x] = t[x]
  BY <1>1
<1>5. TablesOk(h, table', l, entries)
  <2>1. table' \in [Events -> 0..Len(l)]
    <3>1. t \in [Events -> 0..Len(l)] /\ NoList \in 0..Len(l)
      BY <1>2, <1>3 DEF TablesOk, NoList
    <3>2. QED  BY <1>1, <3>1
  <2>2. QED  BY <1>2, <1>4, <2>1 DEF TablesOk
<1>6. StackOk(h, table', l, s)
  <2>1. ASSUME NEW k \in DOMAIN s  PROVE SameFor(h, t, l, table', l, s[k])
    <3>1. FrameOk(h, t, l, s[k])
      BY <1>2 DEF StackOk
    <3>2. s[k] \in Frame /\ s[k].list \in DOMAIN l
      BY <3>1 DEF FrameOk
    <3>3. ASSUME h \in {"none", "duplicates"}, NEW p \in Left(s[k])
          PROVE  ~l[s[k].list][p].once
      <4>1. LastIndex(s[k]) <= Len(l[s[k].list])
        BY <3>1, <3>3 DEF FrameOk
      <4>2. DOMAIN l[s[k].list] = 1..Len(l[s[k].list]) /\ Len(l[s[k].list]) \in Nat
        BY <1>3, <3>2, SeqOfEntries
      <4>3. p \in DOMAIN l[s[k].list]
        BY <3>2, <4>1, <4>2, Indexes DEF Left
      <4>4. ~OnceIn(s[k])
        BY <1>1, <3>3
      <4>5. QED  BY <4>3, <4>4 DEF OnceIn
    <3>4. QED  BY <3>1, <3>2, <3>3 DEF SameFor, FrameOk
  <2>2. ASSUME NEW k \in DOMAIN s, NEW j \in 1..(k - 1), NEW p \in DOMAIN l[s[k].list],
               s[j].list = table'[l[s[k].list][p].ev]
        PROVE  s[j].list = t[l[s[k].list][p].ev]
    <3>1. s[j].list \in 1..Len(l)
      <4>1. j \in DOMAIN s
        BY <1>2 DEF StackOk
      <4>2. QED  BY <1>2, <1>3, <4>1 DEF StackOk, FrameOk
    <3>2. s[k].list \in DOMAIN l
      BY <1>2 DEF StackOk, FrameOk
    <3>3. l[s[k].list][p].ev \in Events
      BY <1>3, <3>2, SeqOfEntries DEF Entry
    <3>4. s[j].list # NoList
      BY <3>1 DEF NoList
    <3>5. QED  BY <1>4, <2>2, <3>3, <3>4
  <2> HIDE DEF h, t, l, s
  <2>3. QED  BY <1>2, <2>1, <2>2, StackStays
<1>7. SpentOk(h, table', l, s, entries, spent)
  BY <1>2, <1>4 DEF SpentOk
<1>8. QED  BY <1>1, <1>2, <1>5, <1>6, <1>7 DEF EmitterInv, EmInv

(* The lists l2 are the lists l with e at the end of the list a, which may *)
(* be a new one.                                                           *)
Grown(l, l2, a, e) ==
  /\ l2 \in Seq(Seq(Entry)) /\ a \in DOMAIN l2 /\ Len(l2) \in Len(l)..(Len(l) + 1)
  /\ \A b \in DOMAIN l : b \in DOMAIN l2 /\ Len(l[b]) <= Len(l2[b])
       /\ \A p \in DOMAIN l[b] : p \in DOMAIN l2[b] /\ l2[b][p] = l[b][p]
  /\ \A b \in DOMAIN l2 : \A p \in DOMAIN l2[b] :
       \/ b \in DOMAIN l /\ p \in DOMAIN l[b] /\ l2[b][p] = l[b][p]
       \/ b = a /\ p = Len(l2[a]) /\ l2[b][p] = e

LEMMA AppendedSeq ==
  ASSUME NEW S, NEW s \in Seq(S), NEW x \in S
  PROVE  /\ Append(s, x) \in Seq(S) /\ Len(Append(s, x)) = Len(s) + 1
         /\ Append(s, x)[Len(s) + 1] = x
         /\ \A b \in 1..Len(s) : Append(s, x)[b] = s[b]
         /\ DOMAIN Append(s, x) = 1..(Len(s) + 1)
BY ONLY AppendProperties

LEMMA ListAppended ==
  ASSUME NEW l \in Seq(Seq(Entry)), NEW a, NEW e \in Entry, NEW l2,
         a \in 1..(Len(l) + 1),
         l2 = IF a > Len(l) THEN Append(l, <<e>>) ELSE [l EXCEPT ![a] = Append(@, e)]
  PROVE  Grown(l, l2, a, e)
<1>0. Len(l) \in Nat /\ DOMAIN l = 1..Len(l) /\ \A b \in DOMAIN l : l[b] \in Seq(Entry)
  BY ElementOfSeq
<1>1. CASE a > Len(l)
  <2>0. a = Len(l) + 1
    BY <1>0, <1>1
  <2> DEFINE m == <<e>>
  <2>1. m \in Seq(Entry) /\ Len(m) = 1 /\ m[1] = e /\ DOMAIN m = 1..1
    OBVIOUS
  <2>2. l2 = Append(l, m)
    BY <1>1
  <2> HIDE DEF m
  <2>3. /\ l2 \in Seq(Seq(Entry)) /\ Len(l2) = Len(l) + 1 /\ l2[a] = m
        /\ \A b \in 1..Len(l) : l2[b] = l[b]
        /\ DOMAIN l2 = 1..(Len(l) + 1)
    <3>1. m \in Seq(Entry)
      BY <2>1
    <3>2. /\ Append(l, m) \in Seq(Seq(Entry)) /\ Len(Append(l, m)) = Len(l) + 1
          /\ Append(l, m)[Len(l) + 1] = m
          /\ \A b \in 1..Len(l) : Append(l, m)[b] = l[b]
          /\ DOMAIN Append(l, m) = 1..(Len(l) + 1)
      <4>1. l \in Seq(Seq(Entry))
        OBVIOUS
      <4>2. QED  BY ONLY <3>1, <4>1, AppendedSeq
    <3>3. QED  BY ONLY <2>0, <2>2, <3>2
  <2>4. ASSUME NEW b \in DOMAIN l, NEW p \in DOMAIN l[b]
        PROVE  b \in DOMAIN l2 /\ l2[b] = l[b]
    BY <1>0, <2>3
  <2>5. ASSUME NEW b \in DOMAIN l2, NEW p \in DOMAIN l2[b]
        PROVE  \/ b \in DOMAIN l /\ p \in DOMAIN l[b] /\ l2[b][p] = l[b][p]
               \/ b = a /\ p = Len(l2[a]) /\ l2[b][p] = e
    <3>1. CASE b = a
      BY <2>1, <2>3, <3>1
    <3>2. CASE b # a
      <4>1. b \in 1..Len(l)
        BY <1>0, <2>0, <2>3, <3>2
      <4>2. QED  BY <1>0, <2>3, <4>1
    <3>3. QED  BY <3>1, <3>2
  <2>6. \A b \in DOMAIN l : b \in DOMAIN l2 /\ l2[b] = l[b] /\ Len(l[b]) <= Len(l2[b])
    <3>1. \A b \in DOMAIN l : Len(l[b]) \in Nat
      BY <1>0
    <3>2. QED  BY <1>0, <2>3, <3>1
  <2>7. a \in DOMAIN l2 /\ Len(l2) \in Len(l)..(Len(l) + 1)
    <3>1. a \in 1..(Len(l) + 1) /\ Len(l) + 1 \in Len(l)..(Len(l) + 1)
      BY <1>0
    <3>2. QED  BY <2>3, <3>1
  <2>8. QED  BY <2>3, <2>5, <2>6, <2>7 DEF Grown
<1>2. CASE ~(a > Len(l))
  <2>0. a \in DOMAIN l
    BY <1>0, <1>2
  <2> DEFINE m == Append(l[a], e)
  <2>1. /\ m \in Seq(Entry) /\ Len(m) = Len(l[a]) + 1 /\ m[Len(l[a]) + 1] = e
        /\ Len(l[a]) \in Nat /\ DOMAIN l[a] = 1..Len(l[a])
        /\ DOMAIN m = 1..(Len(l[a]) + 1)
        /\ \A p \in 1..Len(l[a]) : m[p] = l[a][p]
    <3>1. l[a] \in Seq(Entry)
      BY <1>0, <2>0
    <3>2. QED  BY <3>1
  <2>2. l2 = [l EXCEPT ![a] = m]
    BY <1>2, Zenon
  <2> HIDE DEF m
  <2>3. /\ l2 \in Seq(Seq(Entry)) /\ Len(l2) = Len(l) /\ DOMAIN l2 = DOMAIN l
        /\ l2[a] = m /\ \A b \in DOMAIN l : b # a => l2[b] = l[b]
    <3>1. l2 \in Seq(Seq(Entry)) /\ Len(l2) = Len(l)
      BY <2>0, <2>1, <2>2, ExceptSeq
    <3>2. QED  BY <1>0, <2>0, <2>2, <3>1, Zenon
  <2>4. ASSUME NEW b \in DOMAIN l2, NEW p \in DOMAIN l2[b]
        PROVE  \/ b \in DOMAIN l /\ p \in DOMAIN l[b] /\ l2[b][p] = l[b][p]
               \/ b = a /\ p = Len(l2[a]) /\ l2[b][p] = e
    <3>1. CASE b = a
      <4>0. p \in DOMAIN m
        BY <2>3, <3>1
      <4>1. p \in 1..(Len(l[a]) + 1)
        BY <2>1, <4>0
      <4>2. p \in 1..Len(l[a]) \/ p = Len(l[a]) + 1
        BY <2>1, <4>1
      <4>3. QED  BY <2>0, <2>1, <2>3, <3>1, <4>2
    <3>2. CASE b # a
      BY <2>3, <3>2
    <3>3. QED  BY <3>1, <3>2
  <2>5. ASSUME NEW b \in DOMAIN l
        PROVE  b \in DOMAIN l2 /\ Len(l[b]) <= Len(l2[b])
               /\ \A p \in DOMAIN l[b] : p \in DOMAIN l2[b] /\ l2[b][p] = l[b][p]
    <3>1. CASE b = a
      <4>1. \A p \in DOMAIN l[a] : p \in DOMAIN m /\ m[p] = l[a][p]
        BY <2>1
      <4>2. Len(l[a]) <= Len(m)
        BY <2>1
      <4>3. QED  BY <2>3, <3>1, <4>1, <4>2
    <3>2. CASE b # a
      <4>1. Len(l[b]) \in Nat
        BY <1>0
      <4>2. QED  BY <2>3, <3>2, <4>1
    <3>3. QED  BY <3>1, <3>2
  <2>6. a \in DOMAIN l2 /\ Len(l2) \in Len(l)..(Len(l) + 1)
    <3>1. Len(l) \in Len(l)..(Len(l) + 1)
      BY <1>0
    <3>2. QED  BY <2>0, <2>3, <3>1
  <2>7. QED  BY <2>3, <2>4, <2>5, <2>6 DEF Grown
<1>3. QED  BY <1>1, <1>2

(* What registering an entry e of an event ev changes. *)
Registers(h, t, l, n, t2, l2, ev, a, e) ==
  /\ ev \in Events /\ e \in Entry /\ e.id = n + 1 /\ e.ev = ev /\ n < MaxEntries
  /\ a = IF t[ev] = NoList THEN Len(l) + 1 ELSE t[ev]
  /\ t2 = [t EXCEPT ![ev] = a] /\ Grown(l, l2, a, e)
  /\ h # "duplicates" /\ t[ev] # NoList =>
       \A p \in DOMAIN l[t[ev]] : l[t[ev]][p].fn # e.fn

(* An event had its list, or has the new entry only. *)
LEMMA RegisteredList ==
  ASSUME NEW h, NEW t, NEW l, NEW n, NEW t2, NEW l2, NEW ev, NEW a, NEW e,
         TablesOk(h, t, l, n), Registers(h, t, l, n, t2, l2, ev, a, e), NEW x \in Events
  PROVE  /\ t2[x] = t[x] \/ (x = ev /\ t[x] = NoList /\ t2[x] \notin DOMAIN l)
         /\ t2[x] = a => x = ev
         /\ t2[x] \in DOMAIN l => t[x] = t2[x]
         /\ x # ev => t2[x] = t[x]
<1>1. /\ l \in Seq(Seq(Entry)) /\ t \in [Events -> 0..Len(l)] /\ ev \in Events
      /\ t2 = [t EXCEPT ![ev] = a]
      /\ a = IF t[ev] = NoList THEN Len(l) + 1 ELSE t[ev]
  BY DEF TablesOk, Registers
<1>2. Len(l) \in Nat /\ DOMAIN l = 1..Len(l) /\ Len(l) + 1 \notin 0..Len(l)
  BY <1>1
<1>3. CASE x = ev
  BY <1>1, <1>2, <1>3 DEF NoList
<1>4. CASE x # ev
  <2>1. t2[x] = t[x] /\ t[x] \in 0..Len(l)
    BY <1>1, <1>4
  <2>2. t[x] # a
    BY <1>1, <1>2, <1>4, <2>1 DEF TablesOk
  <2>3. QED  BY <1>4, <2>1, <2>2
<1>5. QED  BY <1>3, <1>4

LEMMA RegisteringTables ==
  ASSUME NEW h, NEW t, NEW l, NEW n, NEW t2, NEW l2, NEW ev, NEW a, NEW e,
         TablesOk(h, t, l, n), Registers(h, t, l, n, t2, l2, ev, a, e), BoundsAssumption
  PROVE  TablesOk(h, t2, l2, n + 1)
<1>1. /\ l \in Seq(Seq(Entry)) /\ t \in [Events -> 0..Len(l)] /\ n \in 0..MaxEntries
      /\ Len(l) <= n /\ MaxEntries \in Nat /\ Len(l) \in Nat
  BY DEF TablesOk, BoundsAssumption
<1>2. /\ e.id = n + 1 /\ e.ev = ev /\ n < MaxEntries /\ t2 = [t EXCEPT ![ev] = a]
      /\ Grown(l, l2, a, e) /\ ev \in Events
      /\ l2 \in Seq(Seq(Entry)) /\ Len(l2) \in Len(l)..(Len(l) + 1) /\ a \in DOMAIN l2
  BY DEF Registers, Grown
<1>3. n + 1 \in 0..MaxEntries /\ Len(l2) <= n + 1 /\ Len(l2) \in Nat
  BY <1>1, <1>2
<1>4. \A b \in DOMAIN l2 : \A p \in DOMAIN l2[b] :
        \/ b \in DOMAIN l /\ p \in DOMAIN l[b] /\ l2[b][p] = l[b][p]
        \/ b = a /\ p = Len(l2[a]) /\ l2[b][p] = e
  BY <1>2 DEF Grown
<1>5. t2 \in [Events -> 0..Len(l2)]
  <2>1. \A i \in 0..Len(l) : i \in 0..Len(l2)
    BY <1>1, <1>2, <1>3
  <2>2. a \in 0..Len(l2)
    <3>1. DOMAIN l2 = 1..Len(l2)
      BY <1>2
    <3>2. QED  BY <1>2, <1>3, <3>1
  <2>3. t \in [Events -> 0..Len(l2)]
    BY <1>1, <2>1
  <2>4. QED  BY <1>2, <2>2, <2>3
<1>6. \A b \in DOMAIN l2 : \A p \in DOMAIN l2[b] : l2[b][p].id <= n + 1
  <2>1. \A b \in DOMAIN l : \A p \in DOMAIN l[b] : l[b][p].id \in Nat /\ l[b][p].id <= n
    <3>1. \A b \in DOMAIN l : \A p \in DOMAIN l[b] : l[b][p] \in Entry
      BY <1>1, SeqOfEntries
    <3>2. \A b \in DOMAIN l : \A p \in DOMAIN l[b] : l[b][p].id \in 1..MaxEntries
      BY <3>1 DEF Entry
    <3>3. \A b \in DOMAIN l : \A p \in DOMAIN l[b] : l[b][p].id <= n
      BY DEF TablesOk
    <3>4. QED  BY <1>1, <3>2, <3>3
  <2>2. \A i \in Nat : i <= n => i <= n + 1
    BY <1>1
  <2>3. n + 1 <= n + 1
    BY <1>1
  <2>4. QED  BY <1>2, <1>4, <2>1, <2>2, <2>3
<1>7. ASSUME NEW b \in DOMAIN l2, NEW c \in DOMAIN l2,
             NEW p \in DOMAIN l2[b], NEW q \in DOMAIN l2[c], l2[b][p].id = l2[c][q].id
      PROVE  b = c /\ p = q
  <2>1. \A d \in DOMAIN l : \A r \in DOMAIN l[d] : l[d][r].id # n + 1
    <3>1. \A d \in DOMAIN l : \A r \in DOMAIN l[d] : l[d][r].id <= n
      BY DEF TablesOk
    <3>2. ~(n + 1 <= n)
      BY <1>1
    <3>3. QED  BY <3>1, <3>2
  <2>2. CASE b \in DOMAIN l /\ p \in DOMAIN l[b] /\ l2[b][p] = l[b][p]
    <3>1. c \in DOMAIN l /\ q \in DOMAIN l[c] /\ l2[c][q] = l[c][q]
      BY <1>2, <1>4, <1>7, <2>1, <2>2
    <3>2. QED  BY <1>7, <2>2, <3>1 DEF TablesOk
  <2>3. CASE b = a /\ p = Len(l2[a]) /\ l2[b][p] = e
    <3>1. c = a /\ q = Len(l2[a])
      BY <1>2, <1>4, <1>7, <2>1, <2>3
    <3>2. QED  BY <2>3, <3>1
  <2>4. QED  BY <1>4, <2>2, <2>3
<1>8. ASSUME NEW x \in Events, NEW y \in Events, t2[x] = t2[y], t2[x] # NoList
      PROVE  x = y
  <2>1. CASE x = ev \/ y = ev
    <3>1. t2[ev] = a
      BY <1>1, <1>2
    <3>2. QED  BY <1>8, <2>1, <3>1, RegisteredList
  <2>2. CASE x # ev /\ y # ev
    <3>1. t2[x] = t[x] /\ t2[y] = t[y]
      BY <2>2, RegisteredList
    <3>2. QED  BY <1>8, <3>1 DEF TablesOk
  <2>3. QED  BY <2>1, <2>2
<1>9. ASSUME NEW x \in Events, t2[x] # NoList, NEW p \in DOMAIN l2[t2[x]]
      PROVE  l2[t2[x]][p].ev = x
  <2>0. t2[x] \in DOMAIN l2
    <3>1. t2[x] \in 0..Len(l2) /\ DOMAIN l2 = 1..Len(l2)
      BY <1>2, <1>5
    <3>2. QED  BY <1>3, <1>9, <3>1 DEF NoList
  <2>1. CASE t2[x] \in DOMAIN l /\ p \in DOMAIN l[t2[x]] /\ l2[t2[x]][p] = l[t2[x]][p]
    <3>1. t[x] = t2[x]
      BY <2>1, RegisteredList
    <3>2. QED  BY <1>9, <2>1, <3>1 DEF TablesOk
  <2>2. CASE t2[x] = a /\ l2[t2[x]][p] = e
    <3>1. x = ev
      BY <2>2, RegisteredList
    <3>2. QED  BY <1>2, <2>2, <3>1
  <2>3. QED  BY <1>4, <2>0, <2>1, <2>2
<1>10. ASSUME h # "duplicates", NEW x \in Events, t2[x] # NoList,
              NEW p \in DOMAIN l2[t2[x]], NEW q \in DOMAIN l2[t2[x]],
              l2[t2[x]][p].fn = l2[t2[x]][q].fn
       PROVE  p = q
  <2>0. t2[x] \in DOMAIN l2
    <3>1. t2[x] \in 0..Len(l2) /\ DOMAIN l2 = 1..Len(l2)
      BY <1>2, <1>5
    <3>2. QED  BY <1>3, <1>10, <3>1 DEF NoList
  <2> DEFINE Old(r) == t2[x] \in DOMAIN l /\ r \in DOMAIN l[t2[x]]
                       /\ l2[t2[x]][r] = l[t2[x]][r]
             New(r) == t2[x] = a /\ r = Len(l2[a]) /\ l2[t2[x]][r] = e
  <2>1. (Old(p) \/ New(p)) /\ (Old(q) \/ New(q))
    BY <1>4, <2>0, <1>10
  <2>2. CASE Old(p) /\ Old(q)
    <3>1. t[x] = t2[x]
      BY <2>2, RegisteredList
    <3>2. QED  BY <1>10, <2>2, <3>1 DEF TablesOk
  <2>3. CASE New(p) /\ New(q)
    BY <2>3
  <2>4. ASSUME NEW r, Old(r), New(p) \/ New(q), l2[t2[x]][r].fn = e.fn
        PROVE  FALSE
    <3>1. t[x] = t2[x] /\ x = ev
      BY <2>4, RegisteredList
    <3>2. t[ev] # NoList /\ r \in DOMAIN l[t[ev]] /\ l[t[ev]][r].fn = e.fn
      BY <1>10, <2>4, <3>1
    <3>3. QED  BY <1>10, <3>2 DEF Registers
  <2>5. QED
    <3>1. CASE Old(p) /\ New(q)
      BY <1>10, <2>4, <3>1
    <3>2. CASE New(p) /\ Old(q)
      BY <1>10, <2>4, <3>2
    <3> HIDE DEF Old, New
    <3>3. QED  BY <2>1, <2>2, <2>3, <3>1, <3>2
<1>11. QED
  BY <1>2, <1>3, <1>5, <1>6, <1>7, <1>8, <1>9, <1>10 DEF TablesOk

LEMMA RegisteringKeeps ==
  ASSUME NEW h, NEW t, NEW l, NEW s, NEW n, NEW sp, NEW t2, NEW l2, NEW ev, NEW a, NEW e,
         EmInv(h, t, l, s, n, sp), Registers(h, t, l, n, t2, l2, ev, a, e),
         BoundsAssumption
  PROVE  EmInv(h, t2, l2, s, n + 1, sp)
<1>1. /\ TablesOk(h, t, l, n) /\ StackOk(h, t, l, s) /\ SpentOk(h, t, l, s, n, sp)
      /\ h \in Habits /\ n \in Nat
  BY DEF EmInv, TablesOk
<1>2. TablesOk(h, t2, l2, n + 1)
  BY <1>1, RegisteringTables
<1>3. /\ e.id = n + 1 /\ e.ev = ev /\ ev \in Events /\ t2[ev] = a
      /\ l \in Seq(Seq(Entry)) /\ \A x \in Events : t2[x] = t[x] \/ t[x] = NoList
  <2>1. t2[ev] = a
    BY <1>1 DEF Registers, TablesOk
  <2>2. QED  BY <1>1, <2>1, RegisteredList DEF Registers, TablesOk
<1>4. /\ \A b \in DOMAIN l : b \in DOMAIN l2 /\ Len(l[b]) <= Len(l2[b])
           /\ \A p \in DOMAIN l[b] : p \in DOMAIN l2[b] /\ l2[b][p] = l[b][p]
      /\ \A b \in DOMAIN l2 : \A p \in DOMAIN l2[b] :
           \/ b \in DOMAIN l /\ p \in DOMAIN l[b] /\ l2[b][p] = l[b][p]
           \/ b = a /\ p = Len(l2[a]) /\ l2[b][p] = e
  BY DEF Registers, Grown
<1>5. StackOk(h, t2, l2, s)
  <2>1. ASSUME NEW k \in DOMAIN s  PROVE SameFor(h, t, l, t2, l2, s[k])
    <3> DEFINE f == s[k]
    <3>1. FrameOk(h, t, l, f)
      BY <1>1 DEF StackOk
    <3>2. f \in Frame /\ f.list \in DOMAIN l
      BY <3>1 DEF FrameOk
    <3>3. /\ LastIndex(f) \in Nat /\ f.i \in Nat /\ Len(l[f.list]) \in Nat
          /\ DOMAIN l[f.list] = 1..Len(l[f.list])
          /\ \A p \in DOMAIN l[f.list] : l[f.list][p] \in Entry
      BY <1>3, <3>2, Indexes, SeqOfEntries
    <3>4. f.list \in DOMAIN l2
      BY <1>4, <3>2
    <3> HIDE DEF f
    <3>5. ASSUME h \in {"none", "duplicates", "clears"}
          PROVE  /\ LastIndex(f) <= Len(l2[f.list])
                 /\ \A p \in 1..LastIndex(f) : p \in DOMAIN l[f.list]
                                               /\ l2[f.list][p] = l[f.list][p]
      <4>1. LastIndex(f) <= Len(l[f.list])
        BY <3>1, <3>5 DEF FrameOk
      <4>2. Len(l2[f.list]) \in Nat /\ Len(l[f.list]) <= Len(l2[f.list])
        <5>1. l2 \in Seq(Seq(Entry))
          BY <1>2 DEF TablesOk
        <5>2. QED  BY <1>4, <3>2, <3>4, <5>1, SeqOfEntries
      <4>3. \A p \in 1..LastIndex(f) : p \in DOMAIN l[f.list]
        BY <3>3, <4>1
      <4>4. LastIndex(f) <= Len(l2[f.list])
        BY <3>3, <4>1, <4>2
      <4>5. QED  BY <1>4, <3>2, <4>3, <4>4
    <3>6. ASSUME h \in {"none", "duplicates"}, NEW p \in Left(f), l[f.list][p].once
          PROVE  t2[l[f.list][p].ev] = t[l[f.list][p].ev]
      <4>1. t[l[f.list][p].ev] = f.list
        BY <3>1, <3>6 DEF FrameOk
      <4>2. p \in 1..LastIndex(f)
        BY <3>3 DEF Left
      <4>3. l[f.list][p].ev \in Events
        BY <3>3, <3>5, <3>6, <4>2 DEF Entry
      <4>4. f.list # NoList
        BY <1>3, <3>2, SeqOfEntries DEF NoList
      <4>5. QED  BY <1>3, <4>1, <4>3, <4>4
    <3>7. QED  BY <3>4, <3>5, <3>6 DEF SameFor, f
  <2>2. ASSUME NEW k \in DOMAIN s, NEW j \in 1..(k - 1), NEW p \in DOMAIN l2[s[k].list],
               s[j].list = t2[l2[s[k].list][p].ev], s[j].list # s[k].list
        PROVE  \E q \in DOMAIN l[s[k].list] : s[j].list = t[l[s[k].list][q].ev]
    <3>1. s[k].list \in DOMAIN l /\ s[k].list \in DOMAIN l2
      BY <1>1, <1>4 DEF StackOk, FrameOk
    <3>2. ~(s[k].list = a /\ l2[s[k].list][p] = e)
      BY <1>3, <2>2
    <3>3. p \in DOMAIN l[s[k].list] /\ l2[s[k].list][p] = l[s[k].list][p]
      BY <1>4, <3>1, <3>2
    <3>4. s[j].list \in DOMAIN l
      <4>1. j \in DOMAIN s
        BY <1>1 DEF StackOk
      <4>2. QED  BY <1>1, <4>1 DEF StackOk, FrameOk
    <3>5. l[s[k].list][p].ev \in Events
      BY <1>3, <3>1, <3>3, SeqOfEntries DEF Entry
    <3>6. t2[l[s[k].list][p].ev] = t[l[s[k].list][p].ev]
      BY <1>1, <2>2, <3>3, <3>4, <3>5, RegisteredList
    <3>7. QED  BY <2>2, <3>3, <3>6
  <2>3. QED  BY <1>1, <2>1, <2>2, StackStays
<1>6. \A b \in DOMAIN l2 : \A p \in DOMAIN l2[b] : l2[b][p].id \in sp =>
        b \in DOMAIN l /\ p \in DOMAIN l[b] /\ l2[b][p] = l[b][p]
  <2>1. n + 1 \notin sp
    <3>1. n + 1 \notin 1..n
      BY <1>1
    <3>2. QED  BY <1>1, <3>1 DEF SpentOk
  <2>2. QED  BY <1>3, <1>4, <2>1
<1>7. SpentOk(h, t2, l2, s, n + 1, sp)
  <2>1. sp \subseteq 1..(n + 1)
    <3>1. \A i \in 1..n : i \in 1..(n + 1)
      BY <1>1
    <3>2. QED  BY <1>1, <3>1 DEF SpentOk
  <2>2. ASSUME h # "duplicates", NEW x \in Events, t2[x] # NoList,
               NEW p \in DOMAIN l2[t2[x]], l2[t2[x]][p].id \in sp
        PROVE  l2[t2[x]][p].once /\ \E k \in DOMAIN s : s[k].running = l2[t2[x]][p]
    <3>1. t2[x] \in DOMAIN l2
      BY <1>2, <2>2 DEF TablesOk, NoList
    <3>2. t2[x] \in DOMAIN l /\ p \in DOMAIN l[t2[x]] /\ l2[t2[x]][p] = l[t2[x]][p]
      BY <1>6, <2>2, <3>1
    <3>3. t[x] = t2[x]
      BY <1>1, <3>2, RegisteredList
    <3>4. QED  BY <1>1, <2>2, <3>2, <3>3 DEF SpentOk
  <2>3. ASSUME h = "none", NEW b \in DOMAIN l2, NEW p \in DOMAIN l2[b], l2[b][p].id \in sp
        PROVE  \E k \in DOMAIN s : OnceRunning(s[k]) /\ s[k].list = b /\ s[k].i + 1 = p
    <3>1. b \in DOMAIN l /\ p \in DOMAIN l[b] /\ l2[b][p] = l[b][p]
      BY <1>6, <2>3
    <3>2. QED  BY <1>1, <2>3, <3>1 DEF SpentOk
  <2>4. QED  BY <2>1, <2>2, <2>3 DEF SpentOk
<1>8. QED  BY <1>1, <1>2, <1>5, <1>7 DEF EmInv

LEMMA AddKeeps ==
  ASSUME EmitterInv, BoundsAssumption, NEW ev \in Events, NEW fn \in Listeners,
         NEW once \in BOOLEAN, AddListener(ev, fn, once)
  PROVE  EmitterInv'
<1> DEFINE a == IF table[ev] = NoList THEN Len(lists) + 1 ELSE table[ev]
           e == [id |-> entries + 1, ev |-> ev, fn |-> fn, once |-> once]
<1>1. /\ entries < MaxEntries
      /\ "newListener" \in Events => MayWalk("newListener")
      /\ habit # "duplicates" => Matches(ListOf(ev), fn) = {}
      /\ table' = [table EXCEPT ![ev] = a]
      /\ lists' = IF a > Len(lists) THEN Append(lists, <<e>>)
                  ELSE [lists EXCEPT ![a] = Append(@, e)]
      /\ entries' = entries + 1
      /\ stack' = IF "newListener" \in Events
                  THEN Walk("newListener", table', lists', stack) ELSE stack
      /\ UNCHANGED <<spent, again, habit>>
  BY DEF AddListener
<1>2. /\ EmInv(habit, table, lists, stack, entries, spent)
      /\ TablesOk(habit, table, lists, entries)
      /\ StackOk(habit, table, lists, stack)
  BY DEF EmitterInv, EmInv
<1>3. /\ lists \in Seq(Seq(Entry)) /\ table \in [Events -> 0..Len(lists)]
      /\ entries \in Nat /\ MaxEntries \in Nat /\ Len(lists) \in Nat
  BY <1>2 DEF TablesOk, BoundsAssumption
<1>4. e \in Entry /\ e.id = entries + 1 /\ e.ev = ev /\ e.fn = fn
  BY <1>1, <1>3 DEF Entry
<1>5. a = (IF table[ev] = NoList THEN Len(lists) + 1 ELSE table[ev])
      /\ a \in 1..(Len(lists) + 1)
  <2>1. table[ev] \in 0..Len(lists)
    BY <1>3
  <2>2. QED  BY <1>3, <2>1 DEF NoList
<1> HIDE DEF a, e
<1>6. Grown(lists, lists', a, e)
  BY <1>1, <1>3, <1>4, <1>5, ListAppended
<1>7. ASSUME habit # "duplicates", table[ev] # NoList, NEW p \in DOMAIN lists[table[ev]]
      PROVE  lists[table[ev]][p].fn # e.fn
  <2>1. Matches(lists[table[ev]], fn) = {}
    BY <1>1, <1>7 DEF ListOf
  <2>2. QED  BY <1>4, <1>7, <2>1 DEF Matches
<1>8. Registers(habit, table, lists, entries, table', lists', ev, a, e)
  BY <1>1, <1>4, <1>5, <1>6, <1>7 DEF Registers
<1>9. EmInv(habit, table', lists', stack, entries + 1, spent)
  BY <1>2, <1>8, RegisteringKeeps
<1>10. EmInv(habit, table', lists', stack', entries + 1, spent)
  <2>1. CASE "newListener" \notin Events
    BY <1>1, <1>9, <2>1
  <2>2. CASE "newListener" \in Events
    <3>1. ASSUME habit \in {"none", "clears"}, NEW k \in DOMAIN stack,
                 stack[k].list = table'["newListener"], NEW p \in 1..LastIndex(stack[k])
          PROVE  ~lists'[stack[k].list][p].once
      <4> DEFINE f == stack[k]
      <4>1. FrameOk(habit, table, lists, f)
        BY <1>2 DEF StackOk
      <4>2. /\ f \in Frame /\ f.list \in DOMAIN lists
            /\ LastIndex(f) <= Len(lists[f.list])
        BY <3>1, <4>1 DEF FrameOk
      <4>3. f.list = table["newListener"]
        BY <1>2, <1>8, <2>2, <3>1, <4>2, RegisteredList
      <4>4. ~lists[f.list][p].once
        BY <1>1, <2>2, <3>1, <4>3, MayWalkMeans
      <4>5. p \in DOMAIN lists[f.list]
        <5>1. LastIndex(f) \in Nat
          BY <4>2, Indexes
        <5>2. DOMAIN lists[f.list] = 1..Len(lists[f.list]) /\ Len(lists[f.list]) \in Nat
          BY <1>3, <4>2, SeqOfEntries
        <5>3. QED  BY <4>2, <5>1, <5>2
      <4>6. lists'[f.list][p] = lists[f.list][p]
        BY <1>6, <4>2, <4>5 DEF Grown
      <4>7. QED  BY <4>4, <4>6
    <3>2. habit = "duplicates" => stack = <<>>
      BY <1>1, <2>2 DEF MayWalk
    <3>3. EmInv(habit, table', lists', Walk("newListener", table', lists', stack),
                entries + 1, spent)
      BY <1>9, <2>2, <3>1, <3>2, WalkKeeps
    <3>4. QED  BY <1>1, <2>2, <3>3
  <2>3. QED  BY <2>1, <2>2
<1>11. QED  BY <1>1, <1>10 DEF EmitterInv

(* The lists l2 are the lists l without the entry q of the list b: what is *)
(* at the place p of a list was at the place Was.                          *)
Was(b, q, c, p) == IF c = b /\ p >= q THEN p + 1 ELSE p

Shrunk(l, l2, b, q) ==
  /\ l2 \in Seq(Seq(Entry)) /\ Len(l2) = Len(l) /\ DOMAIN l2 = DOMAIN l
  /\ b \in DOMAIN l /\ q \in DOMAIN l[b] /\ Len(l2[b]) = Len(l[b]) - 1
  /\ \A c \in DOMAIN l : c # b => l2[c] = l[c]
  /\ \A c \in DOMAIN l : \A p \in DOMAIN l2[c] :
       /\ Was(b, q, c, p) \in DOMAIN l[c]
       /\ l2[c][p] = l[c][Was(b, q, c, p)]

LEMMA WasFacts ==
  ASSUME NEW q \in Nat, NEW p \in Nat, NEW r \in Nat, NEW b, NEW c
  PROVE  /\ Was(b, q, c, p) \in Nat /\ (c = b => Was(b, q, c, p) # q)
         /\ Was(b, q, c, p) = Was(b, q, c, r) => p = r
         /\ Was(b, q, c, p) < q => Was(b, q, c, p) = p
         /\ c # b => Was(b, q, c, p) = p
         /\ p >= q /\ c = b => Was(b, q, c, p) = p + 1
         /\ p < q => Was(b, q, c, p) = p
BY DEF Was

Without(l, b, fn) == [l EXCEPT ![b] = RemoveFrom(l[b], fn)]

LEMMA ListRemoved ==
  ASSUME NEW l \in Seq(Seq(Entry)), NEW b \in DOMAIN l, NEW fn, NEW l2, l2 = Without(l, b, fn)
  PROVE  \/ l2 = l /\ Matches(l[b], fn) = {}
         \/ \E q \in DOMAIN l[b] :
              /\ q = First(Matches(l[b], fn)) /\ l[b][q].fn = fn
              /\ \A k \in DOMAIN l[b] : l[b][k].fn = fn => q <= k
              /\ Shrunk(l, l2, b, q)
<1> DEFINE m == RemoveFrom(l[b], fn)
<1>1. /\ l[b] \in Seq(Entry) /\ Len(l[b]) \in Nat /\ DOMAIN l[b] = 1..Len(l[b])
      /\ DOMAIN l = 1..Len(l)
  BY SeqOfEntries
<1>2. l2 = [l EXCEPT ![b] = m]
  BY Zenon DEF Without
<1>3. CASE Matches(l[b], fn) = {} /\ m = l[b]
  BY <1>2, <1>3, SMTT(30)
<1>4. ASSUME NEW q \in 1..Len(l[b]), l[b][q].fn = fn,
             \A k \in DOMAIN l[b] : l[b][k].fn = fn => q <= k,
             q = First(Matches(l[b], fn)), m \in Seq(Entry), Len(m) = Len(l[b]) - 1,
             \A k \in 1..(Len(l[b]) - 1) : m[k] = IF k < q THEN l[b][k] ELSE l[b][k + 1]
      PROVE  Shrunk(l, l2, b, q)
  <2> HIDE DEF m
  <2>1. /\ l2 \in Seq(Seq(Entry)) /\ Len(l2) = Len(l) /\ DOMAIN l2 = DOMAIN l
        /\ l2[b] = m /\ \A c \in DOMAIN l : c # b => l2[c] = l[c]
    <3>1. l2 \in Seq(Seq(Entry)) /\ Len(l2) = Len(l)
      BY <1>2, <1>4, ExceptSeq
    <3>2. QED  BY <1>2, <3>1
  <2>2. ASSUME NEW p \in DOMAIN m
        PROVE  Was(b, q, b, p) \in DOMAIN l[b] /\ m[p] = l[b][Was(b, q, b, p)]
    <3>1. p \in 1..(Len(l[b]) - 1)
      BY <1>4
    <3>2. m[p] = IF p < q THEN l[b][p] ELSE l[b][p + 1]
      BY <1>4, <3>1
    <3>3. Was(b, q, b, p) = IF p < q THEN p ELSE p + 1
      BY <3>1 DEF Was
    <3>4. Was(b, q, b, p) \in 1..Len(l[b])
      BY <1>1, <3>1, <3>3
    <3>5. QED  BY <1>1, <3>2, <3>3, <3>4
  <2>3. ASSUME NEW c \in DOMAIN l, NEW p \in DOMAIN l2[c]
        PROVE  /\ Was(b, q, c, p) \in DOMAIN l[c]
               /\ l2[c][p] = l[c][Was(b, q, c, p)]
    <3>1. CASE c = b
      BY <2>1, <2>2, <3>1
    <3>2. CASE c # b
      BY <2>1, <3>2 DEF Was
    <3>3. QED  BY <3>1, <3>2, Zenon
  <2>4. QED  BY <1>1, <1>4, <2>1, <2>3 DEF Shrunk
<1>5. QED
  <2>1. \/ Matches(l[b], fn) = {} /\ m = l[b]
        \/ \E p \in 1..Len(l[b]) :
              /\ l[b][p].fn = fn /\ \A k \in DOMAIN l[b] : l[b][k].fn = fn => p <= k
              /\ p = First(Matches(l[b], fn)) /\ m \in Seq(Entry)
              /\ Len(m) = Len(l[b]) - 1
              /\ \A k \in 1..(Len(l[b]) - 1) :
                   m[k] = IF k < p THEN l[b][k] ELSE l[b][k + 1]
    <3>1. l[b] \in Seq(Entry)
      BY <1>1
    <3>2. PICK s \in Seq(Entry) : s = l[b]
      BY <3>1
    <3>3. \/ Matches(s, fn) = {} /\ RemoveFrom(s, fn) = s
          \/ \E p \in 1..Len(s) :
              /\ s[p].fn = fn /\ \A k \in DOMAIN s : s[k].fn = fn => p <= k
              /\ p = First(Matches(s, fn)) /\ RemoveFrom(s, fn) \in Seq(Entry)
              /\ Len(RemoveFrom(s, fn)) = Len(s) - 1
              /\ \A k \in 1..(Len(s) - 1) :
                   RemoveFrom(s, fn)[k] = IF k < p THEN s[k] ELSE s[k + 1]
      BY ONLY RemoveFromFacts
    <3>4. QED  BY ONLY <3>2, <3>3
  <2> HIDE DEF m
  <2>2. CASE Matches(l[b], fn) = {} /\ m = l[b]
    BY <1>3, <2>2
  <2>3. ASSUME NEW p \in 1..Len(l[b]),
               l[b][p].fn = fn, \A k \in DOMAIN l[b] : l[b][k].fn = fn => p <= k,
               p = First(Matches(l[b], fn)), m \in Seq(Entry),
               Len(m) = Len(l[b]) - 1,
               \A k \in 1..(Len(l[b]) - 1) :
                 m[k] = IF k < p THEN l[b][k] ELSE l[b][k + 1]
        PROVE  p \in DOMAIN l[b] /\ Shrunk(l, l2, b, p)
    BY <1>1, <1>4, <2>3
  <2>4. QED  BY <2>1, <2>2, <2>3, Zenon

LEMMA ShrinkingTables ==
  ASSUME NEW h, NEW t, NEW l, NEW n, NEW l2, NEW b, NEW q,
         TablesOk(h, t, l, n), Shrunk(l, l2, b, q)
  PROVE  TablesOk(h, t, l2, n)
<1>1. /\ l \in Seq(Seq(Entry)) /\ l2 \in Seq(Seq(Entry)) /\ DOMAIN l2 = DOMAIN l
      /\ Len(l2) = Len(l) /\ b \in DOMAIN l /\ q \in DOMAIN l[b]
      /\ DOMAIN l = 1..Len(l)
  BY DEF TablesOk, Shrunk
<1>2. q \in Nat
  BY <1>1, SeqOfEntries
<1>3. \A c \in DOMAIN l2 : \A p \in DOMAIN l2[c] : p \in Nat
  BY <1>1, SeqOfEntries
<1> DEFINE W(c, p) == Was(b, q, c, p)
<1>4. \A c \in DOMAIN l2 : \A p \in DOMAIN l2[c] :
        W(c, p) \in DOMAIN l[c] /\ l2[c][p] = l[c][W(c, p)]
  BY <1>1 DEF Shrunk
<1>5. \A c \in DOMAIN l2 : \A p, r \in DOMAIN l2[c] : W(c, p) = W(c, r) => p = r
  BY <1>2, <1>3, WasFacts
<1> HIDE DEF W
<1>6. \A x \in Events : t[x] # NoList => t[x] \in DOMAIN l2
  BY <1>1 DEF TablesOk, NoList
<1>7. \A c \in DOMAIN l2 : \A p \in DOMAIN l2[c] : l2[c][p].id <= n
  BY <1>1, <1>4 DEF TablesOk
<1>8. ASSUME NEW c \in DOMAIN l2, NEW d \in DOMAIN l2, NEW p \in DOMAIN l2[c],
             NEW r \in DOMAIN l2[d], l2[c][p].id = l2[d][r].id
      PROVE  c = d /\ p = r
  <2>1. \A a1, a2 \in DOMAIN l : \A r1 \in DOMAIN l[a1], r2 \in DOMAIN l[a2] :
          l[a1][r1].id = l[a2][r2].id => a1 = a2 /\ r1 = r2
    BY DEF TablesOk
  <2>2. c = d /\ W(c, p) = W(d, r)
    BY <1>1, <1>4, <1>8, <2>1
  <2>3. QED  BY <1>5, <2>2
<1>9. \A x \in Events : t[x] # NoList => \A p \in DOMAIN l2[t[x]] : l2[t[x]][p].ev = x
  BY <1>4, <1>6 DEF TablesOk
<1>10. ASSUME h # "duplicates", NEW x \in Events, t[x] # NoList,
              NEW p \in DOMAIN l2[t[x]], NEW r \in DOMAIN l2[t[x]],
              l2[t[x]][p].fn = l2[t[x]][r].fn
       PROVE  p = r
  <2>1. W(t[x], p) = W(t[x], r)
    BY <1>4, <1>6, <1>10 DEF TablesOk
  <2>2. QED  BY <1>5, <1>6, <1>10, <2>1
<1>11. QED  BY <1>1, <1>7, <1>8, <1>9, <1>10 DEF TablesOk

(* A walk whose part of its list lies before what is removed. *)
LEMMA ShrinkingBehind ==
  ASSUME NEW h, NEW t, NEW l, NEW l2, NEW b, NEW q, NEW f,
         l \in Seq(Seq(Entry)), Shrunk(l, l2, b, q), FrameOk(h, t, l, f),
         h \in {"none", "duplicates", "clears"} /\ f.list = b => q > LastIndex(f)
  PROVE  SameFor(h, t, l, t, l2, f)
<1>1. f \in Frame /\ f.list \in DOMAIN l2 /\ f.list \in DOMAIN l
  BY DEF FrameOk, Shrunk
<1>2. LastIndex(f) \in Nat /\ f.i \in Nat
  BY <1>1, Indexes
<1>3. ASSUME h \in {"none", "duplicates", "clears"}
      PROVE  /\ LastIndex(f) <= Len(l2[f.list])
             /\ \A p \in 1..LastIndex(f) : l2[f.list][p] = l[f.list][p]
  <2>1. LastIndex(f) <= Len(l[f.list])
    BY <1>3 DEF FrameOk
  <2>2. CASE f.list # b
    BY <1>1, <2>1, <2>2 DEF Shrunk
  <2>3. CASE f.list = b
    <3>1. /\ l2 \in Seq(Seq(Entry)) /\ q \in DOMAIN l[b] /\ b \in DOMAIN l
          /\ Len(l2[b]) = Len(l[b]) - 1
      BY DEF Shrunk
    <3>2. /\ Len(l[b]) \in Nat /\ q \in 1..Len(l[b]) /\ Len(l2[b]) \in Nat
          /\ DOMAIN l2[b] = 1..Len(l2[b])
      BY <1>1, <2>3, <3>1, SeqOfEntries
    <3>3. q > LastIndex(f)
      BY <1>3, <2>3
    <3>4. LastIndex(f) <= Len(l2[b])
      BY <1>2, <3>1, <3>2, <3>3
    <3>5. ASSUME NEW p \in 1..LastIndex(f)  PROVE l2[b][p] = l[b][p]
      <4>1. p \in DOMAIN l2[b] /\ p < q /\ p \in Nat /\ q \in Nat
        BY <1>2, <3>2, <3>3, <3>4
      <4>2. Was(b, q, b, p) = p
        BY <4>1, WasFacts
      <4>3. QED  BY <3>1, <4>1, <4>2 DEF Shrunk
    <3>6. QED  BY <2>3, <3>4, <3>5
  <2>4. QED  BY <2>2, <2>3
<1>4. QED  BY <1>1, <1>3 DEF SameFor

LEMMA RemoveKeeps ==
  ASSUME EmitterInv, NEW ev \in Events, NEW fn, RemoveListener(ev, fn)
  PROVE  EmitterInv'
<1> DEFINE b == table[ev]
           h == habit
           t == table
           l == lists
           l2 == lists'
           s == stack
<1>1. /\ Matches(ListOf(ev), fn) # {}
      /\ habit # "removes" => \A k \in DOMAIN stack :
           Walks(stack[k], ev) => First(Matches(ListOf(ev), fn)) > LastIndex(stack[k])
      /\ lists' = [lists EXCEPT ![b] = RemoveFrom(@, fn)]
      /\ UNCHANGED <<table, stack, entries, spent, again, habit>>
  BY DEF RemoveListener
<1>2. /\ h \in Habits /\ TablesOk(h, t, l, entries) /\ StackOk(h, t, l, s)
      /\ SpentOk(h, t, l, s, entries, spent)
  BY DEF EmitterInv, EmInv
<1>3. b # NoList /\ ListOf(ev) = l[b]
  <2>1. b # NoList
    BY <1>1 DEF ListOf, Matches
  <2>2. QED  BY <2>1 DEF ListOf
<1>4. l \in Seq(Seq(Entry)) /\ b \in DOMAIN l
  BY <1>2, <1>3 DEF TablesOk, NoList
<1> HIDE DEF b
<1>5. PICK q \in DOMAIN l[b] : q = First(Matches(l[b], fn)) /\ Shrunk(l, l2, b, q)
  <2>1. \/ l2 = l /\ Matches(l[b], fn) = {}
        \/ \E q \in DOMAIN l[b] :
             /\ q = First(Matches(l[b], fn)) /\ l[b][q].fn = fn
             /\ \A k \in DOMAIN l[b] : l[b][k].fn = fn => q <= k
             /\ Shrunk(l, l2, b, q)
    <3>1. l2 = Without(l, b, fn)
      BY <1>1 DEF Without
    <3> HIDE DEF l, l2
    <3>2. QED  BY <1>4, <3>1, ListRemoved
  <2>2. Matches(l[b], fn) # {}
    BY <1>1, <1>3
  <2>3. QED  BY <2>1, <2>2
<1>6. /\ l2 \in Seq(Seq(Entry)) /\ DOMAIN l2 = DOMAIN l /\ q \in Nat
      /\ \A c \in DOMAIN l : \A p \in DOMAIN l2[c] :
           /\ p \in Nat /\ Was(b, q, c, p) \in DOMAIN l[c]
           /\ l2[c][p] = l[c][Was(b, q, c, p)]
  <2>1. l2 \in Seq(Seq(Entry)) /\ DOMAIN l2 = DOMAIN l
    BY <1>5 DEF Shrunk
  <2>2. q \in Nat /\ \A c \in DOMAIN l : \A p \in DOMAIN l2[c] : p \in Nat
    BY <1>4, <1>5, <2>1, SeqOfEntries
  <2>3. QED  BY <1>5, <2>1, <2>2 DEF Shrunk
<1>7. TablesOk(h, t, l2, entries)
  BY <1>2, <1>5, ShrinkingTables
<1>8. \A k \in DOMAIN s : h # "removes" /\ s[k].list = b => q > LastIndex(s[k])
  BY <1>1, <1>3, <1>5 DEF Walks, b
<1>9. \A k \in DOMAIN s : SameFor(h, t, l, t, l2, s[k])
  <2>1. \A k \in DOMAIN s : FrameOk(h, t, l, s[k])
    BY <1>2 DEF StackOk
  <2>2. h \in {"none", "duplicates", "clears"} => h # "removes"
    OBVIOUS
  <2> HIDE DEF h, t, l, l2, s
  <2>3. QED  BY <1>4, <1>5, <1>8, <2>1, <2>2, ShrinkingBehind
<1>10. StackOk(h, t, l2, s)
  <2>1. \A k \in DOMAIN s : s[k].list \in DOMAIN l
    BY <1>2 DEF StackOk, FrameOk
  <2>2. \A k \in DOMAIN s : \A p \in DOMAIN l2[s[k].list] :
          \E r \in DOMAIN l[s[k].list] : l2[s[k].list][p] = l[s[k].list][r]
    BY <1>6, <2>1
  <2> HIDE DEF h, t, l, l2, s
  <2>3. \A k \in DOMAIN s : \A j \in 1..(k - 1) : \A p \in DOMAIN l2[s[k].list] :
           s[j].list = t[l2[s[k].list][p].ev] =>
             \E r \in DOMAIN l[s[k].list] : s[j].list = t[l[s[k].list][r].ev]
    BY <2>2
  <2>4. QED  BY <1>2, <1>9, <2>3, StackStays
<1>11. SpentOk(h, t, l2, s, entries, spent)
  <2>1. \A x \in Events : t[x] # NoList => t[x] \in DOMAIN l
    BY <1>2 DEF TablesOk, NoList
  <2>2. ASSUME h # "duplicates", NEW x \in Events, t[x] # NoList,
               NEW p \in DOMAIN l2[t[x]], l2[t[x]][p].id \in spent
        PROVE  l2[t[x]][p].once /\ \E k \in DOMAIN s : s[k].running = l2[t[x]][p]
    <3>1. PICK r \in DOMAIN l[t[x]] : l2[t[x]][p] = l[t[x]][r]
      BY <1>6, <2>1, <2>2
    <3>2. QED  BY <1>2, <2>2, <3>1 DEF SpentOk
  <2>3. ASSUME h = "none", NEW c \in DOMAIN l2, NEW p \in DOMAIN l2[c],
               l2[c][p].id \in spent
        PROVE  \E k \in DOMAIN s : OnceRunning(s[k]) /\ s[k].list = c /\ s[k].i + 1 = p
    <3> DEFINE r == Was(b, q, c, p)
    <3>1. r \in DOMAIN l[c] /\ l2[c][p] = l[c][r] /\ c \in DOMAIN l /\ p \in Nat
      BY <1>6, <2>3
    <3>2. PICK k \in DOMAIN s : OnceRunning(s[k]) /\ s[k].list = c /\ s[k].i + 1 = r
      BY <1>2, <2>3, <3>1 DEF SpentOk
    <3>3. c = b => r < q
      <4>1. FrameOk(h, t, l, s[k]) /\ h # "removes"
        BY <1>2, <2>3 DEF StackOk
      <4>2. s[k] \in Frame /\ s[k].i <= s[k].len
        BY <2>3, <4>1 DEF FrameOk
      <4>3. LastIndex(s[k]) = s[k].len + 1 /\ s[k].i \in Nat /\ s[k].len \in Nat
        BY <3>2, <4>2, Indexes
      <4>4. c = b => q > LastIndex(s[k])
        BY <1>8, <3>2, <4>1
      <4>5. QED  BY <1>6, <3>2, <4>2, <4>3, <4>4
    <3>4. r = p
      BY <1>6, <3>1, <3>3, WasFacts
    <3>5. QED  BY <3>2, <3>4
  <2>4. QED  BY <1>2, <1>6, <2>2, <2>3 DEF SpentOk
<1>12. QED  BY <1>1, <1>2, <1>7, <1>10, <1>11 DEF EmitterInv, EmInv

(* The frames u are the frames s with f in the place of the innermost.     *)
OnTop(s, f, u) ==
  /\ u \in Seq(Frame) /\ Len(u) = Len(s) /\ DOMAIN u = DOMAIN s
  /\ DOMAIN s = 1..Len(s) /\ Len(s) \in Nat /\ Len(s) \in DOMAIN s
  /\ u[Len(s)] = f /\ \A k \in DOMAIN s : k # Len(s) => u[k] = s[k]

LEMMA TopReplaced ==
  ASSUME NEW s \in Seq(Frame), s # <<>>, NEW f \in Frame, NEW u,
         u = [s EXCEPT ![Len(s)] = f]
  PROVE  OnTop(s, f, u)
<1>1. DOMAIN s = 1..Len(s) /\ Len(s) \in Nat /\ Len(s) \in 1..Len(s)
  BY EmptySeq
<1>2. u \in Seq(Frame) /\ Len(u) = Len(s)
  BY <1>1, ExceptSeq
<1>3. QED  BY <1>1, <1>2 DEF OnTop

(* What is in a list now was in it before.                                 *)
Inherits(l, l2) ==
  \A c \in DOMAIN l : \A p \in DOMAIN l2[c] : \E q \in DOMAIN l[c] : l2[c][p] = l[c][q]

(* The innermost walk goes on, and the lists change behind the others. *)
LEMMA StackGoesOn ==
  ASSUME NEW h, NEW t, NEW l, NEW l2, NEW s, NEW f, NEW u,
         StackOk(h, t, l, s), s # <<>>, FrameOk(h, t, l2, f),
         f.list = s[Len(s)].list, OnTop(s, f, u),
         \A k \in DOMAIN s : k # Len(s) => SameFor(h, t, l, t, l2, s[k]),
         Inherits(l, l2)
  PROVE  StackOk(h, t, l2, u)
<1>1. /\ u \in Seq(Frame) /\ Len(u) = Len(s) /\ DOMAIN u = DOMAIN s
      /\ DOMAIN s = 1..Len(s) /\ Len(s) \in Nat /\ Len(s) \in DOMAIN s
      /\ u[Len(s)] = f /\ \A k \in DOMAIN s : k # Len(s) => u[k] = s[k]
  BY DEF OnTop
<1>2. \A k \in DOMAIN s : u[k].list = s[k].list
  BY <1>1
<1>3. ASSUME NEW k \in DOMAIN u  PROVE FrameOk(h, t, l2, u[k])
  <2>1. CASE k = Len(s)
    BY <1>1, <2>1
  <2>2. CASE k # Len(s)
    <3>1. FrameOk(h, t, l, s[k]) /\ SameFor(h, t, l, t, l2, s[k])
      BY <1>1, <2>2 DEF StackOk
    <3>2. QED  BY <1>1, <2>2, <3>1, FrameStays
  <2>3. QED  BY <2>1, <2>2
<1>4. h = "duplicates" => Len(u) <= 1
  <2>1. h = "duplicates" => Len(s) <= 1
    BY DEF StackOk
  <2>2. Len(u) = Len(s)
    BY <1>1
  <2>3. QED  BY <2>1, <2>2
<1>5. \A k \in DOMAIN u : \A j \in 1..(k - 1) :
        j \in DOMAIN s /\ j # Len(s) /\ u[j] = s[j]
  <2>1. \A k \in DOMAIN u : \A j \in 1..(k - 1) : j \in DOMAIN s /\ j # Len(s)
    <3>1. \A m \in Nat : \A k \in 1..m : \A j \in 1..(k - 1) : j \in 1..m /\ j # m
      OBVIOUS
    <3>2. Len(s) \in Nat /\ DOMAIN u = 1..Len(s) /\ DOMAIN s = 1..Len(s)
      BY <1>1
    <3>3. QED  BY ONLY <3>1, <3>2
  <2>2. \A j \in DOMAIN s : j # Len(s) => u[j] = s[j]
    BY <1>1
  <2>3. QED  BY ONLY <2>1, <2>2, ZenonT(30)
<1>6. ASSUME h \in {"none", "clears"}, NEW k \in DOMAIN u, NEW j \in 1..(k - 1),
             u[j].list = u[k].list, NEW p \in 1..LastIndex(u[j])
      PROVE  ~l2[u[j].list][p].once
  <2>0. DOMAIN u = DOMAIN s
    BY <1>1
  <2>1. j \in DOMAIN s /\ j # Len(s) /\ u[j] = s[j] /\ k \in DOMAIN s
    BY <1>5, <2>0
  <2>2. ~l[s[j].list][p].once
    <3>1. \A k2 \in DOMAIN s : \A j2 \in 1..(k2 - 1) : s[j2].list = s[k2].list =>
            \A p2 \in 1..LastIndex(s[j2]) : ~l[s[j2].list][p2].once
      BY <1>6 DEF StackOk
    <3>2. s[j].list = s[k].list
      BY <1>2, <1>6, <2>1
    <3>3. QED  BY <1>6, <2>1, <3>1, <3>2
  <2>3. l2[s[j].list][p] = l[s[j].list][p]
    BY <1>6, <2>1 DEF SameFor
  <2>4. QED  BY <2>1, <2>2, <2>3
<1>7. ASSUME NEW k \in DOMAIN u, NEW j \in 1..(k - 1), NEW p \in DOMAIN l2[u[k].list],
             u[j].list = t[l2[u[k].list][p].ev]
      PROVE  u[j].list = u[k].list
  <2>0. DOMAIN u = DOMAIN s
    BY <1>1
  <2>1. j \in DOMAIN s /\ u[j] = s[j] /\ k \in DOMAIN s /\ u[k].list = s[k].list
    BY <1>2, <1>5, <2>0
  <2>2. s[k].list \in DOMAIN l
    BY <2>1 DEF StackOk, FrameOk
  <2>3. PICK q \in DOMAIN l[s[k].list] : l2[s[k].list][p] = l[s[k].list][q]
    BY <1>7, <2>1, <2>2 DEF Inherits
  <2>4. s[j].list = t[l[s[k].list][q].ev]
    BY <1>7, <2>1, <2>3
  <2>5. s[j].list = s[k].list
    <3>1. \A k2 \in DOMAIN s : \A j2 \in 1..(k2 - 1) : \A p2 \in DOMAIN l[s[k2].list] :
            s[j2].list = t[l[s[k2].list][p2].ev] => s[j2].list = s[k2].list
      BY DEF StackOk
    <3>2. QED  BY <2>1, <2>3, <2>4, <3>1
  <2>6. QED  BY <2>1, <2>5
<1>8. QED  BY <1>1, <1>3, <1>4, <1>6, <1>7 DEF StackOk

(* The frame of the walk when it calls the listener e. *)
Calling(f, e) == [Advance(f, e) EXCEPT !.running = e, !.called = Append(@, e.id)]

LEMMA CallingFields ==
  ASSUME NEW f \in Frame, NEW e \in Entry, f.i < f.len, f.running = NoEntry
  PROVE  LET g == Calling(f, e)
         IN  /\ g \in Frame /\ g.list = f.list /\ g.atStart = f.atStart
             /\ g.running = e /\ g.called = Append(f.called, e.id)
             /\ g.i = (IF e.once THEN f.i ELSE f.i + 1)
             /\ g.len = (IF e.once THEN f.len - 1 ELSE f.len)
             /\ LastIndex(g) = LastIndex(f) /\ LastIndex(f) = f.len
             /\ Passed(g) = f.i + 1 /\ Passed(f) = f.i
             /\ OnceRunning(g) <=> e.once
<1> DEFINE g == Calling(f, e)
           i2 == IF e.once THEN f.i ELSE f.i + 1
           len2 == IF e.once THEN f.len - 1 ELSE f.len
           called2 == Append(f.called, e.id)
           f2 == [f EXCEPT !.i = i2, !.len = len2]
<1>1. /\ f.i \in Nat /\ f.len \in Nat /\ f.called \in Seq(1..MaxEntries)
      /\ e.id \in 1..MaxEntries /\ e.once \in BOOLEAN
  BY DEF Frame, Entry
<1>2. i2 \in Nat /\ len2 \in Nat /\ called2 \in Seq(1..MaxEntries)
  <2>1. called2 \in Seq(1..MaxEntries)
    BY <1>1
  <2>2. i2 \in Nat /\ len2 \in Nat
    BY <1>1
  <2>3. QED  BY <2>1, <2>2
<1>3. Advance(f, e) = f2
  BY <1>1 DEF Advance, Frame
<1>4. f2.called = f.called
  BY DEF Frame
<1>5. g = [f2 EXCEPT !.running = e, !.called = called2]
  BY <1>3, <1>4 DEF Calling
<1>6. i2 = (IF e.once THEN f.i ELSE f.i + 1)
      /\ len2 = (IF e.once THEN f.len - 1 ELSE f.len) /\ called2 = Append(f.called, e.id)
  OBVIOUS
<1> HIDE DEF i2, len2, called2, g
<1>7. /\ g \in Frame /\ g.list = f.list /\ g.atStart = f.atStart
      /\ g.running = e /\ g.called = called2 /\ g.i = i2 /\ g.len = len2
  BY <1>2, <1>5 DEF Frame
<1>8. OnceRunning(g) <=> e.once
  BY <1>7, Indexes
<1>9. ~OnceRunning(f)
  BY DEF OnceRunning
<1>10. LastIndex(f) = f.len /\ Passed(f) = f.i
  BY <1>9, Indexes
<1>11. LastIndex(g) = f.len /\ Passed(g) = f.i + 1
  <2>1. CASE e.once
    <3>1. g.i = f.i /\ g.len = f.len - 1
      BY <1>6, <1>7, <2>1
    <3>2. Passed(g) = g.i + 1 /\ LastIndex(g) = g.len + 1
      BY <1>7, <1>8, <2>1, Indexes
    <3>3. f.len \in Nat
      BY <1>1
    <3>4. QED  BY ONLY <3>1, <3>2, <3>3
  <2>2. CASE ~e.once
    BY <1>1, <1>6, <1>7, <1>8, <2>2, Indexes
  <2>3. QED  BY <2>1, <2>2
<1>12. QED  BY <1>6, <1>7, <1>8, <1>10, <1>11 DEF g

LEMMA Counting ==
  ASSUME NEW c \in Nat, NEW i \in Nat, NEW n \in Nat
  PROVE  /\ c + n - i = (c + 1) + n - (i + 1) /\ c + (i + 1) - i = c + 1
         /\ i < n => i + 1 \in (i + 1)..n
         /\ \A p \in Int : (c + 1) + p - (i + 1) = c + p - i
OBVIOUS

LEMMA CallingFrame ==
  ASSUME NEW h, NEW t, NEW l, NEW f, NEW e, l \in Seq(Seq(Entry)), FrameOk(h, t, l, f),
         f.i < f.len, f.running = NoEntry, f.i < Len(l[f.list]),
         e = l[f.list][f.i + 1]
  PROVE  e \in Entry /\ f.i + 1 \in DOMAIN l[f.list] /\ FrameOk(h, t, l, Calling(f, e))
<1> DEFINE g == Calling(f, e)
<1>1. f \in Frame /\ f.list \in DOMAIN l
  BY DEF FrameOk
<1>2. /\ f.i \in Nat /\ f.len \in Nat /\ f.called \in Seq(1..MaxEntries)
      /\ Len(f.called) \in Nat
  BY <1>1 DEF Frame
<1>3. f.i + 1 \in DOMAIN l[f.list] /\ e \in Entry
  <2>1. Len(l[f.list]) \in Nat /\ DOMAIN l[f.list] = 1..Len(l[f.list])
    BY <1>1, SeqOfEntries
  <2>2. f.i + 1 \in DOMAIN l[f.list]
    BY <1>2, <2>1
  <2>3. QED  BY <1>1, <2>2, SeqOfEntries
<1>4. /\ g \in Frame /\ g.list = f.list /\ g.atStart = f.atStart
      /\ g.running = e /\ g.called = Append(f.called, e.id)
      /\ g.i = (IF e.once THEN f.i ELSE f.i + 1)
      /\ g.len = (IF e.once THEN f.len - 1 ELSE f.len)
      /\ LastIndex(g) = f.len /\ LastIndex(f) = f.len
      /\ Passed(g) = f.i + 1 /\ Passed(f) = f.i
      /\ OnceRunning(g) <=> e.once
  BY <1>1, <1>3, CallingFields
<1> HIDE DEF g
<1>5. /\ Len(g.called) = Len(f.called) + 1 /\ g.called[Len(f.called) + 1] = e.id
      /\ \A j \in 1..Len(f.called) : g.called[j] = f.called[j]
  <2>1. e.id \in 1..MaxEntries
    BY <1>3 DEF Entry
  <2>2. QED  BY <1>2, <1>4, <2>1
<1>6. h \in {"none", "duplicates", "clears"} =>
       /\ g.i <= g.len /\ LastIndex(g) <= Len(l[g.list])
       /\ OnceRunning(g) => l[g.list][g.i + 1] = g.running
  <2>1. g.i <= g.len
    BY <1>2, <1>4
  <2>2. h \in {"none", "duplicates", "clears"} => LastIndex(f) <= Len(l[f.list])
    BY DEF FrameOk
  <2>3. QED  BY <1>4, <2>1, <2>2
<1>7. ASSUME h \in {"none", "duplicates"}
      PROVE  /\ Len(g.atStart) = Len(g.called) + LastIndex(g) - Passed(g)
             /\ \A j \in 1..Len(g.called) : g.called[j] = g.atStart[j]
             /\ \A p \in (Passed(g) + 1)..LastIndex(g) :
                  l[g.list][p].id = g.atStart[Len(g.called) + p - Passed(g)]
             /\ \A p \in Left(g) : l[g.list][p].once => t[l[g.list][p].ev] = g.list
  <2>1. /\ Len(f.atStart) = Len(f.called) + f.len - f.i
        /\ \A j \in 1..Len(f.called) : f.called[j] = f.atStart[j]
        /\ \A p \in (f.i + 1)..f.len :
             l[f.list][p].id = f.atStart[Len(f.called) + p - f.i]
        /\ \A p \in Left(f) : l[f.list][p].once => t[l[f.list][p].ev] = f.list
    BY <1>4, <1>7 DEF FrameOk
  <2>2. Len(g.atStart) = Len(g.called) + LastIndex(g) - Passed(g)
    <3>1. Len(f.called) + f.len - f.i = (Len(f.called) + 1) + f.len - (f.i + 1)
      BY <1>2, Counting
    <3>2. QED  BY <1>4, <1>5, <2>1, <3>1
  <2>3. ASSUME NEW j \in 1..Len(g.called)  PROVE g.called[j] = g.atStart[j]
    <3>1. CASE j \in 1..Len(f.called)
      BY <1>4, <1>5, <2>1, <3>1
    <3>2. CASE j = Len(f.called) + 1
      <4>1. f.i + 1 \in (f.i + 1)..f.len
            /\ Len(f.called) + (f.i + 1) - f.i = Len(f.called) + 1
        BY <1>2, Counting
      <4>2. l[f.list][f.i + 1].id = f.atStart[Len(f.called) + (f.i + 1) - f.i]
        BY <2>1, <4>1
      <4>3. e.id = f.atStart[Len(f.called) + 1]
        BY <4>1, <4>2
      <4>4. QED  BY <1>4, <1>5, <3>2, <4>3
    <3>3. j \in 1..Len(f.called) \/ j = Len(f.called) + 1
      BY <1>2, <1>5
    <3>4. QED  BY <3>1, <3>2, <3>3
  <2>4. ASSUME NEW p \in (Passed(g) + 1)..LastIndex(g)
        PROVE  l[g.list][p].id = g.atStart[Len(g.called) + p - Passed(g)]
    <3>1. p \in (f.i + 1)..f.len /\ p \in Int
      BY <1>2, <1>4
    <3>2. (Len(f.called) + 1) + p - (f.i + 1) = Len(f.called) + p - f.i
      BY <1>2, <3>1, Counting
    <3>3. QED  BY <1>4, <1>5, <2>1, <3>1, <3>2
  <2>5. Left(g) \subseteq Left(f)
    BY <1>2, <1>4 DEF Left
  <2>6. QED  BY <1>4, <2>1, <2>2, <2>3, <2>4, <2>5
<1>8. ASSUME h \in {"none", "clears"}, NEW p \in 1..g.i  PROVE ~l[g.list][p].once
  <2>1. \A r \in 1..f.i : ~l[f.list][r].once
    BY <1>8 DEF FrameOk
  <2>2. CASE e.once
    BY <1>4, <2>1, <2>2
  <2>3. CASE ~e.once
    <3>1. p \in 1..f.i \/ p = f.i + 1
      BY <1>2, <1>4, <2>3
    <3>2. QED  BY <1>4, <2>1, <2>3, <3>1
  <2>4. QED  BY <2>2, <2>3
<1>9. QED  BY <1>1, <1>3, <1>4, <1>6, <1>7, <1>8 DEF FrameOk, g

LEMMA TopFacts ==
  ASSUME EmitterInv, stack # <<>>
  PROVE  /\ Len(stack) \in DOMAIN stack /\ Len(stack) \in Nat /\ stack \in Seq(Frame)
         /\ DOMAIN stack = 1..Len(stack)
         /\ Top \in Frame /\ Top.list \in DOMAIN lists
         /\ FrameOk(habit, table, lists, Top)
         /\ lists \in Seq(Seq(Entry))
<1>1. stack \in Seq(Frame) /\ lists \in Seq(Seq(Entry))
  BY DEF EmitterInv, EmInv, StackOk, TablesOk
<1>2. Len(stack) \in DOMAIN stack /\ Len(stack) \in Nat /\ DOMAIN stack = 1..Len(stack)
  BY <1>1, EmptySeq
<1>3. FrameOk(habit, table, lists, Top)
  BY <1>2 DEF EmitterInv, EmInv, StackOk, Top
<1>4. QED  BY <1>1, <1>2, <1>3 DEF FrameOk

LEMMA CallKeeps ==
  ASSUME EmitterInv, CallListener
  PROVE  EmitterInv'
<1> DEFINE h == habit
           t == table
           l == lists
           s == stack
           m == Len(stack)
           f == Top
           e == lists[Top.list][Top.i + 1]
           g == Calling(f, e)
<1>1. /\ s # <<>> /\ f.running = NoEntry /\ f.i < f.len /\ f.i < Len(l[f.list])
      /\ stack' = [s EXCEPT ![m] = g]
      /\ again' = IF e.id \in spent THEN again \cup {e.id} ELSE again
      /\ spent' = IF e.once THEN spent \cup {e.id} ELSE spent
      /\ UNCHANGED <<table, lists, entries, habit>>
  BY DEF CallListener, Replace, Calling
<1>2. /\ h \in Habits /\ TablesOk(h, t, l, entries) /\ StackOk(h, t, l, s)
      /\ SpentOk(h, t, l, s, entries, spent)
  BY DEF EmitterInv, EmInv
<1>3. /\ m \in DOMAIN s /\ m \in Nat /\ s \in Seq(Frame) /\ DOMAIN s = 1..m
      /\ f \in Frame /\ f.list \in DOMAIN l /\ l \in Seq(Seq(Entry))
      /\ FrameOk(h, t, l, f) /\ f = s[m]
  BY <1>1, TopFacts DEF Top
<1> HIDE DEF f, m, e
<1>4. e \in Entry /\ f.i + 1 \in DOMAIN l[f.list] /\ FrameOk(h, t, l, g)
      /\ e = l[f.list][f.i + 1]
  <2>1. e = l[f.list][f.i + 1]
    BY DEF e, f
  <2>2. QED  BY <1>1, <1>3, <2>1, CallingFrame
<1>5. /\ g.list = f.list /\ g.running = e /\ (e.once => g.i = f.i)
      /\ (OnceRunning(g) <=> e.once) /\ g \in Frame
  BY <1>1, <1>3, <1>4, CallingFields
<1> HIDE DEF g
<1>6. StackOk(h, t, l, stack')
  <2>1. \A k \in DOMAIN s : FrameOk(h, t, l, s[k])
    BY <1>2 DEF StackOk
  <2>2. \A k \in DOMAIN s : k # m => SameFor(h, t, l, t, l, s[k])
    BY <2>1 DEF SameFor, FrameOk
  <2>3. Inherits(l, l)
    BY DEF Inherits
  <2>4. m = Len(s)
    BY DEF m
  <2>5. OnTop(s, g, stack') /\ s # <<>> /\ g.list = s[Len(s)].list
    BY <1>1, <1>3, <1>5, <2>4, TopReplaced
  <2> HIDE DEF h, t, l, s
  <2>6. QED  BY <1>2, <1>4, <2>2, <2>3, <2>4, <2>5, StackGoesOn
<1>7. /\ DOMAIN stack' = DOMAIN s /\ stack'[m] = g
      /\ \A k \in DOMAIN s : k # m => stack'[k] = s[k]
  <2>1. m = Len(s)
    BY DEF m
  <2>2. QED  BY <1>1, <1>3, <1>5, <2>1, TopReplaced DEF OnTop
<1>8. \A k \in DOMAIN s : s[k].running \in Entry => k # m
  <2>1. NoEntry \notin Entry
    BY DEF NoEntry, Entry
  <2>2. QED  BY <1>1, <1>3, <2>1
<1>9. \A i : i \in spent' => i \in spent \/ (i = e.id /\ e.once)
  BY <1>1
<1>10. SpentOk(h, t, l, stack', entries, spent')
  <2>1. spent' \subseteq 1..entries
    <3>1. e.id \in 1..entries
      <4>1. e.id <= entries
        BY <1>2, <1>3, <1>4 DEF TablesOk
      <4>2. e.id \in 1..MaxEntries
        BY <1>4 DEF Entry
      <4>3. entries \in Nat
        BY <1>2 DEF TablesOk
      <4>4. QED  BY <4>1, <4>2, <4>3
    <3>2. QED  BY <1>2, <1>9, <3>1 DEF SpentOk
  <2>2. ASSUME h # "duplicates", NEW x \in Events, t[x] # NoList,
               NEW p \in DOMAIN l[t[x]], l[t[x]][p].id \in spent'
        PROVE  /\ l[t[x]][p].once
               /\ \E k \in DOMAIN stack' : stack'[k].running = l[t[x]][p]
    <3>0. t[x] \in DOMAIN l /\ l[t[x]][p] \in Entry
      <4>1. t[x] \in DOMAIN l
        BY <1>2, <2>2 DEF TablesOk, NoList
      <4>2. QED  BY <1>3, <2>2, <4>1, SeqOfEntries
    <3>1. CASE l[t[x]][p].id \in spent
      <4>1. l[t[x]][p].once
        BY <1>2, <2>2, <3>1 DEF SpentOk
      <4>2. PICK k \in DOMAIN s : s[k].running = l[t[x]][p]
        BY <1>2, <2>2, <3>1 DEF SpentOk
      <4>3. k # m
        BY <1>8, <3>0, <4>2
      <4>4. QED  BY <1>7, <4>1, <4>2, <4>3
    <3>2. CASE l[t[x]][p].id = e.id /\ e.once
      <4>1. l[t[x]][p] = e
        <5>1. \A a, b \in DOMAIN l : \A i \in DOMAIN l[a], j \in DOMAIN l[b] :
                l[a][i].id = l[b][j].id => a = b /\ i = j
          BY <1>2 DEF TablesOk
        <5>2. t[x] = f.list /\ p = f.i + 1
          BY <1>3, <1>4, <2>2, <3>0, <3>2, <5>1
        <5>3. QED  BY <1>4, <5>2
      <4>2. QED  BY <1>3, <1>5, <1>7, <3>2, <4>1
    <3>3. QED  BY <1>9, <2>2, <3>1, <3>2
  <2>3. ASSUME h = "none", NEW c \in DOMAIN l, NEW p \in DOMAIN l[c],
               l[c][p].id \in spent'
        PROVE  \E k \in DOMAIN stack' : /\ OnceRunning(stack'[k]) /\ stack'[k].list = c
                                        /\ stack'[k].i + 1 = p
    <3>1. CASE l[c][p].id \in spent
      <4>1. PICK k \in DOMAIN s : OnceRunning(s[k]) /\ s[k].list = c /\ s[k].i + 1 = p
        BY <1>2, <2>3, <3>1 DEF SpentOk
      <4>2. k # m
        BY <1>1, <1>3, <4>1 DEF OnceRunning
      <4>3. QED  BY <1>7, <4>1, <4>2
    <3>2. CASE l[c][p].id = e.id /\ e.once
      <4>1. c = f.list /\ p = f.i + 1
        BY <1>2, <1>3, <1>4, <2>3, <3>2 DEF TablesOk
      <4>2. QED  BY <1>3, <1>5, <1>7, <3>2, <4>1
    <3>3. QED  BY <1>9, <2>3, <3>1, <3>2
  <2>4. QED  BY <2>1, <2>2, <2>3 DEF SpentOk
<1>11. habit = "none" => again' = {}
  <2>1. SUFFICES ASSUME habit = "none", e.id \in spent  PROVE FALSE
    BY <1>1 DEF EmitterInv
  <2>2. PICK k \in DOMAIN s : /\ OnceRunning(s[k]) /\ s[k].list = f.list
                              /\ s[k].i + 1 = f.i + 1
    <3>1. \A c \in DOMAIN l : \A p \in DOMAIN l[c] : l[c][p].id \in spent =>
            \E k \in DOMAIN s : OnceRunning(s[k]) /\ s[k].list = c /\ s[k].i + 1 = p
      BY <1>2, <2>1 DEF SpentOk
    <3>2. l[f.list][f.i + 1].id \in spent
      BY <1>4, <2>1
    <3>3. QED  BY <1>3, <1>4, <3>1, <3>2
  <2>3. k # m /\ k \in 1..(m - 1)
    <3>1. k # m
      BY <1>1, <1>3, <2>2 DEF OnceRunning
    <3>2. QED  BY <1>3, <3>1
  <2>4. FrameOk(h, t, l, s[k])
    BY <1>2 DEF StackOk
  <2>5. /\ s[k] \in Frame /\ s[k].i <= s[k].len
        /\ l[s[k].list][s[k].i + 1] = s[k].running
    BY <2>1, <2>2, <2>4 DEF FrameOk
  <2>6. s[k].i + 1 \in 1..LastIndex(s[k]) /\ s[k].running.once
    BY <2>2, <2>5, Indexes
  <2>7. ~l[s[k].list][s[k].i + 1].once
    BY <1>2, <1>3, <2>1, <2>2, <2>3, <2>6 DEF StackOk
  <2>8. QED  BY <2>5, <2>6, <2>7
<1>12. EmInv(h, t, l, stack', entries, spent')
  BY <1>2, <1>6, <1>10 DEF EmInv
<1>13. QED  BY <1>1, <1>11, <1>12 DEF EmitterInv

LEMMA FinishKeeps ==
  ASSUME EmitterInv, Finish
  PROVE  EmitterInv'
<1>1. /\ stack # <<>> /\ Top.running = NoEntry
      /\ stack' = SubSeq(stack, 1, Len(stack) - 1)
      /\ UNCHANGED <<table, lists, entries, spent, again, habit>>
  BY DEF Finish
<1> DEFINE m == Len(stack)
           u == stack'
<1>2. /\ EmInv(habit, table, lists, stack, entries, spent)
      /\ StackOk(habit, table, lists, stack) /\ TablesOk(habit, table, lists, entries)
      /\ SpentOk(habit, table, lists, stack, entries, spent)
  BY DEF EmitterInv, EmInv
<1>3. /\ m \in DOMAIN stack /\ m \in Nat /\ stack \in Seq(Frame) /\ DOMAIN stack = 1..m
      /\ lists \in Seq(Seq(Entry)) /\ Top = stack[m]
  BY <1>1, TopFacts DEF Top
<1>4. u \in Seq(Frame) /\ Len(u) = m - 1 /\ \A k \in 1..(m - 1) : u[k] = stack[k]
  BY <1>1, <1>3, SubSeqProperties
<1> HIDE DEF m, u
<1>5. DOMAIN u = 1..(m - 1) /\ \A k \in DOMAIN u : k \in DOMAIN stack
  BY <1>3, <1>4
<1>6. \A k \in DOMAIN u : \A j \in 1..(k - 1) : j \in DOMAIN u
  BY <1>3, <1>5
<1>7. StackOk(habit, table, lists, u)
  <2>1. habit = "duplicates" => Len(u) <= 1
    BY <1>2, <1>3, <1>4 DEF StackOk, m
  <2>2. \A k \in DOMAIN u : k \in DOMAIN stack /\ u[k] = stack[k]
    BY <1>4, <1>5
  <2>3. \A k \in DOMAIN u : FrameOk(habit, table, lists, u[k])
    BY <1>2, <2>2 DEF StackOk
  <2>4. ASSUME habit \in {"none", "clears"}, NEW k \in DOMAIN u, NEW j \in 1..(k - 1),
               u[j].list = u[k].list, NEW p \in 1..LastIndex(u[j])
        PROVE  ~lists[u[j].list][p].once
    <3>1. k \in DOMAIN stack /\ u[k] = stack[k] /\ u[j] = stack[j]
      BY <1>6, <2>2
    <3>2. QED  BY <1>2, <2>4, <3>1 DEF StackOk
  <2>5. ASSUME NEW k \in DOMAIN u, NEW j \in 1..(k - 1),
               NEW p \in DOMAIN lists[u[k].list],
               u[j].list = table[lists[u[k].list][p].ev]
        PROVE  u[j].list = u[k].list
    <3>1. k \in DOMAIN stack /\ u[k] = stack[k] /\ u[j] = stack[j]
      BY <1>6, <2>2
    <3>2. QED  BY <1>2, <2>5, <3>1 DEF StackOk
  <2>6. QED  BY <1>4, <2>1, <2>3, <2>4, <2>5 DEF StackOk
<1>8. \A k \in DOMAIN stack : stack[k].running # NoEntry => k \in DOMAIN u /\ u[k] = stack[k]
  BY <1>1, <1>3, <1>4, <1>5
<1>9. SpentOk(habit, table, lists, u, entries, spent)
  <2>1. \A x \in Events : table[x] # NoList =>
          \A p \in DOMAIN lists[table[x]] : lists[table[x]][p] # NoEntry
    <3>1. \A x \in Events : table[x] # NoList => table[x] \in DOMAIN lists
      BY <1>2 DEF TablesOk, NoList
    <3>2. \A c \in DOMAIN lists : \A p \in DOMAIN lists[c] : lists[c][p] \in Entry
      BY <1>3, SeqOfEntries
    <3>3. NoEntry \notin Entry
      BY DEF NoEntry, Entry
    <3>4. QED  BY <3>1, <3>2, <3>3
  <2>2. \A k \in DOMAIN stack : OnceRunning(stack[k]) => stack[k].running # NoEntry
    BY DEF OnceRunning
  <2>3. QED  BY <1>2, <1>8, <2>1, <2>2 DEF SpentOk
<1>10. QED  BY <1>1, <1>2, <1>7, <1>9 DEF EmitterInv, EmInv, u

(* The frame of the walk after the listener it has called. *)
Returned(f) == [f EXCEPT !.running = NoEntry]

LEMMA ReturnedFields ==
  ASSUME NEW f \in Frame
  PROVE  LET g == Returned(f)
         IN  /\ g \in Frame /\ g.list = f.list /\ g.atStart = f.atStart
             /\ g.running = NoEntry /\ g.called = f.called
             /\ g.i = f.i /\ g.len = f.len /\ ~OnceRunning(g)
             /\ LastIndex(g) = f.len /\ Passed(g) = f.i /\ Left(g) = (f.i + 1)..f.len
<1> DEFINE g == Returned(f)
<1>1. /\ g \in Frame /\ g.list = f.list /\ g.atStart = f.atStart
      /\ g.running = NoEntry /\ g.called = f.called /\ g.i = f.i /\ g.len = f.len
  BY DEF Returned, Frame
<1> HIDE DEF g
<1>2. ~OnceRunning(g)
  BY <1>1 DEF OnceRunning
<1>3. LastIndex(g) = f.len /\ Passed(g) = f.i
  BY <1>1, <1>2, Indexes
<1>4. QED  BY <1>1, <1>2, <1>3 DEF Left, g

LEMMA ReturnsPlain ==
  ASSUME NEW h, NEW t, NEW l, NEW f, FrameOk(h, t, l, f), ~OnceRunning(f)
  PROVE  FrameOk(h, t, l, Returned(f))
<1> DEFINE g == Returned(f)
<1>1. f \in Frame
  BY DEF FrameOk
<1>2. /\ g \in Frame /\ g.list = f.list /\ g.atStart = f.atStart
      /\ g.called = f.called /\ g.i = f.i /\ g.len = f.len /\ ~OnceRunning(g)
      /\ LastIndex(g) = f.len /\ Passed(g) = f.i /\ Left(g) = (f.i + 1)..f.len
  BY <1>1, ReturnedFields
<1>3. LastIndex(f) = f.len /\ Passed(f) = f.i /\ Left(f) = (f.i + 1)..f.len
  BY <1>1, Indexes DEF Left
<1> HIDE DEF g
<1>4. QED  BY <1>2, <1>3 DEF FrameOk, g

(* What a walk knows of the Once it is running. *)
LEMMA RunsOnce ==
  ASSUME NEW h, NEW t, NEW l, NEW f, l \in Seq(Seq(Entry)),
         FrameOk(h, t, l, f), OnceRunning(f)
  PROVE  /\ LastIndex(f) = f.len + 1 /\ Passed(f) = f.i + 1
         /\ f.i \in Nat /\ f.len \in Nat /\ f.running \in Entry /\ f.running.once
         /\ h \in {"none", "duplicates", "clears"} =>
              /\ f.i <= f.len /\ f.len + 1 <= Len(l[f.list])
              /\ f.i + 1 \in DOMAIN l[f.list] /\ l[f.list][f.i + 1] = f.running
         /\ h \in {"none", "duplicates"} => t[f.running.ev] = f.list
<1>1. f \in Frame /\ f.list \in DOMAIN l
  BY DEF FrameOk
<1>2. /\ LastIndex(f) = f.len + 1 /\ Passed(f) = f.i + 1
      /\ f.i \in Nat /\ f.len \in Nat /\ f.running \in Entry /\ f.running.once
  BY <1>1, Indexes
<1>3. ASSUME h \in {"none", "duplicates", "clears"}
      PROVE  /\ f.i <= f.len /\ f.len + 1 <= Len(l[f.list])
             /\ f.i + 1 \in DOMAIN l[f.list] /\ l[f.list][f.i + 1] = f.running
  <2>1. f.i <= f.len /\ LastIndex(f) <= Len(l[f.list]) /\ l[f.list][f.i + 1] = f.running
    BY <1>3 DEF FrameOk
  <2>2. Len(l[f.list]) \in Nat /\ DOMAIN l[f.list] = 1..Len(l[f.list])
    BY <1>1, SeqOfEntries
  <2>3. f.i + 1 \in 1..Len(l[f.list])
    BY <1>2, <2>1, <2>2
  <2>4. QED  BY <1>2, <2>1, <2>2, <2>3
<1>4. ASSUME h \in {"none", "duplicates"}  PROVE t[f.running.ev] = f.list
  <2>1. f.i + 1 \in Left(f)
    BY <1>2, <1>3, <1>4 DEF Left
  <2>2. l[f.list][f.i + 1].once => t[l[f.list][f.i + 1].ev] = f.list
    BY <1>4, <2>1 DEF FrameOk
  <2>3. QED  BY <1>2, <1>3, <1>4, <2>2
<1>5. QED  BY <1>2, <1>3, <1>4

(* A Once that was detached, or has been removed, by its own listener. *)
LEMMA ReturnsDetached ==
  ASSUME NEW h, NEW t, NEW l, NEW f, l \in Seq(Seq(Entry)),
         FrameOk(h, t, l, f), OnceRunning(f), h \notin {"none", "duplicates"}
  PROVE  FrameOk(h, t, l, Returned(f))
<1> DEFINE g == Returned(f)
<1>1. f \in Frame /\ f.list \in DOMAIN l
  BY DEF FrameOk
<1>2. /\ g \in Frame /\ g.list = f.list /\ g.i = f.i /\ g.len = f.len
      /\ ~OnceRunning(g) /\ LastIndex(g) = f.len
  BY <1>1, ReturnedFields
<1>3. h = "clears" => f.i <= f.len /\ f.len <= Len(l[f.list])
  <2>1. h = "clears" => f.i <= f.len /\ f.len + 1 <= Len(l[f.list])
    BY RunsOnce
  <2>2. Len(l[f.list]) \in Nat /\ f.len \in Nat
    BY <1>1, SeqOfEntries, Indexes
  <2>3. QED  BY <2>1, <2>2
<1>4. h = "clears" => \A p \in 1..f.i : ~l[f.list][p].once
  BY DEF FrameOk
<1> HIDE DEF g
<1>5. QED  BY <1>1, <1>2, <1>3, <1>4 DEF FrameOk, g

LEMMA Shifting ==
  ASSUME NEW c \in Nat, NEW i \in Nat, NEW n \in Nat
  PROVE  /\ c + (n + 1) - (i + 1) = c + n - i
         /\ \A p \in (i + 1)..n : /\ p + 1 \in (i + 2)..(n + 1) /\ p + 1 \in (i + 1)..(n + 1)
                                  /\ c + (p + 1) - (i + 1) = c + p - i /\ p >= i + 1
OBVIOUS

(* A Once that is removed: what is left of the walk moves up by one. *)
LEMMA ReturnsRemoved ==
  ASSUME NEW h, NEW t, NEW l, NEW l2, NEW f, NEW b, NEW q, l \in Seq(Seq(Entry)),
         FrameOk(h, t, l, f), OnceRunning(f), Shrunk(l, l2, b, q),
         h \in {"none", "duplicates"} => b = f.list /\ q <= f.i + 1,
         h \in {"none", "clears"} /\ b = f.list => q = f.i + 1
  PROVE  FrameOk(h, t, l2, Returned(f))
<1> DEFINE g == Returned(f)
<1>1. f \in Frame /\ f.list \in DOMAIN l /\ f.list \in DOMAIN l2
  BY DEF FrameOk, Shrunk
<1>2. /\ g \in Frame /\ g.list = f.list /\ g.atStart = f.atStart
      /\ g.called = f.called /\ g.i = f.i /\ g.len = f.len /\ ~OnceRunning(g)
      /\ LastIndex(g) = f.len /\ Passed(g) = f.i /\ Left(g) = (f.i + 1)..f.len
  BY <1>1, ReturnedFields
<1> HIDE DEF g
<1>3. /\ LastIndex(f) = f.len + 1 /\ Passed(f) = f.i + 1
      /\ f.i \in Nat /\ f.len \in Nat
      /\ h \in {"none", "duplicates", "clears"} =>
           f.i <= f.len /\ f.len + 1 <= Len(l[f.list])
  BY RunsOnce
<1>4. /\ l2 \in Seq(Seq(Entry)) /\ b \in DOMAIN l /\ q \in DOMAIN l[b]
      /\ Len(l2[b]) = Len(l[b]) - 1 /\ \A c \in DOMAIN l : c # b => l2[c] = l[c]
      /\ \A c \in DOMAIN l : \A p \in DOMAIN l2[c] : l2[c][p] = l[c][Was(b, q, c, p)]
  BY DEF Shrunk
<1>5. /\ q \in Nat /\ Len(l[f.list]) \in Nat /\ Len(l2[f.list]) \in Nat
      /\ DOMAIN l2[f.list] = 1..Len(l2[f.list])
  BY <1>1, <1>4, SeqOfEntries
<1>6. ASSUME h \in {"none", "duplicates", "clears"}
      PROVE  f.i <= f.len /\ f.len <= Len(l2[f.list])
  <2>1. Len(l2[f.list]) = Len(l[f.list]) - 1 \/ Len(l2[f.list]) = Len(l[f.list])
    BY <1>1, <1>4
  <2>2. QED  BY <1>3, <1>5, <1>6, <2>1
<1>7. ASSUME h \in {"none", "duplicates"}
      PROVE  /\ Len(f.atStart) = Len(f.called) + f.len - f.i
             /\ \A j \in 1..Len(f.called) : f.called[j] = f.atStart[j]
             /\ \A p \in (f.i + 1)..f.len :
                  /\ l2[f.list][p].id = f.atStart[Len(f.called) + p - f.i]
                  /\ l2[f.list][p].once => t[l2[f.list][p].ev] = f.list
  <2>0. Len(f.called) \in Nat
    BY <1>1 DEF Frame
  <2>1. /\ Len(f.atStart) = Len(f.called) + (f.len + 1) - (f.i + 1)
        /\ \A j \in 1..Len(f.called) : f.called[j] = f.atStart[j]
        /\ \A p \in ((f.i + 1) + 1)..(f.len + 1) :
             l[f.list][p].id = f.atStart[Len(f.called) + p - (f.i + 1)]
        /\ \A p \in (f.i + 1)..(f.len + 1) :
             l[f.list][p].once => t[l[f.list][p].ev] = f.list
    BY <1>3, <1>7 DEF FrameOk, Left
  <2>2. Len(f.atStart) = Len(f.called) + f.len - f.i
    BY <1>3, <2>0, <2>1, Shifting
  <2>3. ASSUME NEW p \in (f.i + 1)..f.len
        PROVE  /\ l2[f.list][p].id = f.atStart[Len(f.called) + p - f.i]
               /\ l2[f.list][p].once => t[l2[f.list][p].ev] = f.list
    <3>1. /\ p + 1 \in (f.i + 2)..(f.len + 1) /\ p + 1 \in (f.i + 1)..(f.len + 1)
          /\ Len(f.called) + (p + 1) - (f.i + 1) = Len(f.called) + p - f.i
      BY <1>3, <2>0, Shifting
    <3>2. p \in Nat /\ p >= q /\ b = f.list
      BY <1>3, <1>5, <1>7
    <3>3. Was(b, q, f.list, p) = p + 1
      BY <1>5, <3>2, WasFacts
    <3>4. p \in DOMAIN l2[f.list]
      BY <1>3, <1>5, <1>6, <1>7
    <3>5. l2[f.list][p] = l[f.list][p + 1]
      BY <1>1, <1>4, <3>3, <3>4
    <3>6. (f.i + 1) + 1 = f.i + 2
      BY <1>3
    <3>7. l[f.list][p + 1].id = f.atStart[Len(f.called) + (p + 1) - (f.i + 1)]
      BY <2>1, <3>1, <3>6
    <3>8. l[f.list][p + 1].once => t[l[f.list][p + 1].ev] = f.list
      BY <2>1, <3>1
    <3>9. QED  BY <3>1, <3>5, <3>7, <3>8
  <2>4. QED  BY <2>1, <2>2, <2>3
<1>8. ASSUME h \in {"none", "clears"}, NEW p \in 1..f.i  PROVE ~l2[f.list][p].once
  <2>1. ~l[f.list][p].once
    BY <1>8 DEF FrameOk
  <2>2. CASE b # f.list
    BY <1>1, <1>4, <2>1, <2>2
  <2>3. CASE b = f.list
    <3>1. p \in Nat /\ p < q
      BY <1>3, <1>8, <2>3
    <3>2. Was(b, q, f.list, p) = p
      BY <1>5, <3>1, WasFacts
    <3>3. p \in DOMAIN l2[f.list]
      BY <1>3, <1>5, <1>6, <1>8
    <3>4. l2[f.list][p] = l[f.list][p]
      BY <1>1, <1>4, <3>2, <3>3
    <3>5. QED  BY <2>1, <3>4
  <2>4. QED  BY <2>2, <2>3
<1>9. h \in {"none", "duplicates"} =>
       /\ Len(g.atStart) = Len(g.called) + LastIndex(g) - Passed(g)
       /\ \A j \in 1..Len(g.called) : g.called[j] = g.atStart[j]
       /\ \A p \in (Passed(g) + 1)..LastIndex(g) :
            l2[g.list][p].id = g.atStart[Len(g.called) + p - Passed(g)]
       /\ \A p \in Left(g) : l2[g.list][p].once => t[l2[g.list][p].ev] = g.list
  BY <1>2, <1>7
<1>10. h \in {"none", "duplicates", "clears"} =>
         g.i <= g.len /\ LastIndex(g) <= Len(l2[g.list])
  BY <1>2, <1>6
<1>11. h \in {"none", "clears"} => \A p \in 1..g.i : ~l2[g.list][p].once
  BY <1>2, <1>8
<1>12. g \in Frame /\ g.list \in DOMAIN l2 /\ ~OnceRunning(g)
  BY <1>1, <1>2
<1>13. QED  BY ONLY <1>9, <1>10, <1>11, <1>12 DEF FrameOk, g

LEMMA ReturnKeeps ==
  ASSUME EmitterInv, Return
  PROVE  EmitterInv'
<1> DEFINE h == habit
           t == table
           l == lists
           l2 == lists'
           s == stack
           m == Len(stack)
           f == Top
           e == Top.running
           b == table[Top.running.ev]
           g == Returned(f)
<1>1. /\ s # <<>> /\ e # NoEntry /\ stack' = [s EXCEPT ![m] = g]
      /\ l2 = IF e.once /\ b # NoList THEN Without(l, b, e.fn) ELSE l
      /\ UNCHANGED <<table, entries, spent, again, habit>>
  BY DEF Return, Replace, Returned, Without
<1>2. /\ h \in Habits /\ TablesOk(h, t, l, entries) /\ StackOk(h, t, l, s)
      /\ SpentOk(h, t, l, s, entries, spent)
  BY DEF EmitterInv, EmInv
<1>3. /\ m \in DOMAIN s /\ m \in Nat /\ s \in Seq(Frame) /\ DOMAIN s = 1..m
      /\ f \in Frame /\ f.list \in DOMAIN l /\ l \in Seq(Seq(Entry))
      /\ FrameOk(h, t, l, f) /\ f = s[m] /\ e \in Entry /\ e = f.running
      /\ m = Len(s) /\ b = t[e.ev]
  <2>1. e \in Entry
    BY <1>1, TopFacts DEF Frame
  <2>2. QED  BY <1>1, <2>1, TopFacts DEF Top
<1> HIDE DEF f, m, e, b
<1>4. /\ g.list = f.list /\ g.running = NoEntry /\ g \in Frame
      /\ ~OnceRunning(g) /\ g.i = f.i
  BY <1>3, ReturnedFields
<1> HIDE DEF g
<1>5. /\ DOMAIN stack' = DOMAIN s /\ stack'[m] = g
      /\ \A k \in DOMAIN s : k # m => stack'[k] = s[k]
  BY <1>1, <1>3, <1>4, TopReplaced DEF OnTop
<1>6. OnceRunning(f) <=> e.once
  BY <1>3, Indexes
<1>7. \A k \in DOMAIN s : FrameOk(h, t, l, s[k])
  BY <1>2 DEF StackOk
(* Nothing is removed. *)
<1>8. ASSUME l2 = l,
             e.once => b = NoList \/ (b \in DOMAIN l /\ Matches(l[b], e.fn) = {})
      PROVE  EmInv(h, t, l2, stack', entries, spent)
  <2>1. e.once => h \notin {"none", "duplicates"}
    <3>1. SUFFICES ASSUME e.once, h \in {"none", "duplicates"}  PROVE FALSE
      OBVIOUS
    <3>2. b = f.list /\ f.i + 1 \in DOMAIN l[f.list] /\ l[f.list][f.i + 1] = e
      BY <1>3, <1>6, <3>1, RunsOnce
    <3>3. b # NoList
      BY <1>3, <3>2, SeqOfEntries DEF NoList
    <3>4. f.i + 1 \in Matches(l[b], e.fn)
      BY <3>2 DEF Matches
    <3>5. QED  BY <1>8, <3>1, <3>3, <3>4
  <2>2. FrameOk(h, t, l, g)
    <3>1. CASE e.once
      BY <1>3, <1>6, <2>1, <3>1, ReturnsDetached DEF g
    <3>2. CASE ~e.once
      BY <1>3, <1>6, <3>2, ReturnsPlain DEF g
    <3>3. QED  BY <3>1, <3>2
  <2>3. StackOk(h, t, l, stack')
    <3>1. \A k \in DOMAIN s : k # m => SameFor(h, t, l, t, l, s[k])
      BY <1>7 DEF SameFor, FrameOk
    <3>2. Inherits(l, l)
      BY DEF Inherits
    <3>3. OnTop(s, g, stack') /\ s # <<>> /\ g.list = s[Len(s)].list
      BY <1>1, <1>3, <1>4, TopReplaced
    <3> HIDE DEF h, t, l, s
    <3>4. QED  BY <1>2, <1>3, <2>2, <3>1, <3>2, <3>3, StackGoesOn
  <2>4. SpentOk(h, t, l, stack', entries, spent)
    <3>1. ASSUME h # "duplicates", NEW x \in Events, t[x] # NoList,
                 NEW p \in DOMAIN l[t[x]], l[t[x]][p].id \in spent
          PROVE  /\ l[t[x]][p].once
                 /\ \E k \in DOMAIN stack' : stack'[k].running = l[t[x]][p]
      <4>1. l[t[x]][p].once
        BY <1>2, <3>1 DEF SpentOk
      <4>2. PICK k \in DOMAIN s : s[k].running = l[t[x]][p]
        BY <1>2, <3>1 DEF SpentOk
      <4>3. CASE k # m
        BY <1>5, <4>1, <4>2, <4>3
      <4>4. CASE k = m
        <5>1. e = l[t[x]][p] /\ e.ev = x /\ b = t[x] /\ e.once
          BY <1>2, <1>3, <3>1, <4>1, <4>2, <4>4 DEF TablesOk
        <5>2. p \in Matches(l[b], e.fn)
          BY <3>1, <5>1 DEF Matches
        <5>3. QED  BY <1>8, <3>1, <5>1, <5>2
      <4>5. QED  BY <4>3, <4>4
    <3>2. ASSUME h = "none", NEW c \in DOMAIN l, NEW p \in DOMAIN l[c], l[c][p].id \in spent
          PROVE  \E k \in DOMAIN stack' : /\ OnceRunning(stack'[k]) /\ stack'[k].list = c
                                          /\ stack'[k].i + 1 = p
      <4>1. PICK k \in DOMAIN s : OnceRunning(s[k]) /\ s[k].list = c /\ s[k].i + 1 = p
        BY <1>2, <3>2 DEF SpentOk
      <4>2. k # m
        BY <1>3, <1>6, <2>1, <3>2, <4>1
      <4>3. QED  BY <1>5, <4>1, <4>2
    <3>3. QED  BY <1>2, <3>1, <3>2 DEF SpentOk
  <2>5. QED  BY <1>2, <1>8, <2>3, <2>4 DEF EmInv
(* The Once is removed, by its function. *)
<1>9. ASSUME e.once, b \in DOMAIN l, NEW q \in DOMAIN l[b], l[b][q].fn = e.fn,
             \A k \in DOMAIN l[b] : l[b][k].fn = e.fn => q <= k,
             Shrunk(l, l2, b, q)
      PROVE  EmInv(h, t, l2, stack', entries, spent)
  <2>0. /\ l2 \in Seq(Seq(Entry)) /\ DOMAIN l2 = DOMAIN l /\ q \in Nat
        /\ \A c \in DOMAIN l : \A p \in DOMAIN l2[c] :
             /\ p \in Nat /\ Was(b, q, c, p) \in DOMAIN l[c]
             /\ l2[c][p] = l[c][Was(b, q, c, p)] /\ (c = b => Was(b, q, c, p) # q)
    <3>1. l2 \in Seq(Seq(Entry)) /\ DOMAIN l2 = DOMAIN l
      BY <1>9 DEF Shrunk
    <3>2. q \in Nat /\ \A c \in DOMAIN l : \A p \in DOMAIN l2[c] : p \in Nat
      <4>1. \A c \in DOMAIN l2 : \A p \in DOMAIN l2[c] : p \in Nat
        BY <3>1, SeqOfEntries
      <4>2. q \in Nat
        BY <1>3, <1>9, SeqOfEntries
      <4>3. QED  BY <3>1, <4>1, <4>2
    <3>3. \A c \in DOMAIN l : \A p \in DOMAIN l2[c] : c = b => Was(b, q, c, p) # q
      BY <3>2, WasFacts
    <3>4. QED  BY <1>9, <3>1, <3>2, <3>3 DEF Shrunk
  <2>1. /\ LastIndex(f) = f.len + 1 /\ Passed(f) = f.i + 1
        /\ f.i \in Nat /\ f.len \in Nat
        /\ h \in {"none", "duplicates", "clears"} =>
              /\ f.i <= f.len /\ f.len + 1 <= Len(l[f.list])
              /\ f.i + 1 \in DOMAIN l[f.list] /\ l[f.list][f.i + 1] = e
        /\ h \in {"none", "duplicates"} => b = f.list
    <3>1. OnceRunning(f)
      BY <1>6, <1>9
    <3>2. /\ l \in Seq(Seq(Entry)) /\ FrameOk(h, t, l, f) /\ e = f.running
          /\ b = t[e.ev]
      BY <1>3
    <3> HIDE DEF h, t, l
    <3>3. QED  BY <3>1, <3>2, RunsOnce
  <2>2. h \in {"none", "duplicates"} => b = f.list /\ q <= f.i + 1
    BY <1>9, <2>1
  <2>3. e.ev \in Events /\ b # NoList
    <3>1. e.ev \in Events
      BY <1>3 DEF Entry
    <3>2. DOMAIN l = 1..Len(l)
      BY <1>3
    <3>3. QED  BY <1>9, <3>1, <3>2 DEF NoList
  <2>4. h # "duplicates" => \A r \in DOMAIN l[b] : l[b][r].fn = e.fn => r = q
    BY <1>2, <1>3, <1>9, <2>3 DEF TablesOk
  <2>5. h \in {"none", "clears"} /\ b = f.list => q = f.i + 1
    BY <2>1, <2>4
  <2>6. TablesOk(h, t, l2, entries)
    BY <1>2, <1>9, ShrinkingTables
  <2>7. FrameOk(h, t, l2, g)
    BY <1>3, <1>6, <1>9, <2>2, <2>5, ReturnsRemoved DEF g
  (* Walks further out have their part of the list before the Once. *)
  <2>8. ASSUME NEW k \in DOMAIN s, k # m,
               h \in {"none", "duplicates", "clears"}, s[k].list = b
        PROVE  q > LastIndex(s[k])
    <3>1. k \in 1..(m - 1) /\ h # "duplicates"
      <4>1. k \in 1..(m - 1)
        BY <1>3, <2>8
      <4>2. h = "duplicates" => m <= 1
        BY <1>2, <1>3 DEF StackOk
      <4>3. QED  BY <1>3, <4>1, <4>2
    <3>2. s[k].list = f.list
      <4>1. s[k].list = t[l[f.list][f.i + 1].ev] /\ f.i + 1 \in DOMAIN l[f.list]
        BY <1>3, <2>1, <2>8
      <4>2. QED  BY <1>2, <1>3, <3>1, <4>1 DEF StackOk
    <3>3. q = f.i + 1 /\ l[b][q] = e
      BY <2>1, <2>5, <2>8, <3>1, <3>2
    <3>4. \A p \in 1..LastIndex(s[k]) : ~l[b][p].once
      BY <1>2, <1>3, <2>8, <3>1, <3>2 DEF StackOk
    <3>5. LastIndex(s[k]) \in Nat /\ q \in Nat /\ q >= 1
      <4>1. s[k] \in Frame
        BY <1>7 DEF FrameOk
      <4>2. QED  BY <2>0, <2>1, <3>3, <4>1, Indexes
    <3>6. q \notin 1..LastIndex(s[k])
      BY <1>9, <3>3, <3>4
    <3>7. QED  BY <3>5, <3>6
  <2>9. \A k \in DOMAIN s : k # m => SameFor(h, t, l, t, l2, s[k])
    <3> HIDE DEF h, t, l, l2, s
    <3>1. QED  BY <1>3, <1>7, <1>9, <2>8, ShrinkingBehind
  <2>10. StackOk(h, t, l2, stack')
    <3>1. Inherits(l, l2)
      BY <2>0 DEF Inherits
    <3>2. StackOk(h, t, l, s) /\ s # <<>>
      BY <1>1, <1>2
    <3>3. g.list = s[Len(s)].list /\ OnTop(s, g, stack')
      BY <1>1, <1>3, <1>4, TopReplaced
    <3>4. \A k \in DOMAIN s : k # Len(s) => SameFor(h, t, l, t, l2, s[k])
      BY <1>3, <2>9
    <3> HIDE DEF h, t, l, l2, s
    <3>5. QED  BY <2>7, <3>1, <3>2, <3>3, <3>4, StackGoesOn
  <2>11. SpentOk(h, t, l2, stack', entries, spent)
    <3>1. ASSUME h # "duplicates", NEW x \in Events, t[x] # NoList,
                 NEW p \in DOMAIN l2[t[x]], l2[t[x]][p].id \in spent
          PROVE  /\ l2[t[x]][p].once
                 /\ \E k \in DOMAIN stack' : stack'[k].running = l2[t[x]][p]
      <4> DEFINE r == Was(b, q, t[x], p)
      <4>0. /\ t[x] \in DOMAIN l /\ r \in DOMAIN l[t[x]] /\ l2[t[x]][p] = l[t[x]][r]
            /\ t[x] = b => r # q
        <5>1. t[x] \in DOMAIN l
          BY <1>2, <3>1 DEF TablesOk, NoList
        <5>2. QED  BY <2>0, <3>1, <5>1
      <4> HIDE DEF r
      <4>1. l[t[x]][r].once
        BY <1>2, <3>1, <4>0 DEF SpentOk
      <4>2. PICK k \in DOMAIN s : s[k].running = l[t[x]][r]
        BY <1>2, <3>1, <4>0 DEF SpentOk
      <4>3. k # m
        <5>1. SUFFICES ASSUME k = m  PROVE FALSE
          OBVIOUS
        <5>2. e = l[t[x]][r]
          BY <1>3, <4>2, <5>1
        <5>3. e.ev = x
          BY <1>2, <3>1, <4>0, <5>2 DEF TablesOk
        <5>4. b = t[x]
          BY <1>3, <5>3
        <5>5. QED  BY <2>4, <3>1, <4>0, <5>2, <5>4
      <4>4. QED  BY <1>5, <4>0, <4>1, <4>2, <4>3
    <3>2. ASSUME h = "none", NEW c \in DOMAIN l2, NEW p \in DOMAIN l2[c],
                 l2[c][p].id \in spent
          PROVE  \E k \in DOMAIN stack' : /\ OnceRunning(stack'[k]) /\ stack'[k].list = c
                                          /\ stack'[k].i + 1 = p
      <4> DEFINE r == Was(b, q, c, p)
      <4>0. /\ c \in DOMAIN l /\ r \in DOMAIN l[c] /\ l2[c][p] = l[c][r] /\ p \in Nat
            /\ c = b => r # q
        BY <2>0, <3>2
      <4>1. PICK k \in DOMAIN s : OnceRunning(s[k]) /\ s[k].list = c /\ s[k].i + 1 = r
        BY <1>2, <3>2, <4>0 DEF SpentOk
      <4>2. k # m
        BY <1>3, <2>2, <2>5, <3>2, <4>0, <4>1
      <4>3. c = b => r < q
        <5>1. s[k] \in Frame /\ s[k].i <= s[k].len
          BY <1>7, <3>2 DEF FrameOk
        <5>2. LastIndex(s[k]) = s[k].len + 1 /\ s[k].i \in Nat /\ s[k].len \in Nat
          BY <4>1, <5>1, Indexes
        <5>3. c = b => q > LastIndex(s[k])
          BY <2>8, <3>2, <4>1, <4>2
        <5>4. QED  BY <2>0, <4>1, <5>1, <5>2, <5>3
      <4>4. r = p
        BY <2>0, <4>0, <4>3, WasFacts
      <4>5. QED  BY <1>5, <4>1, <4>2, <4>4
    <3>3. QED  BY <1>2, <3>1, <3>2 DEF SpentOk
  <2>12. QED  BY <1>2, <2>6, <2>10, <2>11 DEF EmInv
<1>10. EmInv(h, t, l2, stack', entries, spent)
  <2>1. CASE e.once /\ b # NoList
    <3>1. b \in DOMAIN l
      <4>1. e.ev \in Events
        BY <1>3 DEF Entry
      <4>2. QED  BY <1>2, <1>3, <2>1, <4>1 DEF TablesOk, NoList
    <3>2. \/ l2 = l /\ Matches(l[b], e.fn) = {}
          \/ \E q \in DOMAIN l[b] :
               /\ q = First(Matches(l[b], e.fn)) /\ l[b][q].fn = e.fn
               /\ \A k \in DOMAIN l[b] : l[b][k].fn = e.fn => q <= k
               /\ Shrunk(l, l2, b, q)
      <4>1. l2 = Without(l, b, e.fn)
        BY <1>1, <2>1
      <4> HIDE DEF l, l2
      <4>2. QED  BY <1>3, <3>1, <4>1, ListRemoved
    <3>3. CASE l2 = l /\ Matches(l[b], e.fn) = {}
      BY <1>8, <3>1, <3>3
    <3>4. CASE \E q \in DOMAIN l[b] :
               /\ q = First(Matches(l[b], e.fn)) /\ l[b][q].fn = e.fn
               /\ \A k \in DOMAIN l[b] : l[b][k].fn = e.fn => q <= k
               /\ Shrunk(l, l2, b, q)
      BY <1>9, <2>1, <3>1, <3>4
    <3>5. QED  BY <3>2, <3>3, <3>4
  <2>2. CASE ~(e.once /\ b # NoList)
    BY <1>1, <1>8, <2>2
  <2>3. QED  BY <2>1, <2>2
<1>11. QED  BY <1>1, <1>10 DEF EmitterInv

LEMMA EmitterInitial ==
  ASSUME BoundsAssumption, EmitterInit
  PROVE  EmitterInv
<1>1. /\ table = [ev \in Events |-> NoList] /\ lists = <<>> /\ stack = <<>>
      /\ entries = 0 /\ habit \in Habits /\ spent = {} /\ again = {}
  BY DEF EmitterInit
<1>2. Len(lists) = 0 /\ DOMAIN lists = {} /\ lists \in Seq(Seq(Entry))
  BY <1>1
<1>3. Len(stack) = 0 /\ DOMAIN stack = {} /\ stack \in Seq(Frame)
  BY <1>1
<1>4. \A x \in Events : table[x] = NoList
  BY <1>1
<1>5. TablesOk(habit, table, lists, entries)
  <2>1. table \in [Events -> 0..Len(lists)]
    BY <1>1, <1>2 DEF NoList
  <2>2. entries \in 0..MaxEntries /\ Len(lists) <= entries
    BY <1>1, <1>2 DEF BoundsAssumption
  <2>3. QED  BY <1>2, <1>4, <2>1, <2>2 DEF TablesOk
<1>6. StackOk(habit, table, lists, stack)
  BY <1>3 DEF StackOk
<1>7. SpentOk(habit, table, lists, stack, entries, spent)
  BY <1>1 DEF SpentOk
<1>8. QED  BY <1>1, <1>5, <1>6, <1>7 DEF EmitterInv, EmInv

LEMMA EmitterKeeps ==
  ASSUME BoundsAssumption, EmitterInv, [EmitterNext]_emitterVars
  PROVE  EmitterInv'
<1>1. CASE UNCHANGED emitterVars
  BY <1>1 DEF emitterVars, EmitterInv
<1>2. CASE \E ev \in Events : Emit(ev)
  BY <1>2, EmitKeeps
<1>3. CASE \E ev \in Events, fn \in Listeners, once \in BOOLEAN : AddListener(ev, fn, once)
  BY <1>3, AddKeeps
<1>4. CASE \E ev \in Events, fn \in Listeners : RemoveListener(ev, fn)
  BY <1>4, RemoveKeeps
<1>5. CASE \E evs \in {{ev} : ev \in Events} \cup {Events} : RemoveAllListeners(evs)
  BY <1>5, RemoveAllKeeps
<1>6. CASE CallListener
  BY <1>6, CallKeeps
<1>7. CASE Return
  BY <1>7, ReturnKeeps
<1>8. CASE Finish
  BY <1>8, FinishKeeps
<1>9. QED
  BY <1>1, <1>2, <1>3, <1>4, <1>5, <1>6, <1>7, <1>8 DEF EmitterNext

LEMMA Offsets ==
  ASSUME NEW c \in Nat, NEW i \in Nat, NEW n \in Nat, i <= n
  PROVE  /\ n - i \in Nat /\ c + n - i = c + (n - i)
         /\ \A j \in 1..(n - i) : i + j \in (i + 1)..n /\ c + (i + j) - i = c + j
OBVIOUS

LEMMA FunctionIsSeq ==
  ASSUME NEW S, NEW n \in Nat, NEW g \in [1..n -> S]
  PROVE  g \in Seq(S) /\ Len(g) = n
OBVIOUS

LEMMA WalkIsRight ==
  ASSUME EmitterInv  PROVE  EachCalledOnce
<1> SUFFICES ASSUME NEW k \in DOMAIN stack
    PROVE  LET f == stack[k]
           IN  /\ habit \in {"none", "duplicates"} =>
                    /\ LastIndex(f) <= Len(lists[f.list])
                    /\ f.called \o [j \in 1..(LastIndex(f) - Passed(f)) |->
                                      lists[f.list][Passed(f) + j].id] = f.atStart
               /\ habit \in {"none", "duplicates", "clears"} =>
                    (f.running = NoEntry /\ f.i < f.len => f.i < Len(lists[f.list]))
  BY DEF EachCalledOnce
<1> DEFINE f == stack[k]
<1>1. FrameOk(habit, table, lists, f)
  BY DEF EmitterInv, EmInv, StackOk
<1>2. f \in Frame /\ f.list \in DOMAIN lists /\ lists \in Seq(Seq(Entry))
  BY <1>1 DEF FrameOk, EmitterInv, EmInv, TablesOk
<1> HIDE DEF f
<1>3. /\ f.i \in Nat /\ f.len \in Nat /\ LastIndex(f) \in Nat /\ Passed(f) \in Nat
      /\ f.i <= f.len => Passed(f) <= LastIndex(f)
      /\ ~OnceRunning(f) => LastIndex(f) = f.len
  BY <1>2, Indexes
<1>4. /\ Len(lists[f.list]) \in Nat /\ DOMAIN lists[f.list] = 1..Len(lists[f.list])
      /\ \A p \in DOMAIN lists[f.list] : lists[f.list][p] \in Entry
  BY <1>2, SeqOfEntries
<1>5. ASSUME habit \in {"none", "duplicates", "clears"}, f.running = NoEntry, f.i < f.len
      PROVE  f.i < Len(lists[f.list])
  <2>1. LastIndex(f) <= Len(lists[f.list])
    BY <1>1, <1>5 DEF FrameOk
  <2>2. ~OnceRunning(f)
    BY <1>5 DEF OnceRunning
  <2>3. QED  BY <1>3, <1>4, <1>5, <2>1, <2>2
<1>6. ASSUME habit \in {"none", "duplicates"}
      PROVE  /\ LastIndex(f) <= Len(lists[f.list])
             /\ f.called \o [j \in 1..(LastIndex(f) - Passed(f)) |->
                               lists[f.list][Passed(f) + j].id] = f.atStart
  <2> DEFINE n == LastIndex(f) - Passed(f)
             c == Len(f.called)
             rest == [j \in 1..n |-> lists[f.list][Passed(f) + j].id]
  <2>1. /\ f.i <= f.len /\ LastIndex(f) <= Len(lists[f.list])
        /\ Len(f.atStart) = c + LastIndex(f) - Passed(f)
        /\ \A j \in 1..c : f.called[j] = f.atStart[j]
        /\ \A p \in (Passed(f) + 1)..LastIndex(f) :
            lists[f.list][p].id = f.atStart[c + p - Passed(f)]
    BY <1>1, <1>6 DEF FrameOk
  <2>2. n \in Nat
    BY <1>3, <2>1
  <2>3. /\ f.called \in Seq(1..MaxEntries) /\ f.atStart \in Seq(1..MaxEntries) /\ c \in Nat
    BY <1>2 DEF Frame
  <2>4. \A j \in 1..n : /\ Passed(f) + j \in (Passed(f) + 1)..LastIndex(f)
                        /\ Passed(f) + j \in DOMAIN lists[f.list]
                        /\ c + (Passed(f) + j) - Passed(f) = c + j
    <3>1. \A j \in 1..n : /\ Passed(f) + j \in (Passed(f) + 1)..LastIndex(f)
                          /\ c + (Passed(f) + j) - Passed(f) = c + j
      <4>1. /\ Passed(f) \in Nat /\ LastIndex(f) \in Nat /\ c \in Nat
            /\ Passed(f) <= LastIndex(f)
        BY <1>3, <2>1, <2>3
      <4>2. QED  BY ONLY <4>1, Offsets
    <3>2. \A p \in (Passed(f) + 1)..LastIndex(f) : p \in DOMAIN lists[f.list]
      BY <1>3, <1>4, <2>1
    <3>3. QED  BY <3>1, <3>2
  <2>5. Len(f.atStart) = c + n
    BY <1>3, <2>1, <2>3, Offsets
  <2> HIDE DEF n, c
  <2>6. rest \in [1..n -> 1..MaxEntries] /\ \A j \in 1..n : rest[j] = f.atStart[c + j]
    <3>1. \A j \in 1..n : lists[f.list][Passed(f) + j].id \in 1..MaxEntries
      BY <1>4, <2>4 DEF Entry
    <3>2. \A j \in 1..n : lists[f.list][Passed(f) + j].id = f.atStart[c + j]
      BY <2>1, <2>4
    <3>3. QED  BY <3>1, <3>2
  <2> HIDE DEF rest
  <2>7. rest \in Seq(1..MaxEntries) /\ Len(rest) = n
    BY <2>2, <2>6, FunctionIsSeq
  <2>8. f.called \o rest = f.atStart
    <3>1. f.called \o rest \in Seq(1..MaxEntries) /\ Len(f.called \o rest) = c + n
      <4>1. Len(f.called) = c
        BY DEF c
      <4>2. QED  BY ONLY <2>3, <2>7, <4>1, ConcatProperties
    <3>2. ASSUME NEW j \in 1..(c + n)  PROVE (f.called \o rest)[j] = f.atStart[j]
      <4>1. CASE j <= c
        <5>1. j \in 1..c
          BY <2>2, <2>3, <4>1
        <5>2. (f.called \o rest)[j] = f.called[j]
          BY <2>3, <2>7, <5>1 DEF c
        <5>3. QED  BY <2>1, <5>1, <5>2
      <4>2. CASE ~(j <= c)
        <5>1. j - c \in 1..n /\ c + (j - c) = j
          BY <2>2, <2>3, <4>2
        <5>2. (f.called \o rest)[j] = rest[j - c]
          BY <2>2, <2>3, <2>7, <4>2, <5>1 DEF c
        <5>3. QED  BY <2>6, <5>1, <5>2
      <4>3. QED  BY <4>1, <4>2
    <3>3. \A i \in Nat : \A x, y \in Seq(1..MaxEntries) :
            Len(x) = i /\ Len(y) = i /\ (\A j \in 1..i : x[j] = y[j]) => x = y
      BY SeqEqual
    <3>4. c + n \in Nat
      BY <2>2, <2>3
    <3>5. QED  BY <2>3, <2>5, <3>1, <3>2, <3>3, <3>4
  <2>9. QED  BY <2>1, <2>8 DEF rest, n, c
<1>7. QED  BY <1>5, <1>6 DEF f

(* emit(), for any events, functions, habits of the listeners and depth of *)
(* nesting: a walk calls the listeners there were when it began, each once *)
(* and in their order, and reads within the list (event_emitter.h:107).    *)
THEOREM WalksAreExact == EmitterSpec => []EachCalledOnce
<1>1. EmitterInv /\ [EmitterNext]_emitterVars => EmitterInv'
  BY EmitterKeeps, BoundsAssumption
<1>2. EmitterInit => EmitterInv
  BY EmitterInitial, BoundsAssumption
<1>3. QED  BY <1>1, <1>2, WalkIsRight, PTL DEF EmitterSpec

(* once(): its function is called once, and when no emit() is under way it *)
(* is not registered any more after that (Once::operator()).               *)
THEOREM OnceMeansOnce == EmitterSpec => []OnceIsOnce
<1>1. EmitterInv /\ [EmitterNext]_emitterVars => EmitterInv'
  BY EmitterKeeps, BoundsAssumption
<1>2. EmitterInit => EmitterInv
  BY EmitterInitial, BoundsAssumption
<1>3. EmitterInv => OnceIsOnce
  <2>1. SUFFICES ASSUME EmitterInv, habit # "duplicates", stack = <<>>,
                        NEW ev \in Events, NEW k \in DOMAIN ListOf(ev),
                        ListOf(ev)[k].id \in spent
                 PROVE  FALSE
    BY DEF OnceIsOnce, EmitterInv
  <2>2. table[ev] # NoList /\ ListOf(ev) = lists[table[ev]]
    <3>1. table[ev] # NoList
      BY <2>1 DEF ListOf
    <3>2. QED  BY <3>1 DEF ListOf
  <2>3. \E i \in DOMAIN stack : stack[i].running = lists[table[ev]][k]
    <3>1. \A x \in Events : table[x] # NoList =>
            \A p \in DOMAIN lists[table[x]] : lists[table[x]][p].id \in spent =>
              \E i \in DOMAIN stack : stack[i].running = lists[table[x]][p]
      BY <2>1 DEF EmitterInv, EmInv, SpentOk
    <3>2. k \in DOMAIN lists[table[ev]] /\ lists[table[ev]][k].id \in spent
      BY <2>1, <2>2
    <3>3. QED  BY <2>2, <3>1, <3>2
  <2>4. QED  BY <2>1, <2>3
<1>4. QED  BY <1>1, <1>2, <1>3, PTL DEF EmitterSpec
=============================================================================
