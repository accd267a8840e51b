---------------------------- MODULE ServicesProofs ----------------------------
(***************************************************************************)
(* Theorems about the services of exts/, JSON-RPC and the discovery of     *)
(* jsdp, and about the sockets that send datagrams.                        *)
(*                                                                         *)
(* JSON-RPC.  RpcInv is inductive: a request in the queue is there once    *)
(* and has no answer yet, one whose Respond the application holds fits its *)
(* method and has none either, and every answer suits its request.  What   *)
(* comes of one request is a case analysis of the checks of the code       *)
(* (Dispatch10Works, Dispatch20Works); that stop() drains the queue is     *)
(* DrainedWorks.                                                           *)
(*                                                                         *)
(* Discovery.  DiscoveryInv is inductive: every message ever sent, or that *)
(* waits for the bind, says what was true when it was made and still is,   *)
(* since requests are not forgotten and what they were offered only grows  *)
(* (TruthStays).                                                           *)
(*                                                                         *)
(* dgram::Socket.  DgramInv is inductive: a send is in one place at most   *)
(* of sendQueue, the lookups and out, and what has to leave first is       *)
(* further on (Ordered); sendQueue waits only while somebody listens and   *)
(* the socket is not bound (QueueOk), and one lookup can bind it (BindOk). *)
(***************************************************************************)
EXTENDS JsonRpc, Discovery, DgramSocket, TLAPS, SequenceTheorems, FiniteSetTheorems,
        WellFoundedInduction

-----------------------------------------------------------------------------
(* The JSON-RPC service. *)
RpcSpec == RpcInit /\ [][RpcNext]_rpcVars

(* A request that fits a method that answers it. *)
Fits(s) ==
  /\ s.json = "object" /\ s.method \in Method /\ s.fits
  /\ s.id \in IF s.version = "2.0" THEN {"null", "own"} ELSE {"bad", "own"}
  /\ s.params \in IF s.version = "2.0" THEN {"undefined", "array", "object"}
                  ELSE {"array"}

Suits(a, s) ==
  /\ a \in Answer
  /\ Notification(s) <=> a.is = "done"
  /\ s.json = "object" => a.version = s.version
  /\ s.id = "own" /\ s.json = "object" => a.id = "own"
  /\ a.is \in {"result", "error"} => Fits(s)
  /\ Fits(s) => a.is \in {"result", "error", "methodNotFound"}

RpcTypes ==
  /\ requests \in Seq(Shapes) /\ answers \in Seq(Seq(Answer))
  /\ Len(answers) = Len(requests)
  /\ queue \in Seq(Nat) /\ methods \subseteq Method
  /\ Len(requests) <= MaxRequests /\ again \in [Request -> Nat] /\ emitting \in Seq(Nat)

(* The inductive invariant: what is queued has no answer yet and comes     *)
(* once, and a Respond that is still to be used has answered only if it is *)
(* emitting.                                                               *)
RpcInv ==
  /\ RpcTypes
  /\ \A k \in DOMAIN queue :
       /\ queue[k] \in DOMAIN requests /\ queue[k] \notin pending
       /\ answers[queue[k]] = <<>>
  /\ \A j, k \in DOMAIN queue : queue[j] = queue[k] => j = k
  /\ \A q \in pending :
       /\ q \in DOMAIN requests /\ Fits(requests[q])
       /\ answers[q] = <<>> \/ q \in ToSet(emitting)
  /\ \A q \in DOMAIN requests :
       /\ Len(answers[q]) <= 1 + again[q]
       /\ \A i \in DOMAIN answers[q] : Suits(answers[q][i], requests[q])

LEMMA AgainType ==
  ASSUME RpcTypes
  PROVE  \A q \in DOMAIN requests : q \in Request /\ again[q] \in Nat
<1>1. DOMAIN requests = 1..Len(requests) /\ Len(requests) \in Nat
      /\ Len(requests) <= MaxRequests /\ again \in [Request -> Nat]
  BY DEF RpcTypes
<1>2. QED  BY <1>1, JsonRpcAssumption DEF Request

LEMMA EmittedSuits ==
  ASSUME NEW s \in Shape, NEW rid \in {"undefined", "null", "bad", "own"},
         NEW is \in {"result", "error", "parseError", "invalidRequest",
                     "methodNotFound", "invalidParams", "done"}
  PROVE  LET a == Emitted(s, rid, is)
         IN  /\ a \in Answer /\ a.is = is /\ a.version = s.version
             /\ a.id = IF rid = "undefined" THEN "null" ELSE rid
BY DEF Emitted, Shape, Answer

(* What comes of a request is no answer and a call that will give one, one *)
(* answer that suits it, or nothing, to a notification.                    *)
Comes(d, s) ==
  /\ d.answer = <<>> \/ \E a \in Answer : d.answer = <<a>> /\ Suits(a, s)
  /\ d.call /\ d.answer = <<>> => Fits(s)

LEMMA Dispatch20Works ==
  ASSUME NEW s \in Shape, s.json = "object", s.version = "2.0",
         NEW ms \in SUBSET Method
  PROVE  Comes(Dispatch20(s, ms), s)
<1> DEFINE E(rid, is) == Emitted(s, rid, is)
<1>1. /\ s.id \in {"undefined", "null", "bad", "own"}
      /\ s.method \in {"undefined", "add", "stop"}
      /\ s.params \in {"undefined", "array", "object", "other"}
      /\ s.fits \in BOOLEAN
  BY DEF Shape
<1>2. CASE s.id = "bad"
  <2>1. Dispatch20(s, ms) = [call |-> FALSE, answer |-> <<E("null", "invalidRequest")>>]
    BY <1>2 DEF Dispatch20, Refused
  <2>2. E("null", "invalidRequest") \in Answer /\ Suits(E("null", "invalidRequest"), s)
    BY <1>1, <1>2, EmittedSuits DEF Suits, Fits, Notification
  <2> HIDE DEF E
  <2>3. QED  BY <2>1, <2>2 DEF Comes
<1>3. CASE s.id # "bad" /\ (s.method = "undefined" \/ s.params = "other")
  <2>1. Dispatch20(s, ms) = [call |-> FALSE, answer |-> <<E(s.id, "invalidRequest")>>]
    BY <1>3 DEF Dispatch20, Refused
  <2>2. E(s.id, "invalidRequest") \in Answer /\ Suits(E(s.id, "invalidRequest"), s)
    BY <1>1, <1>3, EmittedSuits DEF Suits, Fits, Notification, Method
  <2> HIDE DEF E
  <2>3. QED  BY <2>1, <2>2 DEF Comes
<1>4. CASE s.id = "undefined" /\ s.method # "undefined" /\ s.params # "other"
  <2>1. CASE s.method \in ms /\ s.fits
    <3>1. Dispatch20(s, ms) = [call |-> TRUE, answer |-> <<E("null", "done")>>]
      BY <1>4, <2>1 DEF Dispatch20, Notified
    <3>2. E("null", "done") \in Answer /\ Suits(E("null", "done"), s)
      BY <1>1, <1>4, EmittedSuits DEF Suits, Fits, Notification
    <3> HIDE DEF E
    <3>3. QED  BY <3>1, <3>2 DEF Comes
  <2>2. CASE ~(s.method \in ms /\ s.fits)
    BY <1>4, <2>2 DEF Dispatch20, Silent, Comes
  <2>3. QED  BY <2>1, <2>2
<1>5. CASE s.id \in {"null", "own"} /\ s.method # "undefined" /\ s.params # "other"
  <2>1. CASE s.method \notin ms
    <3>1. Dispatch20(s, ms) = [call |-> FALSE, answer |-> <<E(s.id, "methodNotFound")>>]
      BY <1>5, <2>1 DEF Dispatch20, Refused
    <3>2. E(s.id, "methodNotFound") \in Answer /\ Suits(E(s.id, "methodNotFound"), s)
      BY <1>1, <1>5, EmittedSuits DEF Suits, Notification
    <3> HIDE DEF E
    <3>3. QED  BY <3>1, <3>2 DEF Comes
  <2>2. CASE s.method \in ms /\ ~s.fits
    <3>1. Dispatch20(s, ms) = [call |-> FALSE, answer |-> <<E(s.id, "invalidParams")>>]
      BY <1>5, <2>2 DEF Dispatch20, Refused
    <3>2. E(s.id, "invalidParams") \in Answer /\ Suits(E(s.id, "invalidParams"), s)
      BY <1>1, <1>5, <2>2, EmittedSuits DEF Suits, Notification, Fits
    <3> HIDE DEF E
    <3>3. QED  BY <3>1, <3>2 DEF Comes
  <2>3. CASE s.method \in ms /\ s.fits
    <3>1. Dispatch20(s, ms) = [call |-> TRUE, answer |-> <<>>]
      BY <1>5, <2>3 DEF Dispatch20
    <3>2. Fits(s)
      BY <1>1, <1>5, <2>3 DEF Fits
    <3>3. QED  BY <3>1, <3>2 DEF Comes
  <2>4. QED  BY <2>1, <2>2, <2>3
<1>6. QED  BY <1>1, <1>2, <1>3, <1>4, <1>5

LEMMA Dispatch10Works ==
  ASSUME NEW s \in Shape, s.json = "object", s.version = "1.0",
         NEW ms \in SUBSET Method
  PROVE  Comes(Dispatch10(s, ms), s)
<1> DEFINE E(rid, is) == Emitted(s, rid, is)
<1>1. /\ s.id \in {"undefined", "null", "bad", "own"}
      /\ s.method \in {"undefined", "add", "stop"}
      /\ s.params \in {"undefined", "array", "object", "other"}
      /\ s.fits \in BOOLEAN
  BY DEF Shape
<1>2. CASE s.id = "undefined"
  <2>1. Dispatch10(s, ms) = [call |-> FALSE, answer |-> <<E("null", "invalidRequest")>>]
    BY <1>2 DEF Dispatch10, Refused
  <2>2. E("null", "invalidRequest") \in Answer /\ Suits(E("null", "invalidRequest"), s)
    BY <1>1, <1>2, EmittedSuits DEF Suits, Fits, Notification
  <2> HIDE DEF E
  <2>3. QED  BY <2>1, <2>2 DEF Comes
<1>3. CASE s.id # "undefined" /\ (s.method = "undefined" \/ s.params # "array")
  <2>1. Dispatch10(s, ms) = [call |-> FALSE, answer |-> <<E(s.id, "invalidRequest")>>]
    BY <1>3 DEF Dispatch10, Refused
  <2>2. E(s.id, "invalidRequest") \in Answer /\ Suits(E(s.id, "invalidRequest"), s)
    BY <1>1, <1>3, EmittedSuits DEF Suits, Fits, Notification, Method
  <2> HIDE DEF E
  <2>3. QED  BY <2>1, <2>2 DEF Comes
<1>4. CASE s.id = "null" /\ s.method # "undefined" /\ s.params = "array"
  <2>1. CASE s.method \in ms /\ s.fits
    <3>1. Dispatch10(s, ms) = [call |-> TRUE, answer |-> <<E("null", "done")>>]
      BY <1>4, <2>1 DEF Dispatch10, Notified
    <3>2. E("null", "done") \in Answer /\ Suits(E("null", "done"), s)
      BY <1>1, <1>4, EmittedSuits DEF Suits, Fits, Notification
    <3> HIDE DEF E
    <3>3. QED  BY <3>1, <3>2 DEF Comes
  <2>2. CASE ~(s.method \in ms /\ s.fits)
    BY <1>4, <2>2 DEF Dispatch10, Silent, Comes
  <2>3. QED  BY <2>1, <2>2
<1>5. CASE s.id \in {"bad", "own"} /\ s.method # "undefined" /\ s.params = "array"
  <2>1. CASE s.method \notin ms
    <3>1. Dispatch10(s, ms) = [call |-> FALSE, answer |-> <<E(s.id, "methodNotFound")>>]
      BY <1>5, <2>1 DEF Dispatch10, Refused
    <3>2. E(s.id, "methodNotFound") \in Answer /\ Suits(E(s.id, "methodNotFound"), s)
      BY <1>1, <1>5, EmittedSuits DEF Suits, Notification
    <3> HIDE DEF E
    <3>3. QED  BY <3>1, <3>2 DEF Comes
  <2>2. CASE s.method \in ms /\ ~s.fits
    <3>1. Dispatch10(s, ms) = [call |-> FALSE, answer |-> <<E(s.id, "invalidParams")>>]
      BY <1>5, <2>2 DEF Dispatch10, Refused
    <3>2. E(s.id, "invalidParams") \in Answer /\ Suits(E(s.id, "invalidParams"), s)
      BY <1>1, <1>5, <2>2, EmittedSuits DEF Suits, Notification, Fits
    <3> HIDE DEF E
    <3>3. QED  BY <3>1, <3>2 DEF Comes
  <2>3. CASE s.method \in ms /\ s.fits
    <3>1. Dispatch10(s, ms) = [call |-> TRUE, answer |-> <<>>]
      BY <1>5, <2>3 DEF Dispatch10
    <3>2. Fits(s)
      BY <1>1, <1>5, <2>3 DEF Fits
    <3>3. QED  BY <3>1, <3>2 DEF Comes
  <2>4. QED  BY <2>1, <2>2, <2>3
<1>6. QED  BY <1>1, <1>2, <1>3, <1>4, <1>5

LEMMA DispatchWorks ==
  ASSUME NEW s \in Shape, NEW ms \in SUBSET Method
  PROVE  Comes(Dispatch(s, ms), s)
<1>1. s.json \in {"invalid", "value", "object"} /\ s.version \in {"1.0", "2.0"}
  BY DEF Shape
<1>2. CASE s.json = "object"
  <2>1. CASE s.version = "2.0"
    BY <1>2, <2>1, Dispatch20Works DEF Dispatch
  <2>2. CASE s.version = "1.0"
    BY <1>2, <2>2, Dispatch10Works DEF Dispatch
  <2>3. QED  BY <1>1, <2>1, <2>2
<1>3. CASE s.json # "object"
  <2> DEFINE t == [s EXCEPT !.version = "2.0"]
             is == IF s.json = "invalid" THEN "parseError" ELSE "invalidRequest"
             a == Emitted(t, "null", is)
  <2>1. t \in Shape
    BY DEF Shape
  <2>2. Dispatch(s, ms) = [call |-> FALSE, answer |-> <<a>>]
    BY <1>1, <1>3 DEF Dispatch, Refused
  <2> HIDE DEF t
  <2>3. a \in Answer /\ a.is = is
    BY <2>1, EmittedSuits
  <2>4. Suits(a, s)
    BY <1>1, <1>3, <2>3 DEF Suits, Fits, Notification
  <2> HIDE DEF a
  <2>5. QED  BY <2>2, <2>3, <2>4 DEF Comes
<1>4. QED  BY <1>2, <1>3

(* The queue qs is handled with the methods gone. *)
LEMMA DrainedWorks ==
  ASSUME RpcTypes, NEW as \in Seq(Seq(Answer)), Len(as) = Len(requests),
         NEW qs \in Seq(Nat),
         \A k \in DOMAIN qs : qs[k] \in DOMAIN requests /\ as[qs[k]] = <<>>,
         \A q \in DOMAIN requests :
           /\ Len(as[q]) <= 1 + again[q]
           /\ \A i \in DOMAIN as[q] : Suits(as[q][i], requests[q])
  PROVE  LET ds == Drained(as, qs)
         IN  /\ ds \in Seq(Seq(Answer)) /\ Len(ds) = Len(requests)
             /\ \A q \in DOMAIN requests :
                  /\ Len(ds[q]) <= 1 + again[q]
                  /\ \A i \in DOMAIN ds[q] : Suits(ds[q][i], requests[q])
                  /\ q \notin ToSet(qs) => ds[q] = as[q]
<1> DEFINE ds == Drained(as, qs)
<1>1. /\ DOMAIN as = DOMAIN requests /\ DOMAIN as = 1..Len(as) /\ Len(as) \in Nat
      /\ \A q \in DOMAIN requests : requests[q] \in Shape /\ as[q] \in Seq(Answer)
  <2>1. requests \in Seq(Shapes)
    BY DEF RpcTypes
  <2>2. /\ DOMAIN as = DOMAIN requests /\ DOMAIN as = 1..Len(as) /\ Len(as) \in Nat
    BY <2>1, LenProperties
  <2>3. \A q \in DOMAIN requests : requests[q] \in Shapes
    BY <2>1, ElementOfSeq, LenProperties
  <2>4. \A q \in DOMAIN requests : as[q] \in Seq(Answer)
    BY <2>2, ElementOfSeq
  <2> HIDE DEF Shape
  <2>5. QED  BY <2>2, <2>3, <2>4, JsonRpcAssumption
<1>2. ASSUME NEW q \in DOMAIN requests
      PROVE  /\ ds[q] \in Seq(Answer) /\ Len(ds[q]) <= 1 + again[q]
             /\ \A i \in DOMAIN ds[q] : Suits(ds[q][i], requests[q])
             /\ q \notin ToSet(qs) => ds[q] = as[q]
  <2>1. CASE q \notin ToSet(qs)
    <3>1. ds[q] = as[q]
      BY <1>1, <2>1 DEF Drained
    <3> HIDE DEF ds
    <3>2. QED  BY <1>1, <2>1, <3>1
  <2>2. CASE q \in ToSet(qs)
    <3> DEFINE d == Dispatch(requests[q], {}).answer
    <3>1. as[q] = <<>>
      BY <2>2 DEF ToSet
    <3>2. ds[q] = as[q] \o d
      BY <1>1, <2>2 DEF Drained
    <3>3. d = <<>> \/ \E a \in Answer : d = <<a>> /\ Suits(a, requests[q])
      BY <1>1, DispatchWorks DEF Comes
    <3> HIDE DEF d, ds
    <3>4. ds[q] = d
      BY <3>1, <3>2, <3>3
    <3>5. CASE d = <<>>
      <4>1. <<>> \in Seq(Answer) /\ Len(<<>>) <= 1 /\ DOMAIN <<>> = {}
        OBVIOUS
      <4>2. ds[q] = <<>>
        BY <3>4, <3>5
      <4>3. \A i \in DOMAIN ds[q] : Suits(ds[q][i], requests[q])
        BY <4>1, <4>2
      <4>4. Len(ds[q]) <= 1 + again[q]
        <5>1. Len(<<>>) = 0 /\ again[q] \in Nat
          BY AgainType
        <5>2. QED  BY <4>2, <5>1
      <4>5. QED  BY <2>2, <4>1, <4>2, <4>3, <4>4
    <3>6. CASE d # <<>>
      <4>1. PICK a \in Answer : d = <<a>> /\ Suits(a, requests[q])
        BY <3>3, <3>6
      <4>2. ds[q] \in Seq(Answer) /\ Len(ds[q]) = 1 /\ DOMAIN ds[q] = {1} /\ ds[q][1] = a
        BY <3>4, <4>1
      <4>3. \A i \in DOMAIN ds[q] : Suits(ds[q][i], requests[q])
        <5>1. \A i \in DOMAIN ds[q] : i = 1
          BY <4>2
        <5>2. QED  BY <4>1, <4>2, <5>1
      <4>4. ds[q] \in Seq(Answer) /\ Len(ds[q]) <= 1 + again[q]
        <5>1. again[q] \in Nat
          BY AgainType
        <5>2. QED  BY <4>2, <5>1
      <4>5. QED  BY <2>2, <4>3, <4>4
    <3>7. QED  BY <3>5, <3>6
  <2>3. QED  BY <2>1, <2>2
<1>3. DOMAIN ds = 1..Len(as) /\ ds = [q \in 1..Len(as) |-> ds[q]]
  BY <1>1 DEF Drained
<1> HIDE DEF ds
<1>4. ds \in Seq(Seq(Answer)) /\ Len(ds) = Len(as)
  <2>1. ds \in [1..Len(as) -> Seq(Answer)]
    BY <1>1, <1>2, <1>3
  <2>2. ds \in Seq(Seq(Answer))
    BY <1>1, <2>1
  <2>3. Len(ds) \in Nat /\ DOMAIN ds = 1..Len(ds)
    BY <2>2
  <2>4. \A m, n \in Nat : 1..m = 1..n => m = n
    <3> TAKE m, n \in Nat
    <3> HAVE 1..m = 1..n
    <3>1. m \in 1..n \/ m = 0
      OBVIOUS
    <3>2. n \in 1..m \/ n = 0
      OBVIOUS
    <3>3. QED  BY <3>1, <3>2
  <2>5. Len(ds) = Len(as)
    BY <1>1, <1>3, <2>3, <2>4
  <2>6. QED  BY <2>2, <2>5
<1>5. QED  BY <1>2, <1>4 DEF ds

LEMMA RpcInitial == RpcInit => RpcInv
<1> SUFFICES ASSUME RpcInit  PROVE RpcInv
  OBVIOUS
<1>1. /\ requests = <<>> /\ answers = <<>> /\ queue = <<>> /\ methods = {}
      /\ pending = {} /\ emitting = <<>> /\ again \in [Request -> Nat]
  BY DEF RpcInit
<1>2. <<>> \in Seq(Shapes) /\ <<>> \in Seq(Seq(Answer)) /\ <<>> \in Seq(Nat)
      /\ DOMAIN <<>> = {} /\ Len(<<>>) = 0
  OBVIOUS
<1>3. QED  BY <1>1, <1>2, JsonRpcAssumption DEF RpcInv, RpcTypes

LEMMA StopKeeps ==
  ASSUME RpcInv, Stop
  PROVE  RpcInv'
<1>0. /\ requests' = requests /\ pending' = pending /\ methods' = {}
      /\ queue' = <<>> /\ answers' = Drained(answers, queue)
      /\ emitting' = emitting /\ again' = again
  BY DEF Stop, StopWith
<1> DEFINE ds == Drained(answers, queue)
<1>1. /\ ds \in Seq(Seq(Answer)) /\ Len(ds) = Len(requests)
      /\ \A q \in DOMAIN requests :
           /\ Len(ds[q]) <= 1 + again[q]
           /\ \A i \in DOMAIN ds[q] : Suits(ds[q][i], requests[q])
           /\ q \notin ToSet(queue) => ds[q] = answers[q]
  <2>1. RpcTypes /\ answers \in Seq(Seq(Answer)) /\ queue \in Seq(Nat)
        /\ Len(answers) = Len(requests)
    BY DEF RpcInv, RpcTypes
  <2>2. \A k \in DOMAIN queue : queue[k] \in DOMAIN requests /\ answers[queue[k]] = <<>>
    BY DEF RpcInv
  <2>3. \A q \in DOMAIN requests :
          /\ Len(answers[q]) <= 1 + again[q]
          /\ \A i \in DOMAIN answers[q] : Suits(answers[q][i], requests[q])
    BY DEF RpcInv
  <2>4. QED  BY <2>1, <2>2, <2>3, DrainedWorks
<1> HIDE DEF ds
<1>2. \A q \in pending : q \notin ToSet(queue)
  BY DEF RpcInv, ToSet
<1>3. RpcTypes'
  BY <1>0, <1>1 DEF RpcInv, RpcTypes, ds
<1>4. \A q \in pending' :
        /\ q \in DOMAIN requests' /\ Fits(requests'[q])
        /\ answers'[q] = <<>> \/ q \in ToSet(emitting')
  BY <1>0, <1>1, <1>2 DEF RpcInv, ds
<1>5. DOMAIN queue' = {}
  BY <1>0
<1>6. \A q \in DOMAIN requests' :
       /\ Len(answers'[q]) <= 1 + again'[q]
       /\ \A i \in DOMAIN answers'[q] : Suits(answers'[q][i], requests'[q])
  BY <1>0, <1>1 DEF ds
<1>7. QED  BY <1>3, <1>4, <1>5, <1>6 DEF RpcInv

LEMMA PostKeeps ==
  ASSUME RpcInv, NEW s \in Shapes, PostRequest(s)
  PROVE  RpcInv'
<1>0. /\ requests' = Append(requests, s) /\ answers' = Append(answers, <<>>)
      /\ queue' = Append(queue, Len(requests'))
      /\ pending' = pending /\ methods' = methods
      /\ emitting' = emitting /\ again' = again /\ Len(requests) < MaxRequests
  BY DEF PostRequest
<1> DEFINE n == Len(requests) + 1
<1>1. /\ requests \in Seq(Shapes) /\ answers \in Seq(Seq(Answer))
      /\ Len(answers) = Len(requests) /\ queue \in Seq(Nat) /\ n \in Nat
      /\ methods \subseteq Method /\ again \in [Request -> Nat] /\ emitting \in Seq(Nat)
      /\ Len(requests) \in Nat
  BY DEF RpcInv, RpcTypes
<1>2. /\ requests' \in Seq(Shapes) /\ Len(requests') = n
      /\ \A q \in DOMAIN requests : q \in DOMAIN requests' /\ requests'[q] = requests[q]
      /\ \A q \in DOMAIN requests' : q = n \/ q \in DOMAIN requests
      /\ n \in DOMAIN requests' /\ n \notin DOMAIN requests
  BY <1>0, <1>1
<1>3. /\ answers' \in Seq(Seq(Answer)) /\ Len(answers') = n /\ answers'[n] = <<>>
      /\ \A q \in DOMAIN requests : answers'[q] = answers[q]
  <2>1. <<>> \in Seq(Answer)
    OBVIOUS
  <2>2. QED  BY <1>0, <1>1, <2>1
<1>4. /\ queue' \in Seq(Nat)
      /\ \A k \in DOMAIN queue' :
           IF k \in DOMAIN queue THEN queue'[k] = queue[k]
           ELSE k = Len(queue) + 1 /\ queue'[k] = n
  BY <1>0, <1>1, <1>2
<1>a. n <= MaxRequests /\ n \in Request
  BY <1>0, <1>1, JsonRpcAssumption DEF Request
<1> HIDE DEF n
<1>5. RpcTypes'
  BY <1>0, <1>1, <1>2, <1>3, <1>4, <1>a DEF RpcTypes
<1>b. again[n] \in Nat
  BY <1>1, <1>a
<1>6. \A k \in DOMAIN queue : queue[k] \in DOMAIN requests /\ queue[k] # n
  BY <1>2 DEF RpcInv
<1>7. n \notin pending
  BY <1>2 DEF RpcInv
<1>8. \A k \in DOMAIN queue' :
       /\ queue'[k] \in DOMAIN requests' /\ queue'[k] \notin pending'
       /\ answers'[queue'[k]] = <<>>
  BY <1>0, <1>2, <1>3, <1>4, <1>6, <1>7 DEF RpcInv
<1>9. \A j, k \in DOMAIN queue' : queue'[j] = queue'[k] => j = k
  BY <1>4, <1>6 DEF RpcInv
<1>10. \A q \in pending' :
        /\ q \in DOMAIN requests' /\ Fits(requests'[q])
        /\ answers'[q] = <<>> \/ q \in ToSet(emitting')
  BY <1>0, <1>2, <1>3 DEF RpcInv
<1>11. \A q \in DOMAIN requests' :
       /\ Len(answers'[q]) <= 1 + again'[q]
       /\ \A i \in DOMAIN answers'[q] : Suits(answers'[q][i], requests'[q])
  <2> SUFFICES ASSUME NEW q \in DOMAIN requests'
               PROVE  /\ Len(answers'[q]) <= 1 + again[q]
                      /\ \A i \in DOMAIN answers'[q] : Suits(answers'[q][i], requests'[q])
    BY <1>0
  <2>1. CASE q = n
    <3>1. Len(answers'[q]) = 0 /\ DOMAIN answers'[q] = {} /\ again[q] \in Nat
      BY <1>3, <1>b, <2>1
    <3>2. QED  BY <3>1
  <2>2. CASE q # n
    BY <1>2, <1>3, <2>2 DEF RpcInv
  <2>3. QED  BY <2>1, <2>2
<1>12. QED  BY <1>5, <1>8, <1>9, <1>10, <1>11 DEF RpcInv

LEMMA RespondKeeps ==
  ASSUME RpcInv, NEW q \in pending, NEW is \in {"result", "error"}, Respond(q, is)
  PROVE  RpcInv'
<1> DEFINE s == requests[q]
           a == Emitted(s, s.id, is)
           more == Append(answers[q], a)
           as == [answers EXCEPT ![q] = more]
           es == Append(emitting, q)
           n == IF q \in ToSet(emitting) THEN 1 ELSE 0
           ag == [again EXCEPT ![q] = @ + n]
<1>1. /\ requests \in Seq(Shapes) /\ answers \in Seq(Seq(Answer))
      /\ Len(answers) = Len(requests) /\ q \in DOMAIN requests
      /\ answers[q] \in Seq(Answer) /\ Fits(s) /\ s \in Shape
      /\ DOMAIN answers = DOMAIN requests
      /\ again \in [Request -> Nat] /\ q \in Request /\ again[q] \in Nat
      /\ emitting \in Seq(Nat) /\ q \in Nat
  BY JsonRpcAssumption, AgainType DEF RpcInv, RpcTypes
<1>2. a \in Answer /\ Suits(a, s)
  <2>1. s.id \in {"undefined", "null", "bad", "own"}
    BY <1>1 DEF Shape
  <2>2. a \in Answer /\ a.is = is /\ a.version = s.version
        /\ a.id = IF s.id = "undefined" THEN "null" ELSE s.id
    BY <1>1, <2>1, EmittedSuits
  <2>3. ~Notification(s)
    BY <1>1 DEF Notification, Fits, Shape
  <2>4. QED  BY <1>1, <2>2, <2>3 DEF Suits
<1>3. /\ requests' = requests /\ pending' = pending /\ queue' = queue
      /\ methods' = methods /\ answers' = as /\ emitting' = es /\ again' = ag
  BY DEF Respond
<1> HIDE DEF a
<1>4. /\ more \in Seq(Answer) /\ Len(more) = Len(answers[q]) + 1
      /\ \A i \in DOMAIN more : IF i \in DOMAIN answers[q] THEN more[i] = answers[q][i]
                                ELSE more[i] = a
  BY <1>1, <1>2
<1>5. /\ ag \in [Request -> Nat] /\ ag[q] = again[q] + n /\ n \in {0, 1}
      /\ \A p \in Request : p # q => ag[p] = again[p]
  BY <1>1
<1>6. Len(more) <= 1 + ag[q]
  <2>1. Len(answers[q]) <= 1 + again[q] /\ Len(answers[q]) \in Nat
    BY <1>1 DEF RpcInv
  <2>2. CASE q \in ToSet(emitting)
    <3>1. ag[q] = again[q] + 1
      BY <1>5, <2>2
    <3>2. QED  BY <1>1, <1>4, <2>1, <3>1
  <2>3. CASE q \notin ToSet(emitting)
    <3>1. answers[q] = <<>>
      BY <2>3 DEF RpcInv
    <3>2. Len(answers[q]) = 0
      BY <3>1
    <3>3. ag[q] \in Nat
      BY <1>1, <1>5
    <3>4. QED  BY <1>4, <3>2, <3>3
  <2>4. QED  BY <2>2, <2>3
<1>7. /\ es \in Seq(Nat) /\ q \in ToSet(es) /\ \A p \in ToSet(emitting) : p \in ToSet(es)
  <2>1. /\ es \in Seq(Nat) /\ DOMAIN es = 1..(Len(emitting) + 1)
        /\ Len(emitting) \in Nat /\ DOMAIN emitting = 1..Len(emitting)
        /\ es[Len(emitting) + 1] = q /\ \A i \in 1..Len(emitting) : es[i] = emitting[i]
    BY <1>1
  <2> HIDE DEF es
  <2>2. q \in ToSet(es)
    <3>1. Len(emitting) + 1 \in DOMAIN es
      BY <2>1
    <3>2. QED  BY <2>1, <3>1 DEF ToSet
  <2>3. ASSUME NEW p \in ToSet(emitting)  PROVE p \in ToSet(es)
    <3>1. PICK i \in DOMAIN emitting : p = emitting[i]
      BY DEF ToSet
    <3>2. i \in DOMAIN es /\ es[i] = p
      BY <2>1, <3>1
    <3>3. QED  BY <3>2 DEF ToSet
  <2>4. QED  BY <2>1, <2>2, <2>3
<1> HIDE DEF more, ag, es, n
<1>8. /\ as \in Seq(Seq(Answer)) /\ Len(as) = Len(requests) /\ as[q] = more
      /\ \A p \in DOMAIN requests : p # q => as[p] = answers[p]
  BY <1>1, <1>4
<1> HIDE DEF as
<1>9. RpcTypes'
  BY <1>3, <1>5, <1>7, <1>8 DEF RpcInv, RpcTypes
<1>10. \A k \in DOMAIN queue' :
        /\ queue'[k] \in DOMAIN requests' /\ queue'[k] \notin pending'
        /\ answers'[queue'[k]] = <<>>
  BY <1>3, <1>8 DEF RpcInv
<1>11. \A p \in pending' :
        /\ p \in DOMAIN requests' /\ Fits(requests'[p])
        /\ answers'[p] = <<>> \/ p \in ToSet(emitting')
  BY <1>3, <1>7, <1>8 DEF RpcInv
<1>12. \A p \in DOMAIN requests' :
        /\ Len(answers'[p]) <= 1 + again'[p]
        /\ \A i \in DOMAIN answers'[p] : Suits(answers'[p][i], requests'[p])
  <2> SUFFICES ASSUME NEW p \in DOMAIN requests
               PROVE  /\ Len(as[p]) <= 1 + ag[p]
                      /\ \A i \in DOMAIN as[p] : Suits(as[p][i], requests[p])
    BY <1>3
  <2>1. CASE p = q
    <3>1. as[p] = more /\ requests[p] = s
      BY <1>8, <2>1
    <3>2. ASSUME NEW i \in DOMAIN more  PROVE Suits(more[i], s)
      <4>1. CASE i \in DOMAIN answers[q]
        BY <1>1, <1>4, <4>1 DEF RpcInv
      <4>2. CASE i \notin DOMAIN answers[q]
        BY <1>2, <1>4, <4>2
      <4>3. QED  BY <4>1, <4>2
    <3>3. QED  BY <1>6, <2>1, <3>1, <3>2
  <2>2. CASE p # q
    <3>1. as[p] = answers[p] /\ ag[p] = again[p]
      BY <1>5, <1>8, <2>2, AgainType DEF RpcInv
    <3>2. QED  BY <3>1 DEF RpcInv
  <2>3. QED  BY <2>1, <2>2
<1>13. QED  BY <1>3, <1>9, <1>10, <1>11, <1>12 DEF RpcInv

LEMMA SetEmittedKeeps ==
  ASSUME RpcInv, SetEmitted
  PROVE  RpcInv'
<1> DEFINE es == Front(emitting)
           q == Last(emitting)
<1>1. /\ requests' = requests /\ answers' = answers /\ queue' = queue
      /\ methods' = methods /\ again' = again /\ emitting' = es /\ pending' = pending \ {q}
      /\ emitting # <<>> /\ emitting \in Seq(Nat)
  BY DEF SetEmitted, RpcInv, RpcTypes
<1>2. /\ es \in Seq(Nat)
      /\ \A p \in ToSet(emitting) : p = q \/ p \in ToSet(es)
  <2>1. /\ es = SubSeq(emitting, 1, Len(emitting) - 1) /\ q = emitting[Len(emitting)]
        /\ Len(emitting) \in Nat \ {0} /\ DOMAIN emitting = 1..Len(emitting)
    BY <1>1 DEF Front, Last
  <2>2. /\ es \in Seq(Nat) /\ DOMAIN es = 1..(Len(emitting) - 1)
        /\ \A i \in 1..(Len(emitting) - 1) : es[i] = emitting[i]
    BY <1>1, <2>1
  <2> HIDE DEF es, q
  <2>3. ASSUME NEW p \in ToSet(emitting), p # q  PROVE p \in ToSet(es)
    <3>1. PICK i \in DOMAIN emitting : p = emitting[i]
      BY DEF ToSet
    <3>2. i # Len(emitting)
      BY <2>1, <2>3, <3>1
    <3>3. i \in DOMAIN es /\ es[i] = p
      BY <2>1, <2>2, <3>1, <3>2
    <3>4. QED  BY <3>3 DEF ToSet
  <2>4. QED  BY <2>2, <2>3
<1> HIDE DEF es, q
<1>3. RpcTypes'
  BY <1>1, <1>2 DEF RpcInv, RpcTypes
<1>4. \A p \in pending' :
        /\ p \in DOMAIN requests' /\ Fits(requests'[p])
        /\ answers'[p] = <<>> \/ p \in ToSet(emitting')
  BY <1>1, <1>2 DEF RpcInv
<1>5. QED  BY <1>1, <1>3, <1>4 DEF RpcInv

LEMMA OnMessageKeeps ==
  ASSUME RpcInv, OnMessage
  PROVE  RpcInv'
<1> DEFINE q == Head(queue)
           qs == Tail(queue)
           s == requests[q]
           d == Dispatch(s, methods)
           x == d.answer
           as == [answers EXCEPT ![q] = x]
<1>1. /\ requests \in Seq(Shapes) /\ answers \in Seq(Seq(Answer))
      /\ Len(answers) = Len(requests) /\ DOMAIN answers = DOMAIN requests
      /\ methods \subseteq Method /\ queue \in Seq(Nat) /\ queue # <<>>
      /\ emitting' = emitting /\ again' = again /\ again \in [Request -> Nat]
      /\ emitting \in Seq(Nat) /\ Len(requests) <= MaxRequests
  BY DEF RpcInv, RpcTypes, OnMessage
<1>2. /\ qs \in Seq(Nat) /\ q = queue[1] /\ 1 \in DOMAIN queue
      /\ \A k \in DOMAIN qs :
           k \in Nat /\ k + 1 \in DOMAIN queue /\ qs[k] = queue[k + 1]
  BY <1>1
<1> HIDE DEF q, qs
<1>3. /\ q \in DOMAIN requests /\ q \notin pending /\ answers[q] = <<>>
      /\ \A k \in DOMAIN qs :
           qs[k] # q /\ qs[k] \in DOMAIN requests /\ qs[k] \notin pending
           /\ answers[qs[k]] = <<>>
      /\ \A j, k \in DOMAIN qs : qs[j] = qs[k] => j = k
  <2>1. q \in DOMAIN requests /\ q \notin pending /\ answers[q] = <<>>
    BY <1>2 DEF RpcInv
  <2>2. ASSUME NEW k \in DOMAIN qs
        PROVE  qs[k] # q /\ qs[k] \in DOMAIN requests /\ qs[k] \notin pending
               /\ answers[qs[k]] = <<>>
    <3>1. k \in Nat /\ k + 1 \in DOMAIN queue /\ qs[k] = queue[k + 1]
      BY <1>2
    <3>2. k \in DOMAIN qs /\ k + 1 # 1
      BY <1>2, <3>1
    <3>3. QED  BY <1>2, <3>1, <3>2 DEF RpcInv
  <2>3. ASSUME NEW j \in DOMAIN qs, NEW k \in DOMAIN qs, qs[j] = qs[k]
        PROVE  j = k
    <3>1. j + 1 = k + 1
      BY <1>2, <2>3 DEF RpcInv
    <3>2. j \in Nat /\ k \in Nat
      BY <1>2
    <3>3. QED  BY <3>1, <3>2
  <2>4. QED  BY <2>1, <2>2, <2>3
<1>4. s \in Shape
  BY <1>1, <1>3, JsonRpcAssumption
<1>5. /\ x = <<>> \/ \E a \in Answer : x = <<a>> /\ Suits(a, s)
      /\ d.call /\ x = <<>> => Fits(s)
  BY <1>1, <1>4, DispatchWorks DEF Comes
<1>6. /\ requests' = requests
      /\ pending' = IF d.call /\ x = <<>> THEN pending \cup {q} ELSE pending
      /\ \/ /\ queue' = <<>> /\ methods' = {} /\ answers' = Drained(as, qs)
         \/ queue' = qs /\ answers' = as /\ methods' = methods
  <2>1. /\ requests' = requests
        /\ pending' = IF d.call /\ x = <<>> THEN pending \cup {q} ELSE pending
        /\ \/ /\ queue' = <<>> /\ methods' = {}
              /\ answers' = Drained([answers EXCEPT ![q] = @ \o x], qs)
           \/ /\ queue' = qs /\ methods' = methods
              /\ answers' = [answers EXCEPT ![q] = @ \o x]
    BY DEF OnMessage, StopWith, q, qs
  <2> HIDE DEF x
  <2>2. answers[q] \o x = x
    BY <1>3, <1>5
  <2>3. QED  BY <2>1, <2>2
<1> HIDE DEF x, d, s
<1>7. /\ x \in Seq(Answer) /\ Len(x) <= 1 /\ \A i \in DOMAIN x : Suits(x[i], s)
  <2>1. CASE x = <<>>
    BY <2>1
  <2>2. CASE x # <<>>
    <3>1. PICK a \in Answer : x = <<a>> /\ Suits(a, s)
      BY <1>5, <2>2
    <3>2. Len(<<a>>) = 1 /\ DOMAIN <<a>> = {1} /\ <<a>>[1] = a /\ <<a>> \in Seq(Answer)
      OBVIOUS
    <3>3. QED  BY <3>1, <3>2
  <2>3. QED  BY <2>1, <2>2
<1>8. /\ as \in Seq(Seq(Answer)) /\ Len(as) = Len(requests) /\ as[q] = x
      /\ \A p \in DOMAIN requests : p # q => as[p] = answers[p]
  BY <1>1, <1>3, <1>7
<1> HIDE DEF as
<1>9. /\ \A k \in DOMAIN qs : as[qs[k]] = <<>>
      /\ \A p \in DOMAIN requests :
           Len(as[p]) <= 1 + again[p] /\ \A i \in DOMAIN as[p] : Suits(as[p][i], requests[p])
  <2>1. \A k \in DOMAIN qs : as[qs[k]] = <<>>
    BY <1>3, <1>8
  <2>2. ASSUME NEW p \in DOMAIN requests
        PROVE  Len(as[p]) <= 1 + again[p] /\ \A i \in DOMAIN as[p] : Suits(as[p][i], requests[p])
    <3>1. CASE p = q
      <4>1. again[p] \in Nat
        BY AgainType DEF RpcInv
      <4>2. Len(x) \in Nat
        BY <1>7
      <4>3. Len(as[p]) <= 1 + again[p]
        <5>1. as[p] = x /\ Len(x) <= 1
          BY <1>7, <1>8, <3>1
        <5>2. QED  BY <4>1, <4>2, <5>1
      <4>4. QED  BY <1>7, <1>8, <3>1, <4>3 DEF s
    <3>2. CASE p # q
      BY <1>8, <3>2 DEF RpcInv
    <3>3. QED  BY <3>1, <3>2
  <2>3. QED  BY <2>1, <2>2
<1>10. \A p \in pending' :
         p \in DOMAIN requests /\ (as[p] = <<>> \/ p \in ToSet(emitting)) /\ Fits(requests[p])
         /\ \A k \in DOMAIN qs : qs[k] # p
  <2> SUFFICES ASSUME NEW p \in pending'
               PROVE  p \in DOMAIN requests /\ (as[p] = <<>> \/ p \in ToSet(emitting))
                      /\ Fits(requests[p])
                      /\ \A k \in DOMAIN qs : qs[k] # p
    OBVIOUS
  <2>1. CASE p \in pending
    BY <1>3, <1>8, <2>1 DEF RpcInv
  <2>2. CASE p \notin pending
    <3>1. p = q /\ d.call /\ x = <<>>
      BY <1>6, <2>2
    <3>2. QED  BY <1>3, <1>5, <1>8, <3>1 DEF s
  <2>3. QED  BY <2>1, <2>2
<1>11. CASE queue' = qs /\ answers' = as /\ methods' = methods
  <2>1. RpcTypes'
    BY <1>1, <1>2, <1>6, <1>8, <1>11 DEF RpcTypes
  <2>2. QED  BY <1>1, <1>3, <1>6, <1>9, <1>10, <1>11, <2>1 DEF RpcInv
<1>12. CASE queue' = <<>> /\ methods' = {} /\ answers' = Drained(as, qs)
  <2> DEFINE ds == Drained(as, qs)
  <2>1. /\ ds \in Seq(Seq(Answer)) /\ Len(ds) = Len(requests)
        /\ \A p \in DOMAIN requests :
             /\ Len(ds[p]) <= 1 + again[p]
             /\ \A i \in DOMAIN ds[p] : Suits(ds[p][i], requests[p])
             /\ p \notin ToSet(qs) => ds[p] = as[p]
    <3>1. RpcTypes
      BY DEF RpcInv
    <3>2. \A k \in DOMAIN qs : qs[k] \in DOMAIN requests /\ as[qs[k]] = <<>>
      BY <1>3, <1>9
    <3>3. QED  BY <1>2, <1>8, <1>9, <3>1, <3>2, DrainedWorks
  <2> HIDE DEF ds
  <2>2. \A p \in pending' : p \notin ToSet(qs)
    BY <1>10 DEF ToSet
  <2>3. RpcTypes'
    <3>1. <<>> \in Seq(Nat) /\ {} \subseteq Method
      OBVIOUS
    <3>2. answers' = ds
      BY <1>12 DEF ds
    <3>3. queue' \in Seq(Nat) /\ methods' \subseteq Method
      BY <1>12, <3>1
    <3>4. answers' \in Seq(Seq(Answer)) /\ Len(answers') = Len(requests')
      BY <1>6, <2>1, <3>2
    <3>5. QED  BY <1>1, <1>6, <3>3, <3>4 DEF RpcTypes
  <2>4. \A p \in pending' :
          /\ p \in DOMAIN requests' /\ Fits(requests'[p])
          /\ answers'[p] = <<>> \/ p \in ToSet(emitting')
    BY <1>1, <1>6, <1>10, <1>12, <2>1, <2>2 DEF ds
  <2>5. DOMAIN queue' = {}
    BY <1>12
  <2>6. \A p \in DOMAIN requests' :
         /\ Len(answers'[p]) <= 1 + again'[p]
         /\ \A i \in DOMAIN answers'[p] : Suits(answers'[p][i], requests'[p])
    BY <1>1, <1>6, <1>12, <2>1 DEF ds
  <2>7. QED  BY <2>3, <2>4, <2>5, <2>6 DEF RpcInv
<1>13. QED  BY <1>6, <1>11, <1>12

LEMMA RpcKeeps == RpcInv /\ [RpcNext]_rpcVars => RpcInv'
<1> SUFFICES ASSUME RpcInv, [RpcNext]_rpcVars  PROVE RpcInv'
  OBVIOUS
<1>1. CASE Start \/ (\E m \in Method : AddMethod(m)) \/ UNCHANGED rpcVars
  <2>1. /\ requests' = requests /\ answers' = answers /\ queue' = queue
        /\ pending' = pending /\ methods' \subseteq Method
        /\ emitting' = emitting /\ again' = again
    BY <1>1 DEF RpcInv, RpcTypes, Start, AddMethod, rpcVars
  <2>2. QED  BY <2>1 DEF RpcInv, RpcTypes
<1>2. CASE Stop
  BY <1>2, StopKeeps
<1>3. CASE \E s \in Shapes : PostRequest(s)
  BY <1>3, PostKeeps
<1>4. CASE OnMessage
  BY <1>4, OnMessageKeeps
<1>5. CASE \E q \in pending, is \in {"result", "error"} : Respond(q, is)
  BY <1>5, RespondKeeps
<1>6. CASE SetEmitted
  BY <1>6, SetEmittedKeeps
<1>7. QED  BY <1>1, <1>2, <1>3, <1>4, <1>5, <1>6 DEF RpcNext

(* JSON-RPC: for any number of requests, of any shapes, and any number of  *)
(* starts and stops: a request is answered by its own id and in its own    *)
(* version, at most once but for each use of its Respond from within its   *)
(* own emission (Respond10 and Respond20 set emitted_ after they have      *)
(* emitted), and never after that; a notification gets no response; and    *)
(* what is answered is what the shape of the request calls for (OnMessage  *)
(* and the checks of exts/jsonrpc, detail/service.h).                      *)
THEOREM RequestsAreAnswered == RpcSpec => []AnsweredAsAsked
<1>1. RpcInv => AnsweredAsAsked
  <2> SUFFICES ASSUME RpcInv, NEW q \in DOMAIN answers
               PROVE  /\ Len(answers[q]) <= 1 + again[q]
                      /\ q \in pending =>
                           /\ Fits(requests[q])
                           /\ answers[q] = <<>> \/ q \in ToSet(emitting)
                      /\ \A i \in DOMAIN answers[q] :
                           Suits(answers[q][i], requests[q])
    BY DEF AnsweredAsAsked, Suits, Fits
  <2>1. q \in DOMAIN requests
    BY DEF RpcInv, RpcTypes
  <2>2. QED  BY <2>1 DEF RpcInv
<1>2. QED  BY <1>1, RpcInitial, RpcKeeps, PTL DEF RpcSpec
-----------------------------------------------------------------------------
(* The discovery of services. *)
DiscoverySpec == DiscoveryInit /\ [][DiscoveryNext]_discoveryVars

Known == Service \cup {Jsds}
Offer == [host : Host, service : Known]

DiscoveryTypes ==
  /\ DOMAIN socket = Host /\ id \in [Host -> Nat]
  /\ services \in [Host -> SUBSET Known]
  /\ DOMAIN unsent = Host /\ DOMAIN callbacks = Host /\ DOMAIN passwords = Host
  /\ asked \in [Host -> Seq(Query)]
  /\ offered \in [Host -> Seq(SUBSET Offer)]
  /\ found \in [Host -> Seq(SUBSET Offer)]
  /\ \A h \in Host : /\ Len(asked[h]) = id[h] /\ Len(offered[h]) = id[h]
                     /\ Len(found[h]) = id[h]

(* What f says of request i of h may be found by it. *)
Matches(h, i, f) ==
  /\ f.host # h /\ f \in offered[h][i]
  /\ asked[h][i].name \in {Nothing, f.service.name}
  /\ f.service.passwd \in {Nothing, asked[h][i].passwd}

(* A request says what was asked for, and a response what may be found. *)
Truthful(m) ==
  /\ m.is = "discover" =>
       /\ m.from \in Host /\ m.id \in 1..id[m.from]
       /\ m.name = asked[m.from][m.id].name
       /\ m.hash = asked[m.from][m.id].passwd
  /\ m.is = "result" =>
       /\ m.to \in Host /\ m.id \in 1..id[m.to] /\ m.from \in Host
       /\ m.services \subseteq Known
       /\ \A s \in m.services :
            Matches(m.to, m.id, [host |-> m.from, service |-> s])

(* The inductive invariant: every message that ever was is truthful, the   *)
(* password that is kept for an id is that of its request, and what a host *)
(* has now counts as offered to every request.                             *)
DiscoveryInv ==
  /\ DiscoveryTypes
  /\ \A m \in net : Truthful(m)
  /\ \A h \in Host : \A m \in unsent[h] : Truthful(m)
  /\ \A h \in Host : /\ callbacks[h] \subseteq DOMAIN passwords[h]
                     /\ DOMAIN passwords[h] \subseteq 1..id[h]
  /\ \A h, k \in Host : \A i \in 1..id[h] : \A s \in services[k] :
       [host |-> k, service |-> s] \in offered[h][i]
  /\ \A h \in Host : \A i \in 1..id[h] : \A f \in found[h][i] : Matches(h, i, f)

(* Requests are not forgotten, and what they were offered only grows. *)
Grows ==
  \A h \in Host : \A i \in 1..id[h] :
    /\ i \in 1..id[h]' /\ asked[h][i]' = asked[h][i]
    /\ offered[h][i] \subseteq offered[h][i]'

LEMMA TruthStays ==
  ASSUME Grows
  PROVE  /\ \A m : Truthful(m) => Truthful(m)'
         /\ \A h \in Host : \A i \in 1..id[h] : \A f : Matches(h, i, f) => Matches(h, i, f)'
<1>1. ASSUME NEW h \in Host, NEW i \in 1..id[h], NEW f, Matches(h, i, f)
      PROVE  Matches(h, i, f)'
  BY <1>1 DEF Grows, Matches
<1>2. ASSUME NEW m, Truthful(m)
      PROVE  Truthful(m)'
  <2>1. ASSUME m.is = "discover"
        PROVE  /\ m.from \in Host /\ m.id \in 1..id'[m.from]
               /\ m.name = asked'[m.from][m.id].name
               /\ m.hash = asked'[m.from][m.id].passwd
    BY <1>2, <2>1 DEF Truthful, Grows
  <2>2. ASSUME m.is = "result"
        PROVE  /\ m.to \in Host /\ m.id \in 1..id'[m.to] /\ m.from \in Host
               /\ m.services \subseteq Known
               /\ \A s \in m.services :
                    Matches(m.to, m.id, [host |-> m.from, service |-> s])'
    <3>1. /\ m.to \in Host /\ m.id \in 1..id[m.to] /\ m.from \in Host
          /\ m.services \subseteq Known
          /\ \A s \in m.services :
               Matches(m.to, m.id, [host |-> m.from, service |-> s])
      BY <1>2, <2>2 DEF Truthful
    <3>2. m.id \in 1..id'[m.to]
      BY <3>1 DEF Grows
    <3>3. QED  BY <1>1, <3>1, <3>2
  <2>3. QED  BY <2>1, <2>2 DEF Truthful
<1>3. QED  BY <1>1, <1>2

LEMMA DiscoveryInitial == DiscoveryInit => DiscoveryInv
<1> SUFFICES ASSUME DiscoveryInit  PROVE DiscoveryInv
  OBVIOUS
<1>1. \A h \in Host : /\ id[h] = 0 /\ asked[h] = <<>> /\ offered[h] = <<>>
                      /\ found[h] = <<>> /\ services[h] = {} /\ unsent[h] = {}
                      /\ callbacks[h] = {}
                      /\ passwords[h] = <<>>
  BY DEF DiscoveryInit
<1>2. <<>> \in Seq(Query) /\ <<>> \in Seq(SUBSET Offer) /\ Len(<<>>) = 0
      /\ DOMAIN <<>> = {} /\ 1..0 = {} /\ 0 \in Nat
  OBVIOUS
<1>3. DiscoveryTypes
  BY <1>1, <1>2 DEF DiscoveryInit, DiscoveryTypes
<1>4. \A h \in Host : 1..id[h] = {} /\ DOMAIN passwords[h] = {}
  BY <1>1, <1>2
<1>5. net = {}
  BY DEF DiscoveryInit
<1>6. QED  BY <1>1, <1>3, <1>4, <1>5 DEF DiscoveryInv

(* A step that makes no request and no service disappear. *)
LEMMA QuietStep ==
  ASSUME DiscoveryInv,
         id' = id, asked' = asked, offered' = offered, found' = found,
         DOMAIN socket' = Host, DOMAIN unsent' = Host, DOMAIN callbacks' = Host,
         DOMAIN passwords' = Host,
         services' \in [Host -> SUBSET Known],
         \A h \in Host : services'[h] \subseteq services[h],
         \A h \in Host : /\ callbacks'[h] \subseteq DOMAIN passwords'[h]
                         /\ DOMAIN passwords'[h] \subseteq DOMAIN passwords[h],
         \A m \in net' : Truthful(m),
         \A h \in Host : \A m \in unsent'[h] : Truthful(m)
  PROVE  DiscoveryInv'
<1>1. DiscoveryTypes'
  BY DEF DiscoveryInv, DiscoveryTypes
<1>2. Grows
  BY DEF Grows
<1>3. /\ \A m \in net' : Truthful(m)'
      /\ \A h \in Host : \A m \in unsent'[h] : Truthful(m)'
  BY <1>2, TruthStays
<1>4. \A h \in Host : \A i \in 1..id[h] : \A f \in found[h][i] : Matches(h, i, f)'
  BY <1>2, TruthStays DEF DiscoveryInv
<1>5. \A h \in Host : /\ callbacks'[h] \subseteq DOMAIN passwords'[h]
                      /\ DOMAIN passwords'[h] \subseteq 1..id[h]
  BY DEF DiscoveryInv
<1>6. \A h, k \in Host : \A i \in 1..id[h] : \A s \in services'[k] :
        [host |-> k, service |-> s] \in offered[h][i]
  BY DEF DiscoveryInv
<1>7. QED  BY <1>1, <1>3, <1>4, <1>5, <1>6 DEF DiscoveryInv

(* A step that adds the services ss to those of h. *)
LEMMA OfferStep ==
  ASSUME DiscoveryInv, NEW h \in Host, NEW ss \in SUBSET Known,
         services' = [services EXCEPT ![h] = @ \cup ss], Offers(h, ss),
         id' = id, asked' = asked, found' = found,
         callbacks' = callbacks, passwords' = passwords,
         DOMAIN socket' = Host, DOMAIN unsent' = Host,
         \A m \in net' : Truthful(m),
         \A k \in Host : \A m \in unsent'[k] : Truthful(m)
  PROVE  DiscoveryInv'
<1> DEFINE new == {[host |-> h, service |-> s] : s \in ss}
<1>1. new \subseteq Offer
  BY DEF Offer
<1>2. \A k \in Host : /\ offered[k] \in Seq(SUBSET Offer)
                      /\ Len(offered[k]) = id[k] /\ id[k] \in Nat
                      /\ DOMAIN offered[k] = 1..id[k]
  BY DEF DiscoveryInv, DiscoveryTypes
<1>3. offered' = [k \in Host |-> [i \in DOMAIN offered[k] |-> offered[k][i] \cup new]]
  BY DEF Offers
<1> HIDE DEF new
<1>4. ASSUME NEW k \in Host
      PROVE  /\ offered'[k] \in Seq(SUBSET Offer) /\ Len(offered'[k]) = id[k]
             /\ \A i \in 1..id[k] : offered'[k][i] = offered[k][i] \cup new
  <2>1. offered'[k] = [i \in 1..id[k] |-> offered[k][i] \cup new]
    BY <1>2, <1>3
  <2>2. \A i \in 1..id[k] : offered[k][i] \in SUBSET Offer
    BY <1>2
  <2>3. offered'[k] \in [1..id[k] -> SUBSET Offer]
    BY <1>1, <2>1, <2>2
  <2>4. offered'[k] \in Seq(SUBSET Offer) /\ Len(offered'[k]) = id[k]
    BY <1>2, <2>3
  <2>5. QED  BY <2>1, <2>4
<1>5. offered' \in [Host -> Seq(SUBSET Offer)]
  BY <1>3, <1>4
<1>6. services' \in [Host -> SUBSET Known]
  BY DEF DiscoveryInv, DiscoveryTypes
<1>7. DiscoveryTypes'
  BY <1>4, <1>5, <1>6 DEF DiscoveryInv, DiscoveryTypes
<1>8. Grows
  BY <1>4 DEF Grows
<1>9. /\ \A m \in net' : Truthful(m)'
      /\ \A k \in Host : \A m \in unsent'[k] : Truthful(m)'
  BY <1>8, TruthStays
<1>10. \A k \in Host : \A i \in 1..id[k] : \A f \in found[k][i] : Matches(k, i, f)'
  BY <1>8, TruthStays DEF DiscoveryInv
<1>11. ASSUME NEW g \in Host, NEW k \in Host, NEW i \in 1..id[g], NEW s \in services'[k]
       PROVE  [host |-> k, service |-> s] \in offered'[g][i]
  <2>1. CASE s \in services[k]
    BY <1>4, <2>1 DEF DiscoveryInv
  <2>2. CASE s \notin services[k]
    <3>1. k = h /\ s \in ss
      BY <2>2 DEF DiscoveryInv, DiscoveryTypes
    <3>2. [host |-> k, service |-> s] \in new
      BY <3>1 DEF new
    <3>3. QED  BY <1>4, <3>2
  <2>3. QED  BY <2>1, <2>2
<1>12. QED  BY <1>7, <1>9, <1>10, <1>11 DEF DiscoveryInv

(* send() puts the message where truthful messages are. *)
LEMMA SendTruthful ==
  ASSUME DiscoveryInv, NEW h \in Host, NEW m, SendMessage(h, m)
  PROVE  /\ DOMAIN unsent' = Host
         /\ \A n \in net' : n = m \/ Truthful(n)
         /\ \A k \in Host : \A n \in unsent'[k] : n = m \/ Truthful(n)
<1>1. DOMAIN unsent = Host /\ (\A n \in net : Truthful(n))
      /\ \A k \in Host : \A n \in unsent[k] : Truthful(n)
  BY DEF DiscoveryInv, DiscoveryTypes
<1>2. CASE net' = net \cup {m} /\ unsent' = unsent
  BY <1>1, <1>2
<1>3. CASE unsent' = [unsent EXCEPT ![h] = unsent[h] \cup {m}] /\ net' = net
  <2>1. DOMAIN unsent' = Host /\ \A k \in Host : unsent'[k] \subseteq unsent[k] \cup {m}
    BY <1>1, <1>3
  <2>2. QED  BY <1>1, <1>3, <2>1
<1>4. QED  BY <1>2, <1>3 DEF SendMessage

LEMMA ResponseKeeps ==
  ASSUME DiscoveryInv, NEW h \in Host, NEW m \in net, OnDiscover(h, m)
  PROVE  DiscoveryInv'
<1> DEFINE r == [is |-> "result", to |-> m.from, from |-> h, id |-> m.id,
                 key |-> m.hash, services |-> GetServices(h, m.name, m.hash)]
<1>1. /\ SendMessage(h, r) /\ m.is = "discover" /\ m.from # h
      /\ UNCHANGED <<socket, id, services, callbacks, passwords, asked, offered, found>>
  BY DEF OnDiscover
<1>2. /\ m.from \in Host /\ m.id \in 1..id[m.from]
      /\ m.name = asked[m.from][m.id].name /\ m.hash = asked[m.from][m.id].passwd
  BY <1>1 DEF DiscoveryInv, Truthful
<1>3. ASSUME NEW s \in GetServices(h, m.name, m.hash)
      PROVE  s \in Known /\ Matches(m.from, m.id, [host |-> h, service |-> s])
  <2>1. /\ s \in services[h] /\ (m.name = Nothing \/ s.name = m.name)
        /\ s.passwd \in {Nothing, m.hash}
    BY DEF GetServices, StartsWith, EndsWith
  <2>2. s \in Known /\ [host |-> h, service |-> s] \in offered[m.from][m.id]
    BY <1>2, <2>1 DEF DiscoveryInv, DiscoveryTypes
  <2>3. QED  BY <1>1, <1>2, <2>1, <2>2 DEF Matches
<1>4. Truthful(r)
  BY <1>2, <1>3 DEF Truthful
<1> HIDE DEF r
<1>0. PICK n : n = r
  OBVIOUS
<1>5. /\ DOMAIN unsent' = Host /\ \A p \in net' : Truthful(p)
      /\ \A k \in Host : \A p \in unsent'[k] : Truthful(p)
  <2>1. SendMessage(h, n) /\ Truthful(n)
    BY <1>1, <1>4, <1>0
  <2>2. QED  BY <2>1, SendTruthful
<1>6. QED  BY <1>1, <1>5, QuietStep DEF DiscoveryInv, DiscoveryTypes

LEMMA ResultKeeps ==
  ASSUME DiscoveryInv, NEW h \in Host, NEW m \in net, HandleResult(h, m)
  PROVE  DiscoveryInv'
<1> DEFINE new == {[host |-> m.from, service |-> s] : s \in m.services}
           was == found[h]
           now == [was EXCEPT ![m.id] = was[m.id] \cup new]
<1>1. /\ m.is = "result" /\ m.to = h /\ m.id \in callbacks[h]
      /\ found' = [found EXCEPT ![h] = now]
      /\ UNCHANGED <<socket, unsent, id, services, callbacks, passwords, net,
                     asked, offered>>
  BY DEF HandleResult
<1>2. /\ m.id \in 1..id[h] /\ m.from \in Host /\ m.services \subseteq Known
      /\ \A f \in new : Matches(h, m.id, f)
  BY <1>1 DEF DiscoveryInv, Truthful
<1>3. new \subseteq Offer
  BY <1>2 DEF Offer
<1> HIDE DEF new
<1>4. /\ was \in Seq(SUBSET Offer) /\ Len(was) = id[h] /\ id[h] \in Nat
      /\ found \in [Host -> Seq(SUBSET Offer)]
  BY DEF DiscoveryInv, DiscoveryTypes
<1>5. /\ now \in Seq(SUBSET Offer) /\ Len(now) = id[h]
      /\ \A i \in 1..id[h] : now[i] = IF i = m.id THEN was[i] \cup new ELSE was[i]
  <2>1. was \in [1..id[h] -> SUBSET Offer]
    BY <1>4
  <2>2. now \in [1..id[h] -> SUBSET Offer]
        /\ \A i \in 1..id[h] : now[i] = IF i = m.id THEN was[i] \cup new ELSE was[i]
    <3> HIDE DEF was
    <3>1. QED  BY <1>2, <1>3, <2>1
  <2>3. \A n \in Nat : \A g \in [1..n -> SUBSET Offer] :
          g \in Seq(SUBSET Offer) /\ Len(g) = n
    OBVIOUS
  <2> HIDE DEF now, was
  <2>4. QED  BY <1>4, <2>2, <2>3
<1> HIDE DEF now
<1>6. found' \in [Host -> Seq(SUBSET Offer)] /\ found'[h] = now
      /\ \A k \in Host : k # h => found'[k] = found[k]
  BY <1>1, <1>4, <1>5
<1>7. DiscoveryTypes'
  BY <1>1, <1>5, <1>6 DEF DiscoveryInv, DiscoveryTypes
<1>8. ASSUME NEW k \in Host, NEW i \in 1..id[k], NEW f \in found'[k][i]
      PROVE  Matches(k, i, f)
  <2>1. CASE k = h /\ i = m.id /\ f \in new
    BY <1>2, <2>1
  <2>2. CASE f \in found[k][i]
    BY <2>2 DEF DiscoveryInv
  <2>3. QED  BY <1>5, <1>6, <2>1, <2>2 DEF was
<1>9. Grows
  BY <1>1 DEF Grows
<1>10. QED  BY <1>1, <1>7, <1>8, <1>9, TruthStays DEF DiscoveryInv

LEMMA DiscoverKeeps ==
  ASSUME DiscoveryInv, NEW h \in Host, NEW q \in Query, Discover(h, q)
  PROVE  DiscoveryInv'
<1> DEFINE i == id[h] + 1
           all == UNION {{[host |-> k, service |-> s] : s \in services[k]} : k \in Host}
           m == [is |-> "discover", to |-> Nothing, from |-> h, id |-> i,
                 name |-> q.name, hash |-> q.passwd]
           pwds == [j \in DOMAIN passwords[h] \cup {i} |->
                      IF j = i THEN q.passwd ELSE passwords[h][j]]
           as == Append(asked[h], q)
           os == Append(offered[h], all)
           fs == Append(found[h], {})
<1>1. /\ id' = [id EXCEPT ![h] = i] /\ passwords' = [passwords EXCEPT ![h] = pwds]
      /\ callbacks' = [callbacks EXCEPT ![h] = callbacks[h] \cup {i}]
      /\ SendMessage(h, m) /\ asked' = [asked EXCEPT ![h] = as]
      /\ offered' = [offered EXCEPT ![h] = os] /\ found' = [found EXCEPT ![h] = fs]
      /\ socket' = socket /\ services' = services
  BY DEF Discover
<1>2. DOMAIN pwds = DOMAIN passwords[h] \cup {i}
  OBVIOUS
<1> HIDE DEF pwds
<1>3. /\ asked[h] \in Seq(Query) /\ Len(asked[h]) = id[h]
      /\ offered[h] \in Seq(SUBSET Offer) /\ Len(offered[h]) = id[h]
      /\ found[h] \in Seq(SUBSET Offer) /\ Len(found[h]) = id[h] /\ id[h] \in Nat
  BY DEF DiscoveryInv, DiscoveryTypes
<1>4. /\ all \subseteq Offer
      /\ \A k \in Host : \A s \in services[k] : [host |-> k, service |-> s] \in all
  BY DEF DiscoveryInv, DiscoveryTypes, Offer
<1> HIDE DEF all
<1>5. /\ i \in Nat /\ 1..i = (1..id[h]) \cup {i} /\ i \notin 1..id[h]
  BY <1>3
<1>6. /\ as \in Seq(Query) /\ Len(as) = i /\ as[i] = q
      /\ \A j \in 1..id[h] : as[j] = asked[h][j]
  BY <1>3
<1>7. /\ os \in Seq(SUBSET Offer) /\ Len(os) = i /\ os[i] = all
      /\ \A j \in 1..id[h] : os[j] = offered[h][j]
  BY <1>3, <1>4
<1>8. /\ fs \in Seq(SUBSET Offer) /\ Len(fs) = i /\ fs[i] = {}
      /\ \A j \in 1..id[h] : fs[j] = found[h][j]
  BY <1>3
<1> HIDE DEF as, os, fs, i
<1>9. /\ id' \in [Host -> Nat] /\ asked' \in [Host -> Seq(Query)]
      /\ offered' \in [Host -> Seq(SUBSET Offer)] /\ found' \in [Host -> Seq(SUBSET Offer)]
      /\ id'[h] = i /\ asked'[h] = as /\ offered'[h] = os /\ found'[h] = fs
      /\ passwords'[h] = pwds /\ callbacks'[h] = callbacks[h] \cup {i}
      /\ DOMAIN passwords' = Host /\ DOMAIN callbacks' = Host
  BY <1>1, <1>5, <1>6, <1>7, <1>8 DEF DiscoveryInv, DiscoveryTypes
<1>10. \A k \in Host : k # h =>
        /\ id'[k] = id[k] /\ asked'[k] = asked[k] /\ offered'[k] = offered[k]
        /\ found'[k] = found[k] /\ passwords'[k] = passwords[k]
        /\ callbacks'[k] = callbacks[k]
  BY <1>1 DEF DiscoveryInv, DiscoveryTypes
<1>11. Grows
  <2> SUFFICES ASSUME NEW k \in Host, NEW j \in 1..id[k]
               PROVE  /\ j \in 1..id'[k] /\ asked'[k][j] = asked[k][j]
                      /\ offered[k][j] \subseteq offered'[k][j]
    BY DEF Grows
  <2>1. CASE k = h
    BY <1>5, <1>6, <1>7, <1>9, <2>1
  <2>2. CASE k # h
    BY <1>10, <2>2
  <2>3. QED  BY <2>1, <2>2
<1>0. PICK n : n = m
  OBVIOUS
<1>12. Truthful(n)'
  <2>1. m.is = "discover" /\ m.from = h /\ m.id = i /\ m.name = q.name /\ m.hash = q.passwd
    OBVIOUS
  <2>2. i \in 1..id'[h] /\ asked'[h][i] = q
    BY <1>3, <1>5, <1>6, <1>9
  <2>3. n.is = "discover" /\ n.from = h /\ n.id = i /\ n.name = q.name /\ n.hash = q.passwd
    BY <1>0, <2>1
  <2> HIDE DEF m
  <2>4. QED  BY <2>2, <2>3 DEF Truthful
<1>13. /\ DOMAIN unsent' = Host
       /\ \A p \in net' : Truthful(p)'
       /\ \A k \in Host : \A p \in unsent'[k] : Truthful(p)'
  <2>1. /\ DOMAIN unsent' = Host
        /\ \A p \in net' : p = n \/ Truthful(p)
        /\ \A k \in Host : \A p \in unsent'[k] : p = n \/ Truthful(p)
    <3>1. SendMessage(h, n)
      BY <1>1, <1>0
    <3>2. QED  BY <3>1, SendTruthful
  <2>2. \A p : (p = n \/ Truthful(p)) => Truthful(p)'
    BY <1>11, <1>12, TruthStays
  <2>3. QED  BY <2>1, <2>2
<1>14. DiscoveryTypes'
  <2>1. \A k \in Host : /\ Len(asked'[k]) = id'[k] /\ Len(offered'[k]) = id'[k]
                        /\ Len(found'[k]) = id'[k]
    <3> SUFFICES ASSUME NEW k \in Host
                 PROVE  /\ Len(asked'[k]) = id'[k] /\ Len(offered'[k]) = id'[k]
                        /\ Len(found'[k]) = id'[k]
      OBVIOUS
    <3>1. CASE k = h
      BY <1>6, <1>7, <1>8, <1>9, <3>1
    <3>2. CASE k # h
      BY <1>10, <3>2 DEF DiscoveryInv, DiscoveryTypes
    <3>3. QED  BY <3>1, <3>2
  <2>2. DOMAIN socket' = Host /\ services' \in [Host -> SUBSET Known]
    BY <1>1 DEF DiscoveryInv, DiscoveryTypes
  <2>3. QED  BY <1>9, <1>13, <2>1, <2>2 DEF DiscoveryTypes
<1>15. \A k \in Host : /\ callbacks'[k] \subseteq DOMAIN passwords'[k]
                       /\ DOMAIN passwords'[k] \subseteq 1..id'[k]
  <2> SUFFICES ASSUME NEW k \in Host
               PROVE  /\ callbacks'[k] \subseteq DOMAIN passwords'[k]
                      /\ DOMAIN passwords'[k] \subseteq 1..id'[k]
    OBVIOUS
  <2>1. CASE k = h
    BY <1>2, <1>5, <1>9, <2>1 DEF DiscoveryInv
  <2>2. CASE k # h
    BY <1>10, <2>2 DEF DiscoveryInv
  <2>3. QED  BY <2>1, <2>2
<1>16. ASSUME NEW g \in Host, NEW k \in Host, NEW j \in 1..id'[g], NEW s \in services'[k]
       PROVE  [host |-> k, service |-> s] \in offered'[g][j]
  <2>1. CASE g = h /\ j = i
    BY <1>1, <1>4, <1>7, <1>9, <2>1
  <2>2. CASE j \in 1..id[g]
    BY <1>1, <1>11, <2>2 DEF DiscoveryInv, Grows
  <2>3. QED  BY <1>5, <1>9, <1>10, <2>1, <2>2
<1>17. ASSUME NEW k \in Host, NEW j \in 1..id'[k], NEW f \in found'[k][j]
       PROVE  Matches(k, j, f)'
  <2>1. CASE j \in 1..id[k]
    <3>1. f \in found[k][j]
      BY <1>8, <1>9, <1>10, <2>1
    <3>2. Matches(k, j, f)
      BY <2>1, <3>1 DEF DiscoveryInv
    <3>3. QED  BY <1>11, <2>1, <3>2, TruthStays
  <2>2. CASE j \notin 1..id[k]
    <3>1. k = h /\ j = i
      BY <1>5, <1>9, <1>10, <2>2
    <3>2. QED  BY <1>8, <1>9, <3>1
  <2>3. QED  BY <2>1, <2>2
<1>18. QED  BY <1>13, <1>14, <1>15, <1>16, <1>17 DEF DiscoveryInv

LEMMA DiscoveryKeeps == DiscoveryInv /\ [DiscoveryNext]_discoveryVars => DiscoveryInv'
<1> SUFFICES ASSUME DiscoveryInv, [DiscoveryNext]_discoveryVars  PROVE DiscoveryInv'
  OBVIOUS
<1> USE DEF DiscoveryInv, DiscoveryTypes
<1>1. CASE UNCHANGED discoveryVars
  BY <1>1, QuietStep DEF discoveryVars
<1>2. ASSUME NEW h \in Host, StartService(h) \/ StopService(h)
      PROVE  DiscoveryInv'
  <2>1. /\ UNCHANGED <<id, callbacks, passwords, net, asked, offered, found>>
        /\ DOMAIN socket' = Host /\ DOMAIN unsent' = Host
        /\ services' \in [Host -> SUBSET Known]
        /\ \A k \in Host : services'[k] \subseteq services[k]
        /\ \A k \in Host : unsent'[k] \subseteq unsent[k]
    BY <1>2 DEF StartService, StopService
  <2>2. \A k \in Host : \A m \in unsent'[k] : Truthful(m)
    BY <2>1
  <2>3. QED  BY <2>1, <2>2, QuietStep
<1>3. ASSUME NEW h \in Host, OnBind(h)
      PROVE  DiscoveryInv'
  <2>1. {Jsds} \in SUBSET Known
    BY DEF Known
  <2>2. /\ DOMAIN socket' = Host /\ DOMAIN unsent' = Host
        /\ net' = net \cup unsent[h]
        /\ \A k \in Host : unsent'[k] \subseteq unsent[k]
    BY <1>3 DEF OnBind
  <2>3. /\ \A m \in net' : Truthful(m)
        /\ \A k \in Host : \A m \in unsent'[k] : Truthful(m)
    BY <2>2
  <2>4. /\ services' = [services EXCEPT ![h] = @ \cup {Jsds}] /\ Offers(h, {Jsds})
        /\ UNCHANGED <<id, callbacks, passwords, asked, found>>
    BY <1>3 DEF OnBind
  <2>5. QED  BY <2>1, <2>2, <2>3, <2>4, OfferStep
<1>4. ASSUME NEW h \in Host, NEW s \in Service, JoinService(h, s)
      PROVE  DiscoveryInv'
  <2>1. {s} \in SUBSET Known
    BY DEF Known
  <2>2. /\ services' = [services EXCEPT ![h] = @ \cup {s}] /\ Offers(h, {s})
        /\ UNCHANGED <<socket, unsent, id, callbacks, passwords, net, asked, found>>
    BY <1>4 DEF JoinService
  <2>3. QED  BY <2>1, <2>2, OfferStep
<1>5. ASSUME NEW h \in Host, NEW s \in Service, LeaveService(h, s)
      PROVE  DiscoveryInv'
  <2>1. /\ UNCHANGED <<socket, unsent, id, callbacks, passwords, net, asked, offered, found>>
        /\ services' \in [Host -> SUBSET Known]
        /\ \A k \in Host : services'[k] \subseteq services[k]
    BY <1>5 DEF LeaveService
  <2>2. QED  BY <2>1, QuietStep
<1>6. ASSUME NEW h \in Host, NEW q \in Query, Discover(h, q)
      PROVE  DiscoveryInv'
  BY <1>6, DiscoverKeeps
<1>7. ASSUME NEW h \in Host, NEW m \in net, OnDiscover(h, m) \/ HandleResult(h, m)
      PROVE  DiscoveryInv'
  BY <1>7, ResponseKeeps, ResultKeeps
<1>8. ASSUME NEW h \in Host, NEW i \in callbacks[h], OnTimeout(h, i)
      PROVE  DiscoveryInv'
  <2>1. /\ UNCHANGED <<socket, unsent, id, services, net, asked, offered, found>>
        /\ callbacks' = [callbacks EXCEPT ![h] = callbacks[h] \ {i}]
        /\ passwords' = [passwords EXCEPT ![h] =
                           Restrict(passwords[h], DOMAIN passwords[h] \ {i})]
    BY <1>8 DEF OnTimeout
  <2>2. DOMAIN Restrict(passwords[h], DOMAIN passwords[h] \ {i})
          = DOMAIN passwords[h] \ {i}
    BY DEF Restrict
  <2>3. \A k \in Host : /\ callbacks'[k] \subseteq DOMAIN passwords'[k]
                        /\ DOMAIN passwords'[k] \subseteq DOMAIN passwords[k]
    BY <2>1, <2>2
  <2>4. DOMAIN callbacks' = Host /\ DOMAIN passwords' = Host
    BY <2>1
  <2>5. QED  BY <2>1, <2>3, <2>4, QuietStep
<1>9. QED  BY <1>1, <1>2, <1>3, <1>4, <1>5, <1>6, <1>7, <1>8 DEF DiscoveryNext

(* Service discovery: for any hosts, services and requests, and however    *)
(* datagrams are lost, doubled or delayed and hosts are stopped and        *)
(* started: what a request finds was joined on another host since it was   *)
(* made, has the name that was asked for, and no password or the one given *)
(* (OnMessage and getServices of exts/jsdp, detail/discovery_service.h).   *)
THEOREM FindsWhatMatches == DiscoverySpec => []DiscoversMatching
<1>1. DiscoveryInv => DiscoversMatching
  <2> SUFFICES ASSUME DiscoveryInv, NEW h \in Host, NEW i \in DOMAIN found[h],
                      NEW f \in found[h][i]
               PROVE  Matches(h, i, f)
    BY DEF DiscoversMatching, Matches
  <2>1. i \in 1..id[h]
    BY DEF DiscoveryInv, DiscoveryTypes
  <2>2. QED  BY <2>1 DEF DiscoveryInv
<1>2. QED  BY <1>1, DiscoveryInitial, DiscoveryKeeps, PTL DEF DiscoverySpec

-----------------------------------------------------------------------------
(* The datagrams of a dgram::Socket. *)
DgramSpec == DgramInit /\ [][DgramNext]_dgramVars

LEMMA NatHasMin ==
  ASSUME NEW T \in SUBSET Nat, T # {}
  PROVE  \E x \in T : \A y \in T : x <= y
<1> DEFINE R == OpToRel(<, Nat)
<1>1. \E x \in T : \A y \in T : ~ (<<y, x>> \in R)
  BY NatLessThanWellFounded, WFMin
<1>2. \A x, y \in Nat : y < x => <<y, x>> \in R
  BY DEF OpToRel
<1> HIDE DEF R
<1>3. PICK x \in T : \A y \in T : ~ (<<y, x>> \in R)
  BY <1>1
<1>4. ASSUME NEW y \in T  PROVE x <= y
  <2>1. x \in Nat /\ y \in Nat
    OBVIOUS
  <2>2. ~ (y < x)
    BY <1>2, <1>3, <2>1
  <2>3. QED  BY <2>1, <2>2
<1>5. QED  BY <1>4

(* Every finite set of numbers can be put in order: its least first, then  *)
(* the others.                                                             *)
Rises(f, S) ==
  f \in [1..Cardinality(S) -> S] /\ \A a, b \in DOMAIN f : a < b => f[a] < f[b]
Unordered(n) ==
  \E S \in SUBSET Nat : IsFiniteSet(S) /\ Cardinality(S) = n /\ \A f : ~Rises(f, S)

LEMMA LeastIsOrdered ==
  ASSUME NEW n \in Nat, Unordered(n)
  PROVE  \E k \in Nat : k < n /\ Unordered(k)
<1>1. PICK S \in SUBSET Nat : IsFiniteSet(S) /\ Cardinality(S) = n /\ \A f : ~Rises(f, S)
  BY DEF Unordered
<1>2. CASE S = {}
  <2>1. n = 0 /\ 1..n = {}
    BY <1>1, <1>2, FS_EmptySet
  <2>2. [x \in {} |-> 0] \in [{} -> S]
    OBVIOUS
  <2>3. Rises([x \in {} |-> 0], S)
    BY <1>1, <2>1, <2>2 DEF Rises
  <2>4. QED  BY <1>1, <2>3
<1>3. CASE S # {}
  <2>1. PICK m \in S : \A y \in S : m <= y
    BY <1>3, NatHasMin
  <2> DEFINE U == S \ {m}
  <2>2. IsFiniteSet(U) /\ Cardinality(U) = n - 1
    BY <1>1, FS_RemoveElement
  <2>3. n # 0
    BY <1>1, <1>3, FS_EmptySet
  <2>4. n - 1 \in Nat /\ n - 1 < n
    BY <2>3
  <2>5. ASSUME NEW g, Rises(g, U)  PROVE FALSE
    <3> DEFINE f == [a \in 1..n |-> IF a = 1 THEN m ELSE g[a - 1]]
    <3>1. g \in [1..(n - 1) -> U] /\ \A a, b \in 1..(n - 1) : a < b => g[a] < g[b]
      BY <2>2, <2>5 DEF Rises
    <3>2. \A a \in 1..n : a # 1 => a - 1 \in 1..(n - 1)
      OBVIOUS
    <3>3. ASSUME NEW a \in 1..n  PROVE f[a] \in S
      BY <3>1, <3>2
    <3>4. f \in [1..n -> S]
      BY <3>3
    <3>5. ASSUME NEW a \in 1..n, NEW b \in 1..n, a < b  PROVE f[a] < f[b]
      <4>1. b # 1 /\ f[b] = g[b - 1] /\ b - 1 \in 1..(n - 1)
        BY <3>2, <3>5
      <4>2. CASE a = 1
        <5>1. g[b - 1] \in U /\ f[a] = m
          BY <3>1, <4>1, <4>2
        <5>2. m <= g[b - 1] /\ m # g[b - 1] /\ m \in Nat /\ g[b - 1] \in Nat
          BY <2>1, <5>1
        <5>3. QED  BY <4>1, <5>1, <5>2
      <4>3. CASE a # 1
        <5>1. f[a] = g[a - 1] /\ a - 1 \in 1..(n - 1) /\ a - 1 < b - 1
          BY <3>2, <3>5, <4>3
        <5>2. QED  BY <3>1, <4>1, <5>1
      <4>4. QED  BY <4>2, <4>3
    <3> HIDE DEF f
    <3>6. DOMAIN f = 1..n
      BY <3>4
    <3>7. Rises(f, S)
      BY <1>1, <3>4, <3>5, <3>6 DEF Rises
    <3>8. QED  BY <1>1, <3>7
  <2> HIDE DEF U
  <2>6. U \in SUBSET Nat
    BY DEF U
  <2>7. Unordered(n - 1)
    BY <2>2, <2>5, <2>6 DEF Unordered
  <2>8. QED  BY <2>4, <2>7
<1>4. QED  BY <1>2, <1>3

LEMMA AscendingRises ==
  ASSUME NEW S \in SUBSET Nat, IsFiniteSet(S)
  PROVE  Rises(Ascending(S), S)
<1> DEFINE T == {n \in Nat : Unordered(n)}
<1>1. T = {}
  <2>1. SUFFICES ASSUME T # {}  PROVE FALSE
    OBVIOUS
  <2>2. PICK n \in T : \A k \in T : n <= k
    BY <2>1, NatHasMin
  <2>3. n \in Nat /\ Unordered(n)
    OBVIOUS
  <2>4. PICK k \in Nat : k < n /\ Unordered(k)
    BY <2>3, LeastIsOrdered
  <2>5. n <= k
    BY <2>2, <2>4
  <2>6. QED  BY <2>3, <2>4, <2>5
<1>2. Cardinality(S) \in Nat
  BY FS_CardinalityType
<1>3. ~Unordered(Cardinality(S))
  BY <1>1, <1>2
<1>4. \E f : Rises(f, S)
  BY <1>3 DEF Unordered
<1>5. \E f \in [1..Cardinality(S) -> S] : \A a, b \in DOMAIN f : a < b => f[a] < f[b]
  BY <1>4 DEF Rises
<1>6. QED  BY <1>5 DEF Ascending, Rises

(* A sequence of sends in which each comes once, and none before one that  *)
(* has to precede it: datagrams for numeric addresses leave in the order   *)
(* of send(), but for those sent by a listener of "listening".             *)
In(x, s) == \E a \in DOMAIN s : s[a] = x
Once(x, s) == \A a, b \in DOMAIN s : s[a] = x /\ s[b] = x => a = b
Precedes(h, i, j) ==
  i < j /\ h[i].to = "numeric" /\ h[j].to = "numeric" /\ ~h[j].inside
Fine(h, s) ==
  /\ \A x \in DOMAIN h : Once(x, s)
  /\ \A a, b \in DOMAIN s :
       s[a] \in DOMAIN h /\ s[b] \in DOMAIN h /\ Precedes(h, s[a], s[b]) => a < b

(* All of s may leave before all of t. *)
Before(h, s, t) ==
  \A x, y \in DOMAIN h : In(x, s) /\ In(y, t) => x # y /\ ~Precedes(h, y, x)

LEMMA TailIn ==
  ASSUME NEW s \in Seq(Nat), s # <<>>
  PROVE  /\ Tail(s) \in Seq(Nat) /\ In(Head(s), s)
         /\ \A x : In(x, Tail(s)) => In(x, s)
         /\ \A x : Once(x, s) => Once(x, Tail(s))
         /\ Once(Head(s), s) => ~In(Head(s), Tail(s))
         /\ \A h : Fine(h, s) => Fine(h, Tail(s))
<1> DEFINE t == Tail(s)
<1>1. /\ t \in Seq(Nat) /\ 1 \in DOMAIN s /\ Head(s) = s[1]
      /\ \A a \in DOMAIN t : a \in Nat /\ a + 1 \in DOMAIN s /\ t[a] = s[a + 1] /\ a + 1 # 1
  OBVIOUS
<1> HIDE DEF t
<1>2. In(Head(s), s) /\ \A x : In(x, t) => In(x, s)
  BY <1>1 DEF In
<1>3. ASSUME NEW x, Once(x, s)  PROVE Once(x, t)
  <2>1. SUFFICES ASSUME NEW a \in DOMAIN t, NEW b \in DOMAIN t, t[a] = x, t[b] = x
                 PROVE  a = b
    BY DEF Once
  <2>2. a + 1 = b + 1
    BY <1>1, <1>3, <2>1 DEF Once
  <2>3. QED  BY <1>1, <2>2
<1>4. Once(Head(s), s) => ~In(Head(s), t)
  BY <1>1 DEF Once, In
<1>5. ASSUME NEW h, Fine(h, s)  PROVE Fine(h, t)
  <2>1. ASSUME NEW a \in DOMAIN t, NEW b \in DOMAIN t, t[a] \in DOMAIN h,
               t[b] \in DOMAIN h, Precedes(h, t[a], t[b])
        PROVE  a < b
    <3>1. a + 1 < b + 1
      BY <1>1, <1>5, <2>1 DEF Fine
    <3>2. QED  BY <1>1, <3>1
  <2>2. QED  BY <1>3, <1>5, <2>1 DEF Fine
<1>6. QED  BY <1>1, <1>2, <1>3, <1>4, <1>5 DEF t

LEMMA ConcatIn ==
  ASSUME NEW s \in Seq(Nat), NEW t \in Seq(Nat)
  PROVE  /\ s \o t \in Seq(Nat)
         /\ \A x : In(x, s \o t) <=> In(x, s) \/ In(x, t)
         /\ \A x : Once(x, s) /\ Once(x, t) /\ ~(In(x, s) /\ In(x, t)) => Once(x, s \o t)
         /\ \A h : Fine(h, s) /\ Fine(h, t) /\ Before(h, s, t) => Fine(h, s \o t)
<1> DEFINE u == s \o t
<1>1. /\ u \in Seq(Nat) /\ Len(s) \in Nat /\ Len(t) \in Nat
      /\ DOMAIN s = 1..Len(s) /\ DOMAIN t = 1..Len(t) /\ DOMAIN u = 1..(Len(s) + Len(t))
      /\ \A a \in DOMAIN s : a \in DOMAIN u /\ u[a] = s[a]
      /\ \A a \in DOMAIN t : a + Len(s) \in DOMAIN u /\ u[a + Len(s)] = t[a]
  OBVIOUS
<1>2. ASSUME NEW a \in DOMAIN u
      PROVE  \/ a \in DOMAIN s /\ u[a] = s[a]
             \/ /\ a \notin DOMAIN s /\ a - Len(s) \in DOMAIN t /\ u[a] = t[a - Len(s)]
                /\ a > Len(s)
  OBVIOUS
<1> HIDE DEF u
<1>3. \A x : In(x, u) <=> In(x, s) \/ In(x, t)
  BY <1>1, <1>2 DEF In
<1>4. ASSUME NEW x, Once(x, s), Once(x, t), ~(In(x, s) /\ In(x, t))
      PROVE  Once(x, u)
  <2>1. SUFFICES ASSUME NEW a \in DOMAIN u, NEW b \in DOMAIN u, u[a] = x, u[b] = x
                 PROVE  a = b
    BY DEF Once
  <2>2. CASE a \in DOMAIN s /\ b \in DOMAIN s
    BY <1>1, <1>4, <2>1, <2>2 DEF Once
  <2>3. CASE a \notin DOMAIN s /\ b \notin DOMAIN s
    <3>1. a - Len(s) = b - Len(s)
      BY <1>2, <1>4, <2>1, <2>3 DEF Once
    <3>2. a \in Nat /\ b \in Nat
      BY <1>1
    <3>3. QED  BY <1>1, <3>1, <3>2
  <2>4. CASE (a \in DOMAIN s /\ b \notin DOMAIN s) \/ (a \notin DOMAIN s /\ b \in DOMAIN s)
    BY <1>2, <1>4, <2>1, <2>4 DEF In
  <2>5. QED  BY <2>2, <2>3, <2>4
<1>5. ASSUME NEW h, Fine(h, s), Fine(h, t), Before(h, s, t)
      PROVE  Fine(h, u)
  <2>1. ASSUME NEW x \in DOMAIN h  PROVE Once(x, u)
    BY <1>4, <1>5 DEF Fine, Before
  <2>2. ASSUME NEW a \in DOMAIN u, NEW b \in DOMAIN u, u[a] \in DOMAIN h,
               u[b] \in DOMAIN h, Precedes(h, u[a], u[b])
        PROVE  a < b
    <3>0. a \in Nat /\ b \in Nat
      BY <1>1
    <3>1. CASE a \in DOMAIN s /\ b \in DOMAIN s
      BY <1>1, <1>5, <2>2, <3>1 DEF Fine
    <3>2. CASE a \notin DOMAIN s /\ b \notin DOMAIN s
      <4>1. a - Len(s) < b - Len(s)
        BY <1>2, <1>5, <2>2, <3>2 DEF Fine
      <4>2. QED  BY <1>1, <3>0, <4>1
    <3>3. CASE a \in DOMAIN s /\ b \notin DOMAIN s
      BY <1>1, <1>2, <3>0, <3>3
    <3>4. CASE a \notin DOMAIN s /\ b \in DOMAIN s
      <4>1. In(u[b], s) /\ In(u[a], t)
        BY <1>1, <1>2, <3>4 DEF In
      <4>2. QED  BY <1>5, <2>2, <4>1 DEF Before
    <3>5. QED  BY <3>1, <3>2, <3>3, <3>4
  <2>3. QED  BY <2>1, <2>2 DEF Fine
<1>6. QED  BY <1>1, <1>3, <1>4, <1>5 DEF u

LEMMA OneIn ==
  ASSUME NEW x \in Nat
  PROVE  /\ <<x>> \in Seq(Nat) /\ \A y : In(y, <<x>>) <=> y = x
         /\ \A y : Once(y, <<x>>)
         /\ \A h : (\A i \in DOMAIN h : i \in Nat) => Fine(h, <<x>>)
<1>1. DOMAIN <<x>> = {1} /\ <<x>>[1] = x /\ <<x>> \in Seq(Nat)
  OBVIOUS
<1>2. \A y : In(y, <<x>>) <=> y = x
  BY <1>1 DEF In
<1>3. \A y : Once(y, <<x>>)
  BY <1>1 DEF Once
<1>4. \A h : ~Precedes(h, x, x)
  BY DEF Precedes
<1>5. \A h : Fine(h, <<x>>)
  BY <1>1, <1>3, <1>4 DEF Fine
<1>6. QED  BY <1>1, <1>2, <1>3, <1>5

LEMMA NoneIn ==
  /\ <<>> \in Seq(Nat) /\ \A x : ~In(x, <<>>) /\ Once(x, <<>>)
  /\ \A h : Fine(h, <<>>)
BY DEF In, Once, Fine

LEMMA AppendIn ==
  ASSUME NEW s \in Seq(Nat), NEW x \in Nat
  PROVE  /\ Append(s, x) \in Seq(Nat)
         /\ \A y : In(y, Append(s, x)) <=> In(y, s) \/ y = x
         /\ \A y : Once(y, s) /\ (y = x => ~In(y, s)) => Once(y, Append(s, x))
         /\ \A h : /\ \A i \in DOMAIN h : i \in Nat
                   /\ Fine(h, s)
                   /\ x \in DOMAIN h => /\ ~In(x, s)
                                        /\ \A y \in DOMAIN h : In(y, s) => ~Precedes(h, x, y)
                   => Fine(h, Append(s, x))
<1>1. Append(s, x) = s \o <<x>>
  OBVIOUS
<1>2. ASSUME NEW h, \A i \in DOMAIN h : i \in Nat, Fine(h, s),
             x \in DOMAIN h => /\ ~In(x, s)
                               /\ \A y \in DOMAIN h : In(y, s) => ~Precedes(h, x, y)
      PROVE  Fine(h, s \o <<x>>)
  <2>1. Before(h, s, <<x>>)
    BY <1>2, OneIn DEF Before
  <2>2. QED  BY <1>2, <2>1, OneIn, ConcatIn
<1>3. /\ s \o <<x>> \in Seq(Nat)
      /\ \A y : In(y, s \o <<x>>) <=> In(y, s) \/ y = x
      /\ \A y : Once(y, s) /\ (y = x => ~In(y, s)) => Once(y, s \o <<x>>)
  BY OneIn, ConcatIn
<1>4. QED  BY <1>1, <1>2, <1>3

(* What is sent to numeric addresses stays in order. *)
LEMMA OnlyNumericIn ==
  ASSUME NEW s \in Seq(Nat), NEW h
  PROVE  LET t == OnlyNumeric(s, h)
         IN  /\ t \in Seq(Nat)
             /\ \A x : In(x, t) => In(x, s) /\ h[x].to = "numeric"
             /\ \A x : Once(x, s) => Once(x, t)
             /\ Fine(h, s) => Fine(h, t)
<1> DEFINE S == {k \in DOMAIN s : h[s[k]].to = "numeric"}
           n == Cardinality(S)
           f == Ascending(S)
           t == OnlyNumeric(s, h)
<1>1. S \in SUBSET Nat /\ IsFiniteSet(S) /\ n \in Nat
  <2>1. S \subseteq 1..Len(s) /\ Len(s) \in Nat
    OBVIOUS
  <2>2. IsFiniteSet(1..Len(s))
    BY <2>1, FS_Interval
  <2>3. IsFiniteSet(S)
    BY <2>1, <2>2, FS_Subset
  <2>4. QED  BY <2>1, <2>3, FS_CardinalityType
<1>2. Rises(f, S)
  BY <1>1, AscendingRises
<1>3. t = [a \in 1..n |-> s[f[a]]]
  BY DEF OnlyNumeric
<1>4. /\ DOMAIN t = 1..n
      /\ \A a \in 1..n : f[a] \in S /\ t[a] = s[f[a]]
      /\ \A a, b \in 1..n : a < b => f[a] < f[b]
  BY <1>2, <1>3 DEF Rises
<1> HIDE DEF n, f, t
<1>5. \A a \in 1..n : f[a] \in DOMAIN s /\ h[s[f[a]]].to = "numeric" /\ t[a] \in Nat
  BY <1>4
<1> HIDE DEF S
<1>6. t \in Seq(Nat)
  <2>1. t \in [1..n -> Nat]
    BY <1>3, <1>4, <1>5
  <2>2. QED  BY <1>1, <2>1
<1>7. \A x : In(x, t) => In(x, s) /\ h[x].to = "numeric"
  BY <1>4, <1>5 DEF In
<1>8. \A a, b \in 1..n : f[a] = f[b] => a = b
  <2>1. SUFFICES ASSUME NEW a \in 1..n, NEW b \in 1..n, f[a] = f[b], a # b  PROVE FALSE
    OBVIOUS
  <2>2. f[a] \in Nat /\ f[b] \in Nat
    BY <1>1, <1>4, <2>1
  <2>3. f[a] < f[b] \/ f[b] < f[a]
    <3>1. a < b \/ b < a
      BY <1>1, <2>1
    <3>2. QED  BY <1>4, <2>1, <3>1
  <2>4. QED  BY <2>1, <2>2, <2>3
<1>9. \A x : Once(x, s) => Once(x, t)
  BY <1>4, <1>5, <1>8 DEF Once
<1>10. ASSUME Fine(h, s)  PROVE Fine(h, t)
  <2>1. ASSUME NEW a \in DOMAIN t, NEW b \in DOMAIN t, t[a] \in DOMAIN h,
               t[b] \in DOMAIN h, Precedes(h, t[a], t[b])
        PROVE  a < b
    <3>1. f[a] < f[b]
      BY <1>4, <1>5, <1>10, <2>1 DEF Fine
    <3>2. ~(b < a) /\ a # b
      <4>1. a \in 1..n /\ b \in 1..n
        BY <1>4, <2>1
      <4>2. f[a] \in Nat /\ f[b] \in Nat
        BY <1>1, <1>4, <4>1
      <4>3. QED  BY <1>4, <3>1, <4>1, <4>2
    <3>3. QED  BY <1>1, <1>4, <3>2
  <2>2. QED  BY <1>9, <1>10, <2>1 DEF Fine
<1>11. QED  BY <1>6, <1>7, <1>9, <1>10 DEF t

(* New sends and answers change nothing for those there are. *)
Continues(h, g) ==
  /\ DOMAIN h \subseteq DOMAIN g
  /\ \A x \in DOMAIN h : g[x].to = h[x].to /\ g[x].inside = h[x].inside

LEMMA ContinuesFine ==
  ASSUME NEW h, NEW g, Continues(h, g)
  PROVE  /\ \A s : Fine(h, s) /\ (\A x \in DOMAIN g : In(x, s) => x \in DOMAIN h) => Fine(g, s)
         /\ \A s, t : /\ Before(h, s, t)
                      /\ \A x \in DOMAIN g : In(x, s) \/ In(x, t) => x \in DOMAIN h
                      => Before(g, s, t)
<1>1. \A x, y \in DOMAIN h : Precedes(g, x, y) <=> Precedes(h, x, y)
  BY DEF Precedes, Continues
<1>2. ASSUME NEW s, Fine(h, s), \A x \in DOMAIN g : In(x, s) => x \in DOMAIN h
      PROVE  Fine(g, s)
  <2>1. ASSUME NEW x \in DOMAIN g  PROVE Once(x, s)
    BY <1>2 DEF Fine, Once, In
  <2>2. \A a \in DOMAIN s : s[a] \in DOMAIN g => s[a] \in DOMAIN h
    BY <1>2 DEF In
  <2>3. QED  BY <1>1, <1>2, <2>1, <2>2 DEF Fine
<1>3. ASSUME NEW s, NEW t, Before(h, s, t),
             \A x \in DOMAIN g : In(x, s) \/ In(x, t) => x \in DOMAIN h
      PROVE  Before(g, s, t)
  BY <1>1, <1>3 DEF Before
<1>4. QED  BY <1>2, <1>3
(***************************************************************************)
(* The inductive invariant.  o, t, q, ns and fl are the sends given to     *)
(* libuv, the ticks, what waits in sendQueue, the names being looked up    *)
(* and what libuv has in hand.                                             *)
(***************************************************************************)
ASend == [to : {"numeric", "name"}, inside : BOOLEAN, answers : Seq({"error", "sent"})]

DgramTypes ==
  /\ sends \in Seq(ASend) /\ Len(sends) <= MaxSends
  /\ out \in Seq(Nat) /\ ticks \in Seq(Nat) /\ sendQueue \in Seq(Nat)
  /\ \A x : In(x, out) \/ In(x, sendQueue) \/ x \in flying => x \in DOMAIN sends
  /\ \A x : In(x, ticks) => x \in DOMAIN sends \cup {TheBind, TheClose}
  /\ names \subseteq DOMAIN sends \cup {TheBind}
  /\ listeners \in Seq({"callback", "flush"})

(* What has left, what is looked up and what waits, in this order. *)
Ordered(h, o, t, q) ==
  /\ Fine(h, o) /\ Fine(h, t) /\ Fine(h, q)
  /\ Before(h, o, t) /\ Before(h, o, q) /\ Before(h, t, q)

Kinds(h, o, t, q, ns) ==
  /\ \A x \in DOMAIN h : In(x, t) => h[x].to = "numeric"
  /\ \A x \in DOMAIN h :
       x \in ns => h[x].to # "numeric" /\ ~In(x, o) /\ ~In(x, q)

(* A send that is answered is nowhere but, if it was sent, in o. *)
AnswerOk(h, o, t, q, ns, fl, x) ==
  LET l == h[x].answers
  IN  /\ l = <<>> \/ l = <<"sent">> \/ l = <<"error">>
      /\ l = <<"sent">> => In(x, o)
      /\ l = <<"error">> => ~In(x, o)
      /\ l # <<>> => ~In(x, t) /\ ~In(x, q) /\ x \notin ns /\ x \notin fl

AllAnswers(h, o, t, q, ns, fl) ==
  /\ \A x \in DOMAIN h : AnswerOk(h, o, t, q, ns, fl, x)
  /\ \A x \in fl : In(x, o)

(* A bind is looked up once, and while the socket is BINDING. *)
BindOk(t, ns, b) ==
  /\ Once(TheBind, t) /\ ~(TheBind \in ns /\ In(TheBind, t))
  /\ TheBind \in ns \/ In(TheBind, t) => b = "BINDING"

(* While something waits somebody listens. *)
QueueOk(q, l, hd, b) == hd /\ q # <<>> => In("flush", l) /\ b # "BOUND"

CloseOk(hd, b, rc, o, at, t) ==
  /\ ~hd => Len(o) = at
  /\ In(TheClose, t) => ~hd
  /\ rc <=> hd /\ b = "BOUND"

DgramInv ==
  /\ DgramTypes
  /\ Ordered(sends, out, ticks, sendQueue)
  /\ Kinds(sends, out, ticks, sendQueue, names)
  /\ AllAnswers(sends, out, ticks, sendQueue, names, flying)
  /\ BindOk(ticks, names, bindState)
  /\ QueueOk(sendQueue, listeners, handle, bindState)
  /\ CloseOk(handle, bindState, receiving, out, outAtClose, ticks)

LEMMA SendsAreNumbers ==
  ASSUME DgramTypes
  PROVE  /\ DOMAIN sends = 1..Len(sends) /\ Len(sends) \in Nat
         /\ TheBind \in Nat /\ TheClose \in Nat /\ TheBind # TheClose
         /\ TheBind \notin DOMAIN sends /\ TheClose \notin DOMAIN sends
         /\ \A x \in DOMAIN sends : x \in Nat
<1>1. DOMAIN sends = 1..Len(sends) /\ Len(sends) \in Nat
  BY DEF DgramTypes
<1>2. \A x \in DOMAIN sends : x \in Nat /\ x >= 1 /\ x <= MaxSends
  BY <1>1, DgramAssumption DEF DgramTypes
<1>3. QED  BY <1>1, <1>2, DgramAssumption DEF TheBind, TheClose

(* A lookup that is answered is not under way any more. *)
LEMMA AnsweredFacts ==
  ASSUME DgramTypes, NEW x, Answered(x)
  PROVE  /\ ticks' \in Seq(Nat) /\ names' \subseteq names
         /\ \A y : In(y, ticks') => In(y, ticks)
         /\ \A y : Once(y, ticks) => Once(y, ticks')
         /\ \A h : Fine(h, ticks) => Fine(h, ticks')
         /\ In(x, ticks) \/ x \in names
         /\ Once(x, ticks) /\ ~(In(x, ticks) /\ x \in names)
              => ~In(x, ticks') /\ x \notin names'
<1>1. CASE TickAnswers(x)
  BY <1>1, TailIn DEF TickAnswers, DgramTypes
<1>2. CASE NameAnswers(x)
  BY <1>2 DEF NameAnswers, DgramTypes
<1>3. QED  BY <1>1, <1>2 DEF Answered

(* No more sends are looked up. *)
LEMMA LessIsKept ==
  ASSUME NEW h, NEW o, NEW t, NEW q, NEW ns, NEW fl, NEW u, NEW ms,
         Ordered(h, o, t, q), Kinds(h, o, t, q, ns), AllAnswers(h, o, t, q, ns, fl),
         Fine(h, u), \A y \in DOMAIN h : In(y, u) => In(y, t),
         \A y \in DOMAIN h : y \in ms => y \in ns
  PROVE  /\ Ordered(h, o, u, q) /\ Kinds(h, o, u, q, ms)
         /\ AllAnswers(h, o, u, q, ms, fl)
<1>1. Ordered(h, o, u, q)
  BY DEF Ordered, Before
<1>2. Kinds(h, o, u, q, ms)
  BY DEF Kinds
<1>3. ASSUME NEW x \in DOMAIN h  PROVE AnswerOk(h, o, u, q, ms, fl, x)
  BY DEF AllAnswers, AnswerOk
<1>4. QED  BY <1>1, <1>2, <1>3 DEF AllAnswers

(* New sends that are nowhere yet. *)
LEMMA NewIsKept ==
  ASSUME NEW h, NEW o, NEW t, NEW q, NEW ns, NEW fl, NEW g,
         Ordered(h, o, t, q), Kinds(h, o, t, q, ns), AllAnswers(h, o, t, q, ns, fl),
         Continues(h, g), \A x \in DOMAIN h : g[x] = h[x],
         \A x \in DOMAIN g : x \in DOMAIN h
            \/ /\ ~In(x, o) /\ ~In(x, t) /\ ~In(x, q) /\ x \notin ns
               /\ g[x].answers = <<>>
  PROVE  /\ Ordered(g, o, t, q) /\ Kinds(g, o, t, q, ns)
         /\ AllAnswers(g, o, t, q, ns, fl)
<1>1. Ordered(g, o, t, q)
  <2>1. \A x \in DOMAIN g : In(x, o) \/ In(x, t) \/ In(x, q) => x \in DOMAIN h
    OBVIOUS
  <2>2. Fine(g, o) /\ Fine(g, t) /\ Fine(g, q)
    BY <2>1, ContinuesFine DEF Ordered
  <2>3. Before(g, o, t) /\ Before(g, o, q) /\ Before(g, t, q)
    BY <2>1, ContinuesFine DEF Ordered
  <2>4. QED  BY <2>2, <2>3 DEF Ordered
<1>2. Kinds(g, o, t, q, ns)
  BY DEF Kinds
<1>3. ASSUME NEW x \in DOMAIN g  PROVE AnswerOk(g, o, t, q, ns, fl, x)
  <2>1. CASE x \in DOMAIN h
    BY <2>1 DEF AllAnswers, AnswerOk
  <2>2. CASE x \notin DOMAIN h
    <3>1. g[x].answers = <<>>
      BY <2>2
    <3>2. <<>> # <<"sent">> /\ <<>> # <<"error">>
      OBVIOUS
    <3>3. QED  BY <3>1, <3>2 DEF AnswerOk
  <2>3. QED  BY <2>1, <2>2
<1>4. QED  BY <1>1, <1>2, <1>3 DEF AllAnswers

(* A send that is answered now. *)
Answering(h, x, with) == [h EXCEPT ![x].answers = Append(@, with)]

LEMMA AnswerIsKept ==
  ASSUME NEW h \in Seq(ASend), NEW o, NEW t, NEW q, NEW ns, NEW fl,
         NEW x \in DOMAIN h, NEW with \in {"error", "sent"},
         Ordered(h, o, t, q), Kinds(h, o, t, q, ns), AllAnswers(h, o, t, q, ns, fl),
         h[x].answers = <<>>, ~In(x, t), ~In(x, q), x \notin ns, x \notin fl,
         In(x, o) <=> with = "sent"
  PROVE  /\ Answering(h, x, with) \in Seq(ASend)
         /\ Len(Answering(h, x, with)) = Len(h)
         /\ DOMAIN Answering(h, x, with) = DOMAIN h
         /\ Ordered(Answering(h, x, with), o, t, q)
         /\ Kinds(Answering(h, x, with), o, t, q, ns)
         /\ AllAnswers(Answering(h, x, with), o, t, q, ns, fl)
<1> DEFINE g == Answering(h, x, with)
<1>1. \A y \in DOMAIN h : h[y] \in ASend
  OBVIOUS
<1>2. /\ g \in [DOMAIN h -> ASend] /\ g[x].answers = <<with>>
      /\ \A y \in DOMAIN h : /\ g[y].to = h[y].to /\ g[y].inside = h[y].inside
                             /\ y # x => g[y] = h[y]
  <2>1. h[x] \in ASend
    BY <1>1
  <2>2. Append(<<>>, with) = <<with>> /\ <<with>> \in Seq({"error", "sent"})
    OBVIOUS
  <2> DEFINE r == [h[x] EXCEPT !.answers = <<with>>]
  <2>3. r \in ASend /\ r.answers = <<with>> /\ r.to = h[x].to /\ r.inside = h[x].inside
    BY <2>1, <2>2 DEF ASend
  <2>4. g = [h EXCEPT ![x] = r]
    BY <2>2 DEF Answering
  <2> HIDE DEF r
  <2>5. QED  BY <1>1, <2>3, <2>4
<1> HIDE DEF g
<1>3. g \in Seq(ASend) /\ Len(g) = Len(h) /\ DOMAIN g = DOMAIN h
  <2>1. DOMAIN h = 1..Len(h) /\ Len(h) \in Nat
    OBVIOUS
  <2>2. g \in [1..Len(h) -> ASend]
    BY <1>2, <2>1
  <2>3. QED  BY <2>1, <2>2
<1>4. Continues(h, g)
  BY <1>2, <1>3 DEF Continues
<1>5. Ordered(g, o, t, q)
  <2>1. Fine(g, o) /\ Fine(g, t) /\ Fine(g, q)
    BY <1>3, <1>4, ContinuesFine DEF Ordered
  <2>2. Before(g, o, t) /\ Before(g, o, q) /\ Before(g, t, q)
    BY <1>3, <1>4, ContinuesFine DEF Ordered
  <2>3. QED  BY <2>1, <2>2 DEF Ordered
<1>6. Kinds(g, o, t, q, ns)
  BY <1>2, <1>3 DEF Kinds
<1>7. ASSUME NEW y \in DOMAIN g  PROVE AnswerOk(g, o, t, q, ns, fl, y)
  <2>1. CASE y = x
    <3>1. <<"sent">> # <<"error">> /\ <<"error">> # <<>> /\ <<"sent">> # <<>>
      OBVIOUS
    <3>2. g[y].answers = <<"sent">> <=> with = "sent"
      BY <1>2, <2>1, <3>1
    <3>3. g[y].answers = <<"error">> <=> with = "error"
      BY <1>2, <2>1, <3>1
    <3>4. QED  BY <2>1, <3>1, <3>2, <3>3 DEF AnswerOk
  <2>2. CASE y # x
    <3>1. g[y] = h[y] /\ y \in DOMAIN h
      BY <1>2, <1>3, <2>2
    <3>2. QED  BY <3>1 DEF AllAnswers, AnswerOk
  <2>3. QED  BY <2>1, <2>2
<1>8. AllAnswers(g, o, t, q, ns, fl)
  BY <1>7 DEF AllAnswers
<1>9. QED  BY <1>3, <1>5, <1>6, <1>8 DEF g
(* g has one more send than sends: i, which is nowhere yet and comes after *)
(* the others.                                                             *)
IsNew(g, i, r) ==
  /\ g \in Seq(ASend) /\ Len(g) <= MaxSends /\ DOMAIN g = DOMAIN sends \cup {i}
  /\ g[i] = r /\ \A x \in DOMAIN sends : g[x] = sends[x]
  /\ \A x \in DOMAIN g : x \in Nat
  /\ i \in Nat /\ i \notin DOMAIN sends /\ i # TheBind /\ i # TheClose
  /\ ~In(i, out) /\ ~In(i, ticks) /\ ~In(i, sendQueue)
  /\ i \notin names /\ i \notin flying
  /\ \A x \in DOMAIN g : ~Precedes(g, i, x)
  /\ Ordered(g, out, ticks, sendQueue) /\ Kinds(g, out, ticks, sendQueue, names)
  /\ AllAnswers(g, out, ticks, sendQueue, names, flying)

LEMMA SendIsNew ==
  ASSUME DgramInv, NEW r \in ASend, r.answers = <<>>, Len(sends) + 1 <= MaxSends
  PROVE  IsNew(Append(sends, r), Len(sends) + 1, r)
<1> SUFFICES ASSUME NEW g, g = Append(sends, r), NEW i, i = Len(sends) + 1
             PROVE  IsNew(g, i, r)
  OBVIOUS
<1>1. DgramTypes
  BY DEF DgramInv
<1>2. /\ DOMAIN sends = 1..Len(sends) /\ Len(sends) \in Nat /\ sends \in Seq(ASend)
      /\ MaxSends \in Nat
  BY <1>1, SendsAreNumbers, DgramAssumption DEF DgramTypes
<1>3. /\ g \in Seq(ASend) /\ Len(g) = i /\ DOMAIN g = 1..i
      /\ g[i] = r /\ \A x \in 1..Len(sends) : g[x] = sends[x]
  BY <1>2
<1>4. DOMAIN g = DOMAIN sends \cup {i} /\ i \in Nat /\ i \notin DOMAIN sends
  BY <1>2, <1>3
<1>5. i # TheBind /\ i # TheClose
  BY <1>2, DgramAssumption DEF TheBind, TheClose
<1>6. /\ ~In(i, out) /\ ~In(i, ticks) /\ ~In(i, sendQueue)
      /\ i \notin names /\ i \notin flying
  BY <1>1, <1>4, <1>5 DEF DgramTypes
<1>7. \A x \in DOMAIN g : x \in Nat /\ ~(i < x)
  BY <1>2, <1>3
<1>8. \A x \in DOMAIN sends : g[x] = sends[x]
  BY <1>2, <1>3
<1>9. Continues(sends, g)
  BY <1>4, <1>8 DEF Continues
<1>10. /\ Ordered(g, out, ticks, sendQueue) /\ Kinds(g, out, ticks, sendQueue, names)
       /\ AllAnswers(g, out, ticks, sendQueue, names, flying)
  <2>1. /\ Ordered(sends, out, ticks, sendQueue)
        /\ Kinds(sends, out, ticks, sendQueue, names)
        /\ AllAnswers(sends, out, ticks, sendQueue, names, flying)
    BY DEF DgramInv
  <2>2. QED  BY <1>3, <1>4, <1>6, <1>8, <1>9, <2>1, NewIsKept
<1>11. \A x \in DOMAIN g : ~Precedes(g, i, x)
  BY <1>7 DEF Precedes
<1>12. Len(g) <= MaxSends
  BY <1>3
<1>13. QED  BY <1>3, <1>4, <1>5, <1>6, <1>7, <1>8, <1>10, <1>11, <1>12 DEF IsNew

(* A send that is nowhere yet goes to the queue, to the ticks when nothing *)
(* is queued, or to the names.                                             *)
Nowhere(h, o, t, q, ns, fl, i) ==
  /\ i \in DOMAIN h /\ ~In(i, o) /\ ~In(i, t) /\ ~In(i, q) /\ i \notin ns /\ i \notin fl
  /\ h[i].answers = <<>> /\ \A x \in DOMAIN h : ~Precedes(h, i, x)

LEMMA WaitsInQueue ==
  ASSUME NEW h, NEW o, NEW t, NEW q \in Seq(Nat), NEW ns, NEW fl, NEW i \in Nat,
         \A x \in DOMAIN h : x \in Nat,
         Ordered(h, o, t, q), Kinds(h, o, t, q, ns), AllAnswers(h, o, t, q, ns, fl),
         Nowhere(h, o, t, q, ns, fl, i)
  PROVE  LET p == Append(q, i)
         IN  /\ Ordered(h, o, t, p) /\ Kinds(h, o, t, p, ns) /\ AllAnswers(h, o, t, p, ns, fl)
<1> DEFINE p == Append(q, i)
<1>1. \A y : In(y, p) <=> In(y, q) \/ y = i
  BY AppendIn
<1>2. Fine(h, p)
  <2>1. Fine(h, q)
    BY DEF Ordered
  <2>2. ~In(i, q) /\ \A y \in DOMAIN h : ~Precedes(h, i, y)
    BY DEF Nowhere
  <2>3. QED  BY <2>1, <2>2, AppendIn
<1> HIDE DEF p
<1>3. Before(h, o, p) /\ Before(h, t, p)
  BY <1>1 DEF Ordered, Before, Nowhere
<1>4. Ordered(h, o, t, p)
  BY <1>2, <1>3 DEF Ordered
<1>5. Kinds(h, o, t, p, ns)
  BY <1>1 DEF Kinds, Nowhere
<1>6. ASSUME NEW x \in DOMAIN h  PROVE AnswerOk(h, o, t, p, ns, fl, x)
  BY <1>1 DEF AllAnswers, AnswerOk, Nowhere
<1>7. AllAnswers(h, o, t, p, ns, fl)
  BY <1>6 DEF AllAnswers
<1>8. QED  BY <1>4, <1>5, <1>7 DEF p

LEMMA IsLookedUp ==
  ASSUME NEW h, NEW o, NEW t \in Seq(Nat), NEW ns, NEW fl, NEW i \in Nat,
         \A x \in DOMAIN h : x \in Nat,
         Ordered(h, o, t, <<>>), Kinds(h, o, t, <<>>, ns), AllAnswers(h, o, t, <<>>, ns, fl),
         Nowhere(h, o, t, <<>>, ns, fl, i)
  PROVE  /\ h[i].to = "numeric" =>
              /\ Ordered(h, o, Append(t, i), <<>>) /\ Kinds(h, o, Append(t, i), <<>>, ns)
              /\ AllAnswers(h, o, Append(t, i), <<>>, ns, fl)
         /\ h[i].to # "numeric" =>
              /\ Kinds(h, o, t, <<>>, ns \cup {i})
              /\ AllAnswers(h, o, t, <<>>, ns \cup {i}, fl)
<1> DEFINE p == Append(t, i)
<1>1. \A y : In(y, p) <=> In(y, t) \/ y = i
  BY AppendIn
<1>2. Fine(h, p)
  <2>1. Fine(h, t)
    BY DEF Ordered
  <2>2. ~In(i, t) /\ \A y \in DOMAIN h : ~Precedes(h, i, y)
    BY DEF Nowhere
  <2>3. QED  BY <2>1, <2>2, AppendIn
<1> HIDE DEF p
<1>3. Before(h, o, p)
  BY <1>1 DEF Ordered, Before, Nowhere
<1>4. Before(h, p, <<>>)
  BY NoneIn DEF Before
<1>5. Ordered(h, o, p, <<>>)
  BY <1>2, <1>3, <1>4 DEF Ordered
<1>6. h[i].to = "numeric" => Kinds(h, o, p, <<>>, ns)
  BY <1>1 DEF Kinds
<1>7. ASSUME NEW x \in DOMAIN h  PROVE AnswerOk(h, o, p, <<>>, ns, fl, x)
  BY <1>1 DEF AllAnswers, AnswerOk, Nowhere
<1>8. AllAnswers(h, o, p, <<>>, ns, fl)
  BY <1>7 DEF AllAnswers
<1>9. h[i].to # "numeric" => Kinds(h, o, t, <<>>, ns \cup {i})
  BY DEF Kinds, Nowhere
<1>10. ASSUME NEW x \in DOMAIN h  PROVE AnswerOk(h, o, t, <<>>, ns \cup {i}, fl, x)
  BY DEF AllAnswers, AnswerOk, Nowhere
<1>11. AllAnswers(h, o, t, <<>>, ns \cup {i}, fl)
  BY <1>10 DEF AllAnswers
<1>12. QED  BY <1>5, <1>6, <1>8, <1>9, <1>11 DEF p

(* bind() and the send() that binds look an address up for TheBind. *)
LEMMA BindIsLookedUp ==
  ASSUME DgramInv, bindState = "UNBOUND", NEW to, LookupOne(TheBind, to)
  PROVE  /\ ticks' \in Seq(Nat) /\ \A y : In(y, ticks') => In(y, ticks) \/ y = TheBind
         /\ names' \subseteq names \cup {TheBind}
         /\ BindOk(ticks', names', "BINDING")
         /\ \A h : Fine(h, ticks) /\ TheBind \notin DOMAIN h
                     /\ (\A x \in DOMAIN h : x \in Nat) => Fine(h, ticks')
<1>1. ticks \in Seq(Nat) /\ TheBind \in Nat
  BY SendsAreNumbers DEF DgramInv, DgramTypes
<1>2. Once(TheBind, ticks) /\ TheBind \notin names /\ ~In(TheBind, ticks)
  BY DEF DgramInv, BindOk
<1>3. CASE ticks' = Append(ticks, TheBind) /\ names' = names
  <2>1. /\ ticks' \in Seq(Nat) /\ Once(TheBind, ticks')
        /\ \A y : In(y, ticks') => In(y, ticks) \/ y = TheBind
    BY <1>1, <1>2, <1>3, AppendIn
  <2>2. \A h : Fine(h, ticks) /\ TheBind \notin DOMAIN h
                 /\ (\A x \in DOMAIN h : x \in Nat) => Fine(h, ticks')
    BY <1>1, <1>3, AppendIn
  <2>3. QED  BY <1>2, <1>3, <2>1, <2>2 DEF BindOk
<1>4. CASE names' = names \cup {TheBind} /\ ticks' = ticks
  BY <1>1, <1>2, <1>4 DEF BindOk
<1>5. QED  BY <1>3, <1>4 DEF LookupOne
(***************************************************************************)
(* The invariant is kept.                                                  *)
(***************************************************************************)
Callbacks == {<<>>, <<"callback">>}

LEMMA SmallLists ==
  /\ <<>> \in Seq({"callback", "flush"})
  /\ <<"callback">> \in Seq({"callback", "flush"})
  /\ <<"flush">> \in Seq({"callback", "flush"})
OBVIOUS

LEMMA ListenersGrow ==
  ASSUME NEW l \in Seq({"callback", "flush"}), NEW m \in Seq({"callback", "flush"})
  PROVE  /\ l \o m \in Seq({"callback", "flush"})
         /\ \A x : In(x, l) \/ In(x, m) => In(x, l \o m)
<1> DEFINE u == l \o m
<1>1. /\ u \in Seq({"callback", "flush"})
      /\ \A a \in DOMAIN l : a \in DOMAIN u /\ u[a] = l[a]
      /\ \A a \in DOMAIN m : a + Len(l) \in DOMAIN u /\ u[a + Len(l)] = m[a]
  OBVIOUS
<1> HIDE DEF u
<1>2. \A x : In(x, l) \/ In(x, m) => In(x, u)
  BY <1>1 DEF In
<1>3. QED  BY <1>1, <1>2 DEF u

LEMMA FlusherFlushes ==
  ASSUME listeners \in Seq({"callback", "flush"})
  PROVE  /\ Flusher \in Seq({"callback", "flush"})
         /\ listeners \o Flusher \in Seq({"callback", "flush"})
         /\ In("flush", listeners \o Flusher)
<1>1. Flusher \in Seq({"callback", "flush"})
  BY SmallLists, Zenon DEF Flusher
<1>2. In("flush", listeners) \/ In("flush", Flusher)
  <2>1. CASE "flush" \in ToSet(listeners)
    BY <2>1 DEF ToSet, In
  <2>2. CASE "flush" \notin ToSet(listeners)
    <3>1. Flusher = <<"flush">>
      BY <2>2 DEF Flusher
    <3>2. 1 \in DOMAIN <<"flush">> /\ <<"flush">>[1] = "flush"
      OBVIOUS
    <3>3. QED  BY <3>1, <3>2 DEF In
  <2>3. QED  BY <2>1, <2>2
<1>3. QED  BY <1>1, <1>2, ListenersGrow

(* The lookup for a bind disturbs no send. *)
LEMMA BindDisturbsNone ==
  ASSUME DgramTypes, bindState = "UNBOUND", DgramInv, NEW to, LookupOne(TheBind, to),
         NEW h, NEW q, TheBind \notin DOMAIN h, \A x \in DOMAIN h : x \in Nat,
         Ordered(h, out, ticks, q), Kinds(h, out, ticks, q, names),
         AllAnswers(h, out, ticks, q, names, flying)
  PROVE  /\ Ordered(h, out, ticks', q) /\ Kinds(h, out, ticks', q, names')
         /\ AllAnswers(h, out, ticks', q, names', flying)
<1>1. Fine(h, ticks')
  BY BindIsLookedUp DEF Ordered
<1>2. /\ \A y \in DOMAIN h : In(y, ticks') => In(y, ticks)
      /\ \A y \in DOMAIN h : y \in names' => y \in names
  BY BindIsLookedUp
<1>3. QED  BY <1>1, <1>2, LessIsKept

LEMMA BindKept ==
  ASSUME DgramInv, NEW to, NEW callback \in Callbacks, Bind(to, callback)
  PROVE  DgramInv'
<1>1. /\ bindState = "UNBOUND" /\ bindState' = "BINDING" /\ LookupOne(TheBind, to)
      /\ listeners' = (listeners \o callback) \o <<>>
      /\ UNCHANGED <<handle, receiving, sendQueue, flying, sends, out, outAtClose>>
  BY DEF Bind, BindTo
<1>2. DgramTypes
  BY DEF DgramInv
<1>3. /\ ticks' \in Seq(Nat) /\ \A y : In(y, ticks') => In(y, ticks) \/ y = TheBind
      /\ names' \subseteq names \cup {TheBind} /\ BindOk(ticks', names', "BINDING")
  BY <1>1, BindIsLookedUp
<1>4. /\ listeners' \in Seq({"callback", "flush"})
      /\ In("flush", listeners) => In("flush", listeners')
  <2>1. callback \in Seq({"callback", "flush"}) /\ listeners \in Seq({"callback", "flush"})
    BY <1>2, SmallLists, Zenon DEF Callbacks, DgramTypes
  <2>2. listeners' = listeners \o callback
    BY <1>1, <2>1
  <2>3. QED  BY <2>1, <2>2, ListenersGrow
<1>5. DgramTypes'
  BY <1>1, <1>2, <1>3, <1>4 DEF DgramTypes, TheBind, TheClose
<1>6. /\ Ordered(sends, out, ticks', sendQueue)
      /\ Kinds(sends, out, ticks', sendQueue, names')
      /\ AllAnswers(sends, out, ticks', sendQueue, names', flying)
  BY <1>1, <1>2, SendsAreNumbers, BindDisturbsNone DEF DgramInv
<1>7. BindOk(ticks', names', bindState')
  BY <1>1, <1>3
<1>8. QueueOk(sendQueue', listeners', handle', bindState')
  BY <1>1, <1>4 DEF DgramInv, QueueOk
<1>9. CloseOk(handle', bindState', receiving', out', outAtClose', ticks')
  BY <1>1, <1>2, <1>3, SendsAreNumbers DEF DgramInv, CloseOk
<1>10. TheBind' = TheBind /\ TheClose' = TheClose
  BY DEF TheBind, TheClose
<1>11. QED  BY <1>1, <1>5, <1>6, <1>7, <1>8, <1>9, <1>10 DEF DgramInv, BindOk, CloseOk

LEMMA SendKept ==
  ASSUME DgramInv, NEW to \in {"numeric", "name"}, Send(to)
  PROVE  DgramInv'
<1> DEFINE r == [to |-> to, inside |-> FALSE, answers |-> <<>>]
<1>1. PICK i : i = Len(sends) + 1
  OBVIOUS
<1>2. PICK g : g = Append(sends, r)
  OBVIOUS
<1>3. /\ handle /\ i <= MaxSends /\ sends' = g
      /\ UNCHANGED <<handle, receiving, flying, out, outAtClose>>
  BY <1>1, <1>2 DEF Send
<1>4. DgramTypes
  BY DEF DgramInv
<1>5. r \in ASend /\ r.answers = <<>> /\ r.to = to
  BY DEF ASend
<1> HIDE DEF r
<1>6. /\ g \in Seq(ASend) /\ Len(g) <= MaxSends /\ DOMAIN g = DOMAIN sends \cup {i}
      /\ g[i] = r /\ \A x \in DOMAIN sends : g[x] = sends[x]
      /\ \A x \in DOMAIN g : x \in Nat
      /\ i \in Nat /\ i \notin DOMAIN sends /\ i # TheBind /\ i # TheClose
      /\ ~In(i, out) /\ ~In(i, ticks) /\ ~In(i, sendQueue)
      /\ i \notin names /\ i \notin flying
      /\ \A x \in DOMAIN g : ~Precedes(g, i, x)
      /\ Ordered(g, out, ticks, sendQueue) /\ Kinds(g, out, ticks, sendQueue, names)
      /\ AllAnswers(g, out, ticks, sendQueue, names, flying)
  <2>1. Len(sends) + 1 <= MaxSends /\ r \in ASend /\ r.answers = <<>>
    BY <1>1, <1>3, <1>5
  <2>2. IsNew(Append(sends, r), Len(sends) + 1, r)
    BY <2>1, SendIsNew
  <2>3. IsNew(g, i, r)
    BY <1>1, <1>2, <2>2
  <2>4. QED  BY <2>3 DEF IsNew
<1>7. g[i].answers = <<>> /\ g[i].to = to
  BY <1>5, <1>6
<1>8. Nowhere(g, out, ticks, sendQueue, names, flying, i)
  BY <1>6, <1>7 DEF Nowhere
<1>9. /\ ticks \in Seq(Nat) /\ sendQueue \in Seq(Nat)
      /\ listeners \in Seq({"callback", "flush"})
  BY <1>4 DEF DgramTypes
<1>10. /\ TheBind' = TheBind /\ TheClose' = TheClose /\ TheBind \notin DOMAIN g
       /\ TheBind # TheClose
  BY <1>4, <1>6, SendsAreNumbers DEF TheBind, TheClose
(* What waits, and that it waits for "listening". *)
<1>11. /\ Append(sendQueue, i) \in Seq(Nat)
       /\ \A y : In(y, Append(sendQueue, i)) => In(y, sendQueue) \/ y = i
       /\ Ordered(g, out, ticks, Append(sendQueue, i))
       /\ Kinds(g, out, ticks, Append(sendQueue, i), names)
       /\ AllAnswers(g, out, ticks, Append(sendQueue, i), names, flying)
  BY <1>6, <1>8, <1>9, AppendIn, WaitsInQueue
<1>12. /\ listeners \o Flusher \in Seq({"callback", "flush"})
       /\ In("flush", listeners \o Flusher)
  BY <1>9, FlusherFlushes
<1>13. CASE /\ bindState = "UNBOUND" /\ BindTo("numeric", <<>>, Flusher)
            /\ sendQueue' = Append(sendQueue, i)
  <2>1. /\ bindState' = "BINDING" /\ LookupOne(TheBind, "numeric")
        /\ listeners' = (listeners \o <<>>) \o Flusher
    BY <1>13 DEF BindTo
  <2>2. listeners' = listeners \o Flusher
    BY <1>9, <2>1
  <2>3. /\ ticks' \in Seq(Nat) /\ \A y : In(y, ticks') => In(y, ticks) \/ y = TheBind
        /\ names' \subseteq names \cup {TheBind} /\ BindOk(ticks', names', "BINDING")
    BY <1>13, <2>1, BindIsLookedUp
  <2>4. DgramTypes'
    BY <1>3, <1>4, <1>6, <1>10, <1>11, <1>12, <1>13, <2>2, <2>3 DEF DgramTypes
  <2>5. /\ Ordered(g, out, ticks', sendQueue') /\ Kinds(g, out, ticks', sendQueue', names')
        /\ AllAnswers(g, out, ticks', sendQueue', names', flying)
    BY <1>4, <1>6, <1>10, <1>11, <1>13, <2>1, BindDisturbsNone
  <2>6. QueueOk(sendQueue', listeners', handle', bindState')
    BY <1>12, <2>1, <2>2 DEF QueueOk
  <2>7. CloseOk(handle', bindState', receiving', out', outAtClose', ticks')
    BY <1>3, <1>10, <1>13, <2>1, <2>3 DEF DgramInv, CloseOk
  <2>8. QED  BY <1>3, <1>10, <2>1, <2>3, <2>4, <2>5, <2>6, <2>7 DEF DgramInv, BindOk, CloseOk
<1>14. CASE /\ bindState = "BINDING" /\ sendQueue' = Append(sendQueue, i)
            /\ listeners' = listeners \o Flusher
            /\ UNCHANGED <<bindState, ticks, names, binds>>
  <2>1. DgramTypes'
    BY <1>3, <1>4, <1>6, <1>10, <1>11, <1>12, <1>14 DEF DgramTypes
  <2>2. QueueOk(sendQueue', listeners', handle', bindState')
    BY <1>12, <1>14 DEF QueueOk
  <2>3. BindOk(ticks', names', bindState')
    BY <1>14 DEF DgramInv, BindOk
  <2>4. CloseOk(handle', bindState', receiving', out', outAtClose', ticks')
    BY <1>3, <1>14 DEF DgramInv, CloseOk
  <2>5. QED  BY <1>3, <1>10, <1>11, <1>14, <2>1, <2>2, <2>3, <2>4 DEF DgramInv, BindOk, CloseOk
<1>15. CASE /\ bindState = "BOUND" /\ LookupOne(i, to)
            /\ UNCHANGED <<bindState, sendQueue, listeners, binds>>
  <2>1. sendQueue = <<>>
    BY <1>3, <1>15 DEF DgramInv, QueueOk
  <2>2. /\ ticks' \in Seq(Nat) /\ \A y : In(y, ticks') => In(y, ticks) \/ y = i
        /\ names' \subseteq names \cup {i} /\ Once(TheBind, ticks')
    <3>1. Once(TheBind, ticks)
      BY DEF DgramInv, BindOk
    <3>2. CASE ticks' = Append(ticks, i) /\ names' = names
      BY <1>6, <1>9, <3>1, <3>2, AppendIn
    <3>3. CASE ticks' = ticks /\ names' = names \cup {i}
      BY <1>9, <3>1, <3>3
    <3>4. QED  BY <1>15, <3>2, <3>3 DEF LookupOne
  <2>3. DgramTypes'
    BY <1>3, <1>4, <1>6, <1>10, <1>15, <2>2 DEF DgramTypes
  <2>4. /\ Ordered(g, out, ticks, <<>>) /\ Kinds(g, out, ticks, <<>>, names)
        /\ AllAnswers(g, out, ticks, <<>>, names, flying)
        /\ Nowhere(g, out, ticks, <<>>, names, flying, i)
    BY <1>6, <1>8, <2>1
  <2>5. /\ Ordered(g, out, ticks', sendQueue') /\ Kinds(g, out, ticks', sendQueue', names')
        /\ AllAnswers(g, out, ticks', sendQueue', names', flying)
    <3>1. CASE to = "numeric"
      <4>1. ticks' = Append(ticks, i) /\ names' = names /\ sendQueue' = <<>>
        BY <1>15, <2>1, <3>1 DEF LookupOne
      <4>2. g[i].to = "numeric"
        BY <1>7, <3>1
      <4>3. QED  BY <1>6, <1>9, <2>4, <4>1, <4>2, IsLookedUp
    <3>2. CASE to # "numeric"
      <4>1. ticks' = ticks /\ names' = names \cup {i} /\ sendQueue' = <<>>
        BY <1>15, <2>1, <3>2 DEF LookupOne
      <4>2. g[i].to # "numeric"
        BY <1>7, <3>2
      <4>3. QED  BY <1>6, <1>9, <2>4, <4>1, <4>2, IsLookedUp
    <3>3. QED  BY <3>1, <3>2
  <2>6. QueueOk(sendQueue', listeners', handle', bindState')
    BY <1>15, <2>1 DEF QueueOk
  <2>7. BindOk(ticks', names', bindState')
    BY <1>6, <1>15, <2>2 DEF DgramInv, BindOk
  <2>8. CloseOk(handle', bindState', receiving', out', outAtClose', ticks')
    BY <1>3, <1>6, <1>15, <2>2 DEF DgramInv, CloseOk
  <2>9. QED  BY <1>3, <1>10, <2>3, <2>5, <2>6, <2>7, <2>8 DEF DgramInv, BindOk, CloseOk
<1>16. QED  BY <1>1, <1>13, <1>14, <1>15 DEF Send

LEMMA CloseKept ==
  ASSUME DgramInv, Close
  PROVE  DgramInv'
<1>1. /\ handle' = FALSE /\ receiving' = FALSE /\ outAtClose' = Len(out)
      /\ ticks' = Append(ticks, TheClose)
      /\ UNCHANGED <<bindState, sendQueue, listeners, names, flying, sends, out>>
  BY DEF Close
<1>2. DgramTypes /\ TheClose' = TheClose /\ TheBind' = TheBind
  BY DEF DgramInv, TheClose, TheBind
<1>3. /\ TheBind \in Nat /\ TheClose \in Nat /\ TheBind # TheClose
      /\ TheClose \notin DOMAIN sends /\ \A x \in DOMAIN sends : x \in Nat
  BY <1>2, SendsAreNumbers
<1>4. /\ ticks' \in Seq(Nat) /\ \A y : In(y, ticks') <=> In(y, ticks) \/ y = TheClose
      /\ Once(TheBind, ticks) => Once(TheBind, ticks')
      /\ Fine(sends, ticks) => Fine(sends, ticks')
  <2>1. ticks \in Seq(Nat)
    BY <1>2 DEF DgramTypes
  <2>2. QED  BY <1>1, <1>3, <2>1, AppendIn
<1>5. DgramTypes'
  BY <1>1, <1>2, <1>4 DEF DgramTypes
<1>6. /\ Ordered(sends, out, ticks', sendQueue)
      /\ Kinds(sends, out, ticks', sendQueue, names)
      /\ AllAnswers(sends, out, ticks', sendQueue, names, flying)
  <2>1. \A y \in DOMAIN sends : In(y, ticks') => In(y, ticks)
    BY <1>3, <1>4
  <2>2. /\ Ordered(sends, out, ticks, sendQueue)
        /\ Kinds(sends, out, ticks, sendQueue, names)
        /\ AllAnswers(sends, out, ticks, sendQueue, names, flying)
    BY DEF DgramInv
  <2>3. Fine(sends, ticks')
    BY <1>4, <2>2 DEF Ordered
  <2>4. QED  BY <2>1, <2>2, <2>3, LessIsKept
<1>7. BindOk(ticks', names', bindState')
  BY <1>1, <1>3, <1>4 DEF DgramInv, BindOk
<1>8. QueueOk(sendQueue', listeners', handle', bindState')
  BY <1>1 DEF QueueOk
<1>9. CloseOk(handle', bindState', receiving', out', outAtClose', ticks')
  BY <1>1 DEF CloseOk
<1>10. QED  BY <1>1, <1>2, <1>5, <1>6, <1>7, <1>8, <1>9 DEF DgramInv, BindOk, CloseOk
(* A lookup that is answered leaves the rest as it was. *)
LEMMA AnsweredKept ==
  ASSUME DgramInv, NEW x, Answered(x)
  PROVE  /\ Ordered(sends, out, ticks', sendQueue)
         /\ Kinds(sends, out, ticks', sendQueue, names')
         /\ AllAnswers(sends, out, ticks', sendQueue, names', flying)
         /\ BindOk(ticks', names', bindState)
         /\ In(TheClose, ticks') => In(TheClose, ticks)
         /\ ticks' \in Seq(Nat) /\ names' \subseteq names
         /\ \A y : In(y, ticks') => In(y, ticks)
<1>1. DgramTypes
  BY DEF DgramInv
<1>2. /\ ticks' \in Seq(Nat) /\ names' \subseteq names
      /\ \A y : In(y, ticks') => In(y, ticks)
      /\ \A y : Once(y, ticks) => Once(y, ticks')
      /\ \A h : Fine(h, ticks) => Fine(h, ticks')
  BY <1>1, AnsweredFacts
<1>3. /\ Ordered(sends, out, ticks', sendQueue)
      /\ Kinds(sends, out, ticks', sendQueue, names')
      /\ AllAnswers(sends, out, ticks', sendQueue, names', flying)
  <2>1. /\ Ordered(sends, out, ticks, sendQueue)
        /\ Kinds(sends, out, ticks, sendQueue, names)
        /\ AllAnswers(sends, out, ticks, sendQueue, names, flying)
    BY DEF DgramInv
  <2>2. Fine(sends, ticks')
    BY <1>2, <2>1 DEF Ordered
  <2>3. QED  BY <1>2, <2>1, <2>2, LessIsKept
<1>4. BindOk(ticks', names', bindState)
  BY <1>2 DEF DgramInv, BindOk
<1>5. QED  BY <1>2, <1>3, <1>4

LEMMA TooLateKept ==
  ASSUME DgramInv, NEW x, Answered(x),
         UNCHANGED <<handle, bindState, receiving, sendQueue, listeners, flying, sends,
                     out, outAtClose>>
  PROVE  DgramInv'
<1>1. TheBind' = TheBind /\ TheClose' = TheClose
  BY DEF TheBind, TheClose
<1>2. DgramTypes'
  <2>1. DgramTypes
    BY DEF DgramInv
  <2>2. ticks' \in Seq(Nat) /\ names' \subseteq names /\ \A y : In(y, ticks') => In(y, ticks)
    BY AnsweredKept
  <2>3. QED  BY <1>1, <2>1, <2>2 DEF DgramTypes
<1>3. /\ Ordered(sends, out, ticks, sendQueue)'
      /\ Kinds(sends, out, ticks, sendQueue, names)'
      /\ AllAnswers(sends, out, ticks, sendQueue, names, flying)'
      /\ BindOk(ticks, names, bindState)'
  BY <1>1, AnsweredKept DEF BindOk
<1>4. QueueOk(sendQueue, listeners, handle, bindState)'
  BY DEF DgramInv, QueueOk
<1>5. CloseOk(handle, bindState, receiving, out, outAtClose, ticks)'
  BY <1>1, AnsweredKept DEF DgramInv, CloseOk
<1>6. QED  BY <1>2, <1>3, <1>4, <1>5 DEF DgramInv

LEMMA BindFailsKept ==
  ASSUME DgramInv, BindFails
  PROVE  DgramInv'
<1>1. /\ Answered(TheBind) /\ bindState' = "UNBOUND"
      /\ UNCHANGED <<handle, receiving, sendQueue, listeners, flying, sends, out,
                     outAtClose>>
  BY DEF BindFails
<1>2. TheBind' = TheBind /\ TheClose' = TheClose
  BY DEF TheBind, TheClose
<1>3. DgramTypes
  BY DEF DgramInv
<1>4. /\ ticks' \in Seq(Nat) /\ names' \subseteq names
      /\ \A y : In(y, ticks') => In(y, ticks)
      /\ In(TheBind, ticks) \/ TheBind \in names
      /\ ~In(TheBind, ticks') /\ TheBind \notin names'
      /\ Once(TheBind, ticks')
  <2>1. Once(TheBind, ticks) /\ ~(In(TheBind, ticks) /\ TheBind \in names)
    BY DEF DgramInv, BindOk
  <2>2. QED  BY <1>1, <1>3, <2>1, AnsweredFacts
<1>5. bindState = "BINDING"
  BY <1>4 DEF DgramInv, BindOk
<1>6. DgramTypes'
  BY <1>1, <1>2, <1>3, <1>4 DEF DgramTypes
<1>7. /\ Ordered(sends, out, ticks, sendQueue)'
      /\ Kinds(sends, out, ticks, sendQueue, names)'
      /\ AllAnswers(sends, out, ticks, sendQueue, names, flying)'
  BY <1>1, AnsweredKept
<1>8. BindOk(ticks, names, bindState)'
  BY <1>2, <1>4 DEF BindOk
<1>9. QueueOk(sendQueue, listeners, handle, bindState)'
  BY <1>1 DEF DgramInv, QueueOk
<1>10. CloseOk(handle, bindState, receiving, out, outAtClose, ticks)'
  BY <1>1, <1>2, <1>4, <1>5 DEF DgramInv, CloseOk
<1>11. QED  BY <1>6, <1>7, <1>8, <1>9, <1>10 DEF DgramInv

LEMMA AfterCloseKept ==
  ASSUME DgramInv, AfterClose
  PROVE  DgramInv'
<1>1. /\ ticks # <<>> /\ Head(ticks) = TheClose /\ ticks' = Tail(ticks)
      /\ listeners' = <<>>
      /\ UNCHANGED <<handle, bindState, receiving, sendQueue, names, flying, sends, out,
                     outAtClose>>
  BY DEF AfterClose
<1>2. Answered(TheClose)
  BY <1>1 DEF Answered, TickAnswers
<1>3. DgramTypes /\ TheBind' = TheBind /\ TheClose' = TheClose
  BY DEF DgramInv, TheBind, TheClose
<1>4. ticks' \in Seq(Nat) /\ \A y : In(y, ticks') => In(y, ticks)
  BY <1>2, AnsweredKept
<1>5. In(TheClose, ticks)
  <2>1. ticks \in Seq(Nat)
    BY <1>3 DEF DgramTypes
  <2>2. QED  BY <1>1, <2>1, TailIn
<1>6. ~handle
  BY <1>5 DEF DgramInv, CloseOk
<1>7. DgramTypes'
  BY <1>1, <1>3, <1>4, SmallLists DEF DgramTypes
<1>8. /\ Ordered(sends, out, ticks, sendQueue)'
      /\ Kinds(sends, out, ticks, sendQueue, names)'
      /\ AllAnswers(sends, out, ticks, sendQueue, names, flying)'
  BY <1>1, <1>2, AnsweredKept
<1>9. BindOk(ticks, names, bindState)'
  BY <1>1, <1>2, <1>3, AnsweredKept DEF BindOk
<1>10. QueueOk(sendQueue, listeners, handle, bindState)'
  BY <1>1, <1>6 DEF QueueOk
<1>11. CloseOk(handle, bindState, receiving, out, outAtClose, ticks)'
  BY <1>1, <1>6 DEF DgramInv, CloseOk
<1>12. QED  BY <1>7, <1>8, <1>9, <1>10, <1>11 DEF DgramInv

(* A send whose lookup is under way has not left, and does not wait. *)
LEMMA LookedUpIsNew ==
  ASSUME DgramInv, NEW i \in SendId, Answered(i)
  PROVE  /\ i \in DOMAIN sends /\ i \in Nat
         /\ ~In(i, out) /\ ~In(i, sendQueue) /\ i \notin flying
         /\ ~In(i, ticks') /\ i \notin names' /\ sends[i].answers = <<>>
         /\ \A y \in DOMAIN sends : In(y, out) => ~Precedes(sends, i, y)
         /\ \A y \in DOMAIN sends : In(y, sendQueue) => ~Precedes(sends, y, i)
         /\ \A y \in DOMAIN sends : In(y, ticks') => ~Precedes(sends, y, i)
<1>1. DgramTypes /\ MaxSends \in Nat
  BY DgramAssumption DEF DgramInv
<1>2. i # TheBind /\ i # TheClose /\ i \in Nat
  BY <1>1 DEF SendId, TheBind, TheClose
<1>3. /\ In(i, ticks) \/ i \in names
      /\ Once(i, ticks) /\ ~(In(i, ticks) /\ i \in names) => ~In(i, ticks') /\ i \notin names'
      /\ \A y : In(y, ticks') => In(y, ticks)
  BY <1>1, AnsweredFacts
<1>4. i \in DOMAIN sends
  BY <1>1, <1>2, <1>3 DEF DgramTypes
<1>5. /\ Ordered(sends, out, ticks, sendQueue)
      /\ Kinds(sends, out, ticks, sendQueue, names)
      /\ AllAnswers(sends, out, ticks, sendQueue, names, flying)
  BY DEF DgramInv
<1>6. ~In(i, out) /\ ~In(i, sendQueue)
  BY <1>3, <1>4, <1>5 DEF Ordered, Before, Kinds
<1>7. i \notin flying
  BY <1>5, <1>6 DEF AllAnswers
<1>8. ~In(i, ticks') /\ i \notin names'
  BY <1>3, <1>4, <1>5 DEF Ordered, Fine, Kinds
<1>9. AnswerOk(sends, out, ticks, sendQueue, names, flying, i)
  BY <1>4, <1>5 DEF AllAnswers
<1>10. sends[i].answers = <<>>
  BY <1>3, <1>9 DEF AnswerOk
<1>11. CASE i \in names
  <2>1. sends[i].to # "numeric"
    BY <1>4, <1>5, <1>11 DEF Kinds
  <2>2. QED  BY <1>2, <1>4, <1>6, <1>7, <1>8, <1>10, <2>1 DEF Precedes
<1>12. CASE i \notin names
  <2>1. In(i, ticks) /\ ticks # <<>> /\ Head(ticks) = i /\ ticks' = Tail(ticks)
    BY <1>3, <1>12 DEF Answered, TickAnswers, NameAnswers
  <2>2. /\ \A y \in DOMAIN sends : In(y, out) => ~Precedes(sends, i, y)
        /\ \A y \in DOMAIN sends : In(y, sendQueue) => ~Precedes(sends, y, i)
    BY <1>4, <1>5, <2>1 DEF Ordered, Before
  <2>3. ASSUME NEW y \in DOMAIN sends, In(y, ticks')  PROVE ~Precedes(sends, y, i)
    <3>1. /\ 1 \in DOMAIN ticks /\ ticks[1] = i
          /\ \A a \in DOMAIN ticks : a \in Nat /\ a >= 1
      BY <1>1, <2>1 DEF DgramTypes
    <3>2. PICK a \in DOMAIN ticks : ticks[a] = y
      BY <1>3, <2>3 DEF In
    <3>3. Precedes(sends, y, i) => a < 1
      BY <1>4, <1>5, <3>1, <3>2 DEF Ordered, Fine
    <3>4. QED  BY <3>1, <3>2, <3>3
  <2>4. QED  BY <1>2, <1>4, <1>6, <1>7, <1>8, <1>10, <2>2, <2>3
<1>13. QED  BY <1>11, <1>12

LEMMA SendFailsKept ==
  ASSUME DgramInv, NEW i \in SendId, SendFails(i)
  PROVE  DgramInv'
<1>1. /\ Answered(i) /\ sends' = [sends EXCEPT ![i].answers = Append(@, "error")]
      /\ UNCHANGED <<handle, bindState, receiving, sendQueue, listeners, flying, out,
                     outAtClose>>
  BY DEF SendFails, Call
<1>2. /\ i \in DOMAIN sends /\ ~In(i, out) /\ ~In(i, sendQueue) /\ i \notin flying
      /\ ~In(i, ticks') /\ i \notin names' /\ sends[i].answers = <<>>
  BY <1>1, LookedUpIsNew
<1>3. DgramTypes /\ TheBind' = TheBind /\ TheClose' = TheClose /\ sends \in Seq(ASend)
  BY DEF DgramInv, DgramTypes, TheBind, TheClose
<1>4. /\ Ordered(sends, out, ticks', sendQueue)
      /\ Kinds(sends, out, ticks', sendQueue, names')
      /\ AllAnswers(sends, out, ticks', sendQueue, names', flying)
      /\ BindOk(ticks', names', bindState)
      /\ In(TheClose, ticks') => In(TheClose, ticks)
      /\ ticks' \in Seq(Nat) /\ names' \subseteq names
      /\ \A y : In(y, ticks') => In(y, ticks)
  BY <1>1, AnsweredKept
<1>5. PICK g : g = Answering(sends, i, "error")
  OBVIOUS
<1>6. /\ g \in Seq(ASend) /\ Len(g) = Len(sends) /\ DOMAIN g = DOMAIN sends
      /\ Ordered(g, out, ticks', sendQueue)
      /\ Kinds(g, out, ticks', sendQueue, names')
      /\ AllAnswers(g, out, ticks', sendQueue, names', flying)
  <2>1. "error" \in {"error", "sent"} /\ "error" # "sent"
    OBVIOUS
  <2>2. QED  BY <1>2, <1>3, <1>4, <1>5, <2>1, AnswerIsKept
<1>7. sends' = g
  BY <1>1, <1>5 DEF Answering
<1>8. DgramTypes'
  BY <1>1, <1>3, <1>4, <1>6, <1>7 DEF DgramTypes
<1>9. BindOk(ticks, names, bindState)'
  BY <1>1, <1>3, <1>4 DEF BindOk
<1>10. QueueOk(sendQueue, listeners, handle, bindState)'
  BY <1>1 DEF DgramInv, QueueOk
<1>11. CloseOk(handle, bindState, receiving, out, outAtClose, ticks)'
  BY <1>1, <1>3, <1>4 DEF DgramInv, CloseOk
<1>12. QED  BY <1>1, <1>6, <1>7, <1>8, <1>9, <1>10, <1>11 DEF DgramInv

LEMMA AfterSendKept ==
  ASSUME DgramInv, NEW i \in SendId, AfterSend(i)
  PROVE  DgramInv'
<1>1. /\ i \in flying /\ flying' = flying \ {i}
      /\ sends' = [sends EXCEPT ![i].answers = Append(@, "sent")]
      /\ UNCHANGED <<handle, bindState, receiving, sendQueue, listeners, ticks, names,
                     out, outAtClose>>
  BY DEF AfterSend, Call
<1>2. DgramTypes /\ TheBind' = TheBind /\ TheClose' = TheClose /\ sends \in Seq(ASend)
  BY DEF DgramInv, DgramTypes, TheBind, TheClose
<1>3. /\ Ordered(sends, out, ticks, sendQueue)
      /\ Kinds(sends, out, ticks, sendQueue, names)
      /\ AllAnswers(sends, out, ticks, sendQueue, names, flying)
  BY DEF DgramInv
<1>4. i \in DOMAIN sends /\ In(i, out)
  BY <1>1, <1>2, <1>3 DEF DgramTypes, AllAnswers
<1>5. ~In(i, ticks) /\ ~In(i, sendQueue) /\ i \notin names
  BY <1>3, <1>4 DEF Ordered, Before, Kinds
<1>6. sends[i].answers = <<>>
  BY <1>1, <1>3, <1>4 DEF AllAnswers, AnswerOk
<1>7. PICK fl : fl = flying \ {i}
  OBVIOUS
<1>8. AllAnswers(sends, out, ticks, sendQueue, names, fl)
  <2>1. ASSUME NEW x \in DOMAIN sends
        PROVE  AnswerOk(sends, out, ticks, sendQueue, names, fl, x)
    BY <1>3, <1>7 DEF AllAnswers, AnswerOk
  <2>2. QED  BY <1>3, <1>7, <2>1 DEF AllAnswers
<1>9. PICK g : g = Answering(sends, i, "sent")
  OBVIOUS
<1>10. /\ g \in Seq(ASend) /\ Len(g) = Len(sends) /\ DOMAIN g = DOMAIN sends
       /\ Ordered(g, out, ticks, sendQueue)
       /\ Kinds(g, out, ticks, sendQueue, names)
       /\ AllAnswers(g, out, ticks, sendQueue, names, fl)
  <2>1. i \notin fl
    BY <1>7
  <2>2. QED  BY <1>2, <1>3, <1>4, <1>5, <1>6, <1>8, <1>9, <2>1, AnswerIsKept
<1>11. sends' = g /\ flying' = fl
  BY <1>1, <1>7, <1>9 DEF Answering
<1>12. DgramTypes'
  BY <1>1, <1>2, <1>7, <1>10, <1>11 DEF DgramTypes
<1>13. BindOk(ticks, names, bindState)'
  BY <1>1, <1>2 DEF DgramInv, BindOk
<1>14. QueueOk(sendQueue, listeners, handle, bindState)'
  BY <1>1 DEF DgramInv, QueueOk
<1>15. CloseOk(handle, bindState, receiving, out, outAtClose, ticks)'
  BY <1>1, <1>2 DEF DgramInv, CloseOk
<1>16. QED  BY <1>1, <1>10, <1>11, <1>12, <1>13, <1>14, <1>15 DEF DgramInv

LEMMA SendGoesKept ==
  ASSUME DgramInv, NEW i \in SendId, SendGoes(i)
  PROVE  DgramInv'
<1>1. /\ handle /\ Answered(i) /\ out' = Append(out, i) /\ flying' = flying \cup {i}
      /\ UNCHANGED <<handle, bindState, receiving, sendQueue, listeners, sends,
                     outAtClose>>
  BY DEF SendGoes
<1>2. /\ i \in DOMAIN sends /\ i \in Nat
      /\ ~In(i, out) /\ ~In(i, sendQueue) /\ i \notin flying
      /\ ~In(i, ticks') /\ i \notin names' /\ sends[i].answers = <<>>
      /\ \A y \in DOMAIN sends : In(y, out) => ~Precedes(sends, i, y)
      /\ \A y \in DOMAIN sends : In(y, sendQueue) => ~Precedes(sends, y, i)
      /\ \A y \in DOMAIN sends : In(y, ticks') => ~Precedes(sends, y, i)
  BY <1>1, LookedUpIsNew
<1>3. DgramTypes /\ TheBind' = TheBind /\ TheClose' = TheClose
  BY DEF DgramInv, TheBind, TheClose
<1>4. /\ Ordered(sends, out, ticks', sendQueue)
      /\ Kinds(sends, out, ticks', sendQueue, names')
      /\ AllAnswers(sends, out, ticks', sendQueue, names', flying)
      /\ BindOk(ticks', names', bindState)
      /\ In(TheClose, ticks') => In(TheClose, ticks)
      /\ ticks' \in Seq(Nat) /\ names' \subseteq names
      /\ \A y : In(y, ticks') => In(y, ticks)
  BY <1>1, AnsweredKept
<1>5. /\ out' \in Seq(Nat) /\ \A y : In(y, out') <=> In(y, out) \/ y = i
      /\ Fine(sends, out')
  <2>1. out \in Seq(Nat) /\ Fine(sends, out) /\ \A x \in DOMAIN sends : x \in Nat
    BY <1>3, <1>4, SendsAreNumbers DEF DgramTypes, Ordered
  <2>2. QED  BY <1>1, <1>2, <2>1, AppendIn
<1>6. DgramTypes'
  BY <1>1, <1>2, <1>3, <1>4, <1>5 DEF DgramTypes
<1>7. Before(sends, out', ticks') /\ Before(sends, out', sendQueue)
  BY <1>2, <1>4, <1>5 DEF Ordered, Before
<1>8. Ordered(sends, out', ticks', sendQueue)
  BY <1>4, <1>5, <1>7 DEF Ordered
<1>9. Kinds(sends, out', ticks', sendQueue, names')
  BY <1>2, <1>4, <1>5 DEF Kinds
<1>10. ASSUME NEW x \in DOMAIN sends
       PROVE  AnswerOk(sends, out', ticks', sendQueue, names', flying', x)
  <2>1. AnswerOk(sends, out, ticks', sendQueue, names', flying, x)
    BY <1>4 DEF AllAnswers
  <2>2. CASE x = i
    <3>1. <<>> # <<"sent">> /\ <<>> # <<"error">>
      OBVIOUS
    <3>2. QED  BY <1>2, <2>2, <3>1 DEF AnswerOk
  <2>3. CASE x # i
    BY <1>1, <1>5, <2>1, <2>3 DEF AnswerOk
  <2>4. QED  BY <2>2, <2>3
<1>11. AllAnswers(sends, out', ticks', sendQueue, names', flying')
  BY <1>1, <1>4, <1>5, <1>10 DEF AllAnswers
<1>12. BindOk(ticks, names, bindState)'
  BY <1>1, <1>3, <1>4 DEF BindOk
<1>13. QueueOk(sendQueue, listeners, handle, bindState)'
  BY <1>1 DEF DgramInv, QueueOk
<1>14. CloseOk(handle, bindState, receiving, out, outAtClose, ticks)'
  BY <1>1, <1>3, <1>4 DEF DgramInv, CloseOk
<1>15. QED  BY <1>1, <1>6, <1>8, <1>9, <1>11, <1>12, <1>13, <1>14 DEF DgramInv
(* SelectInSeq() finds what there is. *)
LEMMA FirstIsThere ==
  ASSUME NEW T \in SUBSET Nat, T # {}
  PROVE  Min(T) \in T
<1>1. \E x \in T : \A y \in T : x <= y
  BY NatHasMin
<1>2. QED  BY <1>1 DEF Min

LEMMA FlushFound ==
  ASSUME listeners \in Seq({"callback", "flush"}), NEW f,
         f = SelectInSeq(listeners, LAMBDA x : x = "flush")
  PROVE  f \in Nat /\ (f # 0 <=> In("flush", listeners))
<1> DEFINE T == {a \in 1..Len(listeners) : listeners[a] = "flush"}
<1>1. f = IF T # {} THEN Min(T) ELSE 0
  BY DEF SelectInSeq
<1>2. T \in SUBSET Nat /\ 0 \notin T /\ (T # {} <=> In("flush", listeners))
  BY DEF In
<1> HIDE DEF T
<1>3. QED  BY <1>1, <1>2, FirstIsThere

LEMMA PlaceFound ==
  ASSUME out \in Seq(Nat), NEW i
  PROVE  IF In(i, out) THEN Place(i) \in DOMAIN out /\ out[Place(i)] = i /\ Place(i) # 0
                       ELSE Place(i) = 0
<1> DEFINE T == {a \in 1..Len(out) : out[a] = i}
<1>1. Place(i) = IF T # {} THEN Min(T) ELSE 0
  BY DEF Place, SelectInSeq
<1>2. T \in SUBSET Nat /\ 0 \notin T /\ (T # {} <=> In(i, out))
      /\ \A a \in T : a \in DOMAIN out /\ out[a] = i
  BY DEF In
<1> HIDE DEF T
<1>3. QED  BY <1>1, <1>2, FirstIsThere

(* What a "listening" listener sends: nothing, or one datagram that may    *)
(* overtake what waits, and that nothing has to wait for.                  *)
Sends(g, m) ==
  /\ m \in Seq(Nat) /\ Fine(g, m)
  /\ \A x : In(x, m) =>
       /\ x \in DOMAIN g /\ g[x].answers = <<>> /\ g[x].inside
       /\ ~In(x, out) /\ ~In(x, ticks) /\ ~In(x, sendQueue) /\ x \notin names
       /\ \A y \in DOMAIN g : ~Precedes(g, x, y)

LEMMA ListenerSends ==
  ASSUME DgramInv, NEW does, does = "send" => Len(sends) < MaxSends, NEW g,
         g = IF does = "send"
             THEN Append(sends, [to |-> "numeric", inside |-> TRUE, answers |-> <<>>])
             ELSE sends,
         NEW m, m = IF does = "send" THEN <<Len(sends) + 1>> ELSE <<>>
  PROVE  /\ g \in Seq(ASend) /\ Len(g) <= MaxSends /\ DOMAIN sends \subseteq DOMAIN g
         /\ Sends(g, m) /\ TheBind \notin DOMAIN g /\ TheClose \notin DOMAIN g
         /\ \A x \in DOMAIN g : x \in Nat
         /\ Ordered(g, out, ticks, sendQueue) /\ Kinds(g, out, ticks, sendQueue, names)
         /\ AllAnswers(g, out, ticks, sendQueue, names, flying)
<1>1. DgramTypes
  BY DEF DgramInv
<1>2. CASE does # "send"
  <2>1. g = sends /\ m = <<>>
    BY <1>2
  <2>2. Sends(g, m)
    BY <2>1, NoneIn DEF Sends
  <2>3. QED  BY <1>1, <2>1, <2>2, SendsAreNumbers DEF DgramInv, DgramTypes
<1>3. CASE does = "send"
  <2> DEFINE r == [to |-> "numeric", inside |-> TRUE, answers |-> <<>>]
  <2>1. r \in ASend /\ r.answers = <<>> /\ r.inside
    BY DEF ASend
  <2> HIDE DEF r
  <2>2. PICK i : i = Len(sends) + 1
    OBVIOUS
  <2>3. g = Append(sends, r) /\ m = <<i>>
    BY <1>3, <2>2 DEF r
  <2>4. IsNew(g, i, r)
    <3>1. Len(sends) + 1 <= MaxSends
      BY <1>1, <1>3, SendsAreNumbers, DgramAssumption
    <3>2. IsNew(Append(sends, r), Len(sends) + 1, r)
      BY <2>1, <3>1, SendIsNew
    <3>3. QED  BY <2>2, <2>3, <3>2
  <2>5. i \in Nat /\ (\A x \in DOMAIN g : x \in Nat)
    BY <2>4 DEF IsNew
  <2>6. m \in Seq(Nat) /\ Fine(g, m) /\ \A x : In(x, m) <=> x = i
    BY <2>3, <2>5, OneIn
  <2>7. Sends(g, m)
    BY <2>1, <2>4, <2>6 DEF Sends, IsNew
  <2>8. TheBind \notin DOMAIN sends /\ TheClose \notin DOMAIN sends
    BY <1>1, SendsAreNumbers
  <2>9. QED  BY <2>4, <2>7, <2>8 DEF IsNew
<1>4. QED  BY <1>2, <1>3

(* What waited and what a listener sends leave together, either first. *)
LEMMA SentTogether ==
  ASSUME DgramTypes, NEW g, NEW m, Sends(g, m), Ordered(g, out, ticks, sendQueue),
         \A x \in DOMAIN g : x \in Nat,
         NEW q, q = <<>> \/ q = sendQueue, NEW s, s = m \o q \/ s = q \o m
  PROVE  /\ s \in Seq(Nat) /\ \A x : In(x, s) => In(x, q) \/ In(x, m)
         /\ Fine(g, s) /\ Before(g, out, s) /\ Before(g, ticks, s)
<1>1. /\ q \in Seq(Nat) /\ Fine(g, q) /\ \A x : In(x, q) => In(x, sendQueue)
      /\ Before(g, out, q) /\ Before(g, ticks, q)
  <2>1. sendQueue \in Seq(Nat)
    BY DEF DgramTypes
  <2>2. Before(g, out, <<>>) /\ Before(g, ticks, <<>>)
    BY NoneIn DEF Before
  <2>3. QED  BY <2>1, <2>2, NoneIn DEF Ordered
<1>2. m \in Seq(Nat) /\ Fine(g, m)
  BY DEF Sends
<1>3. Before(g, m, q)
  BY <1>1 DEF Before, Sends, Precedes
<1>4. Before(g, q, m)
  BY <1>1 DEF Before, Sends
<1>5. s \in Seq(Nat) /\ Fine(g, s) /\ \A x : In(x, s) <=> In(x, q) \/ In(x, m)
  <2>1. /\ q \o m \in Seq(Nat) /\ Fine(g, q \o m)
        /\ \A x : In(x, q \o m) <=> In(x, q) \/ In(x, m)
    BY <1>1, <1>2, <1>4, ConcatIn
  <2>2. /\ m \o q \in Seq(Nat) /\ Fine(g, m \o q)
        /\ \A x : In(x, m \o q) <=> In(x, m) \/ In(x, q)
    BY <1>1, <1>2, <1>3, ConcatIn
  <2>3. CASE s = q \o m
    BY <2>1, <2>3
  <2>4. CASE s = m \o q
    BY <2>2, <2>4
  <2>5. QED  BY <2>3, <2>4
<1>6. Before(g, out, m) /\ Before(g, ticks, m)
  BY DEF Before, Sends
<1>7. Before(g, out, s) /\ Before(g, ticks, s)
  BY <1>1, <1>5, <1>6 DEF Before
<1>8. QED  BY <1>5, <1>7

(* The ticks without the one of the bind. *)
LEMMA BindIsAnswered ==
  ASSUME DgramInv, Pends(TheBind), NEW t,
         t = IF ticks # <<>> /\ Head(ticks) = TheBind THEN Tail(ticks) ELSE ticks
  PROVE  /\ t \in Seq(Nat) /\ \A y : In(y, t) => In(y, ticks)
         /\ \A h : Fine(h, ticks) => Fine(h, t)
         /\ ~In(TheBind, t)
<1>1. ticks \in Seq(Nat)
  BY DEF DgramInv, DgramTypes
<1>2. Once(TheBind, ticks) /\ ~(TheBind \in names /\ In(TheBind, ticks))
  BY DEF DgramInv, BindOk
<1>3. CASE ticks # <<>> /\ Head(ticks) = TheBind
  BY <1>1, <1>2, <1>3, TailIn
<1>4. CASE ~(ticks # <<>> /\ Head(ticks) = TheBind)
  BY <1>1, <1>2, <1>4 DEF Pends
<1>5. QED  BY <1>3, <1>4

(* At most the tick of a close. *)
Closing(c, dead) == c = <<>> \/ (dead /\ c = <<TheClose>>)

LEMMA ClosingIn ==
  ASSUME DgramTypes, NEW c, NEW dead, Closing(c, dead), NEW g, TheClose \notin DOMAIN g,
         \A x \in DOMAIN g : x \in Nat
  PROVE  /\ c \in Seq(Nat) /\ Fine(g, c) /\ \A x : In(x, c) => x = TheClose /\ dead
         /\ \A s : Before(g, s, c) /\ Before(g, c, s)
<1>1. TheClose \in Nat
  BY SendsAreNumbers
<1>2. c \in Seq(Nat) /\ Fine(g, c) /\ \A x : In(x, c) => x = TheClose /\ dead
  <2>1. CASE c = <<>>
    BY <2>1, NoneIn
  <2>2. CASE dead /\ c = <<TheClose>>
    <3>1. /\ <<TheClose>> \in Seq(Nat) /\ \A y : In(y, <<TheClose>>) <=> y = TheClose
          /\ Fine(g, <<TheClose>>)
      BY <1>1, OneIn
    <3>2. QED  BY <2>2, <3>1
  <2>3. QED  BY <2>1, <2>2 DEF Closing
<1>3. QED  BY <1>2 DEF Before

(* The ticks after "listening". *)
LEMMA TicksInOrder ==
  ASSUME DgramTypes, NEW dead, NEW g, TheClose \notin DOMAIN g, \A x \in DOMAIN g : x \in Nat,
         NEW t \in Seq(Nat), NEW c, Closing(c, dead), NEW n \in Seq(Nat),
         NEW d, Closing(d, dead), Fine(g, t), Fine(g, n), Before(g, t, n)
  PROVE  LET u == t \o c \o n \o d
         IN  /\ u \in Seq(Nat) /\ Fine(g, u)
             /\ \A x : In(x, u) => In(x, t) \/ In(x, n) \/ (x = TheClose /\ dead)
<1>1. /\ c \in Seq(Nat) /\ Fine(g, c) /\ \A x : In(x, c) => x = TheClose /\ dead
      /\ \A s : Before(g, s, c) /\ Before(g, c, s)
  BY ClosingIn
<1>2. /\ d \in Seq(Nat) /\ Fine(g, d) /\ \A x : In(x, d) => x = TheClose /\ dead
      /\ \A s : Before(g, s, d) /\ Before(g, d, s)
  BY ClosingIn
<1>3. PICK v : v = t \o c
  OBVIOUS
<1>4. v \in Seq(Nat) /\ Fine(g, v) /\ \A x : In(x, v) <=> In(x, t) \/ In(x, c)
  BY <1>1, <1>3, ConcatIn
<1>5. Before(g, v, n)
  BY <1>1, <1>4 DEF Before
<1>6. PICK w : w = v \o n
  OBVIOUS
<1>7. w \in Seq(Nat) /\ Fine(g, w) /\ \A x : In(x, w) <=> In(x, v) \/ In(x, n)
  BY <1>4, <1>5, <1>6, ConcatIn
<1>8. PICK u : u = w \o d
  OBVIOUS
<1>9. u \in Seq(Nat) /\ Fine(g, u) /\ \A x : In(x, u) <=> In(x, w) \/ In(x, d)
  BY <1>2, <1>7, <1>8, ConcatIn
<1>10. u = t \o c \o n \o d
  BY <1>3, <1>6, <1>8
<1>11. \A x : In(x, u) => In(x, t) \/ In(x, n) \/ (x = TheClose /\ dead)
  BY <1>1, <1>2, <1>4, <1>7, <1>9
<1>12. QED  BY <1>9, <1>10, <1>11
LEMMA StartListeningKept ==
  ASSUME DgramInv, handle, Pends(TheBind), NEW k \in Nat, NEW does,
         does = "send" => Len(sends) < MaxSends, StartListening(k, does)
  PROVE  DgramInv'
<1>1. PICK flush : flush = SelectInSeq(listeners, LAMBDA x : x = "flush")
  OBVIOUS
<1>2. PICK dead \in BOOLEAN : dead = (k # 0 /\ does = "close")
  OBVIOUS
<1>3. PICK m : m = IF does = "send" THEN <<Len(sends) + 1>> ELSE <<>>
  OBVIOUS
<1>4. PICK q : q = OnListening(flush # 0 /\ ~(dead /\ k < flush))
  OBVIOUS
<1>5. PICK s : s = IF k < flush THEN m \o q ELSE q \o m
  OBVIOUS
<1>6. PICK t : t = IF ticks # <<>> /\ Head(ticks) = TheBind THEN Tail(ticks) ELSE ticks
  OBVIOUS
<1>7. PICK c : c = IF dead /\ k < flush THEN <<TheClose>> ELSE <<>>
  OBVIOUS
<1>8. PICK d : d = IF dead /\ k > flush THEN <<TheClose>> ELSE <<>>
  OBVIOUS
<1>9. PICK g : g = IF does = "send"
                   THEN Append(sends, [to |-> "numeric", inside |-> TRUE, answers |-> <<>>])
                   ELSE sends
  OBVIOUS
<1>10. PICK n : n = OnlyNumeric(s, g)
  OBVIOUS
<1>11. /\ bindState' = "BOUND" /\ receiving' = ~dead /\ handle' = ~dead /\ sends' = g
       /\ ticks' = t \o c \o n \o d
       /\ names' = (names \ {TheBind}) \cup {i \in ToSet(s) : g[i].to # "numeric"}
       /\ sendQueue' = (IF flush # 0 THEN <<>> ELSE sendQueue)
       /\ listeners' = (IF flush # 0 THEN <<"flush">> ELSE <<>>)
       /\ outAtClose' = (IF dead THEN Len(out) ELSE outAtClose)
       /\ UNCHANGED <<flying, out>>
  BY <1>1, <1>2, <1>3, <1>4, <1>5, <1>6, <1>7, <1>8, <1>9, <1>10 DEF StartListening
<1>12. DgramTypes /\ TheBind' = TheBind /\ TheClose' = TheClose
  BY DEF DgramInv, TheBind, TheClose
<1>13. flush \in Nat /\ (flush # 0 <=> In("flush", listeners))
  BY <1>1, <1>12, FlushFound DEF DgramTypes
<1>14. sendQueue' = <<>> /\ (q = <<>> \/ q = sendQueue)
  <2>1. sendQueue # <<>> => flush # 0
    BY <1>13 DEF DgramInv, QueueOk
  <2>2. QED  BY <1>4, <1>11, <2>1 DEF OnListening
<1>15. /\ g \in Seq(ASend) /\ Len(g) <= MaxSends /\ DOMAIN sends \subseteq DOMAIN g
       /\ Sends(g, m) /\ TheBind \notin DOMAIN g /\ TheClose \notin DOMAIN g
       /\ \A x \in DOMAIN g : x \in Nat
       /\ Ordered(g, out, ticks, sendQueue) /\ Kinds(g, out, ticks, sendQueue, names)
       /\ AllAnswers(g, out, ticks, sendQueue, names, flying)
  BY <1>3, <1>9, ListenerSends
<1>16. /\ s \in Seq(Nat) /\ \A x : In(x, s) => In(x, q) \/ In(x, m)
       /\ Fine(g, s) /\ Before(g, out, s) /\ Before(g, ticks, s)
  <2>1. s = m \o q \/ s = q \o m
    BY <1>5
  <2>2. QED  BY <1>12, <1>14, <1>15, <2>1, SentTogether
<1>17. /\ t \in Seq(Nat) /\ \A y : In(y, t) => In(y, ticks)
       /\ \A h : Fine(h, ticks) => Fine(h, t)
       /\ ~In(TheBind, t)
  BY <1>6, BindIsAnswered
<1>18. /\ n \in Seq(Nat) /\ \A x : In(x, n) => In(x, s) /\ g[x].to = "numeric"
       /\ Fine(g, n)
  BY <1>10, <1>16, OnlyNumericIn
(* Who is sent now has no answer, and has not left before. *)
<1>19. ASSUME NEW x, In(x, s)
       PROVE  /\ x \in DOMAIN g /\ g[x].answers = <<>> /\ ~In(x, out)
  <2>1. CASE In(x, m)
    BY <1>15, <2>1 DEF Sends
  <2>2. CASE In(x, sendQueue)
    <3>1. x \in DOMAIN g
      BY <1>12, <1>15, <2>2 DEF DgramTypes
    <3>2. ~In(x, out)
      BY <1>15, <2>2, <3>1 DEF Ordered, Before
    <3>3. QED  BY <1>15, <2>2, <3>1, <3>2 DEF AllAnswers, AnswerOk
  <2>3. QED  BY <1>14, <1>16, <1>19, <2>1, <2>2, NoneIn
<1>20. /\ ticks' \in Seq(Nat) /\ Fine(g, ticks')
       /\ \A x : In(x, ticks') => In(x, t) \/ In(x, n) \/ (x = TheClose /\ dead)
  <2>1. Closing(c, dead) /\ Closing(d, dead)
    BY <1>7, <1>8 DEF Closing
  <2>2. Fine(g, t) /\ Before(g, t, n)
    BY <1>15, <1>16, <1>17, <1>18 DEF Ordered, Before
  <2>3. PICK u : u = t \o c \o n \o d
    OBVIOUS
  <2>4. /\ u \in Seq(Nat) /\ Fine(g, u)
        /\ \A x : In(x, u) => In(x, t) \/ In(x, n) \/ (x = TheClose /\ dead)
    BY <1>12, <1>15, <1>17, <1>18, <2>1, <2>2, <2>3, TicksInOrder
  <2>5. QED  BY <1>11, <2>3, <2>4
<1>21. \A x : x \in names' => \/ x \in names /\ x # TheBind
                              \/ In(x, s) /\ g[x].to # "numeric"
  <2>1. \A x : x \in ToSet(s) => In(x, s)
    BY DEF ToSet, In
  <2>2. QED  BY <1>11, <2>1
<1>22. DgramTypes'
  <2>1. /\ sends' \in Seq(ASend) /\ Len(sends') <= MaxSends /\ DOMAIN sends' = DOMAIN g
        /\ out' = out /\ flying' = flying
    BY <1>11, <1>15
  <2>2. out' \in Seq(Nat) /\ ticks' \in Seq(Nat) /\ sendQueue' \in Seq(Nat)
    BY <1>12, <1>14, <1>20, <2>1, NoneIn DEF DgramTypes
  <2>3. \A x : In(x, out') \/ In(x, sendQueue') \/ x \in flying' => x \in DOMAIN sends'
    BY <1>12, <1>14, <1>15, <2>1, NoneIn DEF DgramTypes
  <2>4. \A x : In(x, ticks') => x \in DOMAIN g \cup {TheBind, TheClose}
    BY <1>12, <1>15, <1>17, <1>18, <1>19, <1>20 DEF DgramTypes
  <2>5. names' \subseteq DOMAIN g \cup {TheBind}
    BY <1>12, <1>15, <1>19, <1>21 DEF DgramTypes
  <2>6. listeners' \in Seq({"callback", "flush"})
    BY <1>11, SmallLists
  <2>7. QED  BY <1>12, <2>1, <2>2, <2>3, <2>4, <2>5, <2>6 DEF DgramTypes
<1>23. Ordered(g, out, ticks', <<>>)
  <2>1. Before(g, out, ticks')
    BY <1>15, <1>16, <1>17, <1>18, <1>20 DEF Ordered, Before
  <2>2. Before(g, out, <<>>) /\ Before(g, ticks', <<>>)
    BY NoneIn DEF Before
  <2>3. QED  BY <1>15, <1>20, <2>1, <2>2, NoneIn DEF Ordered
<1>24. Kinds(g, out, ticks', <<>>, names')
  <2>1. ASSUME NEW x \in DOMAIN g, In(x, ticks')  PROVE g[x].to = "numeric"
    BY <1>15, <1>17, <1>18, <1>20, <2>1 DEF Kinds
  <2>2. ASSUME NEW x \in DOMAIN g, x \in names'
        PROVE  g[x].to # "numeric" /\ ~In(x, out)
    BY <1>15, <1>19, <1>21, <2>2 DEF Kinds
  <2>3. QED  BY <2>1, <2>2, NoneIn DEF Kinds
<1>25. ASSUME NEW x \in DOMAIN g  PROVE AnswerOk(g, out, ticks', <<>>, names', flying, x)
  <2>1. AnswerOk(g, out, ticks, sendQueue, names, flying, x)
    BY <1>15 DEF AllAnswers
  <2>2. g[x].answers # <<>> => ~In(x, ticks') /\ x \notin names'
    BY <1>15, <1>17, <1>18, <1>19, <1>20, <1>21, <2>1 DEF AnswerOk
  <2>3. QED  BY <2>1, <2>2, NoneIn DEF AnswerOk
<1>26. AllAnswers(g, out, ticks', <<>>, names', flying)
  BY <1>15, <1>25 DEF AllAnswers
<1>27. BindOk(ticks, names, bindState)'
  <2>1. ~In(TheBind, ticks')
    BY <1>12, <1>15, <1>17, <1>18, <1>19, <1>20, SendsAreNumbers
  <2>2. TheBind \notin names'
    BY <1>15, <1>19, <1>21
  <2>3. Once(TheBind, ticks')
    BY <2>1 DEF Once, In
  <2>4. QED  BY <1>12, <2>1, <2>2, <2>3 DEF BindOk
<1>28. QueueOk(sendQueue, listeners, handle, bindState)'
  BY <1>14 DEF QueueOk
<1>29. CloseOk(handle, bindState, receiving, out, outAtClose, ticks)'
  <2>1. In(TheClose, ticks') => dead
    <3>1. ~In(TheClose, ticks)
      BY DEF DgramInv, CloseOk
    <3>2. QED  BY <1>15, <1>17, <1>18, <1>19, <1>20, <3>1
  <2>2. QED  BY <1>11, <1>12, <2>1 DEF CloseOk
<1>30. QED  BY <1>11, <1>14, <1>22, <1>23, <1>24, <1>26, <1>27, <1>28, <1>29 DEF DgramInv

LEMMA BindSucceedsKept ==
  ASSUME DgramInv, BindSucceeds
  PROVE  DgramInv'
<1>1. handle /\ Pends(TheBind)
  BY DEF BindSucceeds
<1>2. CASE StartListening(0, "nothing")
  BY <1>1, <1>2, StartListeningKept
<1>3. ASSUME NEW k \in DOMAIN listeners, NEW does \in {"close", "send"},
             does = "send" => Len(sends) < MaxSends, StartListening(k, does)
      PROVE  DgramInv'
  <2>1. k \in Nat
    BY DEF DgramInv, DgramTypes
  <2>2. QED  BY <1>1, <1>3, <2>1, StartListeningKept
<1>4. QED  BY <1>2, <1>3 DEF BindSucceeds

LEMMA DgramInitSound == DgramInit => DgramInv
<1> SUFFICES ASSUME DgramInit  PROVE DgramInv
  OBVIOUS
<1>1. /\ handle = TRUE /\ bindState = "UNBOUND" /\ receiving = FALSE
      /\ sendQueue = <<>> /\ listeners = <<>> /\ ticks = <<>> /\ names = {}
      /\ flying = {} /\ sends = <<>> /\ out = <<>>
  BY DEF DgramInit
<1>2. <<>> \in Seq(ASend) /\ Len(<<>>) = 0 /\ DOMAIN <<>> = {}
  OBVIOUS
<1>3. DgramTypes
  <2>1. Len(sends) <= MaxSends
    BY <1>1, <1>2, DgramAssumption
  <2>2. QED  BY <1>1, <1>2, <2>1, NoneIn, SmallLists DEF DgramTypes
<1>4. Ordered(sends, out, ticks, sendQueue)
  BY <1>1, NoneIn DEF Ordered, Before
<1>5. Kinds(sends, out, ticks, sendQueue, names)
  BY <1>1, <1>2 DEF Kinds
<1>6. AllAnswers(sends, out, ticks, sendQueue, names, flying)
  BY <1>1, <1>2 DEF AllAnswers
<1>7. BindOk(ticks, names, bindState)
  BY <1>1, NoneIn DEF BindOk
<1>8. QueueOk(sendQueue, listeners, handle, bindState)
  BY <1>1 DEF QueueOk
<1>9. CloseOk(handle, bindState, receiving, out, outAtClose, ticks)
  BY <1>1, NoneIn DEF CloseOk
<1>10. QED  BY <1>3, <1>4, <1>5, <1>6, <1>7, <1>8, <1>9 DEF DgramInv

LEMMA DgramStep ==
  ASSUME DgramInv, [DgramNext]_dgramVars
  PROVE  DgramInv'
<1>1. CASE UNCHANGED dgramVars
  BY <1>1 DEF dgramVars, DgramInv, DgramTypes, Ordered, Kinds, AllAnswers, AnswerOk,
              BindOk, QueueOk, CloseOk, TheBind, TheClose
<1>2. ASSUME NEW to \in {"numeric", "name"}, NEW callback \in {<<>>, <<"callback">>},
             Bind(to, callback)
      PROVE  DgramInv'
  BY <1>2, BindKept DEF Callbacks
<1>3. ASSUME NEW to \in {"numeric", "name"}, Send(to)  PROVE DgramInv'
  BY <1>3, SendKept
<1>4. CASE Close
  BY <1>4, CloseKept
<1>5. CASE BindFails
  BY <1>5, BindFailsKept
<1>6. CASE BindTooLate
  BY <1>6, TooLateKept DEF BindTooLate
<1>7. CASE BindSucceeds
  BY <1>7, BindSucceedsKept
<1>8. CASE AfterClose
  BY <1>8, AfterCloseKept
<1>9. ASSUME NEW i \in SendId, SendFails(i)  PROVE DgramInv'
  BY <1>9, SendFailsKept
<1>10. ASSUME NEW i \in SendId, SendTooLate(i)  PROVE DgramInv'
  BY <1>10, TooLateKept DEF SendTooLate
<1>11. ASSUME NEW i \in SendId, SendGoes(i)  PROVE DgramInv'
  BY <1>11, SendGoesKept
<1>12. ASSUME NEW i \in SendId, AfterSend(i)  PROVE DgramInv'
  BY <1>12, AfterSendKept
<1>13. QED  BY <1>1, <1>2, <1>3, <1>4, <1>5, <1>6, <1>7, <1>8, <1>9, <1>10, <1>11, <1>12
            DEF DgramNext, DgramAnswers

LEMMA DgramImplies == DgramInv => DatagramsOnce
<1> SUFFICES ASSUME DgramInv  PROVE DatagramsOnce
  OBVIOUS
<1>1. /\ DgramTypes /\ Ordered(sends, out, ticks, sendQueue)
      /\ AllAnswers(sends, out, ticks, sendQueue, names, flying)
      /\ CloseOk(handle, bindState, receiving, out, outAtClose, ticks)
  BY DEF DgramInv
<1>2. out \in Seq(Nat) /\ Fine(sends, out)
  BY <1>1 DEF DgramTypes, Ordered
<1>3. IsInjective(out)
  <2>1. \A a \in DOMAIN out : out[a] \in DOMAIN sends
    BY <1>1 DEF DgramTypes, In
  <2>2. \A a, b \in DOMAIN out : out[a] = out[b] => a = b
    BY <1>2, <2>1 DEF Fine, Once
  <2>3. QED  BY <2>2 DEF IsInjective
<1>4. \A i : IF In(i, out)
             THEN Place(i) \in DOMAIN out /\ out[Place(i)] = i /\ Place(i) # 0
             ELSE Place(i) = 0
  BY <1>2, PlaceFound
<1>5. ASSUME NEW i \in DOMAIN sends
      PROVE  /\ Len(sends[i].answers) <= 1
             /\ sends[i].answers = <<"sent">> => Place(i) # 0 /\ i \notin flying
             /\ sends[i].answers = <<"error">> => Place(i) = 0
  <2>1. AnswerOk(sends, out, ticks, sendQueue, names, flying, i)
    BY <1>1 DEF AllAnswers
  <2>2. <<"sent">> # <<>>
    OBVIOUS
  <2>3. Len(sends[i].answers) <= 1
    <3>1. PICK l : l = sends[i].answers
      OBVIOUS
    <3>2. l = <<>> \/ l = <<"sent">> \/ l = <<"error">>
      BY <2>1, <3>1 DEF AnswerOk
    <3>3. Len(<<>>) <= 1 /\ Len(<<"sent">>) <= 1 /\ Len(<<"error">>) <= 1
      OBVIOUS
    <3>4. QED  BY <3>1, <3>2, <3>3, Zenon
  <2>4. QED  BY <1>4, <2>1, <2>2, <2>3 DEF AnswerOk
<1>6. ASSUME NEW i \in DOMAIN sends, NEW j \in DOMAIN sends,
             i < j, Numeric(i), Numeric(j), ~sends[j].inside, Place(i) # 0, Place(j) # 0
      PROVE  Place(i) < Place(j)
  <2>1. Precedes(sends, i, j)
    BY <1>6 DEF Precedes, Numeric
  <2>2. /\ Place(i) \in DOMAIN out /\ out[Place(i)] = i
        /\ Place(j) \in DOMAIN out /\ out[Place(j)] = j
    BY <1>4, <1>6
  <2>3. QED  BY <1>2, <2>1, <2>2 DEF Fine
<1>7. (~handle => Len(out) = outAtClose) /\ (receiving <=> handle /\ bindState = "BOUND")
  BY <1>1 DEF CloseOk
<1>8. QED  BY <1>3, <1>5, <1>6, <1>7 DEF DatagramsOnce

(* However bind(), send(), close(), the lookups and libuv follow upon each *)
(* other, and whatever a "listening" callback does: a datagram is given to *)
(* libuv at most once and never after close(), its callback is called at   *)
(* most once and tells no lie, and datagrams for numeric addresses leave   *)
(* in the order of send() (OnListening, AfterLookupInSend and AfterSend of *)
(* dgram/socket.h).                                                        *)
THEOREM DatagramsLeaveOnce == DgramSpec => []DatagramsOnce
<1>1. DgramInit => DgramInv
  BY DgramInitSound
<1>2. DgramInv /\ [DgramNext]_dgramVars => DgramInv'
  BY DgramStep
<1>3. DgramInv => DatagramsOnce
  BY DgramImplies
<1>4. QED  BY <1>1, <1>2, <1>3, PTL DEF DgramSpec
==============================================================================
