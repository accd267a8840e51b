-------------------------- MODULE HttpServerProofs --------------------------
(***************************************************************************)
(* Proofs about HttpServer, for every number of requests and chunks.       *)
(*                                                                         *)
(* The argument: there is one response whose turn it is, the one with the  *)
(* socket, or the one that is to get it, or the next to be created.  All   *)
(* before it are finished, and none of them was the last; all after it     *)
(* wait in outgoings_, in order, and its request is the first of           *)
(* incomings_ (Chain).  Only its data goes out, so the wire grows at the   *)
(* end.  After the last response of the connection the turn is lost and    *)
(* the socket is not writable, so nothing goes out (Over).                 *)
(*                                                                         *)
(* That what goes out is what was said is a second invariant, kept on top  *)
(* of the first (Faithful): what is on the wire of a response, what waits  *)
(* in its output_ and a header not yet sent are what was said, and nothing *)
(* waits before the header has been sent.                                  *)
(***************************************************************************)
EXTENDS HttpServer, SequenceTheorems, WellFoundedInduction, TLAPS

DataN == [kind: {"str", "buf"}, parts: Seq(Nat)]

ResponseN == [
  hasSocket: BOOLEAN, listening: BOOLEAN, keepAlive: BOOLEAN,
  hasBody: BOOLEAN, header: BOOLEAN, headerSent: BOOLEAN, chunked: BOOLEAN,
  last: BOOLEAN, finished: BOOLEAN, output: Seq(DataN), doubled: BOOLEAN,
  chunks: Nat, said: Seq(Nat)]

ConnN == [
  writable: BOOLEAN, ended: BOOLEAN, destroyed: BOOLEAN, closed: BOOLEAN,
  http: 0..MaxRequests, incomings: Seq(Request), outgoings: Seq(Request),
  response: Seq(ResponseN), assigning: 0..MaxRequests,
  aborting: {"no", "onEnd", "onClose"}, aborted: BOOLEAN,
  wire: Seq(Request \X DataN), answered: Seq(Request \X (0..MaxRequests)),
  broken: BOOLEAN]

(* The response that has the socket, or is to get it next. *)
Turn(c) ==
  IF c.http # None THEN c.http
  ELSE IF c.assigning # None THEN c.assigning ELSE Len(c.response) + 1

(* What has begun is not empty until the socket takes it. *)
Holds(m) == m.headerSent => m.output # <<>>

Flags(c) ==
  /\ c.destroyed => ~c.writable
  /\ c.closed => c.destroyed
  /\ c.aborting = "onClose" => c.closed

Owned(c) ==
  /\ ~c.broken /\ Len(c.response) <= MaxRequests
  /\ c.http # None => c.http \in DOMAIN c.response /\ c.assigning = None
  /\ c.assigning # None => c.assigning \in DOMAIN c.response
  /\ \A r \in DOMAIN c.response : c.response[r].hasSocket <=> c.http = r

(* The response that can write to the socket has nothing left to write. *)
Served(c) ==
  c.http # None /\ c.writable =>
    /\ c.response[c.http].listening /\ ~c.response[c.http].finished
    /\ c.response[c.http].output = <<>>

(* The responses before the Turn are done, the others wait in order. *)
Chain(c) ==
  /\ \A r \in DOMAIN c.response :
       r < Turn(c) => c.response[r].finished /\ ~c.response[r].last
  /\ \A r \in DOMAIN c.response :
       r >= Turn(c) /\ r # c.http =>
         /\ c.response[r].listening /\ Holds(c.response[r])
         /\ c.response[r].finished => c.response[r].headerSent
  /\ Turn(c) + Len(c.outgoings) =
       IF Turn(c) > Len(c.response) THEN Turn(c) ELSE Len(c.response)
  /\ \A k \in DOMAIN c.outgoings : c.outgoings[k] = Turn(c) + k
  /\ ~c.aborted => /\ Turn(c) + Len(c.incomings) = Len(c.response) + 1
                   /\ \A k \in DOMAIN c.incomings :
                        c.incomings[k] + 1 = Turn(c) + k

(* After the last response nothing is written. *)
Over(c) ==
  /\ ~c.writable /\ c.assigning = None
  /\ c.http # None => Holds(c.response[c.http])

WireRight(c) ==
  /\ \A i \in DOMAIN c.wire :
       /\ c.wire[i][1] \in DOMAIN c.response
       /\ c.writable => c.wire[i][1] <= Turn(c)
       /\ \A r \in 1..(c.wire[i][1] - 1) :
            c.response[r].finished /\ ~c.response[r].last
  /\ \A i, j \in DOMAIN c.wire : i < j => c.wire[i][1] <= c.wire[j][1]

AnswersRight(c) ==
  ~c.aborted => \A i \in DOMAIN c.answered : c.answered[i][1] = c.answered[i][2]

(* The inductive invariant. *)
Inv(c) ==
  /\ c \in ConnN
  /\ Flags(c) /\ Owned(c) /\ Served(c) /\ (Chain(c) \/ Over(c))
  /\ WireRight(c) /\ AnswersRight(c)

-----------------------------------------------------------------------------
(* Writing to a response changes the wire and that response only. *)
Put(c, w, r, m) ==
  [c EXCEPT !.wire = w, !.response = [c.response EXCEPT ![r] = m]]

(* d is c but for the wire and some of response r. *)
Same(c, d, r) ==
  /\ d \in ConnN
  /\ d.writable = c.writable /\ d.ended = c.ended /\ d.destroyed = c.destroyed
  /\ d.closed = c.closed /\ d.http = c.http /\ d.incomings = c.incomings
  /\ d.outgoings = c.outgoings /\ d.assigning = c.assigning
  /\ d.aborting = c.aborting /\ d.aborted = c.aborted
  /\ d.answered = c.answered /\ d.broken = c.broken
  /\ Len(d.response) = Len(c.response)
  /\ DOMAIN d.response = DOMAIN c.response
  /\ \A q \in DOMAIN c.response : q # r => d.response[q] = c.response[q]
  /\ d.response[r].hasSocket = c.response[r].hasSocket
  /\ d.response[r].listening = c.response[r].listening

(* Something of response r has been added to the wire. *)
Longer(v, w, r) ==
  /\ Len(v) <= Len(w)
  /\ \A i \in DOMAIN w : IF i \in DOMAIN v THEN w[i] = v[i] ELSE w[i][1] = r

LEMMA PutWorks ==
  ASSUME NEW c \in ConnN, NEW r \in DOMAIN c.response, NEW m \in ResponseN,
         NEW w \in Seq(Request \X DataN)
  PROVE  LET d == Put(c, w, r, m)
         IN  /\ d \in ConnN /\ d.wire = w /\ d.response[r] = m
             /\ m.hasSocket = c.response[r].hasSocket
                /\ m.listening = c.response[r].listening => Same(c, d, r)
<1> DEFINE ms == [c.response EXCEPT ![r] = m]
           d == Put(c, w, r, m)
<1>1. c.response \in Seq(ResponseN) /\ DOMAIN c.response = 1..Len(c.response)
  BY DEF ConnN
<1>2. /\ ms \in Seq(ResponseN) /\ Len(ms) = Len(c.response)
      /\ DOMAIN ms = DOMAIN c.response /\ ms[r] = m
      /\ \A q \in DOMAIN c.response : q # r => ms[q] = c.response[q]
  BY <1>1
<1> HIDE DEF ms
<1>3. d = [c EXCEPT !.wire = w, !.response = ms]
  BY DEF Put, ms
<1>4. /\ d.wire = w /\ d.response = ms
      /\ d.writable = c.writable /\ d.ended = c.ended
      /\ d.destroyed = c.destroyed
      /\ d.closed = c.closed /\ d.http = c.http /\ d.incomings = c.incomings
      /\ d.outgoings = c.outgoings /\ d.assigning = c.assigning
      /\ d.aborting = c.aborting /\ d.aborted = c.aborted
      /\ d.answered = c.answered /\ d.broken = c.broken
  BY <1>3 DEF ConnN
<1>5. d \in ConnN
  BY <1>2, <1>3 DEF ConnN
<1> HIDE DEF d
<1>6. QED  BY <1>2, <1>4, <1>5 DEF Same, d

LEMMA NotEmpty ==
  ASSUME NEW S, NEW s \in Seq(S), NEW x \in S
  PROVE  Append(s, x) \in Seq(S) /\ Append(s, x) # <<>>
<1>1. Append(s, x) \in Seq(S) /\ Len(Append(s, x)) = Len(s) + 1 /\ Len(s) \in Nat
  OBVIOUS
<1>2. Len(Append(s, x)) # 0
  BY <1>1
<1>3. QED  BY <1>1, <1>2

LEMMA BufferWorks ==
  ASSUME NEW output \in Seq(DataN), NEW data \in DataN
  PROVE  Buffer(output, data) \in Seq(DataN) /\ Buffer(output, data) # <<>>
<1> DEFINE n == Len(output)
           x == [output[n] EXCEPT !.parts = @ \o data.parts]
           o == IF Joins(output, data) THEN Joined(output, data) ELSE output
<1>1. CASE Joins(output, data)
  <2>1. n \in DOMAIN output /\ output[n] \in DataN
    BY <1>1 DEF Joins
  <2>2. x.parts \in Seq(Nat) /\ x.kind \in {"str", "buf"}
    BY <2>1 DEF DataN
  <2>3. x \in DataN
    BY <2>1, <2>2 DEF DataN
  <2>4. Joined(output, data) = [output EXCEPT ![n] = x]
    BY DEF Joined
  <2> HIDE DEF x
  <2>5. [output EXCEPT ![n] = x] \in Seq(DataN)
    BY <2>1, <2>3
  <2>6. o \in Seq(DataN)
    BY <1>1, <2>4, <2>5
  <2>7. Buffer(output, data) = Append(o, data)
    BY DEF Buffer
  <2> HIDE DEF o
  <2>8. QED  BY <2>6, <2>7
<1>2. CASE ~Joins(output, data)
  <2>1. Buffer(output, data) = Append(output, data)
    BY <1>2 DEF Buffer
  <2>2. Append(output, data) \in Seq(DataN) /\ Append(output, data) # <<>>
    BY NotEmpty
  <2>3. QED  BY <2>1, <2>2
<1>3. QED  BY <1>1, <1>2

LEMMA SameTwice ==
  ASSUME NEW c, NEW d, NEW e, NEW r, Same(c, d, r), Same(d, e, r)
  PROVE  Same(c, e, r)
BY DEF Same

LEMMA LongerTwice ==
  ASSUME NEW u \in Seq(Request \X DataN), NEW v \in Seq(Request \X DataN),
         NEW w \in Seq(Request \X DataN), NEW r,
         Longer(u, v, r), Longer(v, w, r)
  PROVE  Longer(u, w, r)
<1>1. DOMAIN u \subseteq DOMAIN v
  BY DEF Longer
<1>2. QED  BY <1>1 DEF Longer

LEMMA LongerByOutput ==
  ASSUME NEW v \in Seq(Request \X DataN), NEW out \in Seq(DataN),
         NEW r \in Request
  PROVE  LET w == v \o [i \in DOMAIN out |-> <<r, out[i]>>]
         IN  w \in Seq(Request \X DataN) /\ Longer(v, w, r)
<1> DEFINE x == [i \in DOMAIN out |-> <<r, out[i]>>]
<1>1. x \in Seq(Request \X DataN) /\ \A i \in DOMAIN x : x[i][1] = r
  <2>1. DOMAIN out = 1..Len(out) /\ Len(out) \in Nat
        /\ \A i \in DOMAIN out : out[i] \in DataN
    OBVIOUS
  <2>2. \A i \in DOMAIN out : <<r, out[i]>> \in Request \X DataN
    BY <2>1
  <2>3. x \in [1..Len(out) -> Request \X DataN]
    BY <2>1, <2>2
  <2>4. QED  BY <2>1, <2>3
<1> HIDE DEF x
<1>2. /\ v \o x \in Seq(Request \X DataN) /\ Len(v \o x) = Len(v) + Len(x)
      /\ \A i \in DOMAIN (v \o x) :
           IF i \in DOMAIN v THEN (v \o x)[i] = v[i]
           ELSE i - Len(v) \in DOMAIN x /\ (v \o x)[i] = x[i - Len(v)]
  BY <1>1
<1>3. QED  BY <1>1, <1>2 DEF Longer, x

LEMMA LongerByOne ==
  ASSUME NEW v \in Seq(Request \X DataN), NEW data \in DataN, NEW r \in Request
  PROVE  LET w == Append(v, <<r, data>>)
         IN  w \in Seq(Request \X DataN) /\ Longer(v, w, r)
BY DEF Longer

LEMMA RespondsTo ==
  ASSUME NEW c \in ConnN, Len(c.response) <= MaxRequests,
         NEW r \in DOMAIN c.response
  PROVE  r \in Request /\ c.response[r] \in ResponseN
BY ConstantsAssumption DEF ConnN, Request

LEMMA WriteRawWorks ==
  ASSUME NEW c \in ConnN, Len(c.response) <= MaxRequests,
         NEW r \in DOMAIN c.response,
         NEW data \in DataN, data.parts # <<>>
  PROVE  LET d == WriteRaw(c, r, data)
             m == c.response[r]
             n == d.response[r]
         IN  /\ Same(c, d, r)
             /\ n.finished = m.finished /\ n.headerSent = m.headerSent
             /\ n.header = m.header /\ n.last = m.last
             /\ n.hasBody = m.hasBody /\ n.chunked = m.chunked
             /\ IF Direct(c, r) THEN n.output = <<>> /\ Longer(c.wire, d.wire, r)
                ELSE n.output # <<>> /\ d.wire = c.wire
<1> DEFINE m == c.response[r]
           out == Append(m.output, data)
<1>0. r \in Request /\ m \in ResponseN /\ m.output \in Seq(DataN)
      /\ c.wire \in Seq(Request \X DataN) /\ c.response \in Seq(ResponseN)
  BY RespondsTo DEF ConnN, ResponseN
<1>1. CASE Direct(c, r)
  <2> DEFINE w == c.wire \o [i \in DOMAIN out |-> <<r, out[i]>>]
             n == [m EXCEPT !.output = <<>>]
  <2>1. out \in Seq(DataN)
    BY <1>0
  <2>2. w \in Seq(Request \X DataN) /\ Longer(c.wire, w, r)
    <3> HIDE DEF out
    <3>1. QED  BY <1>0, <2>1, LongerByOutput
  <2>3. n \in ResponseN /\ n.output = <<>>
    <3>1. <<>> \in Seq(DataN)
      OBVIOUS
    <3>2. QED  BY <1>0, <3>1 DEF ResponseN
  <2>4. /\ n.finished = m.finished /\ n.headerSent = m.headerSent
        /\ n.header = m.header /\ n.last = m.last
        /\ n.hasBody = m.hasBody /\ n.chunked = m.chunked
        /\ n.hasSocket = m.hasSocket /\ n.listening = m.listening
    BY <1>0 DEF ResponseN
  <2>5. WriteRaw(c, r, data) = [c EXCEPT !.wire = w, !.response[r].output = <<>>]
    BY <1>1 DEF WriteRaw
  <2>6. @ = Put(c, w, r, n)
    BY DEF Put
  <2> HIDE DEF w, n, m
  <2>7. QED  BY <1>1, <2>2, <2>3, <2>4, <2>5, <2>6, PutWorks DEF m
<1>2. CASE ~Direct(c, r)
  <2> DEFINE b == Buffer(m.output, data)
             x == m.doubled \/ Joins(m.output, data)
             n == [m EXCEPT !.output = b, !.doubled = x]
  <2>1. b \in Seq(DataN) /\ b # <<>>
    BY <1>0, BufferWorks
  <2>2. x \in BOOLEAN
    BY <1>0 DEF ResponseN, Joins
  <2>3. WriteRaw(c, r, data) =
          [c EXCEPT !.response[r].output = b, !.response[r].doubled = x]
    BY <1>2 DEF WriteRaw
  <2> HIDE DEF b, x
  <2>4. n \in ResponseN /\ n.output = b
    BY <1>0, <2>1, <2>2 DEF ResponseN
  <2>5. /\ n.finished = m.finished /\ n.headerSent = m.headerSent
        /\ n.header = m.header /\ n.last = m.last
        /\ n.hasBody = m.hasBody /\ n.chunked = m.chunked
        /\ n.hasSocket = m.hasSocket /\ n.listening = m.listening
    BY <1>0 DEF ResponseN
  <2>6. WriteRaw(c, r, data) = Put(c, c.wire, r, n)
    BY <1>0, <2>3 DEF Put, ConnN
  <2> HIDE DEF n, m
  <2>7. QED  BY <1>0, <1>2, <2>1, <2>4, <2>5, <2>6, PutWorks DEF m
<1>3. QED  BY <1>1, <1>2

(* What writing to response r may do. *)
Wrote(c, d, r) ==
  LET m == c.response[r]
      n == d.response[r]
  IN  /\ Same(c, d, r)
      /\ n.finished = m.finished
      /\ m.headerSent => n.headerSent
      /\ IF Direct(c, r)
         THEN (m.output = <<>> => n.output = <<>>) /\ Longer(c.wire, d.wire, r)
         ELSE /\ d.wire = c.wire
              /\ m.output # <<>> => n.output # <<>>
              /\ Holds(m) => Holds(n)

LEMMA WroteTwice ==
  ASSUME NEW c \in ConnN, NEW d, NEW e, NEW r \in DOMAIN c.response,
         Wrote(c, d, r), Wrote(d, e, r)
  PROVE  Wrote(c, e, r)
<1>1. Same(c, e, r)
  BY SameTwice DEF Wrote
<1>2. Direct(c, r) <=> Direct(d, r)
  BY DEF Wrote, Same, Direct
<1>3. /\ c.wire \in Seq(Request \X DataN) /\ d.wire \in Seq(Request \X DataN)
      /\ e.wire \in Seq(Request \X DataN)
  BY DEF Wrote, Same, ConnN
<1>4. CASE Direct(c, r)
  BY <1>1, <1>2, <1>3, <1>4, LongerTwice DEF Wrote
<1>5. CASE ~Direct(c, r)
  BY <1>1, <1>2, <1>5 DEF Wrote
<1>6. QED  BY <1>4, <1>5

LEMMA Enough ==
  ASSUME NEW c, NEW d, NEW r, Same(c, d, r), Len(c.response) <= MaxRequests
  PROVE  d \in ConnN /\ Len(d.response) <= MaxRequests
         /\ DOMAIN d.response = DOMAIN c.response
BY DEF Same

(* A response may be changed in what the wire does not show. *)
LEMMA ChangeWrote ==
  ASSUME NEW c \in ConnN, NEW r \in DOMAIN c.response, NEW n \in ResponseN,
         LET m == c.response[r]
         IN  /\ n.hasSocket = m.hasSocket /\ n.listening = m.listening
             /\ n.finished = m.finished /\ n.headerSent = m.headerSent
             /\ n.output = m.output
  PROVE  Wrote(c, Put(c, c.wire, r, n), r)
<1>1. c.wire \in Seq(Request \X DataN) /\ Longer(c.wire, c.wire, r)
  BY DEF ConnN, Longer
<1> DEFINE d == Put(c, c.wire, r, n)
<1>2. Same(c, d, r) /\ d.wire = c.wire /\ d.response[r] = n
  BY <1>1, PutWorks
<1> HIDE DEF d
<1>3. QED  BY <1>1, <1>2 DEF Wrote, Holds, d

LEMMA WroteNothing ==
  ASSUME NEW c \in ConnN, NEW r \in DOMAIN c.response
  PROVE  Wrote(c, c, r)
<1>1. c.wire \in Seq(Request \X DataN) /\ Longer(c.wire, c.wire, r)
  BY DEF ConnN, Longer
<1>2. Same(c, c, r)
  BY DEF Same
<1>3. QED  BY <1>1, <1>2 DEF Wrote

LEMMA SendWorks ==
  ASSUME NEW c \in ConnN, Len(c.response) <= MaxRequests,
         NEW r \in DOMAIN c.response,
         NEW data \in DataN, data.kind = "buf" => data.parts # <<>>
  PROVE  LET d == Send(c, r, data)
         IN  Wrote(c, d, r) /\ d.response[r].headerSent
<1> DEFINE m == c.response[r]
           n == [m EXCEPT !.headerSent = TRUE]
           sent == [c EXCEPT !.response[r].headerSent = TRUE]
           first == Str(<<Header>>)
<1>0. /\ m \in ResponseN /\ m.output \in Seq(DataN) /\ m.headerSent \in BOOLEAN
      /\ c.wire \in Seq(Request \X DataN) /\ data.kind \in {"str", "buf"}
      /\ data.parts \in Seq(Nat)
  BY RespondsTo DEF ConnN, ResponseN, DataN
<1>1. CASE m.headerSent /\ data.parts = <<>>
  <2>1. Send(c, r, data) = WriteRaw(c, r, data)
    BY <1>1 DEF Send
  <2>2. WriteRaw(c, r, data) = c
    BY <1>1 DEF WriteRaw
  <2>3. QED  BY <1>1, <2>1, <2>2, WroteNothing
<1>2. CASE m.headerSent /\ data.parts # <<>>
  <2>1. Send(c, r, data) = WriteRaw(c, r, data)
    BY <1>2 DEF Send
  <2> DEFINE d == WriteRaw(c, r, data)
  <2>2. /\ Same(c, d, r) /\ d.response[r].finished = m.finished
        /\ d.response[r].headerSent = m.headerSent
        /\ IF Direct(c, r) THEN d.response[r].output = <<>> /\ Longer(c.wire, d.wire, r)
           ELSE d.response[r].output # <<>> /\ d.wire = c.wire
    BY <1>2, WriteRawWorks
  <2> HIDE DEF d
  <2>3. Wrote(c, d, r) /\ d.response[r].headerSent
    BY <1>2, <2>2 DEF Wrote, Holds
  <2>4. QED  BY <2>1, <2>3 DEF d
<1>3. CASE ~m.headerSent /\ data.kind = "str"
  <2> DEFINE s == Str(<<Header>> \o data.parts)
             p == Put(c, c.wire, r, n)
  <2>1. s \in DataN /\ s.parts # <<>>
    BY <1>0 DEF Str, DataN, Header
  <2>2. Send(c, r, data) = WriteRaw(sent, r, s)
    BY <1>3 DEF Send
  <2>3. n \in ResponseN /\ n.headerSent /\ n.hasSocket = m.hasSocket
        /\ n.listening = m.listening /\ n.finished = m.finished
        /\ n.output = m.output
    BY <1>0 DEF ResponseN
  <2>4. sent = p
    BY <1>0 DEF Put, ConnN
  <2> HIDE DEF s, n, m, sent
  <2>5. Same(c, p, r) /\ p.response[r] = n /\ p.wire = c.wire
    BY <1>0, <2>3, PutWorks DEF m
  <2> HIDE DEF p
  <2>6. p \in ConnN /\ Len(p.response) <= MaxRequests /\ r \in DOMAIN p.response
    BY <2>5, Enough
  <2> DEFINE d == WriteRaw(p, r, s)
  <2>7. /\ Same(p, d, r) /\ d.response[r].finished = n.finished
        /\ d.response[r].headerSent = n.headerSent
        /\ IF Direct(p, r) THEN d.response[r].output = <<>> /\ Longer(c.wire, d.wire, r)
           ELSE d.response[r].output # <<>> /\ d.wire = c.wire
    BY <2>1, <2>5, <2>6, WriteRawWorks
  <2> HIDE DEF d
  <2>8. Same(c, d, r) /\ (Direct(p, r) <=> Direct(c, r))
    BY <2>5, <2>7, SameTwice DEF Same, Direct
  <2>9. Wrote(c, d, r) /\ d.response[r].headerSent
    BY <2>3, <2>7, <2>8 DEF Wrote, Holds, m
  <2>10. QED  BY <2>2, <2>4, <2>9 DEF d
<1>4. CASE ~m.headerSent /\ data.kind = "buf"
  <2> DEFINE o == <<first>> \o m.output
             k == [n EXCEPT !.output = o]
             p == Put(c, c.wire, r, k)
  <2>1. first \in DataN
    BY DEF Str, DataN, Header
  <2>2. o \in Seq(DataN)
    <3> HIDE DEF first
    <3>1. QED  BY <1>0, <2>1
  <2>3. Send(c, r, data) =
          WriteRaw([sent EXCEPT !.response[r].output = <<first>> \o @], r, data)
    BY <1>4 DEF Send
  <2>4. sent.response[r].output = m.output
    BY <1>0 DEF ResponseN, ConnN
  <2>5. [sent EXCEPT !.response[r].output = <<first>> \o @]
          = [sent EXCEPT !.response[r].output = o]
    BY <2>4
  <2> HIDE DEF o
  <2>6. [sent EXCEPT !.response[r].output = o] = p
    BY <1>0 DEF Put, ConnN
  <2>7. k \in ResponseN /\ k.headerSent /\ k.hasSocket = m.hasSocket
        /\ k.listening = m.listening /\ k.finished = m.finished
    BY <1>0, <2>2 DEF ResponseN
  <2> HIDE DEF first, k, n, m, sent
  <2>8. Same(c, p, r) /\ p.response[r] = k /\ p.wire = c.wire
    BY <1>0, <2>7, PutWorks DEF m
  <2> HIDE DEF p
  <2>9. p \in ConnN /\ Len(p.response) <= MaxRequests /\ r \in DOMAIN p.response
    BY <2>8, Enough
  <2> DEFINE d == WriteRaw(p, r, data)
  <2>10. /\ Same(p, d, r) /\ d.response[r].finished = k.finished
         /\ d.response[r].headerSent = k.headerSent
         /\ IF Direct(p, r) THEN d.response[r].output = <<>> /\ Longer(c.wire, d.wire, r)
            ELSE d.response[r].output # <<>> /\ d.wire = c.wire
    BY <1>4, <2>8, <2>9, WriteRawWorks
  <2> HIDE DEF d
  <2>11. Same(c, d, r) /\ (Direct(p, r) <=> Direct(c, r))
    BY <2>8, <2>10, SameTwice DEF Same, Direct
  <2>12. Wrote(c, d, r) /\ d.response[r].headerSent
    BY <2>7, <2>10, <2>11 DEF Wrote, Holds, m
  <2>13. QED  BY <2>3, <2>5, <2>6, <2>12 DEF d
<1>5. QED  BY <1>0, <1>1, <1>2, <1>3, <1>4

LEMMA Responses ==
  ASSUME NEW c \in ConnN, NEW r \in DOMAIN c.response
  PROVE  c.response[r] \in ResponseN
<1>1. c.response \in Seq(ResponseN)
  BY DEF ConnN
<1>2. QED  BY <1>1

LEMMA PiecesWork ==
  ASSUME NEW c \in ConnN, NEW r \in DOMAIN c.response
  PROVE  LET p == Pieces(c, r)
         IN  /\ p \in Seq(Nat) /\ p # <<>>
             /\ c.response[r].chunked => p[1] \in Nat /\ p[2] \in Nat /\ p[3] \in Nat
<1>1. c.response[r].chunks \in Nat
  BY Responses DEF ResponseN
<1> DEFINE n == c.response[r].chunks + 1
<1>2. Piece(n, 0) \in Nat /\ Piece(n, 1) \in Nat /\ Piece(n, 2) \in Nat
  BY <1>1 DEF Piece
<1> HIDE DEF n
<1>3. QED  BY <1>2 DEF Pieces, n

LEMMA SayWorks ==
  ASSUME NEW c \in ConnN, NEW r \in DOMAIN c.response
  PROVE  Wrote(c, Say(c, r), r)
<1> DEFINE m == c.response[r]
           said == m.said \o Pieces(c, r)
           chunks == m.chunks + 1
           n == [m EXCEPT !.chunks = chunks, !.said = said]
<1>1. m \in ResponseN /\ said \in Seq(Nat) /\ chunks \in Nat
  <2>1. m \in ResponseN /\ m.said \in Seq(Nat) /\ m.chunks \in Nat
    BY Responses DEF ResponseN
  <2>2. Pieces(c, r) \in Seq(Nat)
    BY PiecesWork
  <2>3. QED  BY <2>1, <2>2
<1>2. Say(c, r) = [c EXCEPT !.response[r].chunks = chunks, !.response[r].said = said]
  BY <1>1 DEF Say, ConnN, ResponseN
<1> HIDE DEF said, chunks
<1>3. Say(c, r) = Put(c, c.wire, r, n)
  BY <1>1, <1>2 DEF Put, ConnN
<1>4. /\ n \in ResponseN
      /\ n.hasSocket = m.hasSocket /\ n.listening = m.listening
      /\ n.finished = m.finished /\ n.headerSent = m.headerSent
      /\ n.output = m.output
  BY <1>1 DEF ResponseN
<1> HIDE DEF n
<1>5. QED  BY <1>3, <1>4, ChangeWrote

LEMMA WriteHeadWorks ==
  ASSUME NEW c \in ConnN, NEW r \in DOMAIN c.response, NEW head \in Heads
  PROVE  Wrote(c, WriteHead(c, r, head), r)
<1> DEFINE m == c.response[r]
           k == StoreHeader(m, head)
           said == Append(k.said, Header)
           n == [k EXCEPT !.said = said]
<1>0. m \in ResponseN
  BY Responses
<1>1. CASE m.header
  BY <1>1, WroteNothing DEF WriteHead
<1>2. CASE ~m.header
  <2>1. /\ k \in ResponseN
        /\ k.hasSocket = m.hasSocket /\ k.listening = m.listening
        /\ k.finished = m.finished /\ k.headerSent = m.headerSent
        /\ k.output = m.output
    <3> DEFINE x == m.hasBody /\ head.framing = "chunked"
               y == m.last \/ head.close \/ ~m.keepAlive
    <3>1. x \in BOOLEAN /\ y \in BOOLEAN
      OBVIOUS
    <3>2. k = [m EXCEPT !.header = TRUE, !.chunked = x, !.last = y]
      BY DEF StoreHeader
    <3> HIDE DEF x, y, k
    <3>3. QED  BY <1>0, <3>1, <3>2 DEF ResponseN
  <2>2. WriteHead(c, r, head) = [c EXCEPT !.response[r] = n]
    BY <1>2 DEF WriteHead
  <2>3. WriteHead(c, r, head) = [c EXCEPT !.response = [c.response EXCEPT ![r] = n]]
    BY <2>2
  <2>4. said \in Seq(Nat)
    BY <2>1 DEF ResponseN, Header
  <2> HIDE DEF said, k
  <2>5. /\ n \in ResponseN
        /\ n.hasSocket = m.hasSocket /\ n.listening = m.listening
        /\ n.finished = m.finished /\ n.headerSent = m.headerSent
        /\ n.output = m.output
    BY <2>1, <2>4 DEF ResponseN
  <2> HIDE DEF n, m
  <2>6. WriteHead(c, r, head) = Put(c, c.wire, r, n)
    BY <2>3 DEF Put, ConnN
  <2>7. QED  BY <2>5, <2>6, ChangeWrote DEF m
<1>3. QED  BY <1>1, <1>2

LEMMA WriteWorks ==
  ASSUME NEW c \in ConnN, Len(c.response) <= MaxRequests,
         NEW r \in DOMAIN c.response, NEW kind \in {"str", "buf"}
  PROVE  Wrote(c, Write(c, r, kind), r)
<1> DEFINE s == Say(c, r)
           p == Pieces(c, r)
<1>1. Wrote(c, s, r) /\ p \in Seq(Nat) /\ p # <<>>
  BY SayWorks, PiecesWork
<1>2. c.response[r].chunked => p[1] \in Nat /\ p[2] \in Nat /\ p[3] \in Nat
  BY PiecesWork
<1>3. s \in ConnN /\ Len(s.response) <= MaxRequests /\ DOMAIN s.response = DOMAIN c.response
  BY <1>1, Enough DEF Wrote
<1>4. CASE ~c.response[r].hasBody
  BY <1>4, WroteNothing DEF Write
<1>5. CASE c.response[r].hasBody /\ c.response[r].chunked /\ kind = "buf"
  <2> DEFINE s1 == Send(s, r, Str(<<p[1]>>))
             s2 == Send(s1, r, Buf(<<p[2]>>))
             s3 == Send(s2, r, Str(<<p[3]>>))
  <2>1. Write(c, r, kind) = s3
    BY <1>5 DEF Write
  <2>2. /\ \A x \in Nat : Str(<<x>>) \in DataN /\ Buf(<<x>>) \in DataN
        /\ \A x \in Nat : Str(<<x>>).kind = "str" /\ Buf(<<x>>).parts # <<>>
    BY DEF Str, Buf, DataN
  <2> HIDE DEF s, p
  <2>3. Wrote(s, s1, r)
    BY <1>2, <1>3, <1>5, <2>2, SendWorks
  <2> HIDE DEF s1
  <2>4. s1 \in ConnN /\ Len(s1.response) <= MaxRequests /\ DOMAIN s1.response = DOMAIN c.response
    BY <1>3, <2>3, Enough DEF Wrote
  <2>5. Wrote(s1, s2, r)
    BY <1>2, <2>4, <1>5, <2>2, SendWorks
  <2> HIDE DEF s2
  <2>6. s2 \in ConnN /\ Len(s2.response) <= MaxRequests /\ DOMAIN s2.response = DOMAIN c.response
    BY <2>4, <2>5, Enough DEF Wrote
  <2>7. Wrote(s2, s3, r)
    BY <1>2, <2>6, <1>5, <2>2, SendWorks
  <2> HIDE DEF s3
  <2>8. Wrote(c, s1, r)
    BY <1>1, <2>3, WroteTwice
  <2>9. Wrote(c, s2, r)
    BY <2>5, <2>8, WroteTwice
  <2>10. QED  BY <2>1, <2>7, <2>9, WroteTwice
<1>6. CASE c.response[r].hasBody /\ ~(c.response[r].chunked /\ kind = "buf")
  <2> DEFINE data == [kind |-> kind, parts |-> p]
             d == Send(s, r, data)
  <2>1. Write(c, r, kind) = d
    BY <1>6 DEF Write
  <2>2. data \in DataN /\ data.parts # <<>>
    BY <1>1 DEF DataN
  <2> HIDE DEF data, s
  <2>3. Wrote(s, d, r)
    BY <1>3, <2>2, SendWorks
  <2> HIDE DEF d
  <2>4. QED  BY <1>1, <2>1, <2>3, WroteTwice
<1>7. QED  BY <1>4, <1>5, <1>6

-----------------------------------------------------------------------------
(* What the operators do to the invariant. *)

LEMMA TurnIs ==
  ASSUME NEW c \in ConnN, Owned(c)
  PROVE  /\ Turn(c) \in Nat /\ Turn(c) > 0 /\ Len(c.response) \in Nat
         /\ DOMAIN c.response = 1..Len(c.response)
         /\ c.http # None => Turn(c) = c.http
         /\ c.http = None /\ c.assigning # None => Turn(c) = c.assigning
         /\ c.http = None /\ c.assigning = None => Turn(c) = Len(c.response) + 1
         /\ c.http \in Nat /\ c.assigning \in Nat
<1>1. c.response \in Seq(ResponseN) /\ c.http \in Nat /\ c.assigning \in Nat
  BY ConstantsAssumption DEF ConnN
<1>2. Len(c.response) \in Nat /\ DOMAIN c.response = 1..Len(c.response)
  BY <1>1
<1>3. QED  BY <1>1, <1>2 DEF Turn, None, Owned

LEMMA WireTypes ==
  ASSUME NEW c \in ConnN
  PROVE  /\ c.wire \in Seq(Request \X DataN) /\ Len(c.wire) \in Nat
         /\ DOMAIN c.wire = 1..Len(c.wire)
         /\ \A i \in DOMAIN c.wire : c.wire[i][1] \in Nat /\ c.wire[i][1] > 0
<1>1. c.wire \in Seq(Request \X DataN)
  BY DEF ConnN
<1>2. \A x \in Request \X DataN : x[1] \in Nat /\ x[1] > 0
  BY ConstantsAssumption DEF Request
<1>3. QED  BY <1>1, <1>2

(* What is added to the wire is of the response whose turn it is. *)
LEMMA WireGrows ==
  ASSUME NEW c \in ConnN, NEW d \in ConnN, Owned(c), WireRight(c),
         c.writable, d.writable,
         NEW r, r = Turn(c), r = Turn(d), r \in DOMAIN c.response,
         Len(d.response) = Len(c.response), Longer(c.wire, d.wire, r),
         \A q \in DOMAIN c.response : q < r =>
           d.response[q].finished /\ ~d.response[q].last
  PROVE  WireRight(d)
<1>0. /\ DOMAIN c.response = 1..Len(c.response) /\ r \in 1..Len(c.response)
      /\ d.response \in Seq(ResponseN) /\ Len(c.response) \in Nat
      /\ DOMAIN d.response = DOMAIN c.response
  BY TurnIs DEF ConnN
<1>1. /\ DOMAIN c.wire = 1..Len(c.wire) /\ DOMAIN d.wire = 1..Len(d.wire)
      /\ Len(c.wire) \in Nat /\ Len(d.wire) \in Nat /\ Len(c.wire) <= Len(d.wire)
      /\ \A i \in DOMAIN c.wire : c.wire[i][1] \in Nat /\ c.wire[i][1] <= r
  BY WireTypes DEF WireRight, Longer
<1>2. \A i \in DOMAIN d.wire :
        /\ d.wire[i][1] \in DOMAIN d.response /\ d.wire[i][1] <= r
        /\ i \in DOMAIN c.wire => d.wire[i] = c.wire[i]
        /\ i \notin DOMAIN c.wire => d.wire[i][1] = r
  BY <1>0, <1>1 DEF WireRight, Longer
<1>3. ASSUME NEW i \in DOMAIN d.wire, NEW q \in 1..(d.wire[i][1] - 1)
      PROVE  d.response[q].finished /\ ~d.response[q].last
  <2>1. q \in DOMAIN c.response /\ q < r
    BY <1>0, <1>2
  <2>2. QED  BY <2>1
<1>4. ASSUME NEW i \in DOMAIN d.wire, NEW j \in DOMAIN d.wire, i < j
      PROVE  d.wire[i][1] <= d.wire[j][1]
  <2>1. CASE j \in DOMAIN c.wire
    <3>1. i \in DOMAIN c.wire
      BY <1>1, <1>4, <2>1
    <3>2. QED  BY <1>2, <1>4, <2>1, <3>1 DEF WireRight
  <2>2. CASE j \notin DOMAIN c.wire
    BY <1>0, <1>2, <2>2
  <2>3. QED  BY <2>1, <2>2
<1>5. QED  BY <1>2, <1>3, <1>4 DEF WireRight

(* When nothing is added it stays right. *)
LEMMA WireStays ==
  ASSUME NEW c \in ConnN, NEW d \in ConnN, WireRight(c), d.wire = c.wire,
         DOMAIN c.response \subseteq DOMAIN d.response,
         d.writable => c.writable /\ Turn(c) <= Turn(d),
         Turn(c) \in Nat, Turn(d) \in Nat,
         \A q \in DOMAIN c.response :
           c.response[q].finished /\ ~c.response[q].last =>
             d.response[q].finished /\ ~d.response[q].last
  PROVE  WireRight(d)
<1>0. /\ \A i \in DOMAIN c.wire : c.wire[i][1] \in Nat /\ c.wire[i][1] > 0
      /\ c.response \in Seq(ResponseN)
  BY WireTypes DEF ConnN
<1>1. ASSUME NEW i \in DOMAIN d.wire
      PROVE  /\ d.wire[i][1] \in DOMAIN d.response
             /\ d.writable => d.wire[i][1] <= Turn(d)
  BY <1>0 DEF WireRight
<1>2. ASSUME NEW i \in DOMAIN d.wire, NEW q \in 1..(d.wire[i][1] - 1)
      PROVE  d.response[q].finished /\ ~d.response[q].last
  <2>1. c.response[q].finished /\ ~c.response[q].last
    BY DEF WireRight
  <2>2. c.wire[i][1] \in DOMAIN c.response
    BY DEF WireRight
  <2>3. q \in DOMAIN c.response
    BY <1>0, <2>2
  <2>4. QED  BY <2>1, <2>3
<1>3. QED  BY <1>1, <1>2 DEF WireRight

LEMMA WroteInv ==
  ASSUME NEW c, Inv(c), NEW d, NEW r \in DOMAIN c.response,
         Wrote(c, d, r), ~c.response[r].finished
  PROVE  Inv(d)
<1>0. /\ c \in ConnN /\ d \in ConnN /\ Same(c, d, r)
      /\ Owned(c) /\ Served(c) /\ WireRight(c) /\ Turn(d) = Turn(c)
      /\ d.response[r].finished = c.response[r].finished
      /\ DOMAIN d.response = DOMAIN c.response
      /\ Len(d.response) = Len(c.response)
  BY DEF Inv, Wrote, Same, Turn
<1>1. Flags(d) /\ AnswersRight(d) /\ Owned(d)
  <2>1. Flags(d) /\ AnswersRight(d)
    BY <1>0 DEF Inv, Same, Flags, AnswersRight
  <2>2. \A q \in DOMAIN c.response : d.response[q].hasSocket = c.response[q].hasSocket
    BY <1>0 DEF Same
  <2>3. Owned(d)
    BY <1>0, <2>2 DEF Same, Owned
  <2>4. QED  BY <2>1, <2>3
<1>2. CASE Direct(c, r)
  <2>1. c.writable /\ c.http = r /\ Turn(c) = r /\ r # None /\ Chain(c)
    BY <1>0, <1>2, TurnIs DEF Direct, Inv, Over, None
  <2>2. d.response[r].output = <<>>
    BY <1>0, <1>2, <2>1 DEF Wrote, Served
  <2>3. Served(d)
    BY <1>0, <2>1, <2>2 DEF Served, Same
  <2>4. Chain(d)
    BY ZenonT(40), <1>0, <2>1, TurnIs DEF Chain, Same
  <2>5. WireRight(d)
    <3>1. \A q \in DOMAIN c.response : q < r =>
            d.response[q].finished /\ ~d.response[q].last
      BY <1>0, <2>1, TurnIs DEF Chain, Same
    <3>2. d.writable /\ Longer(c.wire, d.wire, r)
      BY <1>0, <1>2, <2>1 DEF Wrote, Same
    <3>3. QED  BY <1>0, <2>1, <3>1, <3>2, WireGrows
  <2>6. QED  BY <1>0, <1>1, <2>3, <2>4, <2>5 DEF Inv
<1>3. CASE ~Direct(c, r)
  <2>1. ~(c.writable /\ c.http = r)
    BY <1>0, <1>3 DEF Direct, Owned
  <2>2. Served(d)
    BY <1>0, <2>1 DEF Served, Same, Owned
  <2>3. d.wire = c.wire /\ (Holds(c.response[r]) => Holds(d.response[r]))
    BY <1>3 DEF Wrote
  <2>4. WireRight(d)
    <3>1. \A q \in DOMAIN c.response :
            c.response[q].finished /\ ~c.response[q].last =>
              d.response[q].finished /\ ~d.response[q].last
      BY <1>0 DEF Same
    <3>2. d.writable = c.writable /\ Turn(c) \in Nat
      BY <1>0, TurnIs DEF Same
    <3>3. QED  BY <1>0, <2>3, <3>1, <3>2, WireStays
  <2>5. Chain(c) => Chain(d)
    BY ZenonT(40), <1>0, <2>3, TurnIs DEF Chain, Same
  <2>6. Over(c) => Over(d)
    BY <1>0, <2>3 DEF Over, Same, Owned
  <2>7. QED  BY <1>0, <1>1, <2>2, <2>4, <2>5, <2>6 DEF Inv
<1>4. QED  BY <1>2, <1>3

(* Response r has just been ended, with nothing left to write. *)
Ending(c, r) ==
  /\ c \in ConnN /\ Flags(c) /\ Owned(c) /\ Chain(c) /\ WireRight(c)
  /\ AnswersRight(c)
  /\ r = c.http /\ r # None /\ c.response[r].finished
  /\ c.writable => c.response[r].listening

LEMMA FinishWorks ==
  ASSUME NEW c, NEW r, Ending(c, r)
  PROVE  Inv(Finish(c, r))
<1> DEFINE none == c.incomings = <<>>
           a == IF none THEN None ELSE Head(c.incomings)
           as == Append(c.answered, <<r, a>>)
           is == IF none THEN c.incomings ELSE Tail(c.incomings)
           m == [c.response[r] EXCEPT !.hasSocket = FALSE, !.listening = FALSE]
           ms == [c.response EXCEPT ![r] = m]
           s == [c EXCEPT !.answered = as, !.incomings = is]
           d == [c EXCEPT !.answered = as, !.incomings = is, !.http = None,
                          !.response = ms]
<1>0. /\ c \in ConnN /\ Flags(c) /\ Owned(c) /\ Chain(c) /\ WireRight(c)
      /\ AnswersRight(c) /\ c.assigning = None /\ ~c.broken
      /\ r = c.http /\ r # None /\ r = Turn(c) /\ r \in DOMAIN c.response
      /\ c.response[r].finished
      /\ DOMAIN c.response = 1..Len(c.response) /\ Len(c.response) \in Nat
      /\ Len(c.response) <= MaxRequests
      /\ r \in 1..Len(c.response) /\ r \in Request
      /\ c.response \in Seq(ResponseN) /\ c.incomings \in Seq(Request)
      /\ c.outgoings \in Seq(Request)
      /\ c.answered \in Seq(Request \X (0..MaxRequests))
      /\ c.response[r] \in ResponseN
  <2>1. c \in ConnN /\ Owned(c) /\ r = c.http /\ r # None /\ r \in DOMAIN c.response
    BY DEF Ending, Owned
  <2>2. r = Turn(c) /\ DOMAIN c.response = 1..Len(c.response)
        /\ Len(c.response) \in Nat /\ Len(c.response) <= MaxRequests
    BY <2>1, TurnIs DEF Owned
  <2>3. r \in Request
    BY <2>1, <2>2, ConstantsAssumption DEF Request
  <2>4. c.response \in Seq(ResponseN) /\ c.incomings \in Seq(Request)
        /\ c.outgoings \in Seq(Request)
        /\ c.answered \in Seq(Request \X (0..MaxRequests))
    BY <2>1 DEF ConnN
  <2>5. QED  BY <2>1, <2>2, <2>3, <2>4, Responses DEF Ending, Owned
<1>9. r \in Nat /\ r > 0 /\ Len(c.response) \in Nat /\ MaxRequests \in Nat
      /\ Len(c.response) <= MaxRequests
  BY <1>0, ConstantsAssumption
<1>1. CASE ~c.response[r].listening
  <2>1. Finish(c, r) = c
    BY <1>1 DEF Finish
  <2>2. Served(c)
    BY <1>1 DEF Ending, Served
  <2>3. QED  BY <1>0, <2>1, <2>2 DEF Inv
<1>2. CASE c.response[r].listening
  <2>1. a \in 0..MaxRequests /\ is \in Seq(Request)
    <3>1. \A x \in Request : x \in 0..MaxRequests
      BY ConstantsAssumption DEF Request
    <3>2. CASE none
      BY <1>0, <3>2, ConstantsAssumption DEF None
    <3>3. CASE ~none
      <4>1. Head(c.incomings) \in Request /\ Tail(c.incomings) \in Seq(Request)
        BY <1>0, <3>3
      <4>2. QED  BY <3>1, <3>3, <4>1
    <3>4. QED  BY <3>2, <3>3
  <2>2. /\ as \in Seq(Request \X (0..MaxRequests)) /\ Len(as) = Len(c.answered) + 1
        /\ \A i \in DOMAIN as : IF i \in DOMAIN c.answered THEN as[i] = c.answered[i]
                                ELSE as[i] = <<r, a>>
    <3> HIDE DEF a
    <3>1. <<r, a>> \in Request \X (0..MaxRequests)
      BY <1>0, <2>1
    <3>2. QED  BY <1>0, <3>1
  <2>3. ~c.aborted => /\ a = r /\ r + 1 + Len(is) = Len(c.response) + 1
                      /\ \A k \in DOMAIN is : is[k] + 1 = r + 1 + k
    <3> SUFFICES ASSUME ~c.aborted
                 PROVE  /\ a = r /\ r + 1 + Len(is) = Len(c.response) + 1
                        /\ \A k \in DOMAIN is : is[k] + 1 = r + 1 + k
      OBVIOUS
    <3>1. /\ r + Len(c.incomings) = Len(c.response) + 1
          /\ \A k \in DOMAIN c.incomings : c.incomings[k] + 1 = r + k
      BY <1>0 DEF Chain
    <3>2. Len(c.incomings) > 0
      BY <1>0, <3>1
    <3>3. a = r
      <4>1. c.incomings[1] + 1 = r + 1 /\ c.incomings[1] \in Nat /\ a = c.incomings[1]
        BY <1>0, <3>1, <3>2, ConstantsAssumption DEF Request
      <4> HIDE DEF a
      <4>2. QED  BY <1>0, <4>1
    <3>4. is = Tail(c.incomings) /\ Len(is) = Len(c.incomings) - 1
          /\ \A k \in DOMAIN is : k + 1 \in DOMAIN c.incomings
                                  /\ is[k] = c.incomings[k + 1] /\ k \in Nat
      BY <1>0, <3>2
    <3> HIDE DEF is
    <3>5. \A k \in DOMAIN is : is[k] + 1 = r + (k + 1)
      BY <3>1, <3>4
    <3>6. Len(is) \in Nat /\ Len(c.incomings) \in Nat
      BY <1>0, <2>1
    <3>7. r + 1 + Len(is) = Len(c.response) + 1
      BY <1>0, <3>1, <3>4, <3>6
    <3>8. \A k \in DOMAIN is : is[k] + 1 = r + 1 + k
      <4> SUFFICES ASSUME NEW k \in DOMAIN is  PROVE is[k] + 1 = r + 1 + k
        OBVIOUS
      <4>1. k \in Nat /\ is[k] + 1 = r + (k + 1)
        BY <3>4, <3>5
      <4>2. QED  BY <1>9, <4>1
    <3>9. QED  BY <3>3, <3>7, <3>8
  <2>4. /\ m \in ResponseN /\ ~m.hasSocket
        /\ m.finished /\ m.last = c.response[r].last
    BY <1>0 DEF ResponseN
  <2> HIDE DEF m
  <2>5. /\ ms \in Seq(ResponseN) /\ Len(ms) = Len(c.response)
        /\ DOMAIN ms = DOMAIN c.response /\ ms[r] = m
        /\ \A q \in DOMAIN c.response : q # r => ms[q] = c.response[q]
    BY <1>0, <2>4
  <2>6. Finish(c, r) = AssignNext(d, r)
    <3>1. Finish(c, r) = AssignNext(Detach(s, r), r)
      BY <1>2 DEF Finish
    <3>2. /\ s \in ConnN /\ s.http = c.http /\ s.response = c.response
          /\ s.broken = c.broken
      BY <1>0, <2>1, <2>2 DEF ConnN
    <3>3. d = [s EXCEPT !.http = None, !.response = ms]
      BY <1>0 DEF ConnN
    <3> HIDE DEF s, d
    <3>4. Detach(s, r) = [s EXCEPT !.http = None, !.response = ms, !.broken = FALSE]
      BY ZenonT(40), <1>0, <3>2 DEF Detach, ms, m
    <3>5. Detach(s, r) = d
      <4>1. s.broken = FALSE
        BY <1>0, <3>2 DEF ConnN
      <4> HIDE DEF ms
      <4>2. [s EXCEPT !.http = None, !.response = ms, !.broken = FALSE]
             = [s EXCEPT !.http = None, !.response = ms]
        BY <3>2, <4>1 DEF ConnN
      <4>3. QED  BY <3>3, <3>4, <4>2
    <3>6. QED  BY <3>1, <3>5
  <2> HIDE DEF ms, as, is, a
  <2>7. /\ d \in ConnN /\ d.answered = as /\ d.incomings = is /\ d.http = None
        /\ d.response = ms /\ d.writable = c.writable /\ d.ended = c.ended
        /\ d.destroyed = c.destroyed /\ d.closed = c.closed
        /\ d.outgoings = c.outgoings /\ d.assigning = None
        /\ d.aborting = c.aborting /\ d.aborted = c.aborted
        /\ d.wire = c.wire /\ d.broken = FALSE
    <3>1. d.answered = as /\ d.incomings = is /\ d.http = None
        /\ d.response = ms /\ d.writable = c.writable /\ d.ended = c.ended
        /\ d.destroyed = c.destroyed /\ d.closed = c.closed
        /\ d.outgoings = c.outgoings /\ d.assigning = c.assigning
        /\ d.aborting = c.aborting /\ d.aborted = c.aborted
        /\ d.wire = c.wire /\ d.broken = c.broken
      BY <1>0 DEF ConnN
    <3>2. None \in 0..MaxRequests
      BY ConstantsAssumption DEF None
    <3>3. d \in ConnN
      BY <1>0, <2>1, <2>2, <2>5, <3>2 DEF ConnN
    <3>4. c.broken = FALSE
      BY <1>0 DEF ConnN
    <3>5. QED  BY <1>0, <3>1, <3>3, <3>4
  <2> HIDE DEF d
  <2>8. /\ \A q \in DOMAIN ms : ms[q].hasSocket = FALSE
        /\ \A q \in DOMAIN ms : q < r \/ (q = r /\ ~c.response[r].last)
                                => ms[q].finished /\ ~ms[q].last
        /\ \A q \in DOMAIN ms : q > r =>
             /\ ms[q].listening /\ Holds(ms[q])
             /\ ms[q].finished => ms[q].headerSent
        /\ \A q \in DOMAIN ms :
             c.response[q].finished /\ ~c.response[q].last =>
               ms[q].finished /\ ~ms[q].last
    <3>1. \A q \in DOMAIN ms : ms[q].hasSocket = FALSE
      <4>1. \A q \in DOMAIN ms : ms[q] \in ResponseN
        BY <2>5
      <4>2. \A q \in DOMAIN ms : ~ms[q].hasSocket
        BY <1>0, <2>4, <2>5 DEF Owned
      <4>3. QED  BY <4>1, <4>2 DEF ResponseN
    <3>2. \A q \in DOMAIN ms : q < r \/ (q = r /\ ~c.response[r].last)
                               => ms[q].finished /\ ~ms[q].last
      BY <1>0, <2>4, <2>5 DEF Chain
    <3>3. \A q \in DOMAIN ms : q > r =>
            /\ ms[q].listening /\ Holds(ms[q])
            /\ ms[q].finished => ms[q].headerSent
      <4> SUFFICES ASSUME NEW q \in DOMAIN ms, q > r
                   PROVE  /\ ms[q].listening /\ Holds(ms[q])
                          /\ ms[q].finished => ms[q].headerSent
        OBVIOUS
      <4>1. q \in DOMAIN c.response /\ q >= Turn(c) /\ q # c.http
            /\ ms[q] = c.response[q]
        BY <1>0, <2>5
      <4>2. QED  BY <1>0, <4>1 DEF Chain
    <3>4. QED  BY <1>0, <2>4, <2>5, <3>1, <3>2, <3>3
  <2>9. AnswersRight(d) /\ Flags(d)
    <3>1. ~c.aborted => \A i \in DOMAIN as : as[i][1] = as[i][2]
      <4> SUFFICES ASSUME ~c.aborted, NEW i \in DOMAIN as  PROVE as[i][1] = as[i][2]
        OBVIOUS
      <4>1. CASE i \in DOMAIN c.answered
        BY <1>0, <2>2, <4>1 DEF AnswersRight
      <4>2. CASE i \notin DOMAIN c.answered
        <5>1. as[i] = <<r, r>>
          BY <2>2, <2>3, <4>2
        <5>2. QED  BY <5>1
      <4>3. QED  BY <4>1, <4>2
    <3>2. QED  BY <1>0, <2>7, <3>1 DEF AnswersRight, Flags
  <2>10. /\ r + Len(c.outgoings) = Len(c.response)
         /\ \A k \in DOMAIN c.outgoings : c.outgoings[k] = r + k
    BY <1>0 DEF Chain
  <2>11. CASE c.response[r].last
    <3> DEFINE e == [d EXCEPT !.writable = FALSE]
    <3>1. Finish(c, r) = e
      BY <2>4, <2>5, <2>6, <2>7, <2>11 DEF AssignNext
    <3>2. /\ e \in ConnN /\ e.answered = as /\ e.http = None
          /\ e.response = ms /\ e.writable = FALSE
          /\ e.destroyed = c.destroyed /\ e.closed = c.closed
          /\ e.assigning = None /\ e.aborting = c.aborting
          /\ e.aborted = c.aborted /\ e.wire = c.wire /\ e.broken = FALSE
      BY <2>7 DEF ConnN
    <3> HIDE DEF e
    <3>3. Owned(e) /\ Served(e) /\ Over(e)
      BY <1>0, <2>5, <2>8, <3>2, ConstantsAssumption DEF Owned, Served, Over, None
    <3>4. WireRight(e)
      <4>1. Turn(e) \in Nat /\ Turn(c) \in Nat
        BY <1>0, <3>2, <3>3, TurnIs
      <4>2. QED  BY <1>0, <2>5, <2>8, <3>2, <4>1, WireStays
    <3>5. AnswersRight(e) /\ Flags(e)
      BY ZenonT(40), <2>9, <2>7, <3>2 DEF AnswersRight, Flags
    <3>6. QED  BY <3>1, <3>2, <3>3, <3>4, <3>5 DEF Inv
  <2>12. CASE ~c.response[r].last /\ c.outgoings = <<>>
    <3>1. Finish(c, r) = d
      BY <2>4, <2>5, <2>6, <2>7, <2>12 DEF AssignNext
    <3>2. r = Len(c.response)
      BY <1>0, <2>10, <2>12
    <3>3. Owned(d) /\ Served(d)
      BY <1>0, <2>5, <2>8, <2>7 DEF Owned, Served, None
    <3>4. Turn(d) = r + 1
      BY <2>5, <2>7, <3>2, <3>3, TurnIs
    <3>5. Chain(d)
      <4>1. \A q \in DOMAIN d.response : q < r + 1 /\ q \in Nat
        BY <1>0, <2>5, <2>7, <3>2
      <4>2. \A q \in DOMAIN d.response : d.response[q].finished /\ ~d.response[q].last
        BY <1>0, <2>5, <2>7, <2>8, <2>12, <3>2
      <4>3. \A q \in DOMAIN d.response : ~(q >= Turn(d))
        BY <1>0, <3>4, <4>1
      <4>4. Turn(d) > Len(d.response) /\ Len(d.outgoings) = 0 /\ DOMAIN d.outgoings = {}
            /\ Turn(d) + 0 = Turn(d)
        BY <1>0, <2>5, <2>7, <2>12, <3>2, <3>4
      <4>5. ~d.aborted => /\ Turn(d) + Len(d.incomings) = Len(d.response) + 1
                          /\ \A k \in DOMAIN d.incomings :
                               d.incomings[k] + 1 = Turn(d) + k
        BY <2>3, <2>5, <2>7, <3>4
      <4>6. QED  BY <4>2, <4>3, <4>4, <4>5 DEF Chain
    <3>6. WireRight(d)
      <4>1. Turn(c) <= Turn(d) /\ Turn(c) \in Nat /\ Turn(d) \in Nat
        BY <1>0, <3>4
      <4>2. QED  BY <1>0, <2>5, <2>7, <2>8, <4>1, WireStays
    <3>7. QED  BY <2>7, <2>9, <3>1, <3>3, <3>5, <3>6 DEF Inv
  <2>13. CASE ~c.response[r].last /\ c.outgoings # <<>>
    <3> DEFINE o == Head(c.outgoings)
               os == Tail(c.outgoings)
               e == [d EXCEPT !.assigning = o, !.outgoings = os]
    <3>1. Finish(c, r) = e
      BY <2>4, <2>5, <2>6, <2>7, <2>13 DEF AssignNext
    <3>2. /\ o = r + 1 /\ o \in Request /\ os \in Seq(Request)
          /\ o + Len(os) = Len(c.response)
          /\ \A k \in DOMAIN os : os[k] = o + k
      <4>1. Len(c.outgoings) > 0 /\ o = c.outgoings[1] /\ o \in Request
            /\ os \in Seq(Request) /\ Len(os) = Len(c.outgoings) - 1
            /\ \A k \in DOMAIN os : k + 1 \in DOMAIN c.outgoings
                                    /\ os[k] = c.outgoings[k + 1] /\ k \in Nat
        BY <1>0, <2>13
      <4> HIDE DEF o, os
      <4>2. o = r + 1
        BY <2>10, <4>1
      <4>3. Len(c.outgoings) \in Nat
        BY <1>0
      <4>4. o + Len(os) = Len(c.response)
        BY <1>0, <2>10, <4>1, <4>2, <4>3
      <4>5. \A k \in DOMAIN os : os[k] = o + k
        <5> SUFFICES ASSUME NEW k \in DOMAIN os  PROVE os[k] = o + k
          OBVIOUS
        <5>1. k \in Nat /\ os[k] = r + (k + 1)
          BY <2>10, <4>1
        <5>2. QED  BY <1>9, <4>2, <5>1
      <4>6. QED  BY <4>1, <4>2, <4>4, <4>5
    <3> HIDE DEF o, os
    <3>3. o \in 0..MaxRequests /\ o \in 1..Len(c.response) /\ o > r
      <4>1. Len(os) \in Nat /\ o \in Nat /\ MaxRequests \in Nat
        BY SMTT(40), <1>0, <3>2, ConstantsAssumption
      <4>2. QED  BY <1>9, <3>2, <4>1
    <3>4. /\ e \in ConnN /\ e.answered = as /\ e.http = None
          /\ e.incomings = is /\ e.outgoings = os
          /\ e.response = ms /\ e.writable = c.writable
          /\ e.destroyed = c.destroyed /\ e.closed = c.closed
          /\ e.assigning = o /\ e.aborting = c.aborting
          /\ e.aborted = c.aborted /\ e.wire = c.wire /\ e.broken = FALSE
      BY <2>7, <3>2, <3>3 DEF ConnN
    <3> HIDE DEF e
    <3>5. Owned(e) /\ Served(e) /\ o # None
      BY <1>0, <2>5, <2>8, <3>3, <3>4 DEF Owned, Served, None
    <3>6. Turn(e) = o
      BY <3>4, <3>5, TurnIs
    <3>7. Chain(e)
      <4>1. \A q \in DOMAIN ms : q < o => ms[q].finished /\ ~ms[q].last
        BY SMTT(40), <1>0, <2>5, <2>8, <2>13, <3>2
      <4>2. \A q \in DOMAIN ms : q >= o =>
              /\ ms[q].listening /\ Holds(ms[q])
              /\ ms[q].finished => ms[q].headerSent
        BY SMTT(40), <1>0, <2>5, <2>8, <3>2
      <4>3. ~e.aborted => /\ o + Len(e.incomings) = Len(e.response) + 1
                          /\ \A k \in DOMAIN e.incomings : e.incomings[k] + 1 = o + k
        BY <2>3, <2>5, <3>2, <3>4
      <4>4. ~(o > Len(ms))
        BY <1>0, <2>5, <3>3
      <4>5. QED  BY <2>5, <3>2, <3>4, <3>6, <4>1, <4>2, <4>3, <4>4 DEF Chain
    <3>8. WireRight(e)
      <4>1. Turn(c) <= Turn(e) /\ Turn(c) \in Nat /\ Turn(e) \in Nat
        BY SMTT(40), <1>0, <3>2, <3>6
      <4>2. QED  BY <1>0, <2>5, <2>8, <3>4, <4>1, WireStays
    <3>9. AnswersRight(e) /\ Flags(e)
      BY ZenonT(40), <2>9, <2>7, <3>4 DEF AnswersRight, Flags
    <3>10. QED  BY <3>1, <3>4, <3>5, <3>7, <3>8, <3>9 DEF Inv
  <2>14. QED  BY <2>11, <2>12, <2>13
<1>3. QED  BY <1>1, <1>2

LEMMA EndingByEnd ==
  ASSUME NEW c, Inv(c), NEW s, NEW r \in DOMAIN c.response,
         Wrote(c, s, r), ~c.response[r].finished, s.response[r].headerSent,
         NEW said \in Seq(Nat)
  PROVE  LET n == [s.response[r] EXCEPT !.finished = TRUE, !.said = said]
             e == Put(s, s.wire, r, n)
         IN  IF e.response[r].output = <<>> /\ e.http = r
             THEN Ending(e, r) ELSE Inv(e)
<1> DEFINE m == s.response[r]
           n == [m EXCEPT !.finished = TRUE, !.said = said]
           e == Put(s, s.wire, r, n)
<1>0. /\ Inv(s) /\ s \in ConnN /\ r \in DOMAIN s.response
      /\ m \in ResponseN /\ ~m.finished /\ m.headerSent
      /\ s.wire \in Seq(Request \X DataN)
  <2>1. Inv(s) /\ r \in DOMAIN s.response /\ ~m.finished
    BY WroteInv DEF Wrote, Same
  <2>2. s \in ConnN
    BY <2>1 DEF Inv
  <2>3. QED  BY <2>1, <2>2, Responses, WireTypes
<1>1. /\ n \in ResponseN /\ n.hasSocket = m.hasSocket
      /\ n.listening = m.listening /\ n.finished = TRUE
      /\ n.headerSent = m.headerSent /\ n.output = m.output /\ n.last = m.last
  BY <1>0 DEF ResponseN
<1> HIDE DEF n
<1>2. Same(s, e, r) /\ e.response[r] = n /\ e.wire = s.wire
  BY <1>0, <1>1, PutWorks
<1> HIDE DEF e
<1>3. /\ e \in ConnN /\ Turn(e) = Turn(s)
      /\ DOMAIN e.response = DOMAIN s.response
      /\ Len(e.response) = Len(s.response)
      /\ e.http = s.http /\ e.writable = s.writable
      /\ Flags(s) /\ Owned(s) /\ Served(s) /\ WireRight(s) /\ AnswersRight(s)
  BY <1>0, <1>2 DEF Same, Turn, Inv
<1>4. Flags(e) /\ AnswersRight(e) /\ Owned(e)
  <2>1. Flags(e) /\ AnswersRight(e)
    BY <1>2, <1>3 DEF Same, Flags, AnswersRight
  <2>2. \A q \in DOMAIN s.response : e.response[q].hasSocket = s.response[q].hasSocket
    BY <1>2 DEF Same
  <2>3. Owned(e)
    BY <1>2, <1>3, <2>2 DEF Same, Owned
  <2>4. QED  BY <2>1, <2>3
<1>5. WireRight(e)
  <2>1. \A q \in DOMAIN s.response :
          s.response[q].finished /\ ~s.response[q].last =>
            e.response[q].finished /\ ~e.response[q].last
    BY <1>0, <1>2 DEF Same
  <2>2. Turn(s) \in Nat
    BY <1>0, <1>3, TurnIs
  <2>3. QED  BY <1>0, <1>2, <1>3, <2>1, <2>2, WireStays
<1>6. Chain(s) => Chain(e)
  <2> SUFFICES ASSUME Chain(s)  PROVE Chain(e)
    OBVIOUS
  <2>1. r >= Turn(s) /\ r \in Nat /\ Turn(s) \in Nat
    BY <1>0, <1>3, TurnIs DEF Chain
  <2>2. \A q \in DOMAIN e.response : q # r => e.response[q] = s.response[q]
    BY <1>2, <1>3 DEF Same
  <2>3. \A q \in DOMAIN e.response :
          q < Turn(e) => e.response[q].finished /\ ~e.response[q].last
    BY <1>0, <1>3, <2>1, <2>2, TurnIs DEF Chain
  <2>4. \A q \in DOMAIN e.response : q >= Turn(e) /\ q # e.http =>
          /\ e.response[q].listening /\ Holds(e.response[q])
          /\ e.response[q].finished => e.response[q].headerSent
    <3> SUFFICES ASSUME NEW q \in DOMAIN e.response, q >= Turn(e), q # e.http
                 PROVE  /\ e.response[q].listening /\ Holds(e.response[q])
                        /\ e.response[q].finished => e.response[q].headerSent
      OBVIOUS
    <3>1. /\ s.response[q].listening /\ Holds(s.response[q])
          /\ s.response[q].finished => s.response[q].headerSent
      BY <1>3 DEF Chain
    <3>2. CASE q = r
      BY <1>0, <1>1, <1>2, <3>1, <3>2 DEF Holds
    <3>3. CASE q # r
      BY <2>2, <3>1, <3>3
    <3>4. QED  BY <3>2, <3>3
  <2>5. /\ e.outgoings = s.outgoings /\ e.incomings = s.incomings
        /\ e.aborted = s.aborted
    BY <1>2 DEF Same
  <2>6. QED  BY <1>3, <2>3, <2>4, <2>5 DEF Chain
<1>7. CASE e.response[r].output = <<>> /\ e.http = r
  <2>1. ~Over(s) /\ r # None
    <3>1. r # None
      BY <1>0, <1>3, TurnIs DEF None
    <3>2. s.http = r /\ m.output = <<>>
      BY <1>1, <1>2, <1>3, <1>7
    <3>3. QED  BY <1>0, <3>1, <3>2 DEF Over, Holds
  <2>2. Chain(s)
    BY <1>0, <2>1 DEF Inv
  <2>3. e.writable => e.response[r].listening
    BY <1>1, <1>2, <1>3, <1>7, <2>1 DEF Served
  <2>4. QED
    BY <1>1, <1>2, <1>3, <1>4, <1>5, <1>6, <1>7, <2>1, <2>2, <2>3 DEF Ending, n, e
<1>8. CASE ~(e.response[r].output = <<>> /\ e.http = r)
  <2>1. Served(e)
    BY <1>1, <1>2, <1>3, <1>8 DEF Served, Same, Owned
  <2>2. Over(s) => Over(e)
    BY <1>1, <1>2, <1>3 DEF Over, Same, Owned, Holds
  <2>3. Inv(e)
    BY <1>0, <1>3, <1>4, <1>5, <1>6, <2>1, <2>2 DEF Inv
  <2>4. QED  BY <1>8, <2>3 DEF e, n
<1>9. QED  BY <1>7, <1>8 DEF e, n

LEMMA EndWorks ==
  ASSUME NEW c, Inv(c), NEW r \in DOMAIN c.response,
         ~c.response[r].finished, NEW kind \in {"str", "buf", "none"}
  PROVE  Inv(End(c, r, kind))
<1> DEFINE m == c.response[r]
           k == IF m.hasBody THEN kind ELSE "none"
           ender == IF m.chunked THEN <<Last>> ELSE <<>>
           hot == ~m.headerSent /\ k = "str" /\ m.output = <<>> /\ Direct(c, r)
           one == <<r, Str(<<Header>> \o Pieces(c, r) \o ender)>>
           sHot == [Say(c, r) EXCEPT !.wire = Append(@, one),
                                     !.response[r].headerSent = TRUE]
           before == IF k = "none" THEN c ELSE Write(c, r, k)
           sCold == Send(before, r, Str(ender))
           s == IF hot THEN sHot ELSE sCold
           said == s.response[r].said \o ender
           n == [s.response[r] EXCEPT !.finished = TRUE, !.said = said]
           e == Put(s, s.wire, r, n)
<1>0. c \in ConnN /\ Len(c.response) <= MaxRequests /\ r \in Request
  BY RespondsTo DEF Inv, Owned
<1>1. ender \in Seq(Nat)
  <2>1. Last \in Nat
    BY ConstantsAssumption DEF Last
  <2>2. QED  BY <2>1
<1>2. hot => Wrote(c, sHot, r) /\ sHot.response[r].headerSent
  <2> DEFINE t == Say(c, r)
             x == t.response[r]
             y == [x EXCEPT !.headerSent = TRUE]
             w == Append(t.wire, one)
             data == Str(<<Header>> \o Pieces(c, r) \o ender)
  <2> SUFFICES ASSUME hot PROVE Wrote(c, sHot, r) /\ sHot.response[r].headerSent
    OBVIOUS
  <2>1. Wrote(c, t, r)
    BY <1>0, SayWorks
  <2>2. Pieces(c, r) \in Seq(Nat)
    BY <1>0, PiecesWork
  <2>3. data \in DataN
    <3> DEFINE p == Pieces(c, r)
    <3> HIDE DEF p, ender
    <3>1. p \in Seq(Nat) /\ <<Header>> \in Seq(Nat)
      BY <2>2 DEF p, Header
    <3>2. <<Header>> \o p \o ender \in Seq(Nat)
      BY <1>1, <3>1
    <3>3. QED  BY <3>2 DEF Str, DataN, p
  <2> HIDE DEF t, data
  <2>4. t \in ConnN /\ r \in DOMAIN t.response /\ x \in ResponseN
        /\ t.wire \in Seq(Request \X DataN)
    <3>1. t \in ConnN /\ r \in DOMAIN t.response
      BY <1>0, <2>1, Enough DEF Wrote
    <3>2. QED  BY <3>1, Responses, WireTypes
  <2>5. w \in Seq(Request \X DataN) /\ Longer(t.wire, w, r)
    BY <1>0, <2>3, <2>4, LongerByOne DEF data
  <2>6. sHot = [t EXCEPT !.wire = w, !.response[r].headerSent = TRUE]
    BY DEF t
  <2> HIDE DEF sHot, w, x
  <2>7. y \in ResponseN /\ y.headerSent /\ y.hasSocket = x.hasSocket
        /\ y.listening = x.listening /\ y.finished = x.finished
        /\ y.output = x.output
    BY <2>4 DEF ResponseN
  <2> DEFINE d == Put(t, w, r, y)
  <2>8. sHot = d
    BY <2>4, <2>6 DEF Put, ConnN, x
  <2> HIDE DEF y
  <2>9. Same(t, d, r) /\ d.response[r] = y /\ d.wire = w
    BY <2>4, <2>5, <2>7, PutWorks DEF x
  <2> HIDE DEF d
  <2>10. Direct(t, r)
    BY <2>1 DEF Wrote, Same, Direct
  <2>11. Wrote(t, d, r) /\ d.response[r].headerSent
    BY <2>5, <2>7, <2>9, <2>10 DEF Wrote, x
  <2>12. QED  BY <1>0, <2>1, <2>8, <2>11, WroteTwice
<1>3. Wrote(c, sCold, r) /\ sCold.response[r].headerSent
  <2>1. Wrote(c, before, r)
    BY <1>0, WroteNothing, WriteWorks
  <2> HIDE DEF before
  <2>2. before \in ConnN /\ Len(before.response) <= MaxRequests
        /\ r \in DOMAIN before.response
    BY <1>0, <2>1, Enough DEF Wrote
  <2>3. Str(ender) \in DataN /\ Str(ender).kind = "str"
    BY <1>1 DEF Str, DataN
  <2> HIDE DEF ender
  <2>4. Wrote(before, sCold, r) /\ sCold.response[r].headerSent
    BY <2>2, <2>3, SendWorks
  <2>5. QED  BY <1>0, <2>1, <2>4, WroteTwice
<1>4. Wrote(c, s, r) /\ s.response[r].headerSent
  <2> HIDE DEF sHot, sCold, hot
  <2>1. QED  BY <1>2, <1>3
<1>5. End(c, r, kind) = LET f == [s EXCEPT !.response[r].finished = TRUE,
                                           !.response[r].said = @ \o ender]
                        IN  IF f.response[r].output = <<>> /\ f.http = r
                            THEN Finish(f, r) ELSE f
  BY DEF End
<1> HIDE DEF s
<1>6. s \in ConnN /\ r \in DOMAIN s.response /\ s.response[r] \in ResponseN
  <2>1. s \in ConnN /\ r \in DOMAIN s.response
    BY <1>0, <1>4, Enough DEF Wrote
  <2>2. QED  BY <2>1, Responses
<1>7. said \in Seq(Nat)
  <2>1. s.response[r].said \in Seq(Nat)
    BY <1>6 DEF ResponseN
  <2>2. QED  BY <1>1, <2>1
<1>8. [s EXCEPT !.response[r].finished = TRUE, !.response[r].said = @ \o ender] = e
  <2> HIDE DEF ender
  <2>1. QED  BY <1>6 DEF Put, ConnN, ResponseN
<1>9. IF e.response[r].output = <<>> /\ e.http = r THEN Ending(e, r) ELSE Inv(e)
  <2> HIDE DEF said
  <2>1. QED  BY <1>4, <1>7, EndingByEnd
<1> HIDE DEF e
<1>10. QED  BY <1>5, <1>8, <1>9, FinishWorks

(* flush(), when the socket has just been assigned to the next response. *)
LEMMA AssignWorks ==
  ASSUME NEW c, Inv(c), c.assigning # None
  PROVE  Inv(AssignSocket(c))
<1> DEFINE r == c.assigning
           m == c.response[r]
           n == [m EXCEPT !.hasSocket = TRUE]
           ms == [c.response EXCEPT ![r] = n]
           b == [c EXCEPT !.assigning = None, !.http = r, !.response = ms]
           out == n.output
           n2 == [n EXCEPT !.output = <<>>]
           w == c.wire \o [i \in DOMAIN out |-> <<r, out[i]>>]
           f == Put(b, w, r, n2)
<1>1. /\ c \in ConnN /\ Flags(c) /\ Owned(c) /\ Chain(c) /\ WireRight(c)
      /\ AnswersRight(c) /\ ~c.broken /\ r # None
      /\ r \in DOMAIN c.response /\ c.http = None /\ Turn(c) = r
      /\ DOMAIN c.response = 1..Len(c.response) /\ Len(c.response) \in Nat
      /\ Len(c.response) <= MaxRequests
  <2>1. c \in ConnN /\ Owned(c) /\ Chain(c)
    BY DEF Inv, Over
  <2>2. r \in DOMAIN c.response /\ c.http = None
    BY <2>1 DEF Owned
  <2>3. QED  BY <2>1, <2>2, TurnIs DEF Inv, Owned
<1>2. /\ m \in ResponseN /\ r \in Request /\ r \in Nat /\ r \in 0..MaxRequests
      /\ m.listening /\ Holds(m)
      /\ m.finished => m.headerSent
  <2>1. m \in ResponseN /\ r \in Request
    BY <1>1, RespondsTo
  <2>2. m.listening /\ Holds(m)
    BY SMTT(40), <1>1 DEF Chain
  <2>3. m.finished => m.headerSent
    BY SMTT(40), <1>1 DEF Chain
  <2>4. QED  BY <2>1, <2>2, <2>3, ConstantsAssumption DEF Request
<1>3. /\ n \in ResponseN /\ n.hasSocket /\ n.listening
      /\ n.finished = m.finished /\ n.last = m.last /\ n.output = m.output
  <2> HIDE DEF m
  <2>1. n \in ResponseN
    BY <1>2 DEF ResponseN
  <2>2. /\ n.hasSocket = TRUE /\ n.listening = m.listening
        /\ n.finished = m.finished /\ n.last = m.last /\ n.output = m.output
    BY <1>2 DEF ResponseN
  <2>3. QED  BY <1>2, <2>1, <2>2
<1>4. /\ AssignSocket(c) = Flush(b, r)
  <2>1. AssignSocket(c) =
          Flush([c EXCEPT !.assigning = None, !.http = r,
                          !.response[r].hasSocket = TRUE,
                          !.broken = FALSE], r)
    BY <1>1 DEF AssignSocket
  <2>2. [c EXCEPT !.assigning = None, !.http = r,
                  !.response[r].hasSocket = TRUE, !.broken = FALSE]
          = [c EXCEPT !.assigning = None, !.http = r, !.response = ms,
                      !.broken = FALSE]
    OBVIOUS
  <2> HIDE DEF ms, n, m
  <2>3. [c EXCEPT !.assigning = None, !.http = r, !.response = ms,
                  !.broken = FALSE] = b
    BY <1>1 DEF ConnN
  <2>4. QED  BY <2>1, <2>2, <2>3
<1> HIDE DEF n
<1>5. /\ ms \in Seq(ResponseN) /\ Len(ms) = Len(c.response)
      /\ DOMAIN ms = DOMAIN c.response /\ ms[r] = n
      /\ \A q \in DOMAIN c.response : q # r => ms[q] = c.response[q]
  <2>1. c.response \in Seq(ResponseN)
    BY <1>1 DEF ConnN
  <2>2. QED  BY <1>1, <1>3, <2>1
<1> HIDE DEF ms
<1>6. /\ b \in ConnN /\ b.http = r /\ b.response = ms /\ b.assigning = None
      /\ b.writable = c.writable /\ b.destroyed = c.destroyed
      /\ b.closed = c.closed /\ b.incomings = c.incomings
      /\ b.outgoings = c.outgoings /\ b.aborting = c.aborting
      /\ b.aborted = c.aborted /\ b.wire = c.wire
      /\ b.answered = c.answered /\ b.broken = c.broken
  <2>1. None \in 0..MaxRequests
    BY ConstantsAssumption DEF None
  <2>2. QED  BY <1>1, <1>2, <1>5, <2>1 DEF ConnN
<1> HIDE DEF b
<1>7. Flags(b) /\ AnswersRight(b)
  BY <1>1, <1>6 DEF Flags, AnswersRight
<1>8. Owned(b) /\ Turn(b) = r
  <2>1. Owned(b)
    BY <1>1, <1>3, <1>5, <1>6 DEF Owned, None
  <2>2. QED  BY <1>1, <1>6, <2>1, TurnIs
<1>9. Chain(b)
  <2>1. \A q \in DOMAIN ms : q < r => ms[q].finished /\ ~ms[q].last
    <3> SUFFICES ASSUME NEW q \in DOMAIN ms, q < r
                 PROVE  ms[q].finished /\ ~ms[q].last
      OBVIOUS
    <3>1. q # r /\ q \in DOMAIN c.response
      BY <1>2, <1>5
    <3>2. ms[q] = c.response[q]
      BY <1>5, <3>1
    <3>3. c.response[q].finished /\ ~c.response[q].last
      BY <1>1, <3>1 DEF Chain
    <3>4. QED  BY <3>2, <3>3
  <2>2. \A q \in DOMAIN ms : q >= r /\ q # r =>
          /\ ms[q].listening /\ Holds(ms[q])
          /\ ms[q].finished => ms[q].headerSent
    BY <1>1, <1>5 DEF Chain, None
  <2>3. /\ r + Len(c.outgoings) =
             IF r > Len(c.response) THEN r ELSE Len(c.response)
        /\ \A k \in DOMAIN c.outgoings : c.outgoings[k] = r + k
        /\ ~c.aborted => /\ r + Len(c.incomings) = Len(c.response) + 1
                         /\ \A k \in DOMAIN c.incomings : c.incomings[k] + 1 = r + k
    BY <1>1 DEF Chain
  <2>4. /\ b.http = r /\ b.response = ms /\ b.outgoings = c.outgoings
        /\ b.incomings = c.incomings /\ b.aborted = c.aborted
        /\ Turn(b) = r /\ Len(ms) = Len(c.response)
    BY <1>5, <1>6, <1>8
  <2>5. QED  BY <2>1, <2>2, <2>3, <2>4 DEF Chain
<1>10. WireRight(b)
  <2>1. \A q \in DOMAIN c.response :
          c.response[q].finished /\ ~c.response[q].last =>
            ms[q].finished /\ ~ms[q].last
    BY <1>1, <1>3, <1>5
  <2>2. QED  BY <1>1, <1>2, <1>5, <1>6, <1>8, <2>1, WireStays
<1>11. CASE out # <<>> /\ ~b.writable
  <2>1. Flush(b, r) = b
    BY <1>3, <1>5, <1>6, <1>11 DEF Flush
  <2>2. Inv(b)
    BY <1>6, <1>7, <1>8, <1>9, <1>10, <1>11 DEF Inv, Served
  <2>3. QED  BY <1>4, <2>1, <2>2
<1>12. CASE ~(out # <<>> /\ ~b.writable)
  <2>1. Flush(b, r) = IF n.finished THEN Finish(f, r) ELSE f
    <3>1. b.response[r] = n
      BY <1>5, <1>6
    <3>2. b.wire = c.wire
      BY <1>6
    <3> DEFINE g == [b EXCEPT !.wire = w, !.response[r].output = <<>>]
    <3>3. Flush(b, r) = IF n.finished THEN Finish(g, r) ELSE g
      BY <1>12, <3>1, <3>2 DEF Flush
    <3>4. g = f
      BY <3>1 DEF Put
    <3>5. QED  BY <3>3, <3>4
  <2>2. /\ n2 \in ResponseN /\ n2.hasSocket = n.hasSocket
        /\ n2.listening = n.listening /\ n2.finished = n.finished
        /\ n2.last = n.last /\ n2.output = <<>>
    <3>1. <<>> \in Seq(DataN)
      OBVIOUS
    <3>2. QED  BY <1>3, <3>1 DEF ResponseN
  <2>3. w \in Seq(Request \X DataN) /\ Longer(c.wire, w, r)
    <3>1. c.wire \in Seq(Request \X DataN) /\ out \in Seq(DataN)
      BY <1>1, <1>3, WireTypes DEF ResponseN
    <3> HIDE DEF out
    <3>2. QED  BY <1>2, <3>1, LongerByOutput
  <2>4. out = <<>> => w = c.wire
    <3>1. c.wire \in Seq(Request \X DataN)
      BY <1>1, WireTypes
    <3>2. ASSUME out = <<>>  PROVE c.wire \o [i \in DOMAIN out |-> <<r, out[i]>>] = c.wire
      <4>1. [i \in DOMAIN out |-> <<r, out[i]>>] = <<>>
        BY <3>2
      <4>2. c.wire \o <<>> = c.wire
        BY <3>1
      <4>3. QED  BY <4>1, <4>2
    <3>3. QED  BY <3>2
  <2> HIDE DEF n2, w
  <2>5. Same(b, f, r) /\ f.response[r] = n2 /\ f.wire = w
    BY <1>5, <1>6, <1>1, <2>2, <2>3, PutWorks
  <2> HIDE DEF f
  <2>6. /\ f \in ConnN /\ Turn(f) = Turn(b) /\ f.http = r
        /\ DOMAIN f.response = DOMAIN b.response
        /\ Len(f.response) = Len(b.response)
        /\ f.writable = b.writable
    BY <1>6, <2>5 DEF Same, Turn
  <2>7. \A q \in DOMAIN b.response :
          /\ f.response[q].hasSocket = b.response[q].hasSocket
          /\ f.response[q].finished = b.response[q].finished
          /\ f.response[q].last = b.response[q].last
          /\ q # r => f.response[q] = b.response[q]
    BY <1>5, <1>6, <2>2, <2>5 DEF Same
  <2>8. Flags(f) /\ AnswersRight(f) /\ Owned(f)
    BY <1>7, <1>8, <2>5, <2>6, <2>7 DEF Same, Flags, AnswersRight, Owned
  <2>9. Chain(f)
    <3>1. /\ f.outgoings = b.outgoings /\ f.incomings = b.incomings
          /\ f.aborted = b.aborted
      BY <2>5 DEF Same
    <3>2. \A q \in DOMAIN f.response :
            q < Turn(f) => f.response[q].finished /\ ~f.response[q].last
      BY <1>9, <2>6, <2>7 DEF Chain
    <3>3. \A q \in DOMAIN f.response : q >= Turn(f) /\ q # f.http =>
            /\ f.response[q].listening /\ Holds(f.response[q])
            /\ f.response[q].finished => f.response[q].headerSent
      BY <1>6, <1>9, <2>6, <2>7 DEF Chain
    <3>4. QED  BY <1>9, <2>6, <3>1, <3>2, <3>3 DEF Chain
  <2>10. WireRight(f)
    <3>1. CASE b.writable
      <4>1. \A q \in DOMAIN b.response : q < r =>
              f.response[q].finished /\ ~f.response[q].last
        BY <1>8, <1>9, <2>7 DEF Chain
      <4>2. QED
        BY <1>1, <1>5, <1>6, <1>8, <1>10, <2>3, <2>5, <2>6, <3>1, <4>1, WireGrows
    <3>2. CASE ~b.writable
      <4>1. f.wire = b.wire
        BY <1>6, <1>12, <2>4, <2>5, <3>2
      <4>2. QED  BY <1>2, <1>6, <1>8, <1>10, <2>6, <2>7, <4>1, WireStays
    <3>3. QED  BY <3>1, <3>2
  <2>11. CASE n.finished
    <3>1. Ending(f, r)
      BY <1>1, <1>3, <2>2, <2>5, <2>6, <2>8, <2>9, <2>10, <2>11 DEF Ending
    <3>2. QED  BY <1>4, <2>1, <2>11, <3>1, FinishWorks
  <2>12. CASE ~n.finished
    <3>1. Served(f)
      BY <1>3, <2>2, <2>5, <2>6, <2>12 DEF Served
    <3>2. Inv(f)
      BY <2>6, <2>8, <2>9, <2>10, <3>1 DEF Inv
    <3>3. QED  BY <1>4, <2>1, <2>12, <3>2
  <2>13. QED  BY <2>11, <2>12
<1>13. QED  BY <1>11, <1>12

(* What the socket does ends no response and hands out no turn. *)
LEMMA SocketWorks ==
  ASSUME NEW c, Inv(c), NEW d \in ConnN, Flags(d),
         d.response = c.response, d.http = c.http, d.assigning = c.assigning,
         d.outgoings = c.outgoings, d.wire = c.wire, d.answered = c.answered,
         d.broken = c.broken, d.writable => c.writable,
         ~d.aborted => ~c.aborted /\ d.incomings = c.incomings
  PROVE  Inv(d)
<1>1. c \in ConnN /\ Owned(c) /\ Turn(d) = Turn(c) /\ Turn(c) \in Nat
  BY TurnIs DEF Inv, Turn
<1>2. Owned(d) /\ Served(d) /\ AnswersRight(d)
  BY DEF Inv, Owned, Served, AnswersRight
<1>3. Chain(c) => Chain(d)
  BY <1>1 DEF Chain
<1>4. Over(c) => Over(d)
  BY DEF Over
<1>5. WireRight(d)
  BY <1>1, WireStays DEF Inv
<1>6. QED  BY <1>2, <1>3, <1>4, <1>5 DEF Inv

LEMMA AbortIncomingEndsWorks ==
  ASSUME Inv(conn), AbortIncomingEnds
  PROVE  Inv(conn')
<1>0. conn \in ConnN /\ Flags(conn) /\ Owned(conn)
  BY DEF Inv
<1>1. CASE conn.aborting = "onEnd"
  <2> DEFINE d == [conn EXCEPT !.aborting = "no", !.writable = FALSE]
  <2>1. /\ d \in ConnN /\ d.aborting = "no" /\ d.writable = FALSE
        /\ d.response = conn.response /\ d.http = conn.http
        /\ d.assigning = conn.assigning /\ d.outgoings = conn.outgoings
        /\ d.wire = conn.wire /\ d.answered = conn.answered
        /\ d.broken = conn.broken /\ d.aborted = conn.aborted
        /\ d.incomings = conn.incomings /\ d.closed = conn.closed
        /\ d.destroyed = conn.destroyed
    BY <1>0 DEF ConnN
  <2>2. conn' = d
    BY <1>1 DEF AbortIncomingEnds
  <2> HIDE DEF d
  <2>3. Flags(d)
    BY <1>0, <2>1 DEF Flags
  <2>4. Inv(d)
    BY <2>1, <2>3, SocketWorks
  <2>5. QED  BY <2>2, <2>4
<1>2. CASE conn.aborting # "onEnd"
  <2> DEFINE c == conn
             ms == [r \in DOMAIN c.response |->
                      IF r = c.http
                      THEN [c.response[r] EXCEPT !.listening = FALSE]
                      ELSE c.response[r]]
             d == [c EXCEPT !.aborting = "no", !.response = ms]
  <2>1. conn' = d
    BY <1>2 DEF AbortIncomingEnds
  <2>2. /\ c.response \in Seq(ResponseN) /\ Len(c.response) \in Nat
        /\ DOMAIN c.response = 1..Len(c.response)
    BY <1>0 DEF ConnN
  <2>3. \A r \in DOMAIN c.response :
          /\ ms[r] \in ResponseN
          /\ ms[r].hasSocket = c.response[r].hasSocket
          /\ ms[r].finished = c.response[r].finished
          /\ ms[r].last = c.response[r].last
          /\ ms[r].headerSent = c.response[r].headerSent
          /\ ms[r].output = c.response[r].output
          /\ r # c.http => ms[r] = c.response[r]
    <3> SUFFICES ASSUME NEW r \in DOMAIN c.response
                 PROVE  /\ ms[r] \in ResponseN
                        /\ ms[r].hasSocket = c.response[r].hasSocket
                        /\ ms[r].finished = c.response[r].finished
                        /\ ms[r].last = c.response[r].last
                        /\ ms[r].headerSent = c.response[r].headerSent
                        /\ ms[r].output = c.response[r].output
                        /\ r # c.http => ms[r] = c.response[r]
      OBVIOUS
    <3>1. c.response[r] \in ResponseN
      BY <2>2
    <3>2. ms[r] = IF r = c.http THEN [c.response[r] EXCEPT !.listening = FALSE]
                  ELSE c.response[r]
      OBVIOUS
    <3> HIDE DEF ms, c
    <3>3. CASE r = c.http
      <4> DEFINE m == c.response[r]
      <4> HIDE DEF m
      <4>1. ms[r] = [m EXCEPT !.listening = FALSE] /\ m \in ResponseN
        BY <3>1, <3>2, <3>3 DEF m
      <4>2. /\ ms[r] \in ResponseN
            /\ ms[r].hasSocket = m.hasSocket /\ ms[r].finished = m.finished
            /\ ms[r].last = m.last /\ ms[r].headerSent = m.headerSent
            /\ ms[r].output = m.output
        BY <4>1 DEF ResponseN
      <4>3. QED  BY <3>3, <4>2 DEF m
    <3>4. CASE r # c.http
      BY <3>1, <3>2, <3>4
    <3>5. QED  BY <3>3, <3>4
  <2>4. /\ DOMAIN ms = DOMAIN c.response /\ ms \in Seq(ResponseN)
        /\ Len(ms) = Len(c.response)
    <3>1. DOMAIN ms = 1..Len(c.response)
      BY <2>2
    <3>2. ms = [r \in 1..Len(c.response) |-> ms[r]]
      BY <2>2
    <3> HIDE DEF ms
    <3>3. ms \in [1..Len(c.response) -> ResponseN]
      BY <2>2, <2>3, <3>1, <3>2
    <3>4. ms \in Seq(ResponseN)
      BY <2>2, <3>3
    <3>5. Len(ms) = Len(c.response)
      BY <2>2, <3>1, <3>4
    <3>6. QED  BY <2>2, <3>1, <3>4, <3>5
  <2> HIDE DEF ms
  <2>5. /\ d \in ConnN /\ d.aborting = "no" /\ d.writable = c.writable
        /\ d.response = ms /\ d.http = c.http
        /\ d.assigning = c.assigning /\ d.outgoings = c.outgoings
        /\ d.wire = c.wire /\ d.answered = c.answered
        /\ d.broken = c.broken /\ d.aborted = c.aborted
        /\ d.incomings = c.incomings /\ d.closed = c.closed
        /\ d.destroyed = c.destroyed
    BY <1>0, <2>4 DEF ConnN
  <2>6. c.writable = FALSE
    <3>1. conn.aborting = "onClose"
      BY <1>0, <1>2 DEF AbortIncomingEnds, ConnN
    <3>2. QED  BY <1>0, <3>1 DEF Flags, ConnN
  <2> HIDE DEF d
  <2>7. Flags(d) /\ Served(d) /\ AnswersRight(d)
    BY <1>0, <2>5, <2>6 DEF Flags, Served, AnswersRight, Inv
  <2>8. Owned(d) /\ Turn(d) = Turn(c) /\ Turn(c) \in Nat
    <3>1. Owned(d)
      BY <1>0, <2>3, <2>4, <2>5 DEF Owned
    <3>2. Turn(c) \in Nat
      BY <1>0, TurnIs
    <3>3. Turn(d) = Turn(c)
      BY <2>4, <2>5 DEF Turn
    <3>4. QED  BY <3>1, <3>2, <3>3
  <2>9. Chain(c) => Chain(d)
    <3> SUFFICES ASSUME Chain(c)  PROVE Chain(d)
      OBVIOUS
    <3>1. \A r \in DOMAIN d.response :
            r < Turn(d) => d.response[r].finished /\ ~d.response[r].last
      BY <2>3, <2>4, <2>5, <2>8 DEF Chain
    <3>2. \A r \in DOMAIN d.response : r >= Turn(d) /\ r # d.http =>
            /\ d.response[r].listening /\ Holds(d.response[r])
            /\ d.response[r].finished => d.response[r].headerSent
      BY <2>3, <2>4, <2>5, <2>8 DEF Chain
    <3>3. QED  BY <2>4, <2>5, <2>8, <3>1, <3>2 DEF Chain
  <2>10. Over(c) => Over(d)
    BY <1>0, <2>3, <2>5 DEF Over, Owned, Holds
  <2>11. WireRight(d)
    <3>1. \A r \in DOMAIN c.response :
            c.response[r].finished /\ ~c.response[r].last =>
              d.response[r].finished /\ ~d.response[r].last
      BY <2>3, <2>5
    <3>2. WireRight(c)
      BY DEF Inv
    <3>3. QED  BY <1>0, <2>4, <2>5, <2>8, <3>1, <3>2, WireStays
  <2>12. Inv(d)
    BY <2>5, <2>7, <2>8, <2>9, <2>10, <2>11 DEF Inv
  <2>13. QED  BY <2>1, <2>12
<1>3. QED  BY <1>1, <1>2

(* ParserOnIncoming, but for the interim response. *)
LEMMA QueueWorks ==
  ASSUME NEW c, Inv(c), c.assigning = None, Len(c.response) < MaxRequests,
         NEW m \in ResponseN, m.hasSocket = FALSE, m.listening, ~m.finished,
         ~m.headerSent, m.output = <<>>
  PROVE  LET r == Len(c.response) + 1
             d == Queue([c EXCEPT !.incomings = Append(@, r),
                                  !.response = Append(@, m)], r)
         IN  /\ Inv(d) /\ r \in DOMAIN d.response
             /\ ~d.response[r].finished
<1> DEFINE r == Len(c.response) + 1
           is == Append(c.incomings, r)
           os == Append(c.outgoings, r)
           a == [c EXCEPT !.incomings = is, !.response = Append(c.response, m)]
           n == [m EXCEPT !.hasSocket = TRUE]
           ms == Append(c.response, m)
           ns == Append(c.response, n)
           d1 == [c EXCEPT !.incomings = is, !.response = ms, !.outgoings = os]
           d2 == [c EXCEPT !.incomings = is, !.response = ns, !.http = r]
<1>0. /\ c \in ConnN /\ Owned(c) /\ Flags(c) /\ WireRight(c) /\ Served(c)
      /\ AnswersRight(c) /\ c.broken = FALSE
      /\ c.response \in Seq(ResponseN) /\ c.incomings \in Seq(Request)
      /\ c.outgoings \in Seq(Request) /\ Len(c.response) \in Nat
      /\ DOMAIN c.response = 1..Len(c.response)
      /\ Len(c.incomings) \in Nat /\ Len(c.outgoings) \in Nat
      /\ Turn(c) \in Nat
  <2>1. c \in ConnN /\ Owned(c) /\ Flags(c) /\ WireRight(c) /\ Served(c)
        /\ AnswersRight(c)
    BY DEF Inv
  <2>2. c.broken = FALSE
    BY <2>1 DEF ConnN, Owned
  <2>3. c.response \in Seq(ResponseN) /\ c.incomings \in Seq(Request)
        /\ c.outgoings \in Seq(Request)
    BY <2>1 DEF ConnN
  <2>4. QED  BY <2>1, <2>2, <2>3, TurnIs
<1>1. r \in Request /\ r \in Nat /\ r \in 0..MaxRequests /\ r # None
      /\ r \notin DOMAIN c.response
  <2>1. Len(c.response) \in Nat /\ Len(c.response) < MaxRequests /\ MaxRequests \in Nat
    BY <1>0, ConstantsAssumption
  <2>2. QED  BY <1>0, <2>1 DEF Request, None
<1>2. /\ n \in ResponseN /\ n.hasSocket = TRUE /\ n.listening /\ ~n.finished
      /\ n.output = <<>> /\ n.headerSent = m.headerSent
  BY DEF ResponseN
<1> HIDE DEF n
<1>3. \A x \in ResponseN :
        LET s == Append(c.response, x)
        IN  /\ s \in Seq(ResponseN) /\ Len(s) = r /\ DOMAIN s = 1..r
            /\ s[r] = x
            /\ \A q \in DOMAIN c.response : q \in DOMAIN s /\ q # r /\ s[q] = c.response[q]
            /\ \A q \in DOMAIN s : q = r \/ q \in DOMAIN c.response
  BY <1>0, <1>1
<1>4. /\ is \in Seq(Request) /\ Len(is) = Len(c.incomings) + 1
      /\ \A k \in DOMAIN is : k \in Nat
           /\ IF k \in DOMAIN c.incomings THEN is[k] = c.incomings[k]
              ELSE k = Len(c.incomings) + 1 /\ is[k] = r
  BY <1>0, <1>1
<1>5. /\ os \in Seq(Request) /\ Len(os) = Len(c.outgoings) + 1
      /\ \A k \in DOMAIN os : k \in Nat
           /\ IF k \in DOMAIN c.outgoings THEN os[k] = c.outgoings[k]
              ELSE k = Len(c.outgoings) + 1 /\ os[k] = r
  BY <1>0, <1>1
<1>6. ~c.aborted /\ Chain(c) =>
        /\ Turn(c) + Len(is) = r + 1
        /\ \A k \in DOMAIN is : is[k] + 1 = Turn(c) + k
  <2> SUFFICES ASSUME ~c.aborted, Chain(c)
               PROVE  /\ Turn(c) + Len(is) = r + 1
                      /\ \A k \in DOMAIN is : is[k] + 1 = Turn(c) + k
    OBVIOUS
  <2>1. /\ Turn(c) + Len(c.incomings) = r
        /\ \A k \in DOMAIN c.incomings : c.incomings[k] + 1 = Turn(c) + k
    BY DEF Chain
  <2> HIDE DEF is, r
  <2>2. Turn(c) + Len(is) = r + 1
    BY <1>0, <1>1, <1>4, <2>1
  <2>3. ASSUME NEW k \in DOMAIN is  PROVE is[k] + 1 = Turn(c) + k
    <3>1. CASE k \in DOMAIN c.incomings
      BY <1>4, <2>1, <3>1
    <3>2. CASE k \notin DOMAIN c.incomings
      <4>1. k = Len(c.incomings) + 1 /\ is[k] = r
        BY <1>4, <3>2
      <4>2. QED  BY <1>0, <1>1, <2>1, <4>1
    <3>3. QED  BY <3>1, <3>2
  <2>4. QED  BY <2>2, <2>3
<1> HIDE DEF is, os
<1>7. CASE c.http # None
  <2>0. /\ c.http \in DOMAIN c.response /\ c.http # r /\ Turn(c) = c.http
        /\ Turn(c) <= Len(c.response)
    <3>1. c.http \in DOMAIN c.response
      BY <1>0, <1>7 DEF Owned
    <3>2. Turn(c) = c.http
      BY <1>0, <1>7, TurnIs
    <3>3. c.http # r
      BY <1>1, <3>1
    <3>4. c.http <= Len(c.response)
      BY <1>0, <3>1
    <3>5. QED  BY <3>1, <3>2, <3>3, <3>4
  <2>1. Queue(a, r) = d1
    <3>1. a.http = c.http /\ a.outgoings = c.outgoings
      BY <1>0 DEF ConnN
    <3>2. Queue(a, r) = [a EXCEPT !.outgoings = os]
      BY <1>7, <3>1 DEF Queue, os
    <3> HIDE DEF ms
    <3>3. QED  BY <1>0, <3>2 DEF ConnN, ms
  <2>2. /\ ms \in Seq(ResponseN) /\ Len(ms) = r /\ DOMAIN ms = 1..r
        /\ ms[r] = m
        /\ \A q \in DOMAIN c.response : q \in DOMAIN ms /\ q # r /\ ms[q] = c.response[q]
        /\ \A q \in DOMAIN ms : q = r \/ q \in DOMAIN c.response
    BY <1>3
  <2> HIDE DEF ms
  <2>3. /\ d1 \in ConnN /\ d1.incomings = is /\ d1.response = ms
        /\ d1.outgoings = os /\ d1.http = c.http /\ d1.writable = c.writable
        /\ d1.destroyed = c.destroyed /\ d1.closed = c.closed
        /\ d1.assigning = c.assigning /\ d1.aborting = c.aborting
        /\ d1.aborted = c.aborted /\ d1.wire = c.wire
        /\ d1.answered = c.answered /\ d1.broken = c.broken
    BY <1>0, <1>4, <1>5, <2>2 DEF ConnN
  <2> DEFINE d == d1
  <2> HIDE DEF d1, r
  <2>4. Flags(d) /\ AnswersRight(d)
    BY <1>0, <2>3 DEF Flags, AnswersRight
  <2>5. Owned(d)
    <3>1. Len(d.response) <= MaxRequests
      BY <1>0, <2>2, <2>3, ConstantsAssumption DEF r
    <3>2. \A q \in DOMAIN ms : ms[q].hasSocket <=> c.http = q
      BY <1>0, <2>0, <2>2 DEF Owned
    <3>3. QED  BY <1>0, <1>7, <2>0, <2>2, <2>3, <3>1, <3>2 DEF Owned
  <2>6. Turn(d) = Turn(c)
    BY <1>7, <2>3 DEF Turn
  <2>7. Served(d)
    BY <1>0, <2>0, <2>2, <2>3 DEF Served
  <2>8. Chain(c) => Chain(d)
    <3> SUFFICES ASSUME Chain(c)  PROVE Chain(d)
      OBVIOUS
    <3>1. \A q \in DOMAIN ms : q < Turn(c) => ms[q].finished /\ ~ms[q].last
      <4>1. \A q \in DOMAIN ms : q < Turn(c) => q # r
        BY <1>0, <2>0, <2>2 DEF r
      <4>2. QED  BY <2>2, <4>1 DEF Chain
    <3>2. \A q \in DOMAIN ms : q >= Turn(c) /\ q # c.http =>
            /\ ms[q].listening /\ Holds(ms[q])
            /\ ms[q].finished => ms[q].headerSent
      <4> SUFFICES ASSUME NEW q \in DOMAIN ms, q >= Turn(c), q # c.http
                   PROVE  /\ ms[q].listening /\ Holds(ms[q])
                          /\ ms[q].finished => ms[q].headerSent
        OBVIOUS
      <4>1. CASE q = r
        BY <2>2, <4>1 DEF Holds
      <4>2. CASE q \in DOMAIN c.response
        BY <2>2, <4>2 DEF Chain
      <4>3. QED  BY <2>2, <4>1, <4>2
    <3>3. /\ Turn(c) + Len(c.outgoings) = Len(c.response)
          /\ \A k \in DOMAIN c.outgoings : c.outgoings[k] = Turn(c) + k
      BY <1>0, <2>0 DEF Chain
    <3>4. Turn(c) + Len(os) = r /\ ~(Turn(c) > r)
      <4>1. /\ Turn(c) \in Nat /\ Len(c.outgoings) \in Nat
            /\ Len(c.response) \in Nat /\ r = Len(c.response) + 1
            /\ Len(os) = Len(c.outgoings) + 1
        BY <1>0, <1>5 DEF r
      <4>2. \A t, o, l \in Nat : t + o = l => t + (o + 1) = l + 1 /\ ~(t > l + 1)
        OBVIOUS
      <4>3. Turn(c) + (Len(c.outgoings) + 1) = Len(c.response) + 1
            /\ ~(Turn(c) > Len(c.response) + 1)
        BY <3>3, <4>1, <4>2
      <4>4. QED  BY <4>1, <4>3
    <3>5. ASSUME NEW k \in DOMAIN os  PROVE os[k] = Turn(c) + k
      <4>1. CASE k \in DOMAIN c.outgoings
        BY <1>5, <3>3, <4>1
      <4>2. CASE k \notin DOMAIN c.outgoings
        <5>1. k = Len(c.outgoings) + 1 /\ os[k] = r
          BY <1>5, <4>2
        <5>2. /\ Turn(c) \in Nat /\ Len(c.outgoings) \in Nat
              /\ Len(c.response) \in Nat /\ r = Len(c.response) + 1
          BY <1>0 DEF r
        <5>3. Turn(c) + (Len(c.outgoings) + 1) = r
          BY <3>3, <5>2
        <5>4. QED  BY <5>1, <5>3
      <4>3. QED  BY <4>1, <4>2
    <3>6. QED  BY <1>6, <2>2, <2>3, <2>6, <3>1, <3>2, <3>4, <3>5 DEF Chain
  <2>9. Over(c) => Over(d)
    BY <2>0, <2>2, <2>3 DEF Over
  <2>10. WireRight(d)
    <3>1. DOMAIN c.response \subseteq DOMAIN d.response
      BY <2>2, <2>3
    <3>2. \A q \in DOMAIN c.response :
            c.response[q].finished /\ ~c.response[q].last =>
              d.response[q].finished /\ ~d.response[q].last
      BY <2>2, <2>3
    <3>3. Turn(c) <= Turn(d) /\ Turn(d) \in Nat
      BY <1>0, <2>6
    <3>4. d \in ConnN /\ d.wire = c.wire /\ d.writable = c.writable
      BY <2>3
    <3>5. QED  BY <1>0, <3>1, <3>2, <3>3, <3>4, WireStays
  <2>11. Inv(d)
    BY <2>3, <2>4, <2>5, <2>7, <2>8, <2>9, <2>10 DEF Inv
  <2>12. r \in DOMAIN d.response /\ ~d.response[r].finished
    BY <1>1, <2>2, <2>3 DEF Request, r
  <2>13. QED  BY <2>1, <2>11, <2>12 DEF d1, r, is, os, ms
<1>8. CASE c.http = None
  <2>0. Turn(c) = r
    BY <1>0, <1>8, TurnIs
  <2>1. Queue(a, r) = d2
    <3>1. a.http = c.http /\ a.response = ms
      BY <1>0 DEF ConnN
    <3>2. Queue(a, r) = [a EXCEPT !.http = r, !.response[r].hasSocket = TRUE]
      BY <1>8, <3>1 DEF Queue
    <3>3. [ms EXCEPT ![r].hasSocket = TRUE] = ns
      <4>1. Append(c.response, m)[r] = m
        BY <1>3
      <4>2. [ms EXCEPT ![r].hasSocket = TRUE] = [ms EXCEPT ![r] = n]
        BY <4>1 DEF n
      <4>3. [ms EXCEPT ![r] = n] = ns
        <5> DEFINE xs == Append(c.response, m)
        <5>1. /\ DOMAIN xs = 1..r /\ DOMAIN ns = 1..r /\ ns[r] = n
              /\ xs \in Seq(ResponseN) /\ ns \in Seq(ResponseN)
              /\ \A q \in DOMAIN xs : q # r => ns[q] = xs[q]
          BY <1>2, <1>3
        <5> HIDE DEF xs, ns, r
        <5>2. ns = [q \in 1..r |-> ns[q]]
          BY <5>1
        <5>3. [xs EXCEPT ![r] = n] = [q \in 1..r |-> IF q = r THEN n ELSE xs[q]]
          BY <5>1
        <5>4. QED  BY <5>1, <5>2, <5>3 DEF xs
      <4>4. QED  BY <4>2, <4>3
    <3> HIDE DEF ms, ns, r
    <3>4. [a EXCEPT !.http = r, !.response[r].hasSocket = TRUE]
            = [a EXCEPT !.http = r, !.response = [ms EXCEPT ![r].hasSocket = TRUE]]
      BY <3>1
    <3>5. [a EXCEPT !.http = r, !.response = ns] = d2
      BY <1>0 DEF ConnN, ms
    <3>6. QED  BY <3>2, <3>3, <3>4, <3>5
  <2>2. /\ ns \in Seq(ResponseN) /\ Len(ns) = r /\ DOMAIN ns = 1..r
        /\ ns[r] = n
        /\ \A q \in DOMAIN c.response : q \in DOMAIN ns /\ q # r /\ ns[q] = c.response[q]
        /\ \A q \in DOMAIN ns : q = r \/ q \in DOMAIN c.response
    BY <1>2, <1>3
  <2> HIDE DEF ns
  <2>3. /\ d2 \in ConnN /\ d2.incomings = is /\ d2.response = ns
        /\ d2.outgoings = c.outgoings /\ d2.http = r /\ d2.writable = c.writable
        /\ d2.destroyed = c.destroyed /\ d2.closed = c.closed
        /\ d2.assigning = c.assigning /\ d2.aborting = c.aborting
        /\ d2.aborted = c.aborted /\ d2.wire = c.wire
        /\ d2.answered = c.answered /\ d2.broken = c.broken
    BY <1>0, <1>1, <1>4, <2>2 DEF ConnN
  <2> DEFINE d == d2
  <2> HIDE DEF d2, r
  <2>4. Flags(d) /\ AnswersRight(d)
    BY <1>0, <2>3 DEF Flags, AnswersRight
  <2>5. Owned(d)
    <3>1. Len(d.response) <= MaxRequests
      BY <1>0, <2>2, <2>3, ConstantsAssumption DEF r
    <3>2. \A q \in DOMAIN c.response : ~c.response[q].hasSocket
      BY <1>0, <1>8 DEF Owned, None
    <3>3. \A q \in DOMAIN ns : ns[q].hasSocket <=> r = q
      BY <1>2, <2>2, <3>2
    <3>4. r \in DOMAIN ns
      BY <1>1, <2>2 DEF Request
    <3>5. QED  BY <1>0, <2>2, <2>3, <3>1, <3>3, <3>4 DEF Owned
  <2>6. Turn(d) = r
    BY <1>1, <2>3 DEF Turn
  <2>7. Served(d)
    BY <1>2, <2>2, <2>3 DEF Served
  <2>8. Chain(c) => Chain(d)
    <3> SUFFICES ASSUME Chain(c)  PROVE Chain(d)
      OBVIOUS
    <3>1. \A q \in DOMAIN ns : q < r => ns[q].finished /\ ~ns[q].last
      <4>1. \A q \in DOMAIN ns : q < r => q # r
        BY <1>1
      <4>2. QED  BY <2>0, <2>2, <4>1 DEF Chain
    <3>2. \A q \in DOMAIN ns : ~(q >= r /\ q # r)
      BY <1>1, <2>2
    <3>3. r + Len(c.outgoings) = r
      <4>1. Len(c.response) \in Nat /\ r = Len(c.response) + 1
        BY <1>0 DEF r
      <4>2. r > Len(c.response)
        BY <4>1
      <4>3. QED  BY <2>0, <4>2 DEF Chain
    <3>4. \A k \in DOMAIN c.outgoings : c.outgoings[k] = r + k
      BY <2>0 DEF Chain
    <3>5. QED  BY <1>1, <1>6, <2>0, <2>2, <2>3, <2>6, <3>1, <3>2, <3>3, <3>4 DEF Chain
  <2>9. Over(c) => Over(d)
    BY <1>2, <2>2, <2>3 DEF Over, Holds
  <2>10. WireRight(d)
    <3>1. DOMAIN c.response \subseteq DOMAIN d.response
      BY <2>2, <2>3
    <3>2. \A q \in DOMAIN c.response :
            c.response[q].finished /\ ~c.response[q].last =>
              d.response[q].finished /\ ~d.response[q].last
      BY <2>2, <2>3
    <3>3. Turn(c) <= Turn(d)
      BY <1>1, <2>0, <2>6
    <3>4. QED  BY <1>0, <1>1, <2>3, <2>6, <3>1, <3>2, <3>3, WireStays
  <2>11. Inv(d)
    BY <2>3, <2>4, <2>5, <2>7, <2>8, <2>9, <2>10 DEF Inv
  <2>12. r \in DOMAIN d.response /\ ~d.response[r].finished
    BY <1>1, <1>2, <2>2, <2>3 DEF Request
  <2>13. QED  BY <2>1, <2>11, <2>12 DEF d2, r, is, ns
<1>9. QED  BY <1>7, <1>8

LEMMA ParserWorks ==
  ASSUME Inv(conn), ParserOnIncoming
  PROVE  Inv(conn')
<1> DEFINE r == Len(conn.response) + 1
           Q(request) == Queue([conn EXCEPT
                                  !.incomings = Append(@, r),
                                  !.response = Append(@, NewResponse(request))], r)
<1>1. PICK request \in Requests :
        conn' = IF request.expect
                THEN WriteRaw([Q(request) EXCEPT !.response[r].said = <<Interim>>],
                              r, Str(<<Interim>>))
                ELSE Q(request)
  BY DEF ParserOnIncoming
<1> DEFINE m == NewResponse(request)
           d == Q(request)
<1>2. /\ m \in ResponseN /\ m.hasSocket = FALSE /\ m.listening /\ ~m.finished
      /\ ~m.headerSent /\ m.output = <<>>
  <2>1. request.keep \in BOOLEAN /\ request.body \in BOOLEAN
    BY ConstantsAssumption
  <2>2. <<>> \in Seq(DataN) /\ <<>> \in Seq(Nat)
    OBVIOUS
  <2>3. Cleared \in ResponseN
    BY <2>2 DEF Cleared, ResponseN
  <2>4. m = [Cleared EXCEPT !.listening = TRUE, !.keepAlive = request.keep,
                            !.hasBody = request.body]
    BY DEF NewResponse
  <2>5. /\ Cleared.hasSocket = FALSE /\ ~Cleared.finished /\ ~Cleared.headerSent
        /\ Cleared.output = <<>>
    BY DEF Cleared
  <2> HIDE DEF m
  <2>6. m \in ResponseN
    BY <2>1, <2>3, <2>4, Zenon DEF ResponseN
  <2>7. QED  BY <2>3, <2>4, <2>5, <2>6 DEF ResponseN
<1>3. conn.assigning = None /\ Len(conn.response) < MaxRequests
  BY DEF ParserOnIncoming, Idle, Ready
<1> HIDE DEF m
<1>4. Inv(d) /\ r \in DOMAIN d.response /\ ~d.response[r].finished
  BY <1>2, <1>3, QueueWorks, Zenon DEF m
<1> HIDE DEF d, Q, r
<1>5. CASE ~request.expect
  BY <1>1, <1>4, <1>5 DEF d
<1>6. CASE request.expect
  <2> DEFINE n == [d.response[r] EXCEPT !.said = <<Interim>>]
             e == Put(d, d.wire, r, n)
             f == WriteRaw(e, r, Str(<<Interim>>))
  <2>0. /\ d \in ConnN /\ d.response[r] \in ResponseN
        /\ Len(d.response) <= MaxRequests
    BY <1>4, Responses DEF Inv, Owned
  <2>1. [d EXCEPT !.response[r].said = <<Interim>>] = e
    BY <2>0 DEF Put, ConnN
  <2>2. conn' = f
    BY <1>1, <1>6, <2>1 DEF d
  <2>3. /\ n \in ResponseN /\ n.hasSocket = d.response[r].hasSocket
        /\ n.listening = d.response[r].listening
        /\ n.finished = d.response[r].finished
        /\ n.headerSent = d.response[r].headerSent
        /\ n.output = d.response[r].output
    <3> DEFINE x == d.response[r]
               said == <<Interim>>
    <3>1. said \in Seq(Nat) /\ x \in ResponseN
      BY <2>0 DEF Interim
    <3>2. n = [x EXCEPT !.said = said]
      OBVIOUS
    <3> HIDE DEF x, n, said
    <3>3. /\ n \in ResponseN /\ n.hasSocket = x.hasSocket
          /\ n.listening = x.listening /\ n.finished = x.finished
          /\ n.headerSent = x.headerSent /\ n.output = x.output
      BY <3>1, <3>2 DEF ResponseN
    <3>4. QED  BY <3>3 DEF x
  <2> HIDE DEF n
  <2>4. Wrote(d, e, r)
    BY <1>4, <2>0, <2>3, ChangeWrote
  <2> HIDE DEF e
  <2>5. e \in ConnN /\ Len(e.response) <= MaxRequests /\ r \in DOMAIN e.response
    BY <1>4, <2>0, <2>4, Enough DEF Wrote
  <2>6. Str(<<Interim>>) \in DataN /\ Str(<<Interim>>).parts # <<>>
    BY DEF Str, DataN, Interim
  <2>7. Wrote(e, f, r)
    <3> DEFINE data == Str(<<Interim>>)
    <3> HIDE DEF data
    <3>1. data \in DataN /\ data.parts # <<>>
      BY <2>6 DEF data
    <3> DEFINE g == WriteRaw(e, r, data)
    <3>2. /\ Same(e, g, r)
          /\ g.response[r].finished = e.response[r].finished
          /\ g.response[r].headerSent = e.response[r].headerSent
          /\ IF Direct(e, r) THEN g.response[r].output = <<>> /\ Longer(e.wire, g.wire, r)
             ELSE g.response[r].output # <<>> /\ g.wire = e.wire
      BY <2>5, <3>1, WriteRawWorks
    <3> HIDE DEF g
    <3>3. Wrote(e, g, r)
      BY <3>2 DEF Wrote, Holds
    <3>4. QED  BY <3>3 DEF g, data
  <2> HIDE DEF f
  <2>8. Wrote(d, f, r)
    BY <1>4, <2>0, <2>4, <2>7, WroteTwice
  <2>9. QED  BY <1>4, <2>2, <2>8, WroteInv
<1>7. QED  BY <1>5, <1>6

LEMMA AppWritesWorks ==
  ASSUME Inv(conn), AppWrites
  PROVE  Inv(conn')
<1>1. PICK r \in DOMAIN conn.response, kind \in Kinds, head \in Heads :
        /\ ~conn.response[r].finished
        /\ conn' = Write(WriteHead(conn, r, head), r, kind)
  BY DEF AppWrites
<1>2. conn \in ConnN /\ Len(conn.response) <= MaxRequests
  BY DEF Inv, Owned
<1> DEFINE c == conn
           d == WriteHead(c, r, head)
           e == Write(d, r, kind)
<1>3. kind \in {"str", "buf"} /\ conn' = e
  BY <1>1, ConstantsAssumption
<1> HIDE DEF c
<1>4. Wrote(c, d, r)
  BY <1>2, WriteHeadWorks DEF c
<1> HIDE DEF d
<1>5. d \in ConnN /\ Len(d.response) <= MaxRequests /\ r \in DOMAIN d.response
  BY <1>2, <1>4, Enough DEF Wrote, c
<1>6. Wrote(d, e, r)
  BY <1>3, <1>5, WriteWorks
<1> HIDE DEF e
<1>7. Wrote(c, e, r)
  BY <1>2, <1>4, <1>6, WroteTwice DEF c
<1>8. QED  BY <1>1, <1>3, <1>7, WroteInv DEF c

LEMMA AppEndsWorks ==
  ASSUME Inv(conn), AppEnds
  PROVE  Inv(conn')
<1>1. PICK r \in DOMAIN conn.response, kind \in Kinds \cup {"none"}, head \in Heads :
        /\ ~conn.response[r].finished
        /\ conn' = End(WriteHead(conn, r, head), r, kind)
  BY DEF AppEnds
<1>2. conn \in ConnN
  BY DEF Inv
<1> DEFINE c == conn
           d == WriteHead(c, r, head)
<1>3. kind \in {"str", "buf", "none"} /\ conn' = End(d, r, kind)
  BY <1>1, ConstantsAssumption
<1> HIDE DEF c
<1>4. Wrote(c, d, r)
  BY <1>2, WriteHeadWorks DEF c
<1> HIDE DEF d
<1>5. Inv(d)
  BY <1>1, <1>4, WroteInv DEF c
<1>6. r \in DOMAIN d.response /\ ~d.response[r].finished
  BY <1>1, <1>4 DEF Wrote, Same, c
<1>7. QED  BY <1>3, <1>5, <1>6, EndWorks

(* The actions of the socket. *)
LEMMA SocketActionsWork ==
  ASSUME Inv(conn), SocketOnEnd \/ AbortIncoming \/ SocketDestroyed \/ SocketOnClose
  PROVE  Inv(conn')
<1>0. conn \in ConnN /\ Flags(conn)
  BY DEF Inv
<1>1. CASE SocketOnEnd
  <2> DEFINE d == [conn EXCEPT !.ended = TRUE, !.aborting = "onEnd"]
             e == [conn EXCEPT !.ended = TRUE, !.destroyed = TRUE, !.writable = FALSE]
  <2>1. CASE conn' = d
    <3>1. /\ d \in ConnN /\ d.aborting = "onEnd" /\ d.writable = conn.writable
          /\ d.response = conn.response /\ d.http = conn.http
          /\ d.assigning = conn.assigning /\ d.outgoings = conn.outgoings
          /\ d.wire = conn.wire /\ d.answered = conn.answered
          /\ d.broken = conn.broken /\ d.aborted = conn.aborted
          /\ d.incomings = conn.incomings /\ d.closed = conn.closed
          /\ d.destroyed = conn.destroyed
      BY <1>0 DEF ConnN
    <3> HIDE DEF d
    <3>2. Flags(d)
      BY <1>0, <3>1 DEF Flags
    <3>3. Inv(d)
      BY <3>1, <3>2, SocketWorks
    <3>4. QED  BY <2>1, <3>3
  <2>2. CASE conn' = e
    <3>1. /\ e \in ConnN /\ e.aborting = conn.aborting /\ e.writable = FALSE
          /\ e.response = conn.response /\ e.http = conn.http
          /\ e.assigning = conn.assigning /\ e.outgoings = conn.outgoings
          /\ e.wire = conn.wire /\ e.answered = conn.answered
          /\ e.broken = conn.broken /\ e.aborted = conn.aborted
          /\ e.incomings = conn.incomings /\ e.closed = conn.closed
          /\ e.destroyed = TRUE
      BY <1>0 DEF ConnN
    <3> HIDE DEF e
    <3>2. Flags(e)
      BY <1>0, <3>1 DEF Flags
    <3>3. Inv(e)
      BY <3>1, <3>2, SocketWorks
    <3>4. QED  BY <2>2, <3>3
  <2>3. QED  BY <1>1, <2>1, <2>2 DEF SocketOnEnd
<1>2. CASE AbortIncoming
  <2> DEFINE is == Tail(conn.incomings)
             d == [conn EXCEPT !.incomings = is, !.aborted = TRUE]
  <2>1. conn' = d
    BY <1>2 DEF AbortIncoming
  <2>2. is \in Seq(Request)
    BY <1>0, <1>2 DEF AbortIncoming, ConnN
  <2> HIDE DEF is
  <2>3. /\ d \in ConnN /\ d.aborting = conn.aborting /\ d.writable = conn.writable
        /\ d.response = conn.response /\ d.http = conn.http
        /\ d.assigning = conn.assigning /\ d.outgoings = conn.outgoings
        /\ d.wire = conn.wire /\ d.answered = conn.answered
        /\ d.broken = conn.broken /\ d.aborted = TRUE
        /\ d.closed = conn.closed /\ d.destroyed = conn.destroyed
    BY <1>0, <2>2 DEF ConnN
  <2> HIDE DEF d
  <2>4. Flags(d)
    BY <1>0, <2>3 DEF Flags
  <2>5. Inv(d)
    BY <2>3, <2>4, SocketWorks
  <2>6. QED  BY <2>1, <2>5
<1>3. CASE SocketDestroyed
  <2> DEFINE d == [conn EXCEPT !.destroyed = TRUE, !.ended = TRUE, !.writable = FALSE]
  <2>1. conn' = d
    BY <1>3 DEF SocketDestroyed
  <2>2. /\ d \in ConnN /\ d.aborting = conn.aborting /\ d.writable = FALSE
        /\ d.response = conn.response /\ d.http = conn.http
        /\ d.assigning = conn.assigning /\ d.outgoings = conn.outgoings
        /\ d.wire = conn.wire /\ d.answered = conn.answered
        /\ d.broken = conn.broken /\ d.aborted = conn.aborted
        /\ d.incomings = conn.incomings /\ d.closed = conn.closed
        /\ d.destroyed = TRUE
    BY <1>0 DEF ConnN
  <2> HIDE DEF d
  <2>3. Flags(d)
    BY <1>0, <2>2 DEF Flags
  <2>4. Inv(d)
    BY <2>2, <2>3, SocketWorks
  <2>5. QED  BY <2>1, <2>4
<1>4. CASE SocketOnClose
  <2> DEFINE d == [conn EXCEPT !.closed = TRUE, !.aborting = "onClose"]
  <2>1. conn' = d /\ conn.destroyed
    BY <1>4 DEF SocketOnClose
  <2>2. /\ d \in ConnN /\ d.aborting = "onClose" /\ d.writable = conn.writable
        /\ d.response = conn.response /\ d.http = conn.http
        /\ d.assigning = conn.assigning /\ d.outgoings = conn.outgoings
        /\ d.wire = conn.wire /\ d.answered = conn.answered
        /\ d.broken = conn.broken /\ d.aborted = conn.aborted
        /\ d.incomings = conn.incomings /\ d.closed = TRUE
        /\ d.destroyed = conn.destroyed
    BY <1>0 DEF ConnN
  <2> HIDE DEF d
  <2>3. Flags(d)
    BY <1>0, <2>1, <2>2 DEF Flags
  <2>4. Inv(d)
    BY <2>2, <2>3, SocketWorks
  <2>5. QED  BY <2>1, <2>4
<1>5. QED  BY <1>1, <1>2, <1>3, <1>4

LEMMA InitHolds == Init => Inv(conn)
<1> SUFFICES ASSUME Init  PROVE Inv(conn)
  OBVIOUS
<1>1. 0 \in 0..MaxRequests /\ MaxRequests \in Nat /\ 0 <= MaxRequests
  BY ConstantsAssumption
<1>2. /\ <<>> \in Seq(Request) /\ <<>> \in Seq(ResponseN)
      /\ <<>> \in Seq(Request \X DataN) /\ <<>> \in Seq(Request \X (0..MaxRequests))
      /\ Len(<<>>) = 0 /\ DOMAIN <<>> = {}
  OBVIOUS
<1>3. conn \in ConnN
  BY <1>1, <1>2 DEF Init, ConnN, None
<1>4. /\ conn.response = <<>> /\ conn.http = None /\ conn.assigning = None
      /\ conn.outgoings = <<>> /\ conn.incomings = <<>> /\ conn.wire = <<>>
      /\ conn.answered = <<>> /\ ~conn.broken /\ ~conn.destroyed
      /\ ~conn.closed /\ conn.aborting = "no"
  BY DEF Init
<1>5. Flags(conn) /\ Owned(conn) /\ Served(conn)
  BY <1>1, <1>2, <1>4 DEF Flags, Owned, Served
<1>6. Turn(conn) = 1
  BY <1>2, <1>4 DEF Turn
<1>7. Chain(conn)
  BY <1>2, <1>4, <1>6 DEF Chain
<1>8. WireRight(conn) /\ AnswersRight(conn)
  BY <1>2, <1>4 DEF WireRight, AnswersRight
<1>9. QED  BY <1>3, <1>5, <1>7, <1>8 DEF Inv

LEMMA NextKeeps == Inv(conn) /\ [Next]_vars => Inv(conn')
<1> SUFFICES ASSUME Inv(conn), [Next]_vars  PROVE Inv(conn')
  OBVIOUS
<1>1. CASE ParserOnIncoming
  BY <1>1, ParserWorks
<1>2. CASE AppWrites
  BY <1>2, AppWritesWorks
<1>3. CASE AppEnds
  BY <1>3, AppEndsWorks
<1>4. CASE DoAssignSocket
  BY <1>4, AssignWorks DEF DoAssignSocket, Ready
<1>5. CASE SocketOnEnd \/ AbortIncoming \/ SocketDestroyed \/ SocketOnClose
  BY <1>5, SocketActionsWork
<1>6. CASE AbortIncomingEnds
  BY <1>6, AbortIncomingEndsWorks
<1>7. CASE UNCHANGED vars
  BY <1>7 DEF vars
<1>8. QED  BY <1>1, <1>2, <1>3, <1>4, <1>5, <1>6, <1>7 DEF Next

ConnInv == Inv(conn)

LEMMA Invariance == Spec => []ConnInv
<1>1. Init => ConnInv
  BY InitHolds DEF ConnInv
<1>2. ConnInv /\ [Next]_vars => ConnInv'
  BY NextKeeps DEF ConnInv
<1>3. QED  BY <1>1, <1>2, PTL DEF Spec

(* The order of HTTP pipelining, for every number of requests and chunks,  *)
(* every framing and every order in which the application answers: the     *)
(* responses are on the wire in the order of their requests, each begins   *)
(* after those before it have been ended (OutgoingOnFinish,                *)
(* detail/http/server.h) and the one after which the connection ends is    *)
(* the last; a response that finishes takes its own request from           *)
(* incomings_ until one is aborted; assignSocket() and detachSocket()      *)
(* (detail/http/outgoing_message.h) never fail their assertions.           *)
THEOREM InOrder == Spec => []InRequestOrder
<1>1. ConnInv => InRequestOrder
  BY DEF ConnInv, Inv, Owned, WireRight, AnswersRight, InRequestOrder
<1>2. QED  BY <1>1, Invariance, PTL

(* No response waits for nothing, for every number of requests and chunks: *)
(* while the socket is writable and no handler runs, the response with the *)
(* socket is unfinished and has written all its output, and when none has  *)
(* it none is queued in outgoings_ (flush() and OutgoingOnFinish).         *)
THEOREM NeverStuck == Spec => []NoneStuck
<1>1. ConnInv => NoneStuck
  <2> SUFFICES ASSUME Inv(conn), Idle, conn.writable
               PROVE  IF conn.http = None THEN conn.outgoings = <<>>
                      ELSE ~conn.response[conn.http].finished
                           /\ conn.response[conn.http].output = <<>>
    BY DEF NoneStuck, ConnInv
  <2>1. CASE conn.http # None
    BY <2>1 DEF Inv, Served
  <2>2. CASE conn.http = None
    <3>1. conn \in ConnN /\ Owned(conn) /\ Chain(conn)
      BY DEF Inv, Over
    <3>2. Turn(conn) = Len(conn.response) + 1 /\ Len(conn.response) \in Nat
      BY <2>2, <3>1, TurnIs DEF Idle, Ready
    <3>3. Turn(conn) > Len(conn.response)
      BY <3>2
    <3>4. Turn(conn) + Len(conn.outgoings) = Turn(conn)
      BY <3>1, <3>3 DEF Chain
    <3>5. conn.outgoings \in Seq(Request)
      BY <3>1 DEF ConnN
    <3>6. Len(conn.outgoings) = 0
      <4>1. Len(conn.outgoings) \in Nat /\ Turn(conn) \in Nat
        BY <3>2, <3>5
      <4>2. QED  BY <3>4, <4>1
    <3>7. QED  BY <2>2, <3>5, <3>6
  <2>3. QED  BY <2>1, <2>2
<1>2. QED  BY <1>1, Invariance, PTL

-----------------------------------------------------------------------------
(***************************************************************************)
(* What is on the wire.  PartsOf() is a recursive function: that there is  *)
(* one, and what it adds up to, is shown by the least number for which it  *)
(* fails.                                                                  *)
(***************************************************************************)
LEMMA NatHasMin ==
  ASSUME NEW T \in SUBSET Nat, T # {}
  PROVE  \E x \in T : \A y \in T : x <= y
<1> DEFINE R == OpToRel(<, Nat)
<1>1. \E x \in T : \A y \in T : ~ (<<y, x>> \in R)
  BY NatLessThanWellFounded, WFMin
<1>2. \A x, y \in Nat : y < x => <<y, x>> \in R
  BY DEF OpToRel
<1> HIDE DEF R
<1>3. PICK x \in T : \A y \in T : ~ (<<y, x>> \in R)
  BY <1>1
<1>4. ASSUME NEW y \in T  PROVE x <= y
  <2>1. x \in Nat /\ y \in Nat
    OBVIOUS
  <2>2. ~ (y < x)
    BY <1>2, <1>3, <2>1
  <2>3. QED  BY <2>1, <2>2
<1>5. QED  BY <1>4

(* Either no number is in T, or there is a least one. *)
LEMMA LeastOf ==
  ASSUME NEW T \in SUBSET Nat,
         ASSUME NEW k \in T, \A j \in Nat : j < k => j \notin T  PROVE FALSE
  PROVE  T = {}
<1>1. SUFFICES ASSUME T # {}  PROVE FALSE
  OBVIOUS
<1>2. PICK k \in T : \A j \in T : k <= j
  BY <1>1, NatHasMin
<1>3. ASSUME NEW j \in Nat, j < k  PROVE j \notin T
  <2>1. k \in Nat
    OBVIOUS
  <2>2. QED  BY <1>2, <1>3, <2>1
<1>4. QED  BY <1>3

Entry == Request \X DataN
Adding(r, e) == IF e[1] = r THEN e[2].parts ELSE <<>>

(* f adds up what of response r is in the first 0, 1, ..., k entries of s. *)
AddsUp(f, r, s, k) ==
  f = [n \in 0..k |-> IF n = 0 THEN <<>> ELSE f[n - 1] \o Adding(r, s[n])]

(* The same, said step by step. *)
Steps(f, r, s, k) ==
  DOMAIN f = 0..k /\ f[0] = <<>>
  /\ \A n \in 1..k : f[n] = f[n - 1] \o Adding(r, s[n])

LEMMA AddsUpFacts ==
  ASSUME NEW f, NEW r, NEW s, NEW k \in Nat, AddsUp(f, r, s, k)
  PROVE  Steps(f, r, s, k)
<1>1. DOMAIN f = 0..k
  BY DEF AddsUp
<1>2. 0 \in 0..k /\ \A n \in 1..k : n \in 0..k /\ n # 0
  OBVIOUS
<1>3. \A n \in 0..k : f[n] = IF n = 0 THEN <<>> ELSE f[n - 1] \o Adding(r, s[n])
  BY DEF AddsUp
<1>4. QED  BY <1>1, <1>2, <1>3 DEF Steps

LEMMA AddsUpExists ==
  ASSUME NEW r, NEW s, NEW k \in Nat
  PROVE  \E f : AddsUp(f, r, s, k)
<1> DEFINE T == {n \in Nat : \A f : ~AddsUp(f, r, s, n)}
<1>1. ASSUME NEW n \in T, \A j \in Nat : j < n => j \notin T  PROVE FALSE
  <2>1. n \in Nat /\ \A f : ~AddsUp(f, r, s, n)
    OBVIOUS
  <2>2. CASE n = 0
    <3> DEFINE f == [i \in 0..0 |-> <<>>]
    <3>1. f = [i \in 0..0 |-> IF i = 0 THEN <<>> ELSE f[i - 1] \o Adding(r, s[i])]
      OBVIOUS
    <3>2. AddsUp(f, r, s, 0)
      BY <3>1 DEF AddsUp
    <3>3. QED  BY <2>1, <2>2, <3>2
  <2>3. CASE n # 0
    <3>1. n - 1 \in Nat /\ n - 1 < n
      BY <2>1, <2>3
    <3>2. PICK g : AddsUp(g, r, s, n - 1)
      BY <1>1, <3>1
    <3> DEFINE f == [i \in 0..n |-> IF i = n THEN g[n - 1] \o Adding(r, s[n]) ELSE g[i]]
    <3>8. Steps(g, r, s, n - 1)
      BY <3>1, <3>2, AddsUpFacts
    <3>3. /\ g[0] = <<>>
          /\ \A i \in 1..(n - 1) : g[i] = g[i - 1] \o Adding(r, s[i])
      BY <3>8 DEF Steps
    <3>4. ASSUME NEW i \in 0..n
          PROVE  f[i] = IF i = 0 THEN <<>> ELSE f[i - 1] \o Adding(r, s[i])
      <4>1. CASE i = 0
        BY <2>1, <2>3, <3>3, <4>1
      <4>2. CASE i = n
        <5>1. n - 1 \in 0..n /\ n - 1 # n /\ f[n - 1] = g[n - 1]
          BY <3>1
        <5>2. QED  BY <2>1, <2>3, <4>2, <5>1
      <4>3. CASE i # 0 /\ i # n
        <5>1. i \in 1..(n - 1) /\ i - 1 \in 0..n /\ i - 1 # n
          BY <2>1, <4>3
        <5>2. f[i] = g[i] /\ f[i - 1] = g[i - 1]
          BY <4>3, <5>1
        <5>3. QED  BY <3>3, <4>3, <5>1, <5>2
      <4>4. QED  BY <4>1, <4>2, <4>3
    <3>5. f = [i \in 0..n |-> f[i]]
      OBVIOUS
    <3> HIDE DEF f
    <3>6. AddsUp(f, r, s, n)
      BY <3>4, <3>5 DEF AddsUp
    <3>7. QED  BY <2>1, <3>6
  <2>4. QED  BY <2>2, <2>3
<1>2. T = {}
  <2>1. T \in SUBSET Nat
    OBVIOUS
  <2> HIDE DEF T
  <2>2. QED  BY <1>1, <2>1, LeastOf
<1>3. QED  BY <1>2

LEMMA AddsUpSame ==
  ASSUME NEW f, NEW g, NEW r, NEW s, NEW t, NEW k \in Nat, NEW l \in Nat,
         AddsUp(f, r, s, k), AddsUp(g, r, t, l), k <= l, \A n \in 1..k : s[n] = t[n]
  PROVE  f[k] = g[k]
<1> DEFINE T == {j \in Nat : j <= k /\ f[j] # g[j]}
<1>1. /\ f[0] = <<>> /\ \A n \in 1..k : f[n] = f[n - 1] \o Adding(r, s[n])
      /\ g[0] = <<>> /\ \A n \in 1..l : g[n] = g[n - 1] \o Adding(r, t[n])
  <2>1. Steps(f, r, s, k)
    BY AddsUpFacts
  <2>2. Steps(g, r, t, l)
    BY AddsUpFacts
  <2>3. QED  BY <2>1, <2>2 DEF Steps
<1>2. ASSUME NEW j \in T, \A i \in Nat : i < j => i \notin T  PROVE FALSE
  <2>1. j \in Nat /\ j <= k /\ f[j] # g[j] /\ j # 0
    BY <1>1
  <2>2. j - 1 \in Nat /\ j - 1 < j /\ j - 1 <= k /\ j \in 1..k /\ j \in 1..l
    BY <2>1
  <2>3. f[j - 1] = g[j - 1]
    BY <1>2, <2>2
  <2>4. QED  BY <1>1, <2>1, <2>2, <2>3
<1>3. T = {}
  <2>1. T \in SUBSET Nat
    OBVIOUS
  <2> HIDE DEF T
  <2>2. QED  BY <1>2, <2>1, LeastOf
<1>4. k \notin T
  BY <1>3
<1>5. QED  BY <1>4

LEMMA PartsAddUp ==
  ASSUME NEW r, NEW s, Len(s) \in Nat
  PROVE  \E f : AddsUp(f, r, s, Len(s)) /\ PartsOf(r, s) = f[Len(s)]
<1> DEFINE P(f) == f = [n \in 0..Len(s) |-> IF n = 0 THEN <<>>
                                 ELSE f[n - 1] \o (IF s[n][1] = r THEN s[n][2].parts ELSE <<>>)]
           F == CHOOSE f : P(f)
<1>1. \E f : P(f)
  <2>1. PICK f : AddsUp(f, r, s, Len(s))
    BY AddsUpExists
  <2>2. P(f)
    BY <2>1, Zenon DEF AddsUp, Adding
  <2>3. QED  BY <2>2
<1>2. PartsOf(r, s) = F[Len(s)]
  BY DEF PartsOf
<1> HIDE DEF P
<1>3. P(F)
  BY <1>1
<1> HIDE DEF F
<1>4. AddsUp(F, r, s, Len(s))
  BY <1>3, Zenon DEF AddsUp, Adding, P
<1>5. QED  BY <1>2, <1>4

LEMMA Entries ==
  ASSUME NEW e \in Entry, NEW r
  PROVE  Adding(r, e) \in Seq(Nat) /\ (e[1] # r => Adding(r, e) = <<>>)
         /\ (e[1] = r => Adding(r, e) = e[2].parts)
<1>1. e[2].parts \in Seq(Nat) /\ <<>> \in Seq(Nat)
  BY DEF Entry, DataN
<1>2. QED  BY <1>1 DEF Adding

LEMMA AddsUpTyped ==
  ASSUME NEW f, NEW r, NEW s \in Seq(Entry), AddsUp(f, r, s, Len(s)),
         NEW k \in 0..Len(s)
  PROVE  f[k] \in Seq(Nat)
<1> DEFINE T == {j \in Nat : j <= Len(s) /\ f[j] \notin Seq(Nat)}
<1>0. Len(s) \in Nat /\ \A n \in 1..Len(s) : s[n] \in Entry
  OBVIOUS
<1>1. Steps(f, r, s, Len(s))
  BY <1>0, AddsUpFacts
<1>2. ASSUME NEW j \in T, \A i \in Nat : i < j => i \notin T  PROVE FALSE
  <2>0. <<>> \in Seq(Nat)
    OBVIOUS
  <2>1. j \in Nat /\ j <= Len(s) /\ f[j] \notin Seq(Nat) /\ j # 0
    BY <1>1, <2>0 DEF Steps
  <2>2. j - 1 \in Nat /\ j - 1 < j /\ j - 1 <= Len(s) /\ j \in 1..Len(s)
    BY <1>0, <2>1
  <2>3. f[j - 1] \in Seq(Nat) /\ Adding(r, s[j]) \in Seq(Nat)
    BY <1>0, <1>2, <2>2, Entries
  <2>4. f[j] = f[j - 1] \o Adding(r, s[j])
    BY <1>1, <2>2 DEF Steps
  <2>5. QED  BY <2>1, <2>3, <2>4
<1>3. T = {}
  <2>1. T \in SUBSET Nat
    OBVIOUS
  <2> HIDE DEF T
  <2>2. QED  BY <1>2, <2>1, LeastOf
<1>4. k \notin T /\ k \in Nat /\ k <= Len(s)
  BY <1>0, <1>3
<1>5. QED  BY <1>4

LEMMA PartsTyped ==
  ASSUME NEW r, NEW s \in Seq(Entry)
  PROVE  PartsOf(r, s) \in Seq(Nat)
<1>1. Len(s) \in Nat /\ Len(s) \in 0..Len(s)
  OBVIOUS
<1>2. PICK f : AddsUp(f, r, s, Len(s)) /\ PartsOf(r, s) = f[Len(s)]
  BY <1>1, PartsAddUp
<1>3. QED  BY <1>1, <1>2, AddsUpTyped

LEMMA PartsOfNone ==
  ASSUME NEW r, NEW s \in Seq(Entry), \A i \in DOMAIN s : s[i][1] # r
  PROVE  PartsOf(r, s) = <<>>
<1> DEFINE l == Len(s)
<1>0. l \in Nat /\ DOMAIN s = 1..l /\ \A n \in 1..l : s[n] \in Entry
  OBVIOUS
<1>1. PICK f : AddsUp(f, r, s, l) /\ PartsOf(r, s) = f[l]
  BY <1>0, PartsAddUp
<1>2. Steps(f, r, s, l)
  BY <1>0, <1>1, AddsUpFacts
<1> DEFINE T == {j \in Nat : j <= l /\ f[j] # <<>>}
<1>3. ASSUME NEW j \in T, \A i \in Nat : i < j => i \notin T  PROVE FALSE
  <2>1. j \in Nat /\ j <= l /\ f[j] # <<>> /\ j # 0
    BY <1>2 DEF Steps
  <2>2. j - 1 \in Nat /\ j - 1 < j /\ j - 1 <= l /\ j \in 1..l
    BY <1>0, <2>1
  <2>3. f[j - 1] = <<>> /\ Adding(r, s[j]) = <<>>
    BY <1>0, <1>3, <2>2, Entries
  <2>4. f[j] = f[j - 1] \o Adding(r, s[j])
    BY <1>2, <2>2 DEF Steps
  <2>5. <<>> \o <<>> = <<>>
    OBVIOUS
  <2>6. QED  BY <2>1, <2>3, <2>4, <2>5
<1>4. T = {}
  <2>1. T \in SUBSET Nat
    OBVIOUS
  <2> HIDE DEF T
  <2>2. QED  BY <1>3, <2>1, LeastOf
<1>5. l \notin T
  BY <1>4
<1>6. QED  BY <1>0, <1>1, <1>5

LEMMA PartsOfOne ==
  ASSUME NEW r, NEW e \in Entry
  PROVE  PartsOf(r, <<e>>) = Adding(r, e)
<1> DEFINE s == <<e>>
<1>0. s \in Seq(Entry) /\ Len(s) = 1 /\ s[1] = e
  OBVIOUS
<1> HIDE DEF s
<1>1. PICK f : AddsUp(f, r, s, Len(s)) /\ PartsOf(r, s) = f[Len(s)]
  <2>1. Len(s) \in Nat
    BY <1>0
  <2>2. QED  BY <2>1, PartsAddUp
<1>6. AddsUp(f, r, s, 1) /\ PartsOf(r, s) = f[1]
  BY <1>0, <1>1, Zenon
<1>2. Steps(f, r, s, 1)
  BY <1>6, AddsUpFacts
<1>3. f[1] = f[1 - 1] \o Adding(r, s[1]) /\ f[0] = <<>>
  BY <1>2 DEF Steps
<1>4. Adding(r, e) \in Seq(Nat)
  BY Entries
<1>5. <<>> \o Adding(r, e) = Adding(r, e) /\ 1 - 1 = 0
  BY <1>4
<1>7. PartsOf(r, s) = Adding(r, e)
  BY <1>0, <1>3, <1>5, <1>6, Zenon
<1>8. QED  BY <1>7 DEF s

LEMMA Assoc ==
  ASSUME NEW u \in Seq(Nat), NEW v \in Seq(Nat), NEW w \in Seq(Nat)
  PROVE  (u \o v) \o w = u \o (v \o w)
OBVIOUS

LEMMA PartsOfBoth ==
  ASSUME NEW r, NEW s \in Seq(Entry), NEW t \in Seq(Entry)
  PROVE  PartsOf(r, s \o t) = PartsOf(r, s) \o PartsOf(r, t)
<1> DEFINE k == Len(s)
           l == Len(t)
           u == s \o t
<1>0. /\ k \in Nat /\ l \in Nat /\ u \in Seq(Entry) /\ Len(u) = k + l
      /\ \A n \in 1..k : s[n] \in Entry /\ u[n] = s[n]
      /\ \A n \in 1..l : t[n] \in Entry /\ u[k + n] = t[n]
  OBVIOUS
<1> HIDE DEF u
<1>1. PICK f : AddsUp(f, r, s, k) /\ PartsOf(r, s) = f[k]
  BY <1>0, PartsAddUp
<1>2. PICK g : AddsUp(g, r, t, l) /\ PartsOf(r, t) = g[l]
  BY <1>0, PartsAddUp
<1>3. PICK h : AddsUp(h, r, u, k + l) /\ PartsOf(r, u) = h[k + l]
  <2>1. Len(u) \in Nat
    BY <1>0
  <2>2. PICK h : AddsUp(h, r, u, Len(u)) /\ PartsOf(r, u) = h[Len(u)]
    BY <2>1, PartsAddUp
  <2>3. AddsUp(h, r, u, k + l) /\ PartsOf(r, u) = h[k + l]
    BY <1>0, <2>2, Zenon
  <2>4. QED  BY <2>3
<1>4. Steps(g, r, t, l)
  BY <1>0, <1>2, AddsUpFacts
<1>5. Steps(h, r, u, k + l)
  BY <1>0, <1>3, AddsUpFacts
<1>6. f[k] = h[k] /\ f[k] \in Seq(Nat)
  <2>1. k \in 0..k /\ k + l \in Nat /\ k <= k + l
    BY <1>0
  <2>2. f[k] \in Seq(Nat)
    BY <1>1, <2>1, AddsUpTyped
  <2>3. \A n \in 1..k : s[n] = u[n]
    BY <1>0
  <2>4. QED  BY <1>0, <1>1, <1>3, <2>1, <2>2, <2>3, AddsUpSame
<1> DEFINE T == {j \in Nat : j <= l /\ h[k + j] # f[k] \o g[j]}
<1>7. ASSUME NEW j \in T, \A i \in Nat : i < j => i \notin T  PROVE FALSE
  <2>1. j \in Nat /\ j <= l /\ h[k + j] # f[k] \o g[j]
    OBVIOUS
  <2>2. j # 0
    <3>1. f[k] \o <<>> = f[k] /\ k + 0 = k
      BY <1>0, <1>6
    <3>2. g[0] = <<>>
      BY <1>4 DEF Steps
    <3>3. QED  BY <1>6, <2>1, <3>1, <3>2
  <2>3. /\ j - 1 \in Nat /\ j - 1 < j /\ j - 1 <= l /\ j \in 1..l /\ j - 1 \in 0..l
        /\ k + j \in 1..(k + l) /\ (k + j) - 1 = k + (j - 1)
    BY <1>0, <2>1, <2>2
  <2>4. h[k + (j - 1)] = f[k] \o g[j - 1]
    BY <1>7, <2>3
  <2>5. g[j] = g[j - 1] \o Adding(r, t[j])
    BY <1>4, <2>3 DEF Steps
  <2>6. h[k + j] = h[k + (j - 1)] \o Adding(r, u[k + j])
    BY <1>5, <2>3 DEF Steps
  <2>7. u[k + j] = t[j] /\ Adding(r, t[j]) \in Seq(Nat)
    BY <1>0, <2>3, Entries
  <2>8. g[j - 1] \in Seq(Nat)
    BY <1>2, <2>3, AddsUpTyped
  <2>9. (f[k] \o g[j - 1]) \o Adding(r, t[j]) = f[k] \o (g[j - 1] \o Adding(r, t[j]))
    BY <1>6, <2>7, <2>8, Assoc
  <2>10. QED  BY <2>1, <2>4, <2>5, <2>6, <2>7, <2>9, Zenon
<1>8. T = {}
  <2>1. T \in SUBSET Nat
    OBVIOUS
  <2> HIDE DEF T
  <2>2. QED  BY <1>7, <2>1, LeastOf
<1>9. h[k + l] = f[k] \o g[l]
  <2> HIDE DEF l, k
  <2>1. l \notin T
    BY <1>8, Zenon
  <2>2. l \in Nat /\ l <= l
    BY <1>0
  <2>3. QED  BY <2>1, <2>2, Zenon
<1>10. PartsOf(r, u) = PartsOf(r, s) \o PartsOf(r, t)
  BY <1>1, <1>2, <1>3, <1>9, Zenon
<1>11. QED  BY <1>10 DEF u

-----------------------------------------------------------------------------
(* What is told of a response: what is on the wire, what waits in output_, *)
(* and the header when it is still to go with the first data.              *)
Tagged(r, out) == [i \in DOMAIN out |-> <<r, out[i]>>]
Waiting(r, out) == PartsOf(r, Tagged(r, out))
Sent(c, r) == PartsOf(r, c.wire) \o Waiting(r, c.response[r].output)
Left(m) == IF m.header /\ ~m.headerSent THEN <<Header>> ELSE <<>>
Told(c, r) == Sent(c, r) \o Left(c.response[r])

LEMMA TaggedWorks ==
  ASSUME NEW r \in Request, NEW out \in Seq(DataN), NEW data \in DataN
  PROVE  /\ Tagged(r, out) \in Seq(Entry) /\ <<r, data>> \in Entry
         /\ Tagged(r, Append(out, data)) = Tagged(r, out) \o << <<r, data>> >>
<1>1. <<r, data>> \in Entry
  BY DEF Entry
<1>2. DOMAIN out = 1..Len(out) /\ Len(out) \in Nat
      /\ \A i \in DOMAIN out : out[i] \in DataN
  OBVIOUS
<1>3. Tagged(r, out) \in [1..Len(out) -> Entry] /\ DOMAIN Tagged(r, out) = 1..Len(out)
      /\ \A i \in 1..Len(out) : Tagged(r, out)[i] = <<r, out[i]>>
  BY <1>2 DEF Tagged, Entry
<1>4. Tagged(r, out) \in Seq(Entry) /\ Len(Tagged(r, out)) = Len(out)
  BY <1>2, <1>3
<1> DEFINE o == Append(out, data)
           t == Tagged(r, out)
           e == <<r, data>>
           u == t \o <<e>>
<1>5. /\ Len(o) = Len(out) + 1 /\ DOMAIN o = 1..(Len(out) + 1)
      /\ \A i \in 1..(Len(out) + 1) :
           o[i] = IF i \in 1..Len(out) THEN out[i] ELSE data
  BY <1>2
<1>6. /\ DOMAIN u = 1..(Len(out) + 1) /\ u \in Seq(Entry)
      /\ \A i \in 1..(Len(out) + 1) : u[i] = IF i \in 1..Len(out) THEN t[i] ELSE e
  <2> HIDE DEF t, e
  <2>1. t \in Seq(Entry) /\ e \in Entry /\ Len(t) = Len(out)
    BY <1>1, <1>4 DEF t, e
  <2>2. QED  BY <1>2, <2>1
<1>7. \A i \in 1..(Len(out) + 1) : u[i] = <<r, o[i]>>
  <2> HIDE DEF u, o
  <2>1. QED  BY <1>3, <1>5, <1>6
<1>8. Tagged(r, o) = u
  <2> HIDE DEF o
  <2>1. Tagged(r, o) = [i \in 1..(Len(out) + 1) |-> <<r, o[i]>>]
    BY <1>5 DEF Tagged
  <2> HIDE DEF u
  <2>2. u = [i \in 1..(Len(out) + 1) |-> u[i]]
    BY <1>6
  <2>3. QED  BY <1>7, <2>1, <2>2
<1>9. QED  BY <1>1, <1>4, <1>8

LEMMA WaitingWorks ==
  ASSUME NEW r \in Request, NEW out \in Seq(DataN), NEW data \in DataN
  PROVE  /\ Waiting(r, out) \in Seq(Nat)
         /\ Waiting(r, Append(out, data)) = Waiting(r, out) \o data.parts
<1>1. Tagged(r, out) \in Seq(Entry) /\ <<r, data>> \in Entry
  BY TaggedWorks
<1> DEFINE e == <<r, data>>
<1>2. Adding(r, e) = data.parts
  BY DEF Adding
<1>3. Tagged(r, Append(out, data)) = Tagged(r, out) \o <<e>>
  BY TaggedWorks
<1> HIDE DEF e
<1>4. e \in Entry /\ <<e>> \in Seq(Entry)
  BY <1>1 DEF e
<1>5. PartsOf(r, Tagged(r, out) \o <<e>>)
        = PartsOf(r, Tagged(r, out)) \o PartsOf(r, <<e>>)
  BY <1>1, <1>4, PartsOfBoth
<1>6. PartsOf(r, <<e>>) = data.parts
  BY <1>2, <1>4, PartsOfOne
<1>7. QED  BY <1>1, <1>3, <1>5, <1>6, PartsTyped DEF Waiting

LEMMA WaitingNothing ==
  ASSUME NEW r
  PROVE  Waiting(r, <<>>) = <<>>
<1>1. Tagged(r, <<>>) = <<>>
  BY DEF Tagged
<1>2. <<>> \in Seq(Entry) /\ DOMAIN <<>> = {}
  OBVIOUS
<1>3. PartsOf(r, <<>>) = <<>>
  BY <1>2, PartsOfNone
<1>4. QED  BY <1>1, <1>3 DEF Waiting

LEMMA WireMore ==
  ASSUME NEW r \in Request, NEW w \in Seq(Request \X DataN), NEW out \in Seq(DataN)
  PROVE  PartsOf(r, w \o Tagged(r, out)) = PartsOf(r, w) \o Waiting(r, out)
         /\ PartsOf(r, w) \in Seq(Nat)
<1>1. w \in Seq(Entry)
  BY DEF Entry
<1>2. Tagged(r, out) \in Seq(Entry)
  <2>1. Str(<<>>) \in DataN
    <3>1. <<>> \in Seq(Nat)
      OBVIOUS
    <3>2. QED  BY <3>1 DEF Str, DataN
  <2>2. QED  BY <2>1, TaggedWorks
<1>3. QED  BY <1>1, <1>2, PartsOfBoth, PartsTyped DEF Waiting

LEMMA WireOne ==
  ASSUME NEW r \in Request, NEW w \in Seq(Request \X DataN), NEW data \in DataN
  PROVE  PartsOf(r, Append(w, <<r, data>>)) = PartsOf(r, w) \o data.parts
<1> DEFINE e == <<r, data>>
<1>1. w \in Seq(Entry) /\ e \in Entry /\ Adding(r, e) = data.parts
  BY DEF Entry, Adding
<1> HIDE DEF e
<1>2. Append(w, e) = w \o <<e>> /\ <<e>> \in Seq(Entry)
  BY <1>1
<1>3. PartsOf(r, w \o <<e>>) = PartsOf(r, w) \o PartsOf(r, <<e>>)
  BY <1>1, <1>2, PartsOfBoth
<1>4. QED  BY <1>1, <1>2, <1>3, PartsOfOne DEF e

Wires == Seq(Request \X DataN)
SameBut(r, v, w) == \A q : q # r => PartsOf(q, w) = PartsOf(q, v)

(* What another response is told of does not change. *)
LEMMA OthersOnWire ==
  ASSUME NEW v \in Wires, NEW w \in Wires,
         NEW r, Longer(v, w, r)
  PROVE  SameBut(r, v, w)
<1> SUFFICES ASSUME NEW q, q # r  PROVE PartsOf(q, w) = PartsOf(q, v)
  BY DEF SameBut
<1> DEFINE k == Len(v)
           n == Len(w) - Len(v)
           x == [i \in 1..n |-> w[k + i]]
<1>1. /\ k \in Nat /\ Len(w) \in Nat /\ k <= Len(w) /\ n \in Nat
      /\ DOMAIN v = 1..k /\ DOMAIN w = 1..Len(w) /\ Len(w) = k + n
  BY DEF Longer, Wires
<1>2. v \in Seq(Entry) /\ w \in Seq(Entry)
  BY DEF Entry, Wires
<1>3. /\ \A i \in 1..n : k + i \in DOMAIN w /\ ~(k + i \in DOMAIN v)
      /\ \A i \in 1..k : w[i] = v[i]
  <2> HIDE DEF n, k
  <2>1. \A i \in 1..n : k + i \in 1..Len(w) /\ ~(k + i \in 1..k)
    BY <1>1
  <2>2. \A i \in 1..k : i \in DOMAIN w /\ i \in DOMAIN v
    BY <1>1
  <2>3. QED  BY <1>1, <2>1, <2>2 DEF Longer
<1>4. \A i \in 1..n : w[k + i] \in Entry /\ w[k + i][1] = r
  BY <1>2, <1>3 DEF Longer
<1>5. x \in [1..n -> Entry] /\ \A i \in 1..n : x[i] = w[k + i] /\ x[i][1] = r
  BY <1>4
<1> HIDE DEF x, n, k
<1>6. x \in Seq(Entry) /\ Len(x) = n /\ DOMAIN x = 1..n
  BY <1>1, <1>5
<1> DEFINE u == v \o x
<1>7. /\ u \in Seq(Entry) /\ DOMAIN u = 1..(k + n)
      /\ \A i \in 1..(k + n) : u[i] = IF i \in 1..k THEN v[i] ELSE x[i - k]
  <2>1. \A i \in 1..(k + n) : i \notin 1..k => i - k \in 1..n
    BY <1>1
  <2>6. u \in Seq(Entry) /\ Len(u) = Len(v) + Len(x)
        /\ \A i \in 1..(Len(v) + Len(x)) :
             u[i] = IF i <= Len(v) THEN v[i] ELSE x[i - Len(v)]
    BY <1>2, <1>6, ConcatProperties
  <2>7. Len(v) = k
    BY DEF k
  <2> HIDE DEF u
  <2>2. Len(u) = k + n /\ u \in Seq(Entry)
    BY <1>6, <2>6, <2>7
  <2>3. \A i \in 1..(k + n) : u[i] = IF i <= k THEN v[i] ELSE x[i - k]
    BY <1>6, <2>6, <2>7, Zenon
  <2>4. DOMAIN u = 1..(k + n) /\ \A i \in 1..(k + n) : i \in 1..k <=> i <= k
    BY <1>1, <2>2
  <2>5. QED  BY <2>2, <2>3, <2>4
<1>8. \A i \in 1..(k + n) : u[i] = w[i]
  <2> SUFFICES ASSUME NEW i \in 1..(k + n)  PROVE u[i] = w[i]
    OBVIOUS
  <2> HIDE DEF u
  <2>1. CASE i \in 1..k
    BY <1>3, <1>7, <2>1
  <2>2. CASE i \notin 1..k
    <3>1. i - k \in 1..n /\ k + (i - k) = i
      BY <1>1, <2>2
    <3>2. QED  BY <1>5, <1>7, <2>2, <3>1
  <2>3. QED  BY <2>1, <2>2
<1>9. u = w
  <2> HIDE DEF u
  <2>1. u = [i \in 1..(k + n) |-> u[i]] /\ w = [i \in 1..(k + n) |-> w[i]]
    BY <1>1, <1>2, <1>7
  <2>2. QED  BY <1>8, <2>1
<1>10. PartsOf(q, u) = PartsOf(q, v) \o PartsOf(q, x)
  BY <1>2, <1>6, PartsOfBoth
<1>11. PartsOf(q, x) = <<>>
  BY <1>5, <1>6, PartsOfNone
<1>12. PartsOf(q, v) \in Seq(Nat)
  BY <1>2, PartsTyped
<1>13. QED  BY <1>9, <1>10, <1>11, <1>12

LEMMA SentTyped ==
  ASSUME NEW c \in ConnN, Len(c.response) <= MaxRequests,
         NEW r \in DOMAIN c.response
  PROVE  /\ PartsOf(r, c.wire) \in Seq(Nat)
         /\ Waiting(r, c.response[r].output) \in Seq(Nat)
         /\ Sent(c, r) \in Seq(Nat) /\ Left(c.response[r]) \in Seq(Nat)
         /\ Told(c, r) \in Seq(Nat)
<1>1. r \in Request /\ c.response[r].output \in Seq(DataN)
      /\ c.wire \in Seq(Request \X DataN)
  BY RespondsTo DEF ConnN, ResponseN
<1>2. Str(<<>>) \in DataN
  <2>1. <<>> \in Seq(Nat)
    OBVIOUS
  <2>2. QED  BY <2>1 DEF Str, DataN
<1>3. PartsOf(r, c.wire) \in Seq(Nat) /\ Waiting(r, c.response[r].output) \in Seq(Nat)
  BY <1>1, <1>2, WireMore, WaitingWorks
<1>4. <<>> \in Seq(Nat) /\ <<Header>> \in Seq(Nat)
  BY DEF Header
<1>5. Left(c.response[r]) \in Seq(Nat)
  BY <1>4 DEF Left
<1>6. QED  BY <1>3, <1>5 DEF Sent, Told

(* What writing does not change. *)
Alike(m, n) ==
  /\ n.header = m.header /\ n.said = m.said /\ n.hasBody = m.hasBody
  /\ n.chunked = m.chunked /\ n.chunks = m.chunks

LEMMA WriteRawTells ==
  ASSUME NEW c \in ConnN, Len(c.response) <= MaxRequests,
         NEW r \in DOMAIN c.response, NEW data \in DataN
  PROVE  LET d == WriteRaw(c, r, data)
             m == c.response[r]
             n == d.response[r]
         IN  /\ Alike(m, n) /\ n.headerSent = m.headerSent
             /\ ~n.doubled => ~m.doubled /\ Sent(d, r) = Sent(c, r) \o data.parts
<1> DEFINE m == c.response[r]
           out == Append(m.output, data)
           ps == PartsOf(r, c.wire)
           ws == Waiting(r, m.output)
<1>0. r \in Request /\ m \in ResponseN /\ m.output \in Seq(DataN)
      /\ c.wire \in Seq(Request \X DataN) /\ c.response \in Seq(ResponseN)
      /\ data.parts \in Seq(Nat)
  BY RespondsTo DEF ConnN, ResponseN, DataN
<1>5. ps \in Seq(Nat) /\ ws \in Seq(Nat) /\ Sent(c, r) = ps \o ws
      /\ Sent(c, r) \in Seq(Nat)
  BY SentTyped DEF Sent
<1>6. ps \o (ws \o data.parts) = Sent(c, r) \o data.parts
  <2>1. (ps \o ws) \o data.parts = ps \o (ws \o data.parts)
    <3> HIDE DEF ps, ws
    <3>1. QED  BY <1>0, <1>5, Assoc
  <2>2. QED  BY <1>5, <2>1, Zenon
<1>7. (ps \o (ws \o data.parts)) \o <<>> = ps \o (ws \o data.parts)
  BY <1>0, <1>5
<1>1. CASE data.parts = <<>>
  <2>1. WriteRaw(c, r, data) = c
    BY <1>1 DEF WriteRaw
  <2>2. Sent(c, r) \o <<>> = Sent(c, r)
    BY <1>5
  <2>3. QED  BY <1>1, <2>1, <2>2 DEF Alike
<1>2. CASE data.parts # <<>> /\ Direct(c, r)
  <2> DEFINE w == c.wire \o Tagged(r, out)
             n == [m EXCEPT !.output = <<>>]
  <2>1. out \in Seq(DataN)
    BY <1>0
  <2>2. w \in Seq(Request \X DataN)
        /\ PartsOf(r, w) = ps \o (ws \o data.parts)
    <3>1. Waiting(r, out) = ws \o data.parts
      BY <1>0, WaitingWorks
    <3> HIDE DEF out, ps, ws
    <3>2. PartsOf(r, w) = PartsOf(r, c.wire) \o Waiting(r, out)
      BY <1>0, <2>1, WireMore
    <3>3. w \in Seq(Request \X DataN)
      BY <1>0, <2>1, LongerByOutput DEF Tagged
    <3>4. QED  BY <3>1, <3>2, <3>3 DEF ps
  <2>3. n \in ResponseN /\ n.output = <<>> /\ Alike(m, n)
        /\ n.headerSent = m.headerSent /\ n.doubled = m.doubled
    <3>1. <<>> \in Seq(DataN)
      OBVIOUS
    <3>2. QED  BY <1>0, <3>1 DEF ResponseN, Alike
  <2>5. WriteRaw(c, r, data) = [c EXCEPT !.wire = w, !.response[r].output = <<>>]
    BY <1>2 DEF WriteRaw, Tagged
  <2> DEFINE d == Put(c, w, r, n)
  <2>6. WriteRaw(c, r, data) = d
    BY <2>5 DEF Put
  <2> HIDE DEF w, n, m, ps, ws
  <2>7. d.wire = w /\ d.response[r] = n
    BY <2>2, <2>3, PutWorks
  <2> HIDE DEF d
  <2>8. Sent(d, r) = Sent(c, r) \o data.parts
    BY <1>6, <1>7, <2>2, <2>3, <2>7, WaitingNothing, Zenon DEF Sent
  <2>9. QED  BY <2>3, <2>6, <2>7, <2>8 DEF m
<1>3. CASE data.parts # <<>> /\ ~Direct(c, r)
  <2> DEFINE b == Buffer(m.output, data)
             x == m.doubled \/ Joins(m.output, data)
             n == [m EXCEPT !.output = b, !.doubled = x]
  <2>1. b \in Seq(DataN)
    BY <1>0, BufferWorks
  <2>2. x \in BOOLEAN
    BY <1>0 DEF ResponseN, Joins
  <2>3. ~x => ~m.doubled /\ b = out
    BY DEF Buffer
  <2>4. Waiting(r, out) = ws \o data.parts
    BY <1>0, WaitingWorks
  <2>5. WriteRaw(c, r, data) =
          [c EXCEPT !.response[r].output = b, !.response[r].doubled = x]
    BY <1>3 DEF WriteRaw
  <2> HIDE DEF b, x, out
  <2>6. n \in ResponseN /\ n.output = b /\ n.doubled = x /\ Alike(m, n)
        /\ n.headerSent = m.headerSent
    BY <1>0, <2>1, <2>2 DEF ResponseN, Alike
  <2> DEFINE d == Put(c, c.wire, r, n)
  <2>7. WriteRaw(c, r, data) = d
    BY <1>0, <2>5 DEF Put, ConnN
  <2> HIDE DEF n, m, ws
  <2>8. d.wire = c.wire /\ d.response[r] = n
    BY <1>0, <2>6, PutWorks
  <2> HIDE DEF d
  <2>9. ~x => Sent(d, r) = Sent(c, r) \o data.parts
    BY <1>6, <2>3, <2>4, <2>6, <2>8, Zenon DEF Sent, ps
  <2>10. QED  BY <2>3, <2>6, <2>7, <2>8, <2>9 DEF m
<1>4. QED  BY <1>1, <1>2, <1>3

(* The header goes with the first data only if nothing waits before it. *)
Fit(m) == m.header /\ (m.headerSent \/ m.output = <<>>)

(* From c to d what is told of response r grows by p. *)
Adds(c, d, r, p) ==
  LET m == c.response[r]
      n == d.response[r]
  IN  /\ Alike(m, n)
      /\ ~n.doubled => /\ ~m.doubled
                       /\ Fit(m) => Fit(n) /\ Told(d, r) = Told(c, r) \o p

LEMMA SendTells ==
  ASSUME NEW c \in ConnN, Len(c.response) <= MaxRequests,
         NEW r \in DOMAIN c.response, NEW data \in DataN
  PROVE  Adds(c, Send(c, r, data), r, data.parts)
<1> DEFINE m == c.response[r]
           k == [m EXCEPT !.headerSent = TRUE]
           sent == [c EXCEPT !.response[r].headerSent = TRUE]
           first == Str(<<Header>>)
           d == Send(c, r, data)
           told == Sent(c, r)
           parts == data.parts
<1>0. /\ m \in ResponseN /\ m.output \in Seq(DataN) /\ m.headerSent \in BOOLEAN
      /\ c.wire \in Seq(Request \X DataN) /\ data.kind \in {"str", "buf"}
      /\ parts \in Seq(Nat) /\ r \in Request
  BY RespondsTo DEF ConnN, ResponseN, DataN
<1>1. told \in Seq(Nat) /\ <<Header>> \in Seq(Nat)
  BY SentTyped DEF Header
<1>2. /\ told \o <<>> = told
      /\ (told \o parts) \o <<>> = told \o parts
      /\ told \o (<<Header>> \o parts) = (told \o <<Header>>) \o parts
      /\ (told \o (<<Header>> \o parts)) \o <<>> = (told \o <<Header>>) \o parts
      /\ ((told \o <<Header>>) \o parts) \o <<>> = (told \o <<Header>>) \o parts
  <2> HIDE DEF told, parts
  <2>1. told \o parts \in Seq(Nat) /\ <<Header>> \o parts \in Seq(Nat)
        /\ told \o <<Header>> \in Seq(Nat)
    BY <1>0, <1>1
  <2>2. (told \o <<Header>>) \o parts \in Seq(Nat)
    BY <1>0, <2>1
  <2>3. told \o (<<Header>> \o parts) = (told \o <<Header>>) \o parts
    BY <1>0, <1>1, Assoc
  <2>4. \A s \in Seq(Nat) : s \o <<>> = s
    OBVIOUS
  <2>5. QED  BY <1>1, <2>1, <2>2, <2>3, <2>4
<1>3. CASE m.headerSent
  <2>1. d = WriteRaw(c, r, data)
    BY <1>3 DEF Send
  <2> HIDE DEF d, m, told, parts
  <2>2. /\ Alike(m, d.response[r]) /\ d.response[r].headerSent
        /\ ~d.response[r].doubled => ~m.doubled /\ Sent(d, r) = told \o parts
    BY <1>3, <2>1, WriteRawTells DEF m, told, parts
  <2>3. Left(m) = <<>> /\ Left(d.response[r]) = <<>>
    BY <1>3, <2>2 DEF Left
  <2>4. Fit(m) => Fit(d.response[r])
    BY <2>2 DEF Fit, Alike
  <2>5. Told(c, r) = told
    BY <1>2, <2>3, Zenon DEF Told, m, told
  <2>6. ~d.response[r].doubled => Told(d, r) = told \o parts
    BY <1>2, <2>2, <2>3, Zenon DEF Told
  <2>7. Adds(c, d, r, parts)
    BY <2>2, <2>4, <2>5, <2>6, Zenon DEF Adds, m
  <2>8. QED  BY <2>7 DEF d, parts
<1>4. CASE ~m.headerSent /\ data.kind = "str"
  <2> DEFINE s == Str(<<Header>> \o parts)
             p == Put(c, c.wire, r, k)
  <2>1. s \in DataN /\ s.parts = <<Header>> \o parts
    BY <1>0 DEF Str, DataN, Header
  <2>2. d = WriteRaw(sent, r, s)
    BY <1>4 DEF Send
  <2>3. k \in ResponseN /\ k.headerSent /\ k.hasSocket = m.hasSocket
        /\ k.listening = m.listening /\ k.output = m.output
        /\ k.doubled = m.doubled /\ Alike(m, k)
    BY <1>0 DEF ResponseN, Alike
  <2>4. sent = p
    BY <1>0 DEF Put, ConnN
  <2> HIDE DEF s, k, m, sent, d, told, parts
  <2>5. Same(c, p, r) /\ p.response[r] = k /\ p.wire = c.wire
    BY <1>0, <2>3, PutWorks DEF m
  <2> HIDE DEF p
  <2>6. p \in ConnN /\ Len(p.response) <= MaxRequests /\ r \in DOMAIN p.response
    BY <2>5, Enough
  <2>7. Sent(p, r) = told
    BY <2>3, <2>5, Zenon DEF Sent, told, m
  <2>8. /\ Alike(k, d.response[r]) /\ d.response[r].headerSent
        /\ ~d.response[r].doubled => ~k.doubled /\ Sent(d, r) = told \o s.parts
    BY <2>1, <2>2, <2>3, <2>4, <2>5, <2>6, <2>7, WriteRawTells
  <2>9. Left(d.response[r]) = <<>> /\ (Fit(m) => Left(m) = <<Header>>)
    BY <1>4, <2>8 DEF Left, Fit
  <2>10. Alike(m, d.response[r]) /\ (Fit(m) => Fit(d.response[r]))
    BY <2>3, <2>8 DEF Fit, Alike
  <2>11. Fit(m) => Told(c, r) = told \o <<Header>>
    BY <2>9, Zenon DEF Told, told, m
  <2>12. ~d.response[r].doubled => Told(d, r) = (told \o <<Header>>) \o parts
    BY <1>2, <2>1, <2>8, <2>9, Zenon DEF Told
  <2>13. Adds(c, d, r, parts)
    BY <2>3, <2>8, <2>10, <2>11, <2>12, Zenon DEF Adds, m
  <2>14. QED  BY <2>13 DEF d, parts
<1>5. CASE ~m.headerSent /\ data.kind = "buf"
  <2> DEFINE o == <<first>> \o m.output
             l == [k EXCEPT !.output = o]
             p == Put(c, c.wire, r, l)
  <2>1. first \in DataN /\ first.parts = <<Header>>
    BY DEF Str, DataN, Header
  <2>2. o \in Seq(DataN) /\ (m.output = <<>> => o = Append(<<>>, first))
    <3> HIDE DEF first, m
    <3>1. \A x \in Seq(DataN) : <<first>> \o x \in Seq(DataN)
      BY <2>1
    <3>2. <<first>> \o <<>> = Append(<<>>, first)
      BY <2>1
    <3>3. QED  BY <1>0, <3>1, <3>2, Zenon
  <2>3. d = WriteRaw([sent EXCEPT !.response[r].output = <<first>> \o @], r, data)
    BY <1>5 DEF Send
  <2>4. sent.response[r].output = m.output
    BY <1>0 DEF ResponseN, ConnN
  <2>5. [sent EXCEPT !.response[r].output = <<first>> \o @]
          = [sent EXCEPT !.response[r].output = o]
    BY <2>4
  <2> HIDE DEF o
  <2>6. [sent EXCEPT !.response[r].output = o] = p
    BY <1>0 DEF Put, ConnN
  <2>7. l \in ResponseN /\ l.headerSent /\ l.hasSocket = m.hasSocket
        /\ l.listening = m.listening /\ l.output = o
        /\ l.doubled = m.doubled /\ Alike(m, l)
    BY <1>0, <2>2 DEF ResponseN, Alike
  <2> HIDE DEF first, l, k, m, sent, d, told, parts
  <2>8. Same(c, p, r) /\ p.response[r] = l /\ p.wire = c.wire
    BY <1>0, <2>7, PutWorks DEF m
  <2> HIDE DEF p
  <2>9. p \in ConnN /\ Len(p.response) <= MaxRequests /\ r \in DOMAIN p.response
    BY <2>8, Enough
  <2>10. m.output = <<>> => Sent(p, r) = told \o <<Header>>
    <3> SUFFICES ASSUME m.output = <<>>  PROVE Sent(p, r) = told \o <<Header>>
      OBVIOUS
    <3>1. <<>> \in Seq(DataN) /\ <<>> \o <<Header>> = <<Header>>
      OBVIOUS
    <3>2. Waiting(r, Append(<<>>, first)) = Waiting(r, <<>>) \o first.parts
      BY <1>0, <2>1, <3>1, WaitingWorks
    <3>3. Waiting(r, o) = <<Header>> /\ Waiting(r, m.output) = <<>>
      BY <2>1, <2>2, <3>1, <3>2, WaitingNothing, Zenon
    <3>4. PartsOf(r, c.wire) \o <<>> = PartsOf(r, c.wire)
      BY SentTyped
    <3>5. told = PartsOf(r, c.wire)
      BY <3>3, <3>4, Zenon DEF told, Sent, m
    <3>6. QED  BY <2>7, <2>8, <3>3, <3>5, Zenon DEF Sent
  <2>18. d = WriteRaw(p, r, data)
    BY <2>3, <2>5, <2>6, Zenon
  <2>11. /\ Alike(l, d.response[r]) /\ d.response[r].headerSent
         /\ ~d.response[r].doubled => ~l.doubled /\ Sent(d, r) = Sent(p, r) \o parts
    BY <2>7, <2>8, <2>9, <2>18, WriteRawTells DEF parts
  <2>12. Left(d.response[r]) = <<>>
         /\ (Fit(m) => Left(m) = <<Header>> /\ m.output = <<>>)
    BY <1>5, <2>11 DEF Left, Fit
  <2>13. Alike(m, d.response[r]) /\ (Fit(m) => Fit(d.response[r]))
    BY <2>7, <2>11 DEF Fit, Alike
  <2>14. Fit(m) => Told(c, r) = told \o <<Header>>
    BY <2>12, Zenon DEF Told, told, m
  <2>15. Fit(m) /\ ~d.response[r].doubled => Told(d, r) = (told \o <<Header>>) \o parts
    BY <1>2, <2>10, <2>11, <2>12, Zenon DEF Told
  <2>16. Adds(c, d, r, parts)
    BY <2>7, <2>11, <2>13, <2>14, <2>15, Zenon DEF Adds, m
  <2>17. QED  BY <2>16 DEF d, parts
<1>6. QED  BY <1>0, <1>3, <1>4, <1>5

LEMMA AddsTwice ==
  ASSUME NEW c \in ConnN, Len(c.response) <= MaxRequests,
         NEW r \in DOMAIN c.response, NEW d, NEW e,
         NEW p \in Seq(Nat), NEW q \in Seq(Nat), Adds(c, d, r, p), Adds(d, e, r, q)
  PROVE  Adds(c, e, r, p \o q)
<1>1. Told(c, r) \in Seq(Nat)
  BY SentTyped
<1>2. (Told(c, r) \o p) \o q = Told(c, r) \o (p \o q)
  <2> DEFINE t == Told(c, r)
  <2> HIDE DEF t
  <2>1. t \in Seq(Nat)
    BY <1>1 DEF t
  <2>2. (t \o p) \o q = t \o (p \o q)
    BY <2>1, Assoc
  <2>3. QED  BY <2>2 DEF t
<1>3. Alike(c.response[r], e.response[r])
  BY DEF Adds, Alike
<1>4. QED  BY <1>2, <1>3, Zenon DEF Adds

(* The interim response was said first, and is still. *)
Expects(m) == Head(m.said \o <<Header>>) = Interim

LEMMA ExpectsStays ==
  ASSUME NEW m \in ResponseN, Expects(m), NEW p \in Seq(Nat), NEW n,
         n.said = m.said \o p
  PROVE  Expects(n)
<1> DEFINE s == m.said
<1>1. s \in Seq(Nat)
  BY DEF ResponseN
<1>2. Head(s \o <<Header>>) = Interim
  BY DEF Expects
<1>3. n.said = s \o p
  OBVIOUS
<1> HIDE DEF s
<1>4. s # <<>>
  <2> SUFFICES ASSUME s = <<>>  PROVE FALSE
    OBVIOUS
  <2>1. s \o <<Header>> = <<Header>>
    BY DEF Header
  <2>2. QED  BY <1>2, <2>1 DEF Header, Interim
<1>5. Head(s \o <<Header>>) = s[1]
  BY <1>1, <1>4 DEF Header
<1>6. (s \o p) \o <<Header>> \in Seq(Nat) /\ Head((s \o p) \o <<Header>>) = s[1]
  <2>1. s \o p \in Seq(Nat) /\ Len(s) > 0 /\ (s \o p)[1] = s[1]
        /\ Len(s \o p) > 0
    BY <1>1, <1>4
  <2> DEFINE u == s \o p
  <2> HIDE DEF u
  <2>2. u \in Seq(Nat) /\ Len(u) > 0 /\ u[1] = s[1]
    BY <2>1 DEF u
  <2>3. u \o <<Header>> \in Seq(Nat) /\ Head(u \o <<Header>>) = u[1]
    BY <2>2 DEF Header
  <2>4. QED  BY <2>2, <2>3 DEF u
<1>7. QED  BY <1>2, <1>3, <1>5, <1>6, Zenon DEF Expects

(* What is told of response r is what the application said. *)
Faithful(c, r) ==
  LET m == c.response[r]
  IN  /\ m.headerSent => m.header
      /\ m.headerSent \/ m.output = <<>>
      /\ Told(c, r) = m.said

(* From c to d it stays so, unless buffer() keeps a string twice. *)
Tells(c, d, r) ==
  LET m == c.response[r]
      n == d.response[r]
  IN  /\ Expects(m) => Expects(n)
      /\ ~n.doubled => ~m.doubled /\ (Faithful(c, r) => Faithful(d, r))

LEMMA TellsTwice ==
  ASSUME NEW c, NEW d, NEW e, NEW r, Tells(c, d, r), Tells(d, e, r)
  PROVE  Tells(c, e, r)
BY Zenon DEF Tells

LEMMA FaithfulFit ==
  ASSUME NEW c, NEW r
  PROVE  /\ Faithful(c, r) /\ c.response[r].header => Fit(c.response[r])
         /\ Fit(c.response[r]) /\ Told(c, r) = c.response[r].said => Faithful(c, r)
BY DEF Faithful, Fit

LEMMA WriteHeadTells ==
  ASSUME NEW c \in ConnN, Len(c.response) <= MaxRequests,
         NEW r \in DOMAIN c.response, NEW head \in Heads
  PROVE  LET d == WriteHead(c, r, head)
         IN  Tells(c, d, r) /\ d.response[r].header
<1> DEFINE m == c.response[r]
           k == StoreHeader(m, head)
           said == Append(k.said, Header)
           n == [k EXCEPT !.said = said]
<1>0. m \in ResponseN
  BY Responses
<1>1. CASE m.header
  BY <1>1, Zenon DEF WriteHead, Tells
<1>2. CASE ~m.header
  <2>1. /\ k \in ResponseN /\ k.header /\ k.said = m.said
        /\ k.hasSocket = m.hasSocket /\ k.listening = m.listening
        /\ k.headerSent = m.headerSent /\ k.doubled = m.doubled
        /\ k.output = m.output
    <3> DEFINE x == m.hasBody /\ head.framing = "chunked"
               y == m.last \/ head.close \/ ~m.keepAlive
    <3>1. x \in BOOLEAN /\ y \in BOOLEAN
      OBVIOUS
    <3>2. k = [m EXCEPT !.header = TRUE, !.chunked = x, !.last = y]
      BY DEF StoreHeader
    <3> HIDE DEF x, y, k
    <3>3. QED  BY <1>0, <3>1, <3>2 DEF ResponseN
  <2>2. WriteHead(c, r, head) = [c EXCEPT !.response = [c.response EXCEPT ![r] = n]]
    BY <1>2 DEF WriteHead
  <2>3. said \in Seq(Nat) /\ said = m.said \o <<Header>>
    <3>1. m.said \in Seq(Nat)
      BY <1>0 DEF ResponseN
    <3>2. \A x \in Seq(Nat) : Append(x, Header) \in Seq(Nat)
                              /\ Append(x, Header) = x \o <<Header>>
      BY DEF Header
    <3>3. QED  BY <2>1, <3>1, <3>2, Zenon
  <2> HIDE DEF said, k
  <2>4. /\ n \in ResponseN /\ n.header /\ n.said = said
        /\ n.hasSocket = m.hasSocket /\ n.listening = m.listening
        /\ n.headerSent = m.headerSent /\ n.doubled = m.doubled
        /\ n.output = m.output
    BY <2>1, <2>3 DEF ResponseN
  <2> DEFINE d == WriteHead(c, r, head)
             p == Put(c, c.wire, r, n)
  <2> HIDE DEF n, m
  <2>5. d = p
    BY <2>2 DEF Put, ConnN
  <2>6. p.response[r] = n /\ p.wire = c.wire
    <3>1. c.wire \in Seq(Request \X DataN)
      BY DEF ConnN
    <3>2. QED  BY <2>4, <3>1, PutWorks DEF m
  <2> HIDE DEF p
  <2>7. Expects(m) => Expects(n)
    <3>1. <<Header>> \in Seq(Nat)
      BY DEF Header
    <3>2. QED  BY <1>0, <2>3, <2>4, <3>1, ExpectsStays
  <2>8. Sent(p, r) = Sent(c, r) /\ Sent(c, r) \o <<>> = Sent(c, r)
    <3>1. Sent(p, r) = Sent(c, r)
      BY <2>4, <2>6, Zenon DEF Sent, m
    <3>2. Sent(c, r) \in Seq(Nat)
      BY SentTyped
    <3>3. QED  BY <3>1, <3>2
  <2>9. Faithful(c, r) => Faithful(p, r)
    <3> SUFFICES ASSUME Faithful(c, r)  PROVE Faithful(p, r)
      OBVIOUS
    <3>1. ~m.headerSent /\ m.output = <<>> /\ Told(c, r) = m.said
      BY <1>2 DEF Faithful, m
    <3>2. Left(m) = <<>> /\ Left(n) = <<Header>>
      BY <1>2, <2>4, <3>1 DEF Left
    <3>3. Sent(c, r) = m.said
      BY <2>8, <3>1, <3>2, Zenon DEF Told, m
    <3>4. Told(p, r) = n.said
      BY <2>3, <2>4, <2>6, <2>8, <3>2, <3>3, Zenon DEF Told
    <3>5. QED  BY <2>4, <2>6, <3>1, <3>4 DEF Faithful
  <2>10. Tells(c, p, r) /\ p.response[r].header
    BY <2>4, <2>6, <2>7, <2>9, Zenon DEF Tells, m
  <2>11. QED  BY <2>5, <2>10 DEF d
<1>3. QED  BY <1>1, <1>2

LEMMA SayTells ==
  ASSUME NEW c \in ConnN, Len(c.response) <= MaxRequests,
         NEW r \in DOMAIN c.response
  PROVE  LET s == Say(c, r)
             m == c.response[r]
             n == s.response[r]
         IN  /\ s \in ConnN /\ Len(s.response) <= MaxRequests
             /\ DOMAIN s.response = DOMAIN c.response
             /\ n.said = m.said \o Pieces(c, r) /\ n.header = m.header
             /\ n.headerSent = m.headerSent /\ n.output = m.output
             /\ n.chunked = m.chunked /\ n.hasBody = m.hasBody
             /\ n.doubled = m.doubled /\ Told(s, r) = Told(c, r)
             /\ s.wire = c.wire /\ (Expects(m) => Expects(n))
<1> DEFINE m == c.response[r]
           said == m.said \o Pieces(c, r)
           chunks == m.chunks + 1
           n == [m EXCEPT !.chunks = chunks, !.said = said]
           s == Say(c, r)
<1>1. m \in ResponseN /\ said \in Seq(Nat) /\ chunks \in Nat /\ Pieces(c, r) \in Seq(Nat)
  <2>1. m \in ResponseN /\ m.said \in Seq(Nat) /\ m.chunks \in Nat
    BY Responses DEF ResponseN
  <2>2. Pieces(c, r) \in Seq(Nat)
    BY PiecesWork
  <2>3. QED  BY <2>1, <2>2
<1>2. s = [c EXCEPT !.response[r].chunks = chunks, !.response[r].said = said]
  BY <1>1 DEF Say, ConnN, ResponseN
<1>3. m.said \o Pieces(c, r) = said
  OBVIOUS
<1> HIDE DEF said, chunks
<1>4. s = Put(c, c.wire, r, n)
  BY <1>1, <1>2 DEF Put, ConnN
<1>5. /\ n \in ResponseN
      /\ n.hasSocket = m.hasSocket /\ n.listening = m.listening
      /\ n.said = said /\ n.header = m.header
      /\ n.headerSent = m.headerSent /\ n.output = m.output
      /\ n.chunked = m.chunked /\ n.hasBody = m.hasBody
      /\ n.doubled = m.doubled
  BY <1>1 DEF ResponseN
<1>6. c.wire \in Seq(Request \X DataN)
  BY DEF ConnN
<1> HIDE DEF n, s, m
<1>7. Same(c, s, r) /\ s.response[r] = n /\ s.wire = c.wire
  BY <1>4, <1>5, <1>6, PutWorks DEF m
<1>8. s \in ConnN /\ Len(s.response) <= MaxRequests /\ DOMAIN s.response = DOMAIN c.response
  BY <1>7, Enough
<1>9. Told(s, r) = Told(c, r)
  <2>1. Left(n) = Left(m)
    BY <1>5 DEF Left
  <2>2. QED  BY <1>5, <1>7, <2>1, Zenon DEF Told, Sent, m
<1>10. Expects(m) => Expects(n)
  BY <1>1, <1>3, <1>5, ExpectsStays
<1>11. QED  BY <1>3, <1>5, <1>7, <1>8, <1>9, <1>10, Zenon DEF s, m

LEMMA OneByOne ==
  ASSUME NEW x \in Nat, NEW y \in Nat, NEW z \in Nat
  PROVE  (<<x>> \o <<y>>) \o <<z>> = <<x, y, z>>
<1> DEFINE a == <<x>>
           b == <<y>>
           e == <<z>>
           u == a \o b
           v == u \o e
           w == <<x, y, z>>
<1>1. /\ a \in Seq(Nat) /\ b \in Seq(Nat) /\ e \in Seq(Nat)
      /\ Len(a) = 1 /\ Len(b) = 1 /\ Len(e) = 1
      /\ a[1] = x /\ b[1] = y /\ e[1] = z
      /\ w \in Seq(Nat) /\ Len(w) = 3 /\ w[1] = x /\ w[2] = y /\ w[3] = z
  OBVIOUS
<1> HIDE DEF a, b, e, w
<1>2. u \in Seq(Nat) /\ Len(u) = 2 /\ u[1] = x /\ u[2] = y
  <2>1. /\ u \in Seq(Nat) /\ Len(u) = Len(a) + Len(b)
        /\ \A i \in 1..(Len(a) + Len(b)) :
             u[i] = IF i <= Len(a) THEN a[i] ELSE b[i - Len(a)]
    BY <1>1, ConcatProperties
  <2> HIDE DEF u
  <2>2. QED  BY <1>1, <2>1
<1> HIDE DEF u
<1>3. v \in Seq(Nat) /\ Len(v) = 3 /\ v[1] = x /\ v[2] = y /\ v[3] = z
  <2>1. /\ v \in Seq(Nat) /\ Len(v) = Len(u) + Len(e)
        /\ \A i \in 1..(Len(u) + Len(e)) :
             v[i] = IF i <= Len(u) THEN u[i] ELSE e[i - Len(u)]
    BY <1>1, <1>2, ConcatProperties
  <2> HIDE DEF v
  <2>2. QED  BY <1>1, <1>2, <2>1
<1> HIDE DEF v
<1>4. \A i \in 1..3 : v[i] = w[i]
  BY <1>1, <1>3
<1>5. v = [i \in 1..3 |-> v[i]] /\ w = [i \in 1..3 |-> w[i]]
  BY <1>1, <1>3
<1>6. v = w
  BY <1>4, <1>5
<1>7. QED  BY <1>6 DEF v, u, a, b, e, w

LEMMA WriteTells ==
  ASSUME NEW c \in ConnN, Len(c.response) <= MaxRequests,
         NEW r \in DOMAIN c.response, NEW kind \in {"str", "buf"},
         c.response[r].header
  PROVE  LET d == Write(c, r, kind)
         IN  Tells(c, d, r) /\ d.response[r].header
<1> DEFINE s == Say(c, r)
           p == Pieces(c, r)
           m == c.response[r]
           k == s.response[r]
           d == Write(c, r, kind)
<1>1. /\ s \in ConnN /\ Len(s.response) <= MaxRequests
      /\ r \in DOMAIN s.response /\ DOMAIN s.response = DOMAIN c.response
      /\ k.said = m.said \o p /\ k.header = m.header
      /\ k.headerSent = m.headerSent /\ k.output = m.output
      /\ k.doubled = m.doubled /\ Told(s, r) = Told(c, r)
      /\ (Expects(m) => Expects(k))
  BY SayTells
<1>2. p \in Seq(Nat)
      /\ (c.response[r].chunked => p[1] \in Nat /\ p[2] \in Nat /\ p[3] \in Nat)
  BY PiecesWork
<1>3. CASE ~m.hasBody
  BY <1>3, Zenon DEF Write, Tells
<1>4. ASSUME m.hasBody, Adds(s, d, r, p)
      PROVE  Tells(c, d, r) /\ d.response[r].header
  <2> DEFINE n == d.response[r]
  <2> HIDE DEF d, s, p
  <2>1. Alike(k, n)
    BY <1>4, Zenon DEF Adds
  <2>2. n.said = k.said /\ n.header = m.header
    BY <1>1, <2>1 DEF Alike
  <2>3. Expects(m) => Expects(n)
    BY <1>1, <2>2, Zenon DEF Expects
  <2>4. ASSUME ~n.doubled  PROVE ~m.doubled /\ (Faithful(c, r) => Faithful(d, r))
    <3>1. ~m.doubled /\ (Fit(k) => Fit(n) /\ Told(d, r) = Told(s, r) \o p)
      BY <1>1, <1>4, <2>4, Zenon DEF Adds
    <3>2. ASSUME Faithful(c, r)  PROVE Faithful(d, r)
      <4>1. Fit(k) /\ Told(c, r) = m.said
        BY <1>1, <3>2 DEF Faithful, Fit
      <4>2. Told(d, r) = n.said
        BY <1>1, <2>2, <3>1, <4>1, Zenon
      <4>3. QED  BY <3>1, <4>1, <4>2, FaithfulFit
    <3>3. QED  BY <3>1, <3>2
  <2>5. QED  BY <2>2, <2>3, <2>4, Zenon DEF Tells
<1>5. CASE m.hasBody /\ m.chunked /\ kind = "buf"
  <2> DEFINE s1 == Send(s, r, Str(<<p[1]>>))
             s2 == Send(s1, r, Buf(<<p[2]>>))
             s3 == Send(s2, r, Str(<<p[3]>>))
  <2>1. d = s3
    BY <1>5 DEF Write
  <2>2. \A x \in Nat : /\ Str(<<x>>) \in DataN /\ Buf(<<x>>) \in DataN
                       /\ Str(<<x>>).kind = "str" /\ Buf(<<x>>).parts # <<>>
                       /\ Str(<<x>>).parts = <<x>> /\ Buf(<<x>>).parts = <<x>>
    BY DEF Str, Buf, DataN
  <2>3. p[1] \in Nat /\ p[2] \in Nat /\ p[3] \in Nat
        /\ p = (<<p[1]>> \o <<p[2]>>) \o <<p[3]>>
    <3>1. p[1] \in Nat /\ p[2] \in Nat /\ p[3] \in Nat
      BY <1>2, <1>5
    <3> DEFINE i == c.response[r].chunks + 1
               u == Piece(i, 0)
               v == Piece(i, 1)
               w == Piece(i, 2)
    <3>2. p = <<u, v, w>>
      BY <1>5 DEF Pieces
    <3> HIDE DEF u, v, w, p
    <3>3. p[1] = u /\ p[2] = v /\ p[3] = w
      BY <3>2
    <3>4. (<<u>> \o <<v>>) \o <<w>> = <<u, v, w>>
      BY <3>1, <3>3, OneByOne
    <3>5. QED  BY <3>1, <3>2, <3>3, <3>4, Zenon
  <2> HIDE DEF s, p, d
  <2>4. Wrote(s, s1, r) /\ Adds(s, s1, r, <<p[1]>>)
    <3>1. Adds(s, s1, r, Str(<<p[1]>>).parts)
      BY <1>1, <2>2, <2>3, SendTells
    <3>2. Wrote(s, s1, r)
      BY <1>1, <2>2, <2>3, SendWorks
    <3>3. QED  BY <2>2, <2>3, <3>1, <3>2, Zenon
  <2> HIDE DEF s1
  <2>5. s1 \in ConnN /\ Len(s1.response) <= MaxRequests /\ r \in DOMAIN s1.response
    BY <1>1, <2>4, Enough DEF Wrote
  <2>6. Wrote(s1, s2, r) /\ Adds(s1, s2, r, <<p[2]>>)
    <3>1. Adds(s1, s2, r, Buf(<<p[2]>>).parts)
      BY <2>5, <2>2, <2>3, SendTells
    <3>2. Wrote(s1, s2, r)
      BY <2>5, <2>2, <2>3, SendWorks
    <3>3. QED  BY <2>2, <2>3, <3>1, <3>2, Zenon
  <2> HIDE DEF s2
  <2>7. s2 \in ConnN /\ Len(s2.response) <= MaxRequests /\ r \in DOMAIN s2.response
    BY <2>5, <2>6, Enough DEF Wrote
  <2>8. Adds(s2, s3, r, <<p[3]>>)
    <3>1. Adds(s2, s3, r, Str(<<p[3]>>).parts)
      BY <2>7, <2>2, <2>3, SendTells
    <3>2. QED  BY <2>2, <2>3, <3>1, Zenon
  <2> HIDE DEF s3
  <2>9. <<p[1]>> \in Seq(Nat) /\ <<p[2]>> \in Seq(Nat) /\ <<p[3]>> \in Seq(Nat)
        /\ <<p[1]>> \o <<p[2]>> \in Seq(Nat)
    BY <2>3
  <2>10. Adds(s, s2, r, <<p[1]>> \o <<p[2]>>)
    BY <1>1, <2>4, <2>6, <2>9, AddsTwice
  <2>11. Adds(s, s3, r, (<<p[1]>> \o <<p[2]>>) \o <<p[3]>>)
    BY <1>1, <2>8, <2>9, <2>10, AddsTwice
  <2>12. Adds(s, d, r, p)
    BY <2>1, <2>3, <2>11, Zenon
  <2>13. QED  BY <1>4, <1>5, <2>12, Zenon DEF d
<1>6. CASE m.hasBody /\ ~(m.chunked /\ kind = "buf")
  <2> DEFINE data == [kind |-> kind, parts |-> p]
  <2>1. d = Send(s, r, data)
    BY <1>6 DEF Write
  <2>2. data \in DataN /\ data.parts = p
    BY <1>2 DEF DataN
  <2> HIDE DEF data, s, p, d
  <2>3. Adds(s, Send(s, r, data), r, data.parts)
    BY <1>1, <2>2, SendTells
  <2>4. Adds(s, d, r, p)
    BY <2>1, <2>2, <2>3, Zenon
  <2>5. QED  BY <1>4, <1>6, <2>4, Zenon DEF d
<1>7. QED  BY <1>3, <1>5, <1>6, Zenon

-----------------------------------------------------------------------------
(* Every response is told of as the application said it.                   *)
AllFaithful(c) ==
  \A q \in DOMAIN c.response :
    ~c.response[q].doubled /\ ~Expects(c.response[q]) => Faithful(c, q)

(* From c to d nothing is told of another response than r. *)
Aside(c, d, r) ==
  /\ DOMAIN d.response = DOMAIN c.response
  /\ \A q \in DOMAIN c.response :
       q # r => d.response[q] = c.response[q]
                /\ PartsOf(q, d.wire) = PartsOf(q, c.wire)

(* From c to d nothing is told at all. *)
Still(c, d) ==
  /\ d.wire = c.wire /\ DOMAIN d.response = DOMAIN c.response
  /\ \A q \in DOMAIN c.response :
       LET m == c.response[q]
           n == d.response[q]
       IN  /\ n.said = m.said /\ n.header = m.header
           /\ n.headerSent = m.headerSent /\ n.output = m.output
           /\ n.doubled = m.doubled

LEMMA AsideFaithful ==
  ASSUME NEW c, NEW d, NEW r, AllFaithful(c), Aside(c, d, r), Tells(c, d, r)
  PROVE  AllFaithful(d)
<1> SUFFICES ASSUME NEW q \in DOMAIN c.response,
                    ~d.response[q].doubled, ~Expects(d.response[q])
             PROVE  Faithful(d, q)
  BY Zenon DEF AllFaithful, Aside
<1>1. CASE q = r
  BY <1>1, Zenon DEF AllFaithful, Tells
<1>2. CASE q # r
  <2>1. d.response[q] = c.response[q] /\ PartsOf(q, d.wire) = PartsOf(q, c.wire)
    BY <1>2 DEF Aside
  <2>2. Told(d, q) = Told(c, q)
    BY <2>1, Zenon DEF Told, Sent
  <2>3. Faithful(c, q)
    BY <2>1, Zenon DEF AllFaithful
  <2>4. QED  BY <2>1, <2>2, <2>3, Zenon DEF Faithful
<1>3. QED  BY <1>1, <1>2

LEMMA AsideExpects ==
  ASSUME NEW c, NEW d, NEW r, AllFaithful(c), Aside(c, d, r), Expects(d.response[r])
  PROVE  AllFaithful(d)
<1> SUFFICES ASSUME NEW q \in DOMAIN c.response, q # r,
                    ~d.response[q].doubled, ~Expects(d.response[q])
             PROVE  Faithful(d, q)
  BY Zenon DEF AllFaithful, Aside
<1>1. d.response[q] = c.response[q] /\ PartsOf(q, d.wire) = PartsOf(q, c.wire)
  BY DEF Aside
<1>2. Told(d, q) = Told(c, q)
  BY <1>1, Zenon DEF Told, Sent
<1>3. Faithful(c, q)
  BY <1>1, Zenon DEF AllFaithful
<1>4. QED  BY <1>1, <1>2, <1>3, Zenon DEF Faithful

LEMMA StillFaithful ==
  ASSUME NEW c, NEW d, AllFaithful(c), Still(c, d)
  PROVE  AllFaithful(d)
<1> SUFFICES ASSUME NEW q \in DOMAIN c.response,
                    ~d.response[q].doubled, ~Expects(d.response[q])
             PROVE  Faithful(d, q)
  BY Zenon DEF AllFaithful, Still
<1> DEFINE m == c.response[q]
           n == d.response[q]
<1>1. /\ n.said = m.said /\ n.header = m.header
      /\ n.headerSent = m.headerSent /\ n.output = m.output
      /\ n.doubled = m.doubled /\ d.wire = c.wire
  BY Zenon DEF Still
<1>2. Faithful(c, q)
  BY <1>1, Zenon DEF AllFaithful, Expects
<1>3. Left(n) = Left(m)
  BY <1>1, Zenon DEF Left
<1>4. Told(d, q) = Told(c, q)
  BY <1>1, <1>3, Zenon DEF Told, Sent
<1>5. QED  BY <1>1, <1>2, <1>4, Zenon DEF Faithful

LEMMA StillTwice ==
  ASSUME NEW c, NEW d, NEW e, Still(c, d), Still(d, e)
  PROVE  Still(c, e)
BY DEF Still

LEMMA WroteAside ==
  ASSUME NEW c \in ConnN, NEW d, NEW r \in DOMAIN c.response, Wrote(c, d, r)
  PROVE  Aside(c, d, r)
<1>1. /\ c.wire \in Seq(Request \X DataN) /\ d.wire \in Seq(Request \X DataN)
      /\ DOMAIN d.response = DOMAIN c.response
      /\ \A q \in DOMAIN c.response : q # r => d.response[q] = c.response[q]
      /\ d.wire = c.wire \/ Longer(c.wire, d.wire, r)
  BY DEF Wrote, Same, ConnN
<1>2. ASSUME NEW q, q # r  PROVE PartsOf(q, d.wire) = PartsOf(q, c.wire)
  <2>1. CASE d.wire = c.wire
    BY <2>1
  <2>2. CASE Longer(c.wire, d.wire, r)
    <3> DEFINE v == c.wire
               w == d.wire
    <3> HIDE DEF v, w
    <3>1. v \in Wires /\ w \in Wires /\ Longer(v, w, r)
      BY <1>1, <2>2 DEF v, w, Wires
    <3>2. SameBut(r, v, w)
      BY <3>1, OthersOnWire
    <3>3. QED  BY <1>2, <3>2 DEF v, w, SameBut
  <2>3. QED  BY <1>1, <2>1, <2>2
<1>3. QED  BY <1>1, <1>2 DEF Aside

LEMMA FinishStill ==
  ASSUME NEW c \in ConnN, NEW r \in DOMAIN c.response
  PROVE  Still(c, Finish(c, r))
<1> DEFINE none == c.incomings = <<>>
           as == Append(c.answered, <<r, IF none THEN None ELSE Head(c.incomings)>>)
           is == IF none THEN c.incomings ELSE Tail(c.incomings)
           m == [c.response[r] EXCEPT !.hasSocket = FALSE, !.listening = FALSE]
           ms == [c.response EXCEPT ![r] = m]
           s == [c EXCEPT !.answered = as, !.incomings = is]
           b == s.broken \/ s.http # r
           z == [s EXCEPT !.http = None, !.response = ms, !.broken = b]
<1>0. c.response \in Seq(ResponseN) /\ c.response[r] \in ResponseN
  BY Responses DEF ConnN
<1>1. CASE ~c.response[r].listening
  BY <1>1 DEF Finish, Still
<1>2. CASE c.response[r].listening
  <2>1. Finish(c, r) = AssignNext(Detach(s, r), r)
    BY <1>2 DEF Finish
  <2>2. /\ ms[r] = m /\ DOMAIN ms = DOMAIN c.response
        /\ \A q \in DOMAIN c.response : q # r => ms[q] = c.response[q]
    BY <1>0
  <2>3. LET k == c.response[r]
        IN  /\ m.said = k.said /\ m.header = k.header
            /\ m.headerSent = k.headerSent /\ m.output = k.output
            /\ m.doubled = k.doubled
    BY <1>0 DEF ResponseN
  <2>4. /\ s.response = c.response /\ s.wire = c.wire
        /\ DOMAIN s = DOMAIN c
    BY DEF ConnN
  <2>5. Detach(s, r) = z
    BY <2>4, ZenonT(40) DEF Detach
  <2> HIDE DEF m
  <2>6. \A y : y.wire = c.wire /\ y.response = ms => Still(c, y)
    BY <2>2, <2>3 DEF Still
  <2> HIDE DEF s, ms, b
  <2>7. z.wire = c.wire /\ z.response = ms /\ DOMAIN z = DOMAIN c
    BY <2>4 DEF ConnN
  <2> HIDE DEF z
  <2>8. ASSUME NEW y, AssignNext(z, r) = y  PROVE y.wire = c.wire /\ y.response = ms
    <3>1. CASE y = z
      BY <2>7, <3>1
    <3>2. CASE y = [z EXCEPT !.writable = FALSE]
      BY <2>7, <3>2 DEF ConnN
    <3>3. CASE y = [z EXCEPT !.assigning = Head(z.outgoings), !.outgoings = Tail(@)]
      BY <2>7, <3>3 DEF ConnN
    <3>4. QED  BY <2>8, <3>1, <3>2, <3>3, Zenon DEF AssignNext
  <2>9. QED  BY <2>1, <2>5, <2>6, <2>8
<1>3. QED  BY <1>1, <1>2

LEMMA FlushFaithful ==
  ASSUME NEW c \in ConnN, Len(c.response) <= MaxRequests,
         NEW r \in DOMAIN c.response, AllFaithful(c)
  PROVE  AllFaithful(Flush(c, r))
<1> DEFINE m == c.response[r]
           out == m.output
           n == [m EXCEPT !.output = <<>>]
           w == c.wire \o Tagged(r, out)
           f == Put(c, w, r, n)
<1>1. r \in Request /\ m \in ResponseN /\ out \in Seq(DataN)
      /\ c.wire \in Seq(Request \X DataN)
  BY RespondsTo DEF ConnN, ResponseN
<1>2. w \in Seq(Request \X DataN) /\ Longer(c.wire, w, r)
  BY <1>1, LongerByOutput DEF Tagged
<1>3. PartsOf(r, w) = PartsOf(r, c.wire) \o Waiting(r, out)
  BY <1>1, WireMore
<1>4. /\ n \in ResponseN /\ n.output = <<>> /\ n.said = m.said
      /\ n.header = m.header /\ n.headerSent = m.headerSent
      /\ n.doubled = m.doubled /\ n.hasSocket = m.hasSocket
      /\ n.listening = m.listening
  <2>1. <<>> \in Seq(DataN)
    OBVIOUS
  <2>2. QED  BY <1>1, <2>1 DEF ResponseN
<1>5. [c EXCEPT !.wire = w, !.response[r].output = <<>>] = f
  BY DEF Put
<1>6. Flush(c, r) = IF out # <<>> /\ ~c.writable THEN c
                    ELSE IF m.finished THEN Finish(f, r) ELSE f
  BY <1>5 DEF Flush, Tagged
<1> HIDE DEF n, w, m
<1>7. Same(c, f, r) /\ f.response[r] = n /\ f.wire = w
  BY <1>2, <1>4, PutWorks DEF m
<1> HIDE DEF f
<1>8. f \in ConnN /\ r \in DOMAIN f.response
  BY <1>7, Enough
<1>9. Aside(c, f, r)
  <2>1. SameBut(r, c.wire, f.wire)
    <3> DEFINE v == c.wire
    <3>1. v \in Wires /\ w \in Wires /\ Longer(v, w, r)
      BY <1>1, <1>2 DEF Wires
    <3> HIDE DEF v
    <3>2. SameBut(r, v, w)
      BY <3>1, OthersOnWire
    <3>3. QED  BY <1>7, <3>2 DEF v
  <2>2. QED  BY <1>7, <2>1 DEF SameBut, Aside, Same
<1>10. Tells(c, f, r)
  <2>1. Sent(f, r) = Sent(c, r)
    <3>1. Waiting(r, <<>>) = <<>>
      BY WaitingNothing
    <3>2. Sent(c, r) \o <<>> = Sent(c, r)
      <4>1. Sent(c, r) \in Seq(Nat)
        BY SentTyped
      <4>2. QED  BY <4>1
    <3>3. Sent(f, r) = (PartsOf(r, c.wire) \o Waiting(r, out)) \o <<>>
      BY <1>3, <1>4, <1>7, <3>1, Zenon DEF Sent
    <3>4. QED  BY <3>2, <3>3, Zenon DEF Sent, m
  <2>2. Left(n) = Left(m)
    BY <1>4, Zenon DEF Left
  <2>3. Told(f, r) = Told(c, r)
    BY <1>7, <2>1, <2>2, Zenon DEF Told, m
  <2>4. Faithful(c, r) => Faithful(f, r)
    BY <1>4, <1>7, <2>3, Zenon DEF Faithful, m
  <2>5. Expects(m) => Expects(n)
    BY <1>4, Zenon DEF Expects
  <2>6. QED  BY <1>4, <1>7, <2>4, <2>5, Zenon DEF Tells, m
<1>11. AllFaithful(f)
  BY <1>9, <1>10, AsideFaithful
<1>12. AllFaithful(Finish(f, r))
  BY <1>8, <1>11, FinishStill, StillFaithful
<1>13. QED  BY <1>6, <1>11, <1>12, Zenon

LEMMA AssignFaithful ==
  ASSUME NEW c \in ConnN, Len(c.response) <= MaxRequests,
         c.assigning \in DOMAIN c.response, AllFaithful(c)
  PROVE  AllFaithful(AssignSocket(c))
<1> DEFINE r == c.assigning
           m == c.response[r]
           n == [m EXCEPT !.hasSocket = TRUE]
           ms == [c.response EXCEPT ![r] = n]
           x == c.broken \/ c.http # None
           b == [c EXCEPT !.assigning = None, !.http = r, !.response = ms, !.broken = x]
<1>1. m \in ResponseN /\ c.response \in Seq(ResponseN) /\ x \in BOOLEAN
  BY Responses DEF ConnN
<1>2. /\ n \in ResponseN /\ n.output = m.output /\ n.said = m.said
      /\ n.header = m.header /\ n.headerSent = m.headerSent
      /\ n.doubled = m.doubled
  BY <1>1 DEF ResponseN
<1>3. AssignSocket(c) = Flush(b, r)
  BY Zenon DEF AssignSocket
<1> HIDE DEF n, x
<1>4. /\ ms \in Seq(ResponseN) /\ Len(ms) = Len(c.response)
      /\ DOMAIN ms = DOMAIN c.response /\ ms[r] = n
      /\ \A q \in DOMAIN c.response : q # r => ms[q] = c.response[q]
  BY <1>1, <1>2
<1> HIDE DEF ms
<1>5. None \in 0..MaxRequests /\ r \in 0..MaxRequests
  BY ConstantsAssumption DEF None, ConnN
<1>6. b \in ConnN /\ b.response = ms /\ b.wire = c.wire
  <2> HIDE DEF r
  <2>1. QED  BY <1>1, <1>4, <1>5 DEF ConnN
<1> HIDE DEF b
<1>7. Still(c, b)
  BY <1>2, <1>4, <1>6 DEF Still
<1>8. AllFaithful(b)
  BY <1>7, StillFaithful
<1>9. r \in DOMAIN b.response /\ Len(b.response) <= MaxRequests
  BY <1>4, <1>6
<1>10. AllFaithful(Flush(b, r))
  <2> HIDE DEF r
  <2>1. QED  BY <1>6, <1>8, <1>9, FlushFaithful
<1>11. QED  BY <1>3, <1>10, Zenon

(* end() has ended response r: its last chunk is said, and has been sent. *)
LEMMA EndedFaithful ==
  ASSUME NEW c, AllFaithful(c), NEW s \in ConnN, Len(s.response) <= MaxRequests,
         NEW r \in DOMAIN s.response,
         Aside(c, s, r), NEW ender \in Seq(Nat),
         Expects(c.response[r]) => Expects(s.response[r]),
         ~s.response[r].doubled =>
           /\ ~c.response[r].doubled
           /\ Faithful(c, r) => Fit(s.response[r])
                            /\ Told(s, r) = s.response[r].said \o ender
  PROVE  LET said == s.response[r].said \o ender
             n == [s.response[r] EXCEPT !.finished = TRUE, !.said = said]
             e == Put(s, s.wire, r, n)
         IN  AllFaithful(e) /\ e \in ConnN /\ r \in DOMAIN e.response
<1> DEFINE m == s.response[r]
           said == m.said \o ender
           n == [m EXCEPT !.finished = TRUE, !.said = said]
           e == Put(s, s.wire, r, n)
<1>1. m \in ResponseN /\ said \in Seq(Nat) /\ s.wire \in Seq(Request \X DataN)
  <2>1. m \in ResponseN /\ s.wire \in Seq(Request \X DataN)
    BY Responses DEF ConnN
  <2>2. m.said \in Seq(Nat)
    BY <2>1 DEF ResponseN
  <2>3. QED  BY <2>1, <2>2
<1>2. m.said \o ender = said
  OBVIOUS
<1> HIDE DEF said
<1>3. /\ n \in ResponseN /\ n.output = m.output /\ n.said = said
      /\ n.header = m.header /\ n.headerSent = m.headerSent
      /\ n.doubled = m.doubled /\ n.hasSocket = m.hasSocket
      /\ n.listening = m.listening
  BY <1>1 DEF ResponseN
<1> HIDE DEF n, m
<1>4. Same(s, e, r) /\ e.response[r] = n /\ e.wire = s.wire
  BY <1>1, <1>3, PutWorks DEF m
<1> HIDE DEF e
<1>5. Aside(c, e, r)
  BY <1>4 DEF Aside, Same
<1>6. Expects(m) => Expects(n)
  BY <1>1, <1>2, <1>3, ExpectsStays
<1>7. Told(e, r) = Told(s, r) /\ (Fit(m) => Fit(n))
  <2>1. Left(n) = Left(m) /\ (Fit(m) => Fit(n))
    BY <1>3, Zenon DEF Left, Fit
  <2>2. QED  BY <1>3, <1>4, <2>1, Zenon DEF Told, Sent, m
<1>8. Tells(c, e, r)
  <2>1. Expects(c.response[r]) => Expects(e.response[r])
    BY <1>4, <1>6, Zenon DEF m
  <2>2. ASSUME ~n.doubled  PROVE ~c.response[r].doubled /\ (Faithful(c, r) => Faithful(e, r))
    <3>1. /\ ~c.response[r].doubled
          /\ Faithful(c, r) => Fit(m) /\ Told(s, r) = m.said \o ender
      BY <1>3, <2>2, Zenon DEF m
    <3>2. ASSUME Faithful(c, r)  PROVE Faithful(e, r)
      <4>1. Fit(e.response[r]) /\ Told(e, r) = e.response[r].said
        BY <1>2, <1>3, <1>4, <1>7, <3>1, <3>2, Zenon
      <4>2. QED  BY <4>1, FaithfulFit
    <3>3. QED  BY <3>1, <3>2
  <2>3. QED  BY <1>4, <2>1, <2>2, Zenon DEF Tells
<1>9. AllFaithful(e)
  BY <1>5, <1>8, AsideFaithful
<1>10. e \in ConnN /\ r \in DOMAIN e.response
  BY <1>4 DEF Same
<1>11. QED  BY <1>9, <1>10, Zenon DEF e, n, m, said

LEMMA EndFaithful ==
  ASSUME NEW c \in ConnN, Len(c.response) <= MaxRequests,
         NEW r \in DOMAIN c.response, c.response[r].header,
         NEW kind \in {"str", "buf", "none"}, AllFaithful(c)
  PROVE  AllFaithful(End(c, r, kind))
<1> DEFINE m == c.response[r]
           k == IF m.hasBody THEN kind ELSE "none"
           ender == IF m.chunked THEN <<Last>> ELSE <<>>
           hot == ~m.headerSent /\ k = "str" /\ m.output = <<>> /\ Direct(c, r)
           one == <<r, Str(<<Header>> \o Pieces(c, r) \o ender)>>
           sHot == [Say(c, r) EXCEPT !.wire = Append(@, one),
                                     !.response[r].headerSent = TRUE]
           before == IF k = "none" THEN c ELSE Write(c, r, k)
           sCold == Send(before, r, Str(ender))
           Works(s) ==
             /\ s \in ConnN /\ Len(s.response) <= MaxRequests
             /\ r \in DOMAIN s.response /\ Aside(c, s, r)
             /\ Expects(m) => Expects(s.response[r])
             /\ ~s.response[r].doubled =>
                  /\ ~m.doubled
                  /\ Faithful(c, r) => Fit(s.response[r])
                                   /\ Told(s, r) = s.response[r].said \o ender
<1>0. r \in Request /\ m \in ResponseN
  BY RespondsTo
<1>1. ender \in Seq(Nat)
  <2>1. Last \in Nat
    BY ConstantsAssumption DEF Last
  <2>2. QED  BY <2>1
<1>2. hot => Works(sHot)
  <2> DEFINE t == Say(c, r)
             x == t.response[r]
             y == [x EXCEPT !.headerSent = TRUE]
             w == Append(t.wire, one)
             p == Pieces(c, r)
             data == Str(<<Header>> \o p \o ender)
  <2> SUFFICES ASSUME hot PROVE Works(sHot)
    OBVIOUS
  <2>1. /\ t \in ConnN /\ Len(t.response) <= MaxRequests
        /\ DOMAIN t.response = DOMAIN c.response
        /\ x.said = m.said \o p /\ x.header = m.header
        /\ x.headerSent = m.headerSent /\ x.output = m.output
        /\ x.doubled = m.doubled /\ t.wire = c.wire /\ (Expects(m) => Expects(x))
    BY SayTells
  <2>2. Wrote(c, t, r)
    BY SayWorks
  <2>3. p \in Seq(Nat)
    BY PiecesWork
  <2>4. data \in DataN /\ data.parts = (<<Header>> \o p) \o ender
        /\ <<Header>> \in Seq(Nat) /\ <<Header>> \o p \in Seq(Nat)
    <3> HIDE DEF p, ender
    <3>1. <<Header>> \in Seq(Nat)
      BY DEF Header
    <3>2. <<Header>> \o p \in Seq(Nat)
      BY <2>3, <3>1
    <3>3. <<Header>> \o p \o ender \in Seq(Nat)
      BY <1>1, <3>2
    <3>4. QED  BY <3>1, <3>2, <3>3 DEF Str, DataN
  <2> HIDE DEF t
  <2>5. x \in ResponseN /\ t.wire \in Seq(Request \X DataN)
    BY <2>1, Responses, WireTypes
  <2>6. w = Append(t.wire, <<r, data>>)
    OBVIOUS
  <2> HIDE DEF data
  <2>7. w \in Seq(Request \X DataN) /\ Longer(t.wire, w, r)
    BY <1>0, <2>4, <2>5, <2>6, LongerByOne
  <2>8. PartsOf(r, w) = PartsOf(r, c.wire) \o data.parts
    BY <1>0, <2>1, <2>4, <2>5, <2>6, WireOne
  <2>9. sHot = [t EXCEPT !.wire = w, !.response[r].headerSent = TRUE]
    BY DEF t
  <2> HIDE DEF sHot, w, x
  <2>10. y \in ResponseN /\ y.headerSent /\ y.hasSocket = x.hasSocket
         /\ y.listening = x.listening /\ y.output = x.output /\ y.said = x.said
         /\ y.header = x.header /\ y.doubled = x.doubled
    BY <2>5 DEF ResponseN
  <2> DEFINE d == Put(t, w, r, y)
  <2>11. sHot = d
    BY <2>5, <2>9 DEF Put, ConnN, x
  <2> HIDE DEF y
  <2>12. Same(t, d, r) /\ d.response[r] = y /\ d.wire = w
    BY <2>1, <2>7, <2>10, PutWorks DEF x
  <2> HIDE DEF d
  <2>13. d \in ConnN /\ Len(d.response) <= MaxRequests /\ DOMAIN d.response = DOMAIN c.response
    BY <2>1, <2>12, Enough
  <2>14. Aside(c, d, r)
    <3>1. SameBut(r, t.wire, w)
      <4> DEFINE v == t.wire
      <4>1. v \in Wires /\ w \in Wires /\ Longer(v, w, r)
        BY <2>5, <2>7 DEF Wires
      <4> HIDE DEF v
      <4>2. SameBut(r, v, w)
        BY <4>1, OthersOnWire
      <4>3. QED  BY <4>2 DEF v
    <3>2. \A q \in DOMAIN c.response : q # r => d.response[q] = c.response[q]
      BY <2>1, <2>2, <2>12 DEF Wrote, Same
    <3>3. QED  BY <2>1, <2>12, <2>13, <3>1, <3>2 DEF SameBut, Aside
  <2>15. Expects(m) => Expects(y)
    BY <2>1, <2>10, Zenon DEF Expects
  <2>16. Faithful(c, r) => Fit(y) /\ Told(d, r) = y.said \o ender
    <3> SUFFICES ASSUME Faithful(c, r)  PROVE Fit(y) /\ Told(d, r) = y.said \o ender
      OBVIOUS
    <3>1. Fit(y)
      BY <2>1, <2>10 DEF Fit
    <3> DEFINE ps == PartsOf(r, c.wire)
    <3>2. ps \in Seq(Nat)
      BY SentTyped
    <3>3. m.output = <<>> /\ y.output = <<>> /\ Left(y) = <<>> /\ Left(m) = <<Header>>
      BY <2>1, <2>10 DEF Left
    <3>4. Waiting(r, <<>>) = <<>>
      BY WaitingNothing
    <3> HIDE DEF m, ender, p, hot, ps
    <3>5. ps \o <<>> = ps
      BY <3>2
    <3>6. Told(c, r) = ps \o <<Header>>
      BY <3>3, <3>4, <3>5, Zenon DEF Told, Sent, m, ps
    <3>7. m.said = ps \o <<Header>>
      BY <3>6, Zenon DEF Faithful, m
    <3>8. y.said \o ender = ((ps \o <<Header>>) \o p) \o ender
      BY <2>1, <2>10, <3>7, Zenon
    <3>9. Told(d, r) = ((ps \o data.parts) \o <<>>) \o <<>>
      BY <2>8, <2>12, <3>3, <3>4, Zenon DEF Told, Sent, ps
    <3>10. ps \o ((<<Header>> \o p) \o ender) = ((ps \o <<Header>>) \o p) \o ender
           /\ ps \o ((<<Header>> \o p) \o ender) \in Seq(Nat)
      <4> DEFINE h == <<Header>>
      <4>1. h \in Seq(Nat)
        BY <2>4
      <4> HIDE DEF h
      <4>2. h \o p \in Seq(Nat) /\ (h \o p) \o ender \in Seq(Nat)
        BY <1>1, <2>3, <4>1
      <4>3. (ps \o h) \o p = ps \o (h \o p)
        BY <2>3, <3>2, <4>1, Assoc
      <4>4. (ps \o (h \o p)) \o ender = ps \o ((h \o p) \o ender)
        BY <1>1, <3>2, <4>2, Assoc
      <4>5. ps \o ((h \o p) \o ender) \in Seq(Nat)
        BY <3>2, <4>2
      <4>6. QED  BY <4>3, <4>4, <4>5, Zenon DEF h
    <3>11. \A u \in Seq(Nat) : (u \o <<>>) \o <<>> = u
      OBVIOUS
    <3>12. Told(d, r) = y.said \o ender
      BY <2>4, <3>8, <3>9, <3>10, <3>11, Zenon
    <3>13. QED  BY <3>1, <3>12
  <2>17. Works(d)
    BY <2>1, <2>10, <2>12, <2>13, <2>14, <2>15, <2>16, Zenon
  <2> HIDE DEF Works
  <2>18. QED  BY <2>11, <2>17
<1>3. Works(sCold)
  <2> DEFINE b == before.response[r]
             n == sCold.response[r]
  <2>1. Wrote(c, before, r) /\ Tells(c, before, r) /\ b.header
    <3>1. CASE k = "none"
      <4>1. before = c
        BY <3>1
      <4> HIDE DEF before
      <4>2. Wrote(c, c, r) /\ Tells(c, c, r)
        BY WroteNothing DEF Tells
      <4>3. QED  BY <4>1, <4>2
    <3>2. CASE k # "none"
      <4>1. k \in {"str", "buf"} /\ before = Write(c, r, k)
        BY <3>2
      <4> HIDE DEF before, k
      <4>2. QED  BY <4>1, WriteWorks, WriteTells
    <3>3. QED  BY <3>1, <3>2
  <2> HIDE DEF before
  <2>2. before \in ConnN /\ Len(before.response) <= MaxRequests
        /\ r \in DOMAIN before.response
    BY <2>1, Enough DEF Wrote
  <2>3. Str(ender) \in DataN /\ Str(ender).kind = "str" /\ Str(ender).parts = ender
    BY <1>1 DEF Str, DataN
  <2> HIDE DEF ender, m
  <2>4. Wrote(before, sCold, r)
    BY <2>2, <2>3, SendWorks
  <2>5. Adds(before, sCold, r, ender)
    <3>1. Adds(before, sCold, r, Str(ender).parts)
      BY <2>2, <2>3, SendTells
    <3>2. QED  BY <2>3, <3>1, Zenon
  <2> HIDE DEF sCold
  <2>6. Wrote(c, sCold, r)
    BY <2>1, <2>4, WroteTwice
  <2>7. Aside(c, sCold, r)
    BY <2>6, WroteAside
  <2>8. sCold \in ConnN /\ Len(sCold.response) <= MaxRequests
        /\ r \in DOMAIN sCold.response
    BY <2>6, Enough DEF Wrote
  <2>9. n.said = b.said /\ (Expects(m) => Expects(n))
    <3>1. n.said = b.said
      BY <2>5, Zenon DEF Adds, Alike
    <3>2. Expects(m) => Expects(b)
      BY <2>1, Zenon DEF Tells, m
    <3>3. QED  BY <3>1, <3>2, Zenon DEF Expects
  <2>10. ASSUME ~n.doubled
         PROVE  ~m.doubled /\ (Faithful(c, r) => Fit(n) /\ Told(sCold, r) = n.said \o ender)
    <3>1. ~b.doubled /\ (Fit(b) => Fit(n) /\ Told(sCold, r) = Told(before, r) \o ender)
      BY <2>5, <2>10, Zenon DEF Adds
    <3>2. ~m.doubled /\ (Faithful(c, r) => Faithful(before, r))
      BY <2>1, <3>1, Zenon DEF Tells, m
    <3>3. ASSUME Faithful(c, r)  PROVE Fit(n) /\ Told(sCold, r) = n.said \o ender
      <4>1. Faithful(before, r)
        BY <3>2, <3>3
      <4>2. Fit(b) /\ Told(before, r) = b.said
        BY <2>1, <4>1, FaithfulFit DEF Faithful
      <4>3. QED  BY <2>9, <3>1, <4>2, Zenon
    <3>4. QED  BY <3>2, <3>3
  <2>11. QED  BY <2>7, <2>8, <2>9, <2>10, Zenon
<1> DEFINE s == IF hot THEN sHot ELSE sCold
<1>4. Works(s)
  <2> HIDE DEF Works, sHot, sCold, hot
  <2>1. QED  BY <1>2, <1>3
<1>5. End(c, r, kind) = LET f == [s EXCEPT !.response[r].finished = TRUE,
                                           !.response[r].said = @ \o ender]
                        IN  IF f.response[r].output = <<>> /\ f.http = r
                            THEN Finish(f, r) ELSE f
  BY DEF End
<1> HIDE DEF s, ender
<1> DEFINE said == s.response[r].said \o ender
           n == [s.response[r] EXCEPT !.finished = TRUE, !.said = said]
           e == Put(s, s.wire, r, n)
<1>6. [s EXCEPT !.response[r].finished = TRUE, !.response[r].said = @ \o ender] = e
  <2>1. s \in ConnN /\ r \in DOMAIN s.response /\ s.response[r] \in ResponseN
    BY <1>4, Responses
  <2>2. QED  BY <2>1 DEF Put, ConnN, ResponseN
<1>7. AllFaithful(e) /\ e \in ConnN /\ r \in DOMAIN e.response
  BY <1>1, <1>4, EndedFaithful
<1> HIDE DEF e
<1>8. AllFaithful(Finish(e, r))
  BY <1>7, FinishStill, StillFaithful
<1>9. End(c, r, kind) = IF e.response[r].output = <<>> /\ e.http = r
                        THEN Finish(e, r) ELSE e
  BY <1>5, <1>6, Zenon
<1>10. QED  BY <1>7, <1>8, <1>9, Zenon

LEMMA QueueFaithful ==
  ASSUME NEW c, Inv(c), AllFaithful(c), NEW m \in ResponseN,
         ~m.header, ~m.headerSent, m.output = <<>>, m.said = <<>>
  PROVE  LET r == Len(c.response) + 1
         IN  AllFaithful(Queue([c EXCEPT !.incomings = Append(@, r),
                                     !.response = Append(@, m)], r))
<1> DEFINE r == Len(c.response) + 1
           is == Append(c.incomings, r)
           ms == Append(c.response, m)
           a == [c EXCEPT !.incomings = is, !.response = ms]
           d == Queue(a, r)
           n == [m EXCEPT !.hasSocket = TRUE]
           ns == [ms EXCEPT ![r] = n]
<1>1. /\ c \in ConnN /\ c.response \in Seq(ResponseN)
      /\ c.wire \in Seq(Request \X DataN)
      /\ \A i \in DOMAIN c.wire : c.wire[i][1] \in DOMAIN c.response
  <2>1. c \in ConnN
    BY DEF Inv
  <2>2. QED  BY <2>1 DEF Inv, WireRight, ConnN
<1>2. /\ ms \in Seq(ResponseN) /\ ms[r] = m /\ r \in DOMAIN ms
      /\ r \notin DOMAIN c.response
      /\ \A q \in DOMAIN ms : q # r => q \in DOMAIN c.response /\ ms[q] = c.response[q]
  BY <1>1
<1>3. /\ n.said = m.said /\ n.header = m.header /\ n.headerSent = m.headerSent
      /\ n.output = m.output /\ n.doubled = m.doubled
  BY DEF ResponseN
<1> HIDE DEF n, ms, is, r
<1>4. a.wire = c.wire /\ a.response = ms /\ DOMAIN a = DOMAIN c
  BY <1>1 DEF ConnN
<1>5. AllFaithful(a)
  <2> SUFFICES ASSUME NEW q \in DOMAIN ms,
                      ~ms[q].doubled, ~Expects(ms[q])
               PROVE  Faithful(a, q)
    BY <1>4, Zenon DEF AllFaithful
  <2>1. CASE q # r
    <3>1. q \in DOMAIN c.response /\ ms[q] = c.response[q]
      BY <1>2, <2>1
    <3>2. Faithful(c, q)
      BY <3>1, Zenon DEF AllFaithful
    <3>3. QED  BY <1>4, <3>1, <3>2, Zenon DEF Faithful, Told, Sent
  <2>2. CASE q = r
    <3>1. PartsOf(r, c.wire) = <<>>
      <4>1. c.wire \in Seq(Entry) /\ \A i \in DOMAIN c.wire : c.wire[i][1] # r
        BY <1>1, <1>2 DEF Entry
      <4>2. QED  BY <4>1, PartsOfNone
    <3>2. Waiting(r, <<>>) = <<>> /\ <<>> \o <<>> = <<>>
      BY WaitingNothing
    <3>3. Left(m) = <<>>
      BY DEF Left
    <3>4. Sent(a, r) = <<>>
      BY <1>2, <1>4, <3>1, <3>2, Zenon DEF Sent
    <3>5. Told(a, r) = <<>>
      BY <1>2, <1>4, <3>2, <3>3, <3>4, Zenon DEF Told
    <3>6. QED  BY <1>2, <1>4, <2>2, <3>5, Zenon DEF Faithful
  <2>3. QED  BY <2>1, <2>2
<1> HIDE DEF a
<1>6. Still(a, d)
  <2>1. CASE a.http # None
    <3>1. d = [a EXCEPT !.outgoings = Append(@, r)]
      BY <2>1 DEF Queue
    <3>2. d.wire = a.wire /\ d.response = a.response
      BY <1>1, <1>4, <3>1 DEF ConnN
    <3>3. QED  BY <3>2 DEF Still
  <2>2. CASE a.http = None
    <3>1. d = [a EXCEPT !.http = r, !.response = ns]
      BY <1>2, <1>4, <2>2 DEF Queue, n
    <3>2. /\ DOMAIN ns = DOMAIN ms /\ ns[r] = n
          /\ \A q \in DOMAIN ms : q # r => ns[q] = ms[q]
      BY <1>2
    <3> HIDE DEF ns
    <3>3. d.wire = a.wire /\ d.response = ns
      BY <1>1, <1>4, <3>1 DEF ConnN
    <3> HIDE DEF d
    <3>4. QED  BY <1>2, <1>3, <1>4, <3>2, <3>3 DEF Still
  <2>3. QED  BY <2>1, <2>2
<1> HIDE DEF d
<1>7. AllFaithful(d)
  BY <1>5, <1>6, StillFaithful
<1>8. QED  BY <1>7, Zenon DEF d, a, is, ms, r

LEMMA ParserFaithful ==
  ASSUME Inv(conn), AllFaithful(conn), ParserOnIncoming
  PROVE  AllFaithful(conn')
<1> DEFINE r == Len(conn.response) + 1
           Q(request) == Queue([conn EXCEPT
                                  !.incomings = Append(@, r),
                                  !.response = Append(@, NewResponse(request))], r)
<1>1. PICK request \in Requests :
        conn' = IF request.expect
                THEN WriteRaw([Q(request) EXCEPT !.response[r].said = <<Interim>>],
                              r, Str(<<Interim>>))
                ELSE Q(request)
  BY DEF ParserOnIncoming
<1> DEFINE m == NewResponse(request)
           d == Q(request)
<1>2. /\ m \in ResponseN /\ m.hasSocket = FALSE /\ m.listening /\ ~m.finished
      /\ ~m.header /\ ~m.headerSent /\ m.output = <<>> /\ m.said = <<>>
  <2>1. request.keep \in BOOLEAN /\ request.body \in BOOLEAN
    BY ConstantsAssumption
  <2>2. <<>> \in Seq(DataN) /\ <<>> \in Seq(Nat)
    OBVIOUS
  <2>3. Cleared \in ResponseN
    BY <2>2 DEF Cleared, ResponseN
  <2>4. m = [Cleared EXCEPT !.listening = TRUE, !.keepAlive = request.keep,
                            !.hasBody = request.body]
    BY DEF NewResponse
  <2>5. /\ Cleared.hasSocket = FALSE /\ ~Cleared.finished /\ ~Cleared.headerSent
        /\ Cleared.output = <<>> /\ Cleared.said = <<>> /\ ~Cleared.header
    BY DEF Cleared
  <2> HIDE DEF m
  <2>6. m \in ResponseN
    BY <2>1, <2>3, <2>4, Zenon DEF ResponseN
  <2>7. QED  BY <2>3, <2>4, <2>5, <2>6 DEF ResponseN
<1>3. conn.assigning = None /\ Len(conn.response) < MaxRequests
  BY DEF ParserOnIncoming, Idle, Ready
<1> HIDE DEF m
<1>4. Inv(d) /\ r \in DOMAIN d.response /\ ~d.response[r].finished
  BY <1>2, <1>3, QueueWorks, Zenon DEF m
<1>5. AllFaithful(d)
  BY <1>2, QueueFaithful, Zenon DEF m
<1> HIDE DEF d, Q, r
<1>6. CASE ~request.expect
  BY <1>1, <1>5, <1>6 DEF d
<1>7. CASE request.expect
  <2> DEFINE said == <<Interim>>
             x == d.response[r]
             n == [x EXCEPT !.said = said]
             e == Put(d, d.wire, r, n)
             data == Str(<<Interim>>)
             f == WriteRaw(e, r, data)
  <2>0. d \in ConnN /\ x \in ResponseN /\ Len(d.response) <= MaxRequests
        /\ said \in Seq(Nat)
    BY <1>4, Responses DEF Inv, Owned, Interim
  <2>1. [d EXCEPT !.response[r].said = <<Interim>>] = e
    BY <2>0 DEF Put, ConnN
  <2>2. conn' = f
    BY <1>1, <1>7, <2>1 DEF d
  <2>3. data \in DataN /\ data.parts # <<>>
    BY DEF Str, DataN, Interim
  <2>4. said = <<Interim>>
    OBVIOUS
  <2> HIDE DEF said, x, data
  <2>5. /\ n \in ResponseN /\ n.hasSocket = x.hasSocket
        /\ n.listening = x.listening /\ n.finished = x.finished
        /\ n.headerSent = x.headerSent /\ n.output = x.output /\ n.said = said
    BY <2>0 DEF ResponseN
  <2> HIDE DEF n
  <2>6. Wrote(d, e, r)
    BY <1>4, <2>0, <2>5, ChangeWrote DEF x
  <2>7. e.response[r] = n
    <3>1. d.wire \in Seq(Request \X DataN)
      BY <2>0 DEF ConnN
    <3>2. QED  BY <1>4, <2>0, <2>5, <3>1, PutWorks
  <2> HIDE DEF e
  <2>8. e \in ConnN /\ Len(e.response) <= MaxRequests /\ r \in DOMAIN e.response
    BY <1>4, <2>0, <2>6, Enough DEF Wrote
  <2>9. /\ Same(e, f, r)
        /\ f.response[r].finished = e.response[r].finished
        /\ f.response[r].headerSent = e.response[r].headerSent
        /\ IF Direct(e, r) THEN f.response[r].output = <<>> /\ Longer(e.wire, f.wire, r)
           ELSE f.response[r].output # <<>> /\ f.wire = e.wire
    BY <2>3, <2>8, WriteRawWorks
  <2>10. Alike(n, f.response[r])
    BY <2>3, <2>7, <2>8, WriteRawTells
  <2> HIDE DEF f
  <2>11. Wrote(e, f, r)
    BY <2>9 DEF Wrote, Holds
  <2>12. Wrote(d, f, r)
    BY <1>4, <2>0, <2>6, <2>11, WroteTwice
  <2>13. Aside(d, f, r)
    BY <1>4, <2>0, <2>12, WroteAside
  <2>14. Expects(f.response[r])
    <3>1. f.response[r].said = <<Interim>>
      BY <2>4, <2>5, <2>10 DEF Alike
    <3>2. Head(<<Interim>> \o <<Header>>) = Interim
      BY DEF Interim, Header
    <3>3. QED  BY <3>1, <3>2, Zenon DEF Expects
  <2>15. AllFaithful(f)
    BY <1>5, <2>13, <2>14, AsideExpects
  <2>16. QED  BY <2>2, <2>15
<1>8. QED  BY <1>6, <1>7

LEMMA AppWritesFaithful ==
  ASSUME Inv(conn), AllFaithful(conn), AppWrites
  PROVE  AllFaithful(conn')
<1>1. PICK r \in DOMAIN conn.response, kind \in Kinds, head \in Heads :
        conn' = Write(WriteHead(conn, r, head), r, kind)
  BY DEF AppWrites
<1>2. conn \in ConnN /\ Len(conn.response) <= MaxRequests
  BY DEF Inv, Owned
<1> DEFINE c == conn
           d == WriteHead(c, r, head)
           e == Write(d, r, kind)
<1>3. kind \in {"str", "buf"} /\ conn' = e
  BY <1>1, ConstantsAssumption
<1> HIDE DEF c
<1>4. Wrote(c, d, r) /\ Tells(c, d, r) /\ d.response[r].header
  BY <1>2, WriteHeadWorks, WriteHeadTells DEF c
<1> HIDE DEF d
<1>5. d \in ConnN /\ Len(d.response) <= MaxRequests /\ r \in DOMAIN d.response
  BY <1>2, <1>4, Enough DEF Wrote, c
<1>6. Wrote(d, e, r) /\ Tells(d, e, r)
  BY <1>3, <1>4, <1>5, WriteWorks, WriteTells
<1> HIDE DEF e
<1>7. Wrote(c, e, r) /\ Tells(c, e, r)
  BY <1>2, <1>4, <1>6, WroteTwice, TellsTwice DEF c
<1>8. Aside(c, e, r)
  BY <1>2, <1>7, WroteAside DEF c
<1>9. AllFaithful(e)
  BY <1>7, <1>8, AsideFaithful DEF c
<1>10. QED  BY <1>3, <1>9

LEMMA AppEndsFaithful ==
  ASSUME Inv(conn), AllFaithful(conn), AppEnds
  PROVE  AllFaithful(conn')
<1>1. PICK r \in DOMAIN conn.response, kind \in Kinds \cup {"none"}, head \in Heads :
        conn' = End(WriteHead(conn, r, head), r, kind)
  BY DEF AppEnds
<1>2. conn \in ConnN /\ Len(conn.response) <= MaxRequests
  BY DEF Inv, Owned
<1> DEFINE c == conn
           d == WriteHead(c, r, head)
<1>3. kind \in {"str", "buf", "none"} /\ conn' = End(d, r, kind)
  BY <1>1, ConstantsAssumption
<1> HIDE DEF c
<1>4. Wrote(c, d, r) /\ Tells(c, d, r) /\ d.response[r].header
  BY <1>2, WriteHeadWorks, WriteHeadTells DEF c
<1> HIDE DEF d
<1>5. d \in ConnN /\ Len(d.response) <= MaxRequests /\ r \in DOMAIN d.response
  BY <1>2, <1>4, Enough DEF Wrote, c
<1>6. Aside(c, d, r)
  BY <1>2, <1>4, WroteAside DEF c
<1>7. AllFaithful(d)
  BY <1>4, <1>6, AsideFaithful DEF c
<1>8. AllFaithful(End(d, r, kind))
  BY <1>3, <1>4, <1>5, <1>7, EndFaithful
<1>9. QED  BY <1>3, <1>8

(* The actions of the socket write nothing. *)
LEMMA SocketFaithful ==
  ASSUME Inv(conn), AllFaithful(conn),
         \/ SocketOnEnd \/ AbortIncoming \/ AbortIncomingEnds
         \/ SocketDestroyed \/ SocketOnClose
  PROVE  AllFaithful(conn')
<1>0. conn \in ConnN /\ conn.response \in Seq(ResponseN)
  BY DEF Inv, ConnN
<1>1. ASSUME conn'.wire = conn.wire, conn'.response = conn.response
      PROVE  Still(conn, conn')
  BY <1>1 DEF Still
<1>2. CASE SocketOnEnd
  <2>1. conn'.wire = conn.wire /\ conn'.response = conn.response
    BY <1>0, <1>2 DEF SocketOnEnd, ConnN
  <2>2. QED  BY <1>1, <2>1, StillFaithful
<1>3. CASE AbortIncoming
  <2>1. conn'.wire = conn.wire /\ conn'.response = conn.response
    BY <1>0, <1>3 DEF AbortIncoming, ConnN
  <2>2. QED  BY <1>1, <2>1, StillFaithful
<1>4. CASE SocketDestroyed
  <2>1. conn'.wire = conn.wire /\ conn'.response = conn.response
    BY <1>0, <1>4 DEF SocketDestroyed, ConnN
  <2>2. QED  BY <1>1, <2>1, StillFaithful
<1>5. CASE SocketOnClose
  <2>1. conn'.wire = conn.wire /\ conn'.response = conn.response
    BY <1>0, <1>5 DEF SocketOnClose, ConnN
  <2>2. QED  BY <1>1, <2>1, StillFaithful
<1>6. CASE AbortIncomingEnds /\ conn.aborting = "onEnd"
  <2>1. conn'.wire = conn.wire /\ conn'.response = conn.response
    BY <1>0, <1>6 DEF AbortIncomingEnds, ConnN
  <2>2. QED  BY <1>1, <2>1, StillFaithful
<1>7. CASE AbortIncomingEnds /\ conn.aborting # "onEnd"
  <2> DEFINE c == conn
             ms == [r \in DOMAIN c.response |->
                      IF r = c.http
                      THEN [c.response[r] EXCEPT !.listening = FALSE]
                      ELSE c.response[r]]
             d == [c EXCEPT !.aborting = "no", !.response = ms]
  <2>1. conn' = d
    BY <1>7 DEF AbortIncomingEnds
  <2>2. DOMAIN ms = DOMAIN c.response
    OBVIOUS
  <2>3. ASSUME NEW q \in DOMAIN c.response
        PROVE  LET m == c.response[q]
                   n == ms[q]
               IN  /\ n.said = m.said /\ n.header = m.header
                   /\ n.headerSent = m.headerSent /\ n.output = m.output
                   /\ n.doubled = m.doubled
    <3>1. c.response[q] \in ResponseN
      BY <1>0
    <3>2. QED  BY <3>1 DEF ResponseN
  <2> HIDE DEF ms
  <2>4. d.wire = c.wire /\ d.response = ms
    BY <1>0 DEF ConnN
  <2> HIDE DEF d
  <2>5. Still(c, d)
    BY <2>2, <2>3, <2>4, Zenon DEF Still
  <2>6. QED  BY <2>1, <2>5, StillFaithful
<1>8. QED  BY <1>2, <1>3, <1>4, <1>5, <1>6, <1>7

LEMMA NextFaithful == Inv(conn) /\ AllFaithful(conn) /\ [Next]_vars => AllFaithful(conn')
<1> SUFFICES ASSUME Inv(conn), AllFaithful(conn), [Next]_vars  PROVE AllFaithful(conn')
  OBVIOUS
<1>1. CASE ParserOnIncoming
  BY <1>1, ParserFaithful
<1>2. CASE AppWrites
  BY <1>2, AppWritesFaithful
<1>3. CASE AppEnds
  BY <1>3, AppEndsFaithful
<1>4. CASE DoAssignSocket
  <2>1. conn \in ConnN /\ Len(conn.response) <= MaxRequests
        /\ conn.assigning \in DOMAIN conn.response
    BY <1>4 DEF DoAssignSocket, Ready, Inv, Owned
  <2>2. AllFaithful(AssignSocket(conn))
    BY <2>1, AssignFaithful
  <2>3. QED  BY <1>4, <2>2 DEF DoAssignSocket
<1>5. CASE \/ SocketOnEnd \/ AbortIncoming \/ AbortIncomingEnds
           \/ SocketDestroyed \/ SocketOnClose
  BY <1>5, SocketFaithful
<1>6. CASE UNCHANGED vars
  BY <1>6 DEF vars
<1>7. QED  BY <1>1, <1>2, <1>3, <1>4, <1>5, <1>6 DEF Next

FaithfulInv == AllFaithful(conn)

(* Every response reaches the peer as the application said it, for every   *)
(* number of requests and chunks, every framing and every order in which   *)
(* the responses are written, ended and handed the socket: what is on the  *)
(* wire, then what waits in output_, then a header that is still to go     *)
(* with the first data (send(), writeRaw(), end(), flush() and             *)
(* assignSocket() of detail/http/outgoing_message.h) are the parts in the  *)
(* order in which they were said, none lost, doubled or moved.  Left out   *)
(* are the responses for which buffer() has kept a string twice (its line  *)
(* 485) and those to Expect: 100-continue.                                 *)
THEOREM SaidIsSent == Spec => []AsSaidUnlessDoubled
<1>1. Init => FaithfulInv
  <2> SUFFICES ASSUME Init  PROVE AllFaithful(conn)
    BY DEF FaithfulInv
  <2>1. conn.response = <<>> /\ DOMAIN <<>> = {}
    BY DEF Init
  <2>2. QED  BY <2>1 DEF AllFaithful
<1>2. ConnInv /\ FaithfulInv /\ [Next]_vars => FaithfulInv'
  BY NextFaithful DEF ConnInv, FaithfulInv
<1>3. FaithfulInv => AsSaidUnlessDoubled
  <2> SUFFICES ASSUME AllFaithful(conn), NEW r \in DOMAIN conn.response,
                      ~conn.response[r].doubled, ~Expects(conn.response[r])
               PROVE  IsAsSaid(r)
    BY Zenon DEF FaithfulInv, AsSaidUnlessDoubled, Expects
  <2>1. Told(conn, r) = conn.response[r].said
    BY Zenon DEF AllFaithful, Faithful
  <2>2. QED  BY <2>1, Zenon DEF Told, Sent, Waiting, Tagged, Left, IsAsSaid
<1>4. Spec => []FaithfulInv
  BY <1>1, <1>2, Invariance, PTL DEF Spec
<1>5. QED  BY <1>3, <1>4, PTL
=============================================================================
