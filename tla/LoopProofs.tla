---------------------------- MODULE LoopProofs -----------------------------
(***************************************************************************)
(* Proofs about what the loop calls besides the sockets.  MessageQueue and *)
(* Async, for any number of threads, tasks and messages: a queue that is   *)
(* closed while no thread is posting loses nothing, listeners are silent   *)
(* once close() has returned, and Async closes its queue in just that way  *)
(* and calls every callback once.  Timers, for all delays and any number   *)
(* of timers: TimersSound, provided that the listeners of "timeout" always *)
(* do something about the timer and the application does not clear what    *)
(* has run.                                                                *)
(*                                                                         *)
(* FileChains, for any number of calls and of failures.  FileInv is        *)
(* inductive: a call has the answer that its failures call for (CallOk),   *)
(* the file is what the one call that runs has made of it (Works), and     *)
(* appends have added their data one after the other, in some order        *)
(* (AllKept).  FlattenSeq() is a recursive function: what it gives is      *)
(* shown by the least number for which it would be wrong.                  *)
(***************************************************************************)
EXTENDS Async, Timers, FileChains, TLAPS, SequenceTheorems, FiniteSetTheorems,
        WellFoundedInduction


-----------------------------------------------------------------------------
(* The queue.                                                              *)

QueueTypes ==
  /\ open \in BOOLEAN /\ listening \in BOOLEAN /\ signalled \in BOOLEAN
  /\ async \in {"none", "active", "closing", "closed"}
  /\ queue \in Seq(Message) /\ delivered \in Seq(Message)
  /\ accepted \in SUBSET Message
  /\ frames \in Seq(Frame)
  /\ pc \in [Posters -> {"idle", "offer", "send"}]
  /\ posted \in [Posters -> 0..MaxPosts]
  /\ \A p \in Posters : pc[p] # "idle" => posted[p] > 0

Closing == \E i \in DOMAIN frames : frames[i].from = "close"

(* A close() under way is the innermost call of emitMessage(), its handle  *)
(* is not yet closed, and the listeners stay until it has emptied the      *)
(* queue.                                                                  *)
ClosesLast ==
  /\ open <=> async = "active"
  /\ \A i \in DOMAIN frames : frames[i].from = "close" => i = Len(frames)
  /\ Closing => async = "closing"
  /\ open => listening
  /\ listening => open \/ Closing

InQueue(m)   == \E i \in DOMAIN queue : queue[i] = m
Delivery(m)  == \E i \in DOMAIN delivered : delivered[i] = m

(* No thread is in postMessage() when the queue is not open, and what was  *)
(* offered to the queue is there until it is delivered.                    *)
NothingLost ==
  ~raced =>
    /\ ~sentClosed
    /\ ~open => \A p \in Posters : pc[p] = "idle"
    /\ ~listening => queue = <<>>
    /\ ~open /\ queue # <<>> => Closing
    /\ \A m \in accepted : Delivery(m) \/ InQueue(m)
    /\ \A p \in Posters :
         pc[p] = "send" => Delivery(Posting(p)) \/ InQueue(Posting(p))

QueueInv == QueueTypes /\ ClosesLast /\ NothingLost

LEMMA QueueInit == Init => QueueInv
<1> SUFFICES ASSUME Init PROVE QueueInv
  OBVIOUS
<1>1. QueueTypes
  <2>1. [p \in Posters |-> 0] \in [Posters -> 0..MaxPosts]
    BY ConstantsAssumption
  <2>2. /\ pc \in [Posters -> {"idle", "offer", "send"}]
        /\ \A p \in Posters : pc[p] = "idle"
    BY DEF Init
  <2>3. <<>> \in Seq(Message) /\ <<>> \in Seq(Frame)
    OBVIOUS
  <2>4. posted \in [Posters -> 0..MaxPosts]
    BY <2>1 DEF Init
  <2>5. QED  BY <2>2, <2>3, <2>4 DEF Init, QueueTypes
<1>2. ClosesLast /\ NothingLost
  BY DEF Init, ClosesLast, NothingLost, Closing
<1>3. QED  BY <1>1, <1>2 DEF QueueInv

LEMMA TopFrame ==
  ASSUME QueueTypes, frames # <<>>
  PROVE  /\ Len(frames) \in DOMAIN frames /\ Len(frames) \in Nat
         /\ Top \in Frame /\ Top = frames[Len(frames)]
BY DEF QueueTypes, Top

(* The listener is called, or returns. *)
LEMMA Replaced ==
  ASSUME QueueTypes, frames # <<>>, NEW b \in BOOLEAN
  PROVE  LET g == Replace([Top EXCEPT !.inListener = b])
         IN  /\ g \in Seq(Frame) /\ DOMAIN g = DOMAIN frames
             /\ Len(g) = Len(frames) /\ g # <<>>
             /\ \A i \in DOMAIN frames : g[i].from = frames[i].from
<1> DEFINE f == [Top EXCEPT !.inListener = b]
           g == [frames EXCEPT ![Len(frames)] = f]
<1>1. f \in Frame /\ f.from = Top.from
  BY TopFrame DEF Frame
<1> HIDE DEF f
<1>2. frames \in Seq(Frame) /\ Len(frames) \in DOMAIN frames
  BY TopFrame DEF QueueTypes
<1>3. /\ g \in Seq(Frame) /\ DOMAIN g = DOMAIN frames
      /\ Len(g) = Len(frames) /\ g # <<>>
  BY <1>1, <1>2
<1>4. ASSUME NEW i \in DOMAIN frames  PROVE g[i].from = frames[i].from
  BY <1>1, <1>2, <1>4 DEF Top
<1>5. QED  BY <1>3, <1>4 DEF Replace, f

(* emitMessage() returns. *)
LEMMA Popped ==
  ASSUME QueueTypes, frames # <<>>
  PROVE  LET g == SubSeq(frames, 1, Len(frames) - 1)
         IN  /\ g \in Seq(Frame) /\ Len(g) = Len(frames) - 1
             /\ \A i \in DOMAIN g : i \in DOMAIN frames /\ i < Len(frames)
                                    /\ g[i] = frames[i]
<1> DEFINE n == Len(frames)
<1>1. frames \in Seq(Frame) /\ n \in Nat /\ n > 0 /\ DOMAIN frames = 1..n
  BY DEF QueueTypes
<1>2. \A i \in 1..(n - 1) : frames[i] \in Frame
  BY <1>1
<1> HIDE DEF n
<1>3. SubSeq(frames, 1, n - 1) = [i \in 1..(n - 1) |-> frames[i]]
  BY <1>1
<1>4. Len(SubSeq(frames, 1, n - 1)) = n - 1
  BY <1>1
<1>5. SubSeq(frames, 1, n - 1) \in Seq(Frame)
  BY <1>1
<1>6. QED  BY <1>1, <1>3, <1>4, <1>5 DEF n

LEMMA PostsMessages ==
  ASSUME QueueTypes, NEW p \in Posters, pc[p] # "idle"
  PROVE  Posting(p) \in Message
<1>1. posted \in [Posters -> 0..MaxPosts] /\ posted[p] > 0
  BY DEF QueueTypes
<1>2. posted[p] \in 1..MaxPosts
  BY <1>1, ConstantsAssumption
<1>3. QED  BY <1>2 DEF Posting, Message

LEMMA TypesNext == QueueTypes /\ [Next]_vars => QueueTypes'
<1> SUFFICES ASSUME QueueTypes, [Next]_vars PROVE QueueTypes'
  OBVIOUS
<1>1. CASE Open
  BY <1>1 DEF Open, QueueTypes
<1>2. CASE Close
  <2>1. frames' \in Seq(Frame)
    BY <1>2 DEF Close, QueueTypes, Frame
  <2>2. QED  BY <1>2, <2>1 DEF Close, QueueTypes
<1>3. CASE Receive
  <2>1. frames' \in Seq(Frame)
    BY <1>3 DEF Receive, QueueTypes, Frame
  <2>2. QED  BY <1>3, <2>1 DEF Receive, QueueTypes
<1>4. CASE Poll
  <2>1. queue' \in Seq(Message) /\ Head(queue) \in Message
    BY <1>4 DEF Poll, QueueTypes
  <2>2. delivered' \in Seq(Message)
    <3>1. \/ delivered' = delivered
          \/ delivered' = Append(delivered, Head(queue))
      BY <1>4 DEF Poll
    <3>2. delivered \in Seq(Message)
      BY DEF QueueTypes
    <3>3. Append(delivered, Head(queue)) \in Seq(Message)
      BY <2>1, <3>2
    <3>4. QED  BY <3>1, <3>2, <3>3
  <2>3. frames' \in Seq(Frame)
    BY <1>4, Replaced DEF Poll, QueueTypes
  <2>4. QED  BY <1>4, <2>1, <2>2, <2>3 DEF Poll, QueueTypes
<1>5. CASE ListenerReturns
  <2>1. frames' \in Seq(Frame)
    BY <1>5, Replaced DEF ListenerReturns
  <2>2. QED  BY <1>5, <2>1 DEF ListenerReturns, QueueTypes
<1>6. CASE EndLoop
  <2>1. frames' \in Seq(Frame)
    BY <1>6, Popped DEF EndLoop
  <2>2. listening' \in BOOLEAN
    BY <1>6 DEF EndLoop, QueueTypes
  <2>3. QED  BY <1>6, <2>1, <2>2 DEF EndLoop, QueueTypes
<1>7. CASE Closed
  BY <1>7 DEF Closed, QueueTypes
<1>8. ASSUME NEW p \in Posters, Post(p)  PROVE QueueTypes'
  <2>1. CASE PostCheck(p)
    <3>1. /\ posted' \in [Posters -> 0..MaxPosts]
          /\ pc' \in [Posters -> {"idle", "offer", "send"}]
      BY <2>1, ConstantsAssumption DEF PostCheck, QueueTypes
    <3>2. ASSUME NEW q \in Posters, pc'[q] # "idle"  PROVE posted'[q] > 0
      BY <2>1, <3>2 DEF PostCheck, QueueTypes
    <3>3. QED  BY <2>1, <3>1, <3>2 DEF PostCheck, QueueTypes, loopVars
  <2>2. CASE PostOffer(p)
    <3>1. Posting(p) \in Message
      BY <2>2, PostsMessages DEF PostOffer
    <3>2. queue' \in Seq(Message)
      BY <2>2, <3>1 DEF PostOffer, QueueTypes
    <3>3. QED  BY <2>2, <3>2 DEF PostOffer, QueueTypes, loopVars
  <2>3. CASE PostSend(p)
    <3>1. Posting(p) \in Message
      BY <2>3, PostsMessages DEF PostSend
    <3>2. accepted' \in SUBSET Message /\ signalled' \in BOOLEAN
      BY <2>3, <3>1 DEF PostSend, QueueTypes
    <3>3. QED  BY <2>3, <3>2 DEF PostSend, QueueTypes, loopVars
  <2>4. QED  BY <1>8, <2>1, <2>2, <2>3 DEF Post
<1>9. CASE UNCHANGED vars
  BY <1>9 DEF vars, QueueTypes
<1>10. QED
  BY <1>1, <1>2, <1>3, <1>4, <1>5, <1>6, <1>7, <1>8, <1>9 DEF Next, Loop

LEMMA ClosesLastNext ==
  QueueTypes /\ ClosesLast /\ [Next]_vars => ClosesLast'
<1> SUFFICES ASSUME QueueTypes, ClosesLast, [Next]_vars PROVE ClosesLast'
  OBVIOUS
<1>1. CASE Open
  <2>1. ~Closing
    BY <1>1 DEF Open, ClosesLast
  <2>2. QED  BY <1>1, <2>1 DEF Open, ClosesLast, Closing
<1>2. CASE Close
  <2> DEFINE f == [from |-> "close", inListener |-> FALSE]
  <2>1. ~Closing
    BY <1>2 DEF Close, ClosesLast
  <2>2. /\ Len(frames') = Len(frames) + 1 /\ Len(frames) \in Nat
        /\ frames'[Len(frames')] = f /\ Len(frames') \in DOMAIN frames'
        /\ \A i \in DOMAIN frames' :
             \/ i \in DOMAIN frames /\ frames'[i] = frames[i]
             \/ i = Len(frames')
    BY <1>2 DEF Close, QueueTypes
  <2>3. Closing'
    BY <2>2 DEF Closing
  <2>4. \A i \in DOMAIN frames' : frames'[i].from = "close" => i = Len(frames')
    BY <2>1, <2>2 DEF Closing
  <2>5. QED  BY <1>2, <2>3, <2>4 DEF Close, ClosesLast
<1>3. CASE Receive
  BY <1>3 DEF Receive, ClosesLast, Closing
<1>4. CASE Poll
  <2>1. \/ frames' = frames
        \/ frames' = Replace([Top EXCEPT !.inListener = TRUE])
    BY <1>4 DEF Poll
  <2>2. /\ DOMAIN frames' = DOMAIN frames /\ Len(frames') = Len(frames)
        /\ \A i \in DOMAIN frames : frames'[i].from = frames[i].from
    BY <1>4, <2>1, Replaced DEF Poll
  <2>3. Closing' <=> Closing
    BY <2>2 DEF Closing
  <2>4. QED  BY <1>4, <2>2, <2>3 DEF Poll, ClosesLast
<1>5. CASE ListenerReturns
  <2>1. /\ DOMAIN frames' = DOMAIN frames /\ Len(frames') = Len(frames)
        /\ \A i \in DOMAIN frames : frames'[i].from = frames[i].from
    BY <1>5, Replaced DEF ListenerReturns
  <2>2. Closing' <=> Closing
    BY <2>1 DEF Closing
  <2>3. QED  BY <1>5, <2>1, <2>2 DEF ListenerReturns, ClosesLast
<1>6. CASE EndLoop
  <2>1. \A i \in DOMAIN frames' : i \in DOMAIN frames /\ i < Len(frames)
                                  /\ frames'[i] = frames[i]
    BY <1>6, Popped DEF EndLoop
  <2>2. ~Closing'
    BY <2>1 DEF Closing, ClosesLast
  <2>3. Closing <=> Top.from = "close"
    BY <1>6, TopFrame DEF Closing, ClosesLast, EndLoop
  <2>4. /\ open' = open /\ async' = async
        /\ listening' <=> listening /\ Top.from # "close"
    BY <1>6 DEF EndLoop
  <2>5. \A i \in DOMAIN frames' : frames'[i].from # "close"
    BY <2>2 DEF Closing
  <2>6. QED  BY <2>2, <2>3, <2>4, <2>5 DEF ClosesLast
<1>7. CASE Closed
  <2>1. ~open /\ ~Closing
    BY <1>7 DEF Closed, ClosesLast, Closing
  <2>2. QED  BY <1>7, <2>1 DEF Closed, ClosesLast, Closing
<1>8. ASSUME NEW p \in Posters, Post(p)  PROVE ClosesLast'
  BY <1>8 DEF Post, PostCheck, PostOffer, PostSend, loopVars, ClosesLast, Closing
<1>9. CASE UNCHANGED vars
  BY <1>9 DEF vars, ClosesLast, Closing
<1>10. QED
  BY <1>1, <1>2, <1>3, <1>4, <1>5, <1>6, <1>7, <1>8, <1>9 DEF Next, Loop

(* What is appended is the last, and the rest stays where it is. *)
LEMMA Appended ==
  ASSUME NEW T, NEW s \in Seq(T), NEW x \in T
  PROVE  LET t == Append(s, x)
         IN  /\ \A i \in DOMAIN s : i \in DOMAIN t /\ t[i] = s[i]
             /\ Len(s) + 1 \in DOMAIN t /\ t[Len(s) + 1] = x
OBVIOUS

(* What was in the queue or delivered stays so. *)
LEMMA KeptByPoll ==
  ASSUME QueueTypes, Poll, listening, NEW m
  PROVE  Delivery(m) \/ InQueue(m) => (Delivery(m) \/ InQueue(m))'
<1>1. /\ queue \in Seq(Message) /\ queue # <<>> /\ queue' = Tail(queue)
      /\ delivered \in Seq(Message) /\ delivered' = Append(delivered, Head(queue))
  BY DEF QueueTypes, Poll
<1>2. Delivery(m) => Delivery(m)'
  <2>1. Head(queue) \in Message
    BY <1>1
  <2>2. \A i \in DOMAIN delivered :
          i \in DOMAIN delivered' /\ delivered'[i] = delivered[i]
    BY <1>1, <2>1, Appended
  <2>3. QED  BY <2>2 DEF Delivery
<1>3. ASSUME NEW i \in DOMAIN queue, queue[i] = m
      PROVE  (Delivery(m) \/ InQueue(m))'
  <2>1. CASE i = 1
    <3>1. Len(delivered) + 1 \in DOMAIN delivered'
          /\ delivered'[Len(delivered) + 1] = m
      BY <1>1, <1>3, <2>1
    <3>2. QED  BY <3>1 DEF Delivery
  <2>2. CASE i # 1
    <3>1. i - 1 \in DOMAIN queue' /\ queue'[i - 1] = m
      BY <1>1, <1>3, <2>2
    <3>2. QED  BY <3>1 DEF InQueue
  <2>3. QED  BY <2>1, <2>2
<1>4. QED  BY <1>2, <1>3 DEF InQueue

LEMMA NothingLostNext == QueueInv /\ [Next]_vars => NothingLost'
<1> SUFFICES ASSUME QueueInv, [Next]_vars, ~raced' PROVE NothingLost'
  BY DEF NothingLost
<1>0. ~raced /\ QueueTypes /\ ClosesLast /\ NothingLost /\ QueueTypes' /\ ClosesLast'
  <2>1. raced => raced'
    BY DEF Next, vars, Open, Close, Loop, Receive, Poll, ListenerReturns,
           EndLoop, Closed, Post, PostCheck, PostOffer, PostSend, loopVars
  <2>2. QED  BY <2>1, TypesNext, ClosesLastNext DEF QueueInv
<1>1. CASE Open
  BY <1>0, <1>1 DEF Open, NothingLost, ClosesLast, Delivery, InQueue
<1>2. CASE Close
  <2>1. \A p \in Posters : pc[p] = "idle"
    BY <1>2 DEF Close
  <2>2. Closing' /\ listening
    BY <1>0, <1>2 DEF Close, ClosesLast
  <2>3. QED
    BY <1>0, <1>2, <2>1, <2>2 DEF Close, NothingLost, Delivery, InQueue
<1>3. CASE Receive
  <2>1. open
    BY <1>0, <1>3 DEF Receive, ClosesLast
  <2>2. QED  BY <1>0, <1>3, <2>1 DEF Receive, NothingLost, Delivery, InQueue, Posting
<1>4. CASE Poll
  <2>1. listening
    BY <1>0, <1>4 DEF Poll, NothingLost
  <2>2. \A m : Delivery(m) \/ InQueue(m) => (Delivery(m) \/ InQueue(m))'
    BY <1>0, <1>4, <2>1, KeptByPoll
  <2>3. /\ pc' = pc /\ posted' = posted /\ accepted' = accepted
        /\ sentClosed' = sentClosed /\ open' = open /\ listening' = listening
        /\ queue # <<>>
    BY <1>4 DEF Poll
  <2>4. \A p : Posting(p)' = Posting(p)
    BY <2>3 DEF Posting
  <2>5. ~open => Closing'
    BY <1>0, <2>1, <2>3 DEF ClosesLast
  <2>6. QED  BY <1>0, <2>1, <2>2, <2>3, <2>4, <2>5 DEF NothingLost
<1>5. CASE ListenerReturns
  <2>1. ~open /\ queue # <<>> => Closing'
    BY <1>0, <1>5 DEF ListenerReturns, NothingLost, ClosesLast
  <2>2. QED
    BY <1>0, <1>5, <2>1
    DEF ListenerReturns, NothingLost, Delivery, InQueue, Posting
<1>6. CASE EndLoop
  BY <1>0, <1>6 DEF EndLoop, NothingLost, Delivery, InQueue, Posting
<1>7. CASE Closed
  BY <1>0, <1>7 DEF Closed, NothingLost, Delivery, InQueue, Posting, Closing
<1>8. ASSUME NEW p \in Posters, Post(p)  PROVE NothingLost'
  <2>1. /\ raced' = raced /\ open' = open /\ async' = async
        /\ listening' = listening /\ frames' = frames /\ delivered' = delivered
    BY <1>8 DEF Post, PostCheck, PostOffer, PostSend, loopVars
  <2>2. Closing' <=> Closing
    BY <2>1 DEF Closing
  <2>3. \A m : Delivery(m)' <=> Delivery(m)
    BY <2>1 DEF Delivery
  <2>4. CASE PostCheck(p)
    <3>1. \A q \in Posters : pc'[q] = "send" => Posting(q)' = Posting(q)
      BY <1>0, <2>4 DEF PostCheck, QueueTypes, Posting
    <3>2. \A q \in Posters : pc'[q] = "send" => pc[q] = "send"
      BY <1>0, <2>4 DEF PostCheck, QueueTypes
    <3>3. ~open => pc' = pc
      BY <2>4 DEF PostCheck
    <3>4. \A m : InQueue(m)' <=> InQueue(m)
      BY <2>4 DEF PostCheck, InQueue
    <3>5. queue' = queue /\ accepted' = accepted /\ sentClosed' = sentClosed
      BY <2>4 DEF PostCheck
    <3>6. QED
      BY <1>0, <2>1, <2>2, <2>3, <3>1, <3>2, <3>3, <3>4, <3>5 DEF NothingLost
  <2>5. CASE PostOffer(p)
    <3>1. open /\ listening
      BY <1>0, <2>5 DEF PostOffer, NothingLost, ClosesLast
    <3>2. queue \in Seq(Message) /\ queue' = Append(queue, Posting(p))
      BY <1>0, <2>5 DEF PostOffer, QueueTypes
    <3>3. \A m : InQueue(m) => InQueue(m)'
      BY <3>2 DEF InQueue
    <3>4. InQueue(Posting(p))'
      <4>1. Len(queue) + 1 \in DOMAIN queue' /\ queue'[Len(queue) + 1] = Posting(p)
        BY <3>2
      <4>2. Posting(p)' = Posting(p)
        BY <2>5 DEF PostOffer, Posting
      <4>3. QED  BY <4>1, <4>2 DEF InQueue
    <3>5. \A q \in Posters : /\ Posting(q)' = Posting(q)
                             /\ q # p => pc'[q] = pc[q]
      BY <1>0, <2>5 DEF PostOffer, QueueTypes, Posting
    <3>6. accepted' = accepted /\ sentClosed' = sentClosed
      BY <2>5 DEF PostOffer
    <3>7. QED
      BY <1>0, <2>1, <2>3, <3>1, <3>3, <3>4, <3>5, <3>6 DEF NothingLost
  <2>6. CASE PostSend(p)
    <3>1. open /\ async = "active" /\ listening
      BY <1>0, <2>6 DEF PostSend, NothingLost, ClosesLast
    <3>2. \A m : InQueue(m)' <=> InQueue(m)
      BY <2>6 DEF PostSend, InQueue
    <3>3. \A q \in Posters : /\ Posting(q)' = Posting(q)
                             /\ q # p => pc'[q] = pc[q]
      BY <1>0, <2>6 DEF PostSend, QueueTypes, Posting
    <3>4. pc'[p] = "idle" /\ pc[p] = "send"
      BY <1>0, <2>6 DEF PostSend, QueueTypes
    <3>5. accepted' = accepted \cup {Posting(p)} /\ ~sentClosed'
      BY <1>0, <2>6, <3>1 DEF PostSend, NothingLost
    <3>6. \A m \in accepted' : (Delivery(m) \/ InQueue(m))'
      BY <1>0, <2>3, <3>2, <3>4, <3>5 DEF NothingLost
    <3>7. QED
      BY <1>0, <2>1, <2>3, <3>1, <3>2, <3>3, <3>4, <3>5, <3>6 DEF NothingLost
  <2>7. QED  BY <1>8, <2>4, <2>5, <2>6 DEF Post
<1>9. CASE UNCHANGED vars
  BY <1>0, <1>9 DEF vars, NothingLost, Delivery, InQueue, Posting, Closing
<1>10. QED
  BY <1>1, <1>2, <1>3, <1>4, <1>5, <1>6, <1>7, <1>8, <1>9 DEF Next, Loop

LEMMA QueueNext == QueueInv /\ [Next]_vars => QueueInv'
BY TypesNext, ClosesLastNext, NothingLostNext DEF QueueInv

LEMMA QueueImplies == QueueInv => QuietIsLossless
<1> SUFFICES ASSUME QueueInv, ~raced, NEW m \in accepted, ~Delivery(m)
             PROVE  InQueue(m) /\ (open \/ frames # <<>>)
  BY DEF QuietIsLossless, QueueInv, NothingLost, Delivery, InQueue
<1>1. InQueue(m)
  BY DEF QueueInv, NothingLost
<1>2. queue # <<>>
  BY <1>1 DEF InQueue
<1>3. open \/ Closing
  BY <1>2 DEF QueueInv, NothingLost
<1>4. QED  BY <1>1, <1>3 DEF Closing

LEMMA QueueSilent ==
  QueueInv /\ [Next]_vars =>
    (~open /\ (\A i \in DOMAIN frames : frames[i].from # "close")
       => delivered' = delivered)
<1> SUFFICES ASSUME QueueInv, [Next]_vars, ~open, ~Closing
             PROVE  delivered' = delivered
  BY DEF Closing
<1>1. ~listening
  BY DEF QueueInv, ClosesLast
<1>2. QED
  BY <1>1 DEF Next, vars, Open, Close, Loop, Receive, Poll, ListenerReturns,
              EndLoop, Closed, Post, PostCheck, PostOffer, PostSend, loopVars

LEMMA QueueInvariance == Spec => []QueueInv
<1>1. QED  BY QueueInit, QueueNext, PTL DEF Spec

(* A MessageQueue that is only closed while no thread is in postMessage()  *)
(* delivers what it has accepted, for any number of threads, messages and  *)
(* reopenings.                                                             *)
THEOREM QuietLosesNothing == Spec => []QuietIsLossless
<1>1. QED  BY QueueInvariance, QueueImplies, PTL

(* Once close() has returned no listener is called before the next open(), *)
(* also when threads were posting at the time.                             *)
THEOREM ClosedIsSilent == Spec => SilentWhenClosed
<1>1. QueueInv /\ [Next]_vars =>
        [~open /\ (\A i \in DOMAIN frames : frames[i].from # "close")
           => delivered' = delivered]_vars
  BY QueueSilent
<1>2. QED  BY <1>1, QueueInvariance, PTL DEF Spec, SilentWhenClosed
-----------------------------------------------------------------------------
(* Async.                                                                  *)

AsyncTypes ==
  /\ exec \in {"unused", "running", "joining", "null"}
  /\ nextId \in 0..MaxTasks
  /\ callbacks \in SUBSET Id /\ wanted \in SUBSET Id /\ dropped \in SUBSET Id
  /\ tasks \in Seq(Id) /\ called \in Seq(Id)
  /\ running \in [Posters -> Id \cup {0}]
  /\ execing \in [Threads -> [id: Id \cup {0}, step: {"none", "put", "submit"}]]
  /\ ran \in [Posters -> Seq(Id)]
  /\ exec = "unused" => /\ tasks = <<>> /\ \A p \in Posters : running[p] = 0
                        /\ \A t \in Threads : execing[t].step = "none"

(* How far the thread p is with the result of the task it runs: all it has *)
(* begun is posted but, until the result is, the last.                     *)
ThreadIsRight(p) ==
  IF running[p] = 0
  THEN pc[p] = "idle" /\ execing[p].step = "none" /\ Len(ran[p]) = posted[p]
  ELSE /\ open /\ Len(ran[p]) > 0 /\ ran[p][Len(ran[p])] = running[p]
       /\ Len(ran[p]) = posted[p] + (IF pc[p] = "idle" THEN 1 ELSE 0)

(* The queue is open until the executor is gone, and so no thread posts    *)
(* when it is closed.                                                      *)
ThreadsMatch ==
  exec # "unused" =>
    /\ ~raced
    /\ open <=> exec # "null"
    /\ exec = "null" => tasks = <<>>
    /\ \A p \in Posters : ThreadIsRight(p)

Called == {called[i] : i \in DOMAIN called}

(* An id is in one place: about to get its callback, with a callback, or   *)
(* called.                                                                 *)
IdsMatch ==
  /\ \A id \in callbacks : id <= nextId
  /\ \A id \in Called : id <= nextId /\ id \notin callbacks
  /\ \A i, j \in DOMAIN called : called[i] = called[j] => i = j
  /\ \A t \in Threads : execing[t].step # "none" =>
       /\ execing[t].id \in 1..nextId
       /\ execing[t].step = "put" => execing[t].id \notin callbacks
                                     /\ execing[t].id \notin Called
       /\ \A u \in Threads : execing[u].step # "none"
                             /\ execing[u].id = execing[t].id => u = t

(* The k-th task that p has begun is id, and p has posted its result. *)
HasRun(p, k, id) == k \in 1..posted[p] /\ ran[p][k] = id

ResultsMatch ==
  exec # "unused" =>
    /\ \A i \in DOMAIN queue : queue[i].n <= posted[queue[i].by]
    /\ \A id \in Called :
         \E p \in Posters : \E k \in 1..posted[p] : HasRun(p, k, id)

(* The result of the task id will reach the loop thread. *)
OnItsWay(id) ==
  \/ \E i \in DOMAIN tasks : tasks[i] = id
  \/ \E p \in Posters : running[p] = id /\ pc[p] = "idle"
  \/ \E p \in Posters : \E k \in 1..posted[p] :
       /\ HasRun(p, k, id)
       /\ \/ pc[p] = "offer" /\ k = posted[p]
          \/ InQueue([by |-> p, n |-> k])

WantedMatch ==
  exec # "unused" =>
    \A id \in wanted \ dropped :
      id \in Called \/ (id \in callbacks /\ OnItsWay(id))

AsyncInv ==
  /\ AsyncTypes /\ ThreadsMatch /\ IdsMatch /\ ResultsMatch /\ WantedMatch

LEMMA Naturals ==
  /\ MaxTasks \in Nat /\ 0 \notin Id /\ Main \notin Posters
  /\ \A n \in Nat : n < MaxTasks => n + 1 \in Id /\ n + 1 \in 0..MaxTasks
  /\ Threads = Posters \cup {Main}
BY AsyncAssumption DEF Id, Threads

(* Every step of Async is one of the queue, or leaves it alone. *)
LEMMA AsyncStep == [AsyncNext]_allVars => [Next]_vars
<1> SUFFICES ASSUME AsyncNext PROVE [Next]_vars
  BY DEF allVars
<1>1. ASSUME NEW t \in Threads, Exec(t)  PROVE UNCHANGED vars
  BY <1>1 DEF Exec, ExecBegin, ExecPut, ExecSubmit
<1>2. ASSUME NEW p \in Posters, TakeTask(p) \/ PostResult(p)
      PROVE  [Next]_vars
  BY <1>2 DEF TakeTask, PostResult, Next, Post
<1>3. CASE OnMessage
  BY <1>3 DEF OnMessage, Next, Loop
<1>4. CASE LoopStep
  BY <1>4 DEF LoopStep, Next, Loop
<1>5. CASE Shutdown
  BY <1>5 DEF Shutdown
<1>6. CASE Join
  BY <1>6 DEF Join, Next
<1>7. CASE Alone
  BY <1>7 DEF Alone, Next
<1>8. QED
  BY <1>1, <1>2, <1>3, <1>4, <1>5, <1>6, <1>7 DEF AsyncNext

(* Which actions write what; the queue by itself leaves Async alone. *)
LEMMA AsyncCases ==
  ASSUME [AsyncNext]_allVars, NEW P,
         \A t \in Threads : ExecBegin(t) => P,
         \A t \in Threads : ExecPut(t) => P,
         \A t \in Threads : ExecSubmit(t) => P,
         \A p \in Posters : TakeTask(p) => P,
         \A p \in Posters : PostResult(p) => P,
         OnMessage => P, LoopStep => P, Shutdown => P, Join => P,
         UNCHANGED asyncVars /\ (exec = "unused" \/ UNCHANGED vars) => P
  PROVE  P
BY DEF AsyncNext, Exec, Alone, allVars

LEMMA ExecingId ==
  ASSUME AsyncTypes, IdsMatch, NEW t \in Threads, execing[t].step # "none"
  PROVE  execing[t].id \in Id /\ execing[t].id \in 1..nextId
BY Naturals DEF AsyncTypes, IdsMatch, Id

LEMMA AsyncTypesNext ==
  AsyncTypes /\ IdsMatch /\ [AsyncNext]_allVars => AsyncTypes'
<1> SUFFICES ASSUME AsyncTypes, IdsMatch, [AsyncNext]_allVars
             PROVE  AsyncTypes'
  OBVIOUS
<1> DEFINE Step == [id: Id \cup {0}, step: {"none", "put", "submit"}]
<1>1. ASSUME NEW t \in Threads, ExecBegin(t)  PROVE AsyncTypes'
  <2>1. nextId + 1 \in Id /\ nextId' \in 0..MaxTasks
    BY <1>1, Naturals DEF ExecBegin, AsyncTypes
  <2>2. execing' \in [Threads -> Step]
    BY <1>1, <2>1 DEF ExecBegin, AsyncTypes
  <2>3. exec # "unused"
    BY <1>1 DEF ExecBegin
  <2>4. QED  BY <1>1, <2>1, <2>2, <2>3 DEF ExecBegin, AsyncTypes
<1>2. ASSUME NEW t \in Threads, ExecPut(t)  PROVE AsyncTypes'
  <2>1. execing' \in [Threads -> Step]
    BY <1>2 DEF ExecPut, AsyncTypes
  <2>2. exec # "unused"
    BY <1>2 DEF ExecPut, AsyncTypes
  <2>3. callbacks' \in SUBSET Id
    BY <1>2, ExecingId DEF ExecPut, AsyncTypes
  <2>4. QED  BY <1>2, <2>1, <2>2, <2>3 DEF ExecPut, AsyncTypes
<1>3. ASSUME NEW t \in Threads, ExecSubmit(t)  PROVE AsyncTypes'
  <2>1. execing' \in [Threads -> Step]
    BY <1>3 DEF ExecSubmit, AsyncTypes, NoExec
  <2>2. exec # "unused"
    BY <1>3 DEF ExecSubmit, AsyncTypes
  <2>3. /\ tasks' \in Seq(Id) /\ dropped' \in SUBSET Id
        /\ wanted' \in SUBSET Id
    <3>1. execing[t].id \in Id
      BY <1>3, ExecingId DEF ExecSubmit
    <3>2. tasks \in Seq(Id) /\ Append(tasks, execing[t].id) \in Seq(Id)
      BY <3>1 DEF AsyncTypes
    <3>3. \/ tasks' = Append(tasks, execing[t].id) /\ dropped' = dropped
          \/ tasks' = tasks /\ dropped' = dropped \cup {execing[t].id}
      BY <1>3 DEF ExecSubmit
    <3>4. tasks' \in Seq(Id)
      BY <3>2, <3>3
    <3>5. dropped' \in SUBSET Id /\ wanted' \in SUBSET Id
      BY <1>3, <3>1, <3>3 DEF ExecSubmit, AsyncTypes
    <3>6. QED  BY <3>4, <3>5
  <2>4. QED  BY <1>3, <2>1, <2>2, <2>3 DEF ExecSubmit, AsyncTypes
<1>4. ASSUME NEW p \in Posters, TakeTask(p)  PROVE AsyncTypes'
  <2>1. Head(tasks) \in Id /\ tasks' \in Seq(Id)
    BY <1>4 DEF TakeTask, AsyncTypes
  <2>2. running' \in [Posters -> Id \cup {0}] /\ ran' \in [Posters -> Seq(Id)]
    BY <1>4, <2>1 DEF TakeTask, AsyncTypes
  <2>3. exec # "unused"
    BY <1>4 DEF TakeTask, AsyncTypes
  <2>4. QED  BY <1>4, <2>1, <2>2, <2>3 DEF TakeTask, AsyncTypes
<1>5. ASSUME NEW p \in Posters, PostResult(p)  PROVE AsyncTypes'
  <2>1. running' \in [Posters -> Id \cup {0}] /\ exec # "unused"
    BY <1>5 DEF PostResult, AsyncTypes
  <2>2. QED  BY <1>5, <2>1 DEF PostResult, AsyncTypes
<1>6. CASE OnMessage
  <2>1. called' \in Seq(Id) /\ callbacks' \in SUBSET Id /\ exec # "unused"
    <3> DEFINE id == Carries(Head(queue))
    <3>1. \/ id \in callbacks /\ callbacks' = callbacks \ {id}
             /\ called' = Append(called, id)
          \/ callbacks' = callbacks /\ called' = called
      BY <1>6 DEF OnMessage
    <3> HIDE DEF id
    <3>2. called \in Seq(Id) /\ callbacks \in SUBSET Id
      BY DEF AsyncTypes
    <3>3. called' \in Seq(Id)
      BY <3>1, <3>2
    <3>4. QED  BY <1>6, <3>1, <3>2, <3>3 DEF OnMessage, MainFree
  <2>2. QED  BY <1>6, <2>1 DEF OnMessage, AsyncTypes
<1>7. CASE LoopStep
  BY <1>7 DEF LoopStep, asyncVars, AsyncTypes
<1>8. CASE Shutdown
  <2>1. tasks' \in Seq(Id) /\ dropped' \in SUBSET Id
    <3>1. tasks \in Seq(Id) /\ dropped \in SUBSET Id /\ <<>> \in Seq(Id)
          /\ {tasks[i] : i \in DOMAIN tasks} \subseteq Id
      BY DEF AsyncTypes
    <3>2. \/ tasks' = tasks /\ dropped' = dropped
          \/ tasks' = <<>>
             /\ dropped' = dropped \cup {tasks[i] : i \in DOMAIN tasks}
      BY <1>8 DEF Shutdown
    <3>3. QED  BY <3>1, <3>2
  <2>2. QED  BY <1>8, <2>1 DEF Shutdown, AsyncTypes
<1>9. CASE Join
  BY <1>9 DEF Join, AsyncTypes
<1>10. CASE UNCHANGED asyncVars
  BY <1>10 DEF asyncVars, AsyncTypes
<1>11. QED
  BY <1>1, <1>2, <1>3, <1>4, <1>5, <1>6, <1>7, <1>8, <1>9, <1>10, AsyncCases

-----------------------------------------------------------------------------
(* The threads, and the queue they post to. *)

(* A thread that neither takes a task nor posts. *)
LEMMA SameThread ==
  ASSUME NEW p, ThreadIsRight(p), running'[p] = running[p], pc'[p] = pc[p],
         posted'[p] = posted[p], ran'[p] = ran[p],
         running[p] = 0 => execing'[p].step = "none",
         running[p] # 0 => open'
  PROVE  ThreadIsRight(p)'
BY DEF ThreadIsRight

LEMMA ThreadsNext ==
  /\ QueueTypes /\ AsyncTypes /\ ThreadsMatch /\ [AsyncNext]_allVars
  => ThreadsMatch'
<1> SUFFICES ASSUME QueueTypes, AsyncTypes, ThreadsMatch, [AsyncNext]_allVars,
                    exec' # "unused"
             PROVE  ThreadsMatch'
  BY DEF ThreadsMatch
<1>1. ASSUME NEW t \in Threads,
             execing' = [execing EXCEPT ![t] = execing'[t]],
             execing'[t].step # "none" /\ t # Main => running[t] # 0,
             UNCHANGED <<vars, exec, running, ran>>,
             exec # "unused", exec = "null" => tasks' = <<>>
      PROVE  ThreadsMatch'
  <2>1. /\ pc' = pc /\ posted' = posted /\ open' = open /\ raced' = raced
        /\ exec' = exec /\ running' = running /\ ran' = ran
    BY <1>1 DEF vars
  <2>2. ASSUME NEW p \in Posters  PROVE ThreadIsRight(p)'
    <3>1. ThreadIsRight(p) /\ p \in Threads /\ p # Main
      BY <1>1, Naturals DEF ThreadsMatch
    <3>2. running[p] = 0 => execing'[p].step = "none"
      <4>1. p # t => execing'[p] = execing[p]
        BY <1>1, <3>1 DEF AsyncTypes
      <4>2. QED  BY <1>1, <3>1, <4>1 DEF ThreadIsRight
    <3>3. running[p] # 0 => open'
      BY <2>1, <3>1 DEF ThreadIsRight
    <3>4. QED  BY <2>1, <3>1, <3>2, <3>3, SameThread
  <2>3. QED  BY <1>1, <2>1, <2>2 DEF ThreadsMatch
<1>2. ASSUME NEW t \in Threads, ExecBegin(t)  PROVE ThreadsMatch'
  <2>1. PICK step \in {"put", "submit"} :
          execing' = [execing EXCEPT ![t] = [id |-> nextId + 1, step |-> step]]
    BY <1>2 DEF ExecBegin
  <2>2. execing' = [execing EXCEPT ![t] = execing'[t]]
    BY <2>1 DEF AsyncTypes
  <2>3. QED  BY <1>1, <1>2, <2>2 DEF ExecBegin, MayExec, ThreadsMatch
<1>3. ASSUME NEW t \in Threads, ExecPut(t)  PROVE ThreadsMatch'
  <2>1. execing' = [execing EXCEPT ![t] = execing'[t]]
    BY <1>3 DEF ExecPut, AsyncTypes
  <2>2. exec # "unused" /\ execing[t].step # "none"
    BY <1>3 DEF ExecPut, AsyncTypes
  <2>3. t # Main => running[t] # 0
    BY <2>2, Naturals DEF ThreadsMatch, ThreadIsRight
  <2>4. QED  BY <1>1, <1>3, <2>1, <2>2, <2>3 DEF ExecPut, ThreadsMatch
<1>4. ASSUME NEW t \in Threads, ExecSubmit(t)  PROVE ThreadsMatch'
  <2>1. execing' = [execing EXCEPT ![t] = execing'[t]] /\ execing'[t] = NoExec
    BY <1>4 DEF ExecSubmit, AsyncTypes
  <2>2. exec # "unused" /\ (exec = "null" => tasks' = tasks)
    BY <1>4 DEF ExecSubmit, AsyncTypes
  <2>3. exec = "null" => tasks' = <<>>
    BY <2>2 DEF ThreadsMatch
  <2>4. execing'[t].step = "none"
    BY <2>1 DEF NoExec
  <2>5. UNCHANGED <<vars, exec, running, ran>>
    BY <1>4 DEF ExecSubmit
  <2>6. QED  BY <1>1, <2>1, <2>2, <2>3, <2>4, <2>5
<1>5. ASSUME NEW p \in Posters, TakeTask(p)  PROVE ThreadsMatch'
  <2>1. /\ pc' = pc /\ posted' = posted /\ open' = open /\ raced' = raced
        /\ exec' = exec /\ execing' = execing
    BY <1>5 DEF TakeTask, vars
  <2>2. ASSUME NEW q \in Posters, q # p  PROVE ThreadIsRight(q)'
    <3>1. running'[q] = running[q] /\ ran'[q] = ran[q]
      BY <1>5, <2>2 DEF TakeTask, AsyncTypes
    <3>2. ThreadIsRight(q)
      BY <2>1 DEF ThreadsMatch
    <3>3. QED  BY <2>1, <3>1, <3>2, SameThread DEF ThreadIsRight
  <2>3. ThreadIsRight(p)'
    <3>1. ThreadIsRight(p) /\ open /\ running[p] = 0
      BY <1>5, <2>1 DEF ThreadsMatch, TakeTask
    <3>2. Head(tasks) \in Id /\ 0 \notin Id
      BY <1>5, Naturals DEF TakeTask, AsyncTypes
    <3>3. running'[p] = Head(tasks) /\ ran'[p] = Append(ran[p], Head(tasks))
      BY <1>5 DEF TakeTask, AsyncTypes
    <3>4. ran[p] \in Seq(Id) /\ posted[p] \in Nat
      BY DEF AsyncTypes, QueueTypes
    <3>5. /\ Len(ran'[p]) = Len(ran[p]) + 1 /\ Len(ran[p]) \in Nat
          /\ ran'[p][Len(ran[p]) + 1] = Head(tasks)
      BY <3>2, <3>3, <3>4
    <3>6. QED  BY <2>1, <3>1, <3>2, <3>3, <3>4, <3>5 DEF ThreadIsRight
  <2>4. QED  BY <1>5, <2>1, <2>2, <2>3 DEF ThreadsMatch, TakeTask
<1>6. ASSUME NEW p \in Posters, PostResult(p)  PROVE ThreadsMatch'
  <2>1. /\ open' = open /\ raced' = raced /\ exec' = exec /\ tasks' = tasks
        /\ execing' = execing /\ ran' = ran
    BY <1>6 DEF PostResult, PostCheck, PostOffer, PostSend, loopVars
  <2>2. ASSUME NEW q \in Posters, q # p  PROVE ThreadIsRight(q)'
    <3>1. running'[q] = running[q] /\ pc'[q] = pc[q] /\ posted'[q] = posted[q]
      BY <1>6, <2>2
      DEF PostResult, PostCheck, PostOffer, PostSend, AsyncTypes, QueueTypes
    <3>2. ThreadIsRight(q)
      BY <2>1 DEF ThreadsMatch
    <3>3. QED  BY <2>1, <3>1, <3>2, SameThread DEF ThreadIsRight
  <2>3. ThreadIsRight(p)'
    <3>1. /\ ThreadIsRight(p) /\ running[p] # 0 /\ open
          /\ execing[p] = NoExec /\ p \in Threads
      BY <1>6, <2>1, Naturals DEF ThreadsMatch, PostResult, ThreadIsRight
    <3>2. ran[p] \in Seq(Id) /\ Len(ran[p]) \in Nat /\ posted[p] \in Nat
      BY DEF AsyncTypes, QueueTypes
    <3>3. CASE PostCheck(p)
      <4>1. /\ pc[p] = "idle" /\ pc'[p] = "offer" /\ posted'[p] = posted[p] + 1
        BY <3>1, <3>3 DEF PostCheck, QueueTypes
      <4>2. running'[p] = running[p]
        BY <1>6, <3>1, <4>1 DEF PostResult, PostCheck, PostOffer, PostSend
      <4>3. QED  BY <2>1, <3>1, <3>2, <4>1, <4>2 DEF ThreadIsRight
    <3>4. CASE PostOffer(p)
      <4>1. pc[p] = "offer" /\ pc'[p] = "send" /\ posted'[p] = posted[p]
        BY <3>4 DEF PostOffer, QueueTypes
      <4>2. running'[p] = running[p]
        BY <1>6, <4>1 DEF PostResult, PostCheck, PostSend
      <4>3. QED  BY <2>1, <3>1, <3>2, <4>1, <4>2 DEF ThreadIsRight
    <3>5. CASE PostSend(p)
      <4>1. pc[p] = "send" /\ pc'[p] = "idle" /\ posted'[p] = posted[p]
        BY <3>5 DEF PostSend, QueueTypes
      <4>2. running'[p] = 0
        BY <1>6, <4>1 DEF PostResult, PostCheck, PostOffer, AsyncTypes
      <4>3. QED
        BY <2>1, <3>1, <3>2, <4>1, <4>2 DEF ThreadIsRight, NoExec
    <3>6. QED  BY <1>6, <3>3, <3>4, <3>5 DEF PostResult
  <2>4. QED  BY <1>6, <2>1, <2>2, <2>3 DEF ThreadsMatch
<1>7. ASSUME exec # "unused", UNCHANGED <<exec, tasks, running, execing, ran>>,
             UNCHANGED <<open, raced, pc, posted>>
      PROVE  ThreadsMatch'
  BY <1>7 DEF ThreadsMatch, ThreadIsRight
<1>8. CASE OnMessage
  BY <1>7, <1>8 DEF OnMessage, Poll, MainFree
<1>9. CASE LoopStep
  <2>1. exec # "unused"
    BY <1>9 DEF LoopStep, MainFree
  <2>2. UNCHANGED <<open, raced, pc, posted>>
    BY <1>9 DEF LoopStep, Receive, ListenerReturns, EndLoop, Closed
  <2>3. QED  BY <1>7, <1>9, <2>1, <2>2 DEF LoopStep, asyncVars
<1>10. CASE Shutdown
  <2>1. /\ pc' = pc /\ posted' = posted /\ open' = open /\ raced' = raced
        /\ execing' = execing /\ running' = running /\ ran' = ran
        /\ exec = "running" /\ exec' = "joining"
    BY <1>10 DEF Shutdown, vars
  <2>2. \A p \in Posters : ThreadIsRight(p)' <=> ThreadIsRight(p)
    BY <2>1 DEF ThreadIsRight
  <2>3. QED  BY <2>1, <2>2 DEF ThreadsMatch
<1>11. CASE Join
  <2>1. /\ pc' = pc /\ posted' = posted /\ execing' = execing /\ ran' = ran
        /\ running' = running /\ tasks' = tasks /\ tasks = <<>>
        /\ open' = FALSE /\ exec = "joining" /\ exec' = "null"
        /\ \A p \in Posters : running[p] = 0
        /\ raced' = (raced \/ \E p \in Posters : pc[p] # "idle")
    BY <1>11 DEF Join, Close
  <2>2. ~raced /\ \A p \in Posters : ThreadIsRight(p) /\ pc[p] = "idle"
    BY <2>1 DEF ThreadsMatch, ThreadIsRight
  <2>3. \A p \in Posters : ThreadIsRight(p)'
    BY <2>1, <2>2 DEF ThreadIsRight
  <2>4. QED  BY <2>1, <2>2, <2>3 DEF ThreadsMatch
<1>12. CASE UNCHANGED asyncVars /\ (exec = "unused" \/ UNCHANGED vars)
  BY <1>7, <1>12 DEF asyncVars, vars
<1>13. QED
  BY <1>2, <1>3, <1>4, <1>5, <1>6, <1>8, <1>9, <1>10, <1>11, <1>12, AsyncCases

-----------------------------------------------------------------------------
(* The ids and their callbacks. *)

LEMMA SameIds ==
  ASSUME IdsMatch, UNCHANGED <<nextId, callbacks, called, execing>>
  PROVE  IdsMatch'
BY DEF IdsMatch, Called

LEMMA IdsNext == AsyncTypes /\ IdsMatch /\ [AsyncNext]_allVars => IdsMatch'
<1> SUFFICES ASSUME AsyncTypes, IdsMatch, [AsyncNext]_allVars
             PROVE  IdsMatch'
  OBVIOUS
<1>1. ASSUME NEW t \in Threads, ExecBegin(t)  PROVE IdsMatch'
  <2>1. PICK step \in {"put", "submit"} :
          execing' = [execing EXCEPT ![t] = [id |-> nextId + 1, step |-> step]]
    BY <1>1 DEF ExecBegin
  <2>2. /\ execing'[t].id = nextId + 1 /\ execing'[t].step = step
        /\ \A u \in Threads : u # t => execing'[u] = execing[u]
    BY <2>1 DEF AsyncTypes
  <2>3. /\ nextId' = nextId + 1 /\ nextId \in Nat /\ callbacks' = callbacks
        /\ called' = called /\ callbacks \subseteq Nat
    BY <1>1, Naturals DEF ExecBegin, AsyncTypes, Id
  <2>4. Called' = Called
    BY <2>3 DEF Called
  <2>5. nextId + 1 \notin Called /\ nextId + 1 \notin callbacks
    BY <2>3 DEF IdsMatch
  <2>6. \A u \in Threads : execing[u].step # "none" => execing[u].id \in 1..nextId
    BY DEF IdsMatch
  <2>7. \A u \in Threads : execing'[u].step # "none" =>
          /\ execing'[u].id \in 1..nextId'
          /\ execing'[u].step = "put" => /\ execing'[u].id \notin callbacks'
                                         /\ execing'[u].id \notin Called'
    BY <2>2, <2>3, <2>4, <2>5, <2>6 DEF IdsMatch
  <2>8. \A u, v \in Threads :
          /\ execing'[u].step # "none" /\ execing'[v].step # "none"
          /\ execing'[v].id = execing'[u].id
          => v = u
    <3>1. \A u, v \in Threads :
            /\ execing[u].step # "none" /\ execing[v].step # "none"
            /\ execing[v].id = execing[u].id
            => v = u
      BY DEF IdsMatch
    <3>2. \A u \in Threads : u # t /\ execing'[u].step # "none"
                              => execing'[u].id # nextId + 1
      BY <2>2, <2>3, <2>6
    <3>3. QED  BY <2>2, <3>1, <3>2
  <2>9. \A id \in Called : id \in Nat
    <3>1. \A i \in DOMAIN called : called[i] \in Id
      BY DEF AsyncTypes
    <3>2. QED  BY <3>1 DEF Called, Id
  <2>10. /\ \A id \in callbacks' : id <= nextId'
         /\ \A id \in Called' : id <= nextId' /\ id \notin callbacks'
    BY <2>3, <2>4, <2>9 DEF IdsMatch
  <2>11. QED  BY <2>3, <2>7, <2>8, <2>10 DEF IdsMatch
<1>2. ASSUME NEW t \in Threads, ExecPut(t)  PROVE IdsMatch'
  <2>1. /\ execing[t].step = "put" /\ execing'[t].step = "submit"
        /\ execing'[t].id = execing[t].id
        /\ \A u \in Threads : u # t => execing'[u] = execing[u]
    BY <1>2 DEF ExecPut, AsyncTypes
  <2>2. /\ nextId' = nextId /\ called' = called
        /\ callbacks' = callbacks \cup {execing[t].id}
    BY <1>2 DEF ExecPut
  <2>3. Called' = Called
    BY <2>2 DEF Called
  <2>4. execing[t].id \in 1..nextId /\ execing[t].id \notin Called
        /\ nextId \in Nat
    BY <2>1, Naturals DEF IdsMatch, AsyncTypes
  <2>5. \A u \in Threads : u # t /\ execing[u].step # "none"
                             => execing[u].id # execing[t].id
    BY <2>1 DEF IdsMatch
  <2>6. \A u \in Threads : execing'[u].step # "none" =>
          /\ execing[u].step # "none" /\ execing'[u].id = execing[u].id
          /\ execing'[u].step = "put" => execing[u].step = "put" /\ u # t
    BY <2>1
  <2>7. \A u \in Threads : execing'[u].step # "none" =>
          /\ execing'[u].id \in 1..nextId'
          /\ execing'[u].step = "put" => /\ execing'[u].id \notin callbacks'
                                         /\ execing'[u].id \notin Called'
    BY <2>2, <2>3, <2>5, <2>6 DEF IdsMatch
  <2>8. \A u, v \in Threads :
          /\ execing'[u].step # "none" /\ execing'[v].step # "none"
          /\ execing'[v].id = execing'[u].id
          => v = u
    <3>1. \A u, v \in Threads :
            /\ execing[u].step # "none" /\ execing[v].step # "none"
            /\ execing[v].id = execing[u].id
            => v = u
      BY DEF IdsMatch
    <3>2. QED  BY <2>6, <3>1
  <2>9. /\ \A id \in callbacks' : id <= nextId'
        /\ \A id \in Called' : id <= nextId' /\ id \notin callbacks'
    BY <2>2, <2>3, <2>4 DEF IdsMatch
  <2>10. QED  BY <2>2, <2>7, <2>8, <2>9 DEF IdsMatch
<1>3. ASSUME NEW t \in Threads, ExecSubmit(t)  PROVE IdsMatch'
  <2>1. /\ nextId' = nextId /\ called' = called /\ callbacks' = callbacks
        /\ execing' = [execing EXCEPT ![t] = NoExec]
    BY <1>3 DEF ExecSubmit
  <2>2. \A u \in Threads : execing'[u].step # "none" => execing'[u] = execing[u]
    BY <2>1 DEF AsyncTypes, NoExec
  <2>3. Called' = Called
    BY <2>1 DEF Called
  <2>4. QED  BY <2>1, <2>2, <2>3 DEF IdsMatch
<1>4. CASE OnMessage
  <2> DEFINE id == Carries(Head(queue))
  <2>1. CASE listening /\ id \in callbacks
    <3>1. /\ callbacks' = callbacks \ {id} /\ called' = Append(called, id)
          /\ nextId' = nextId /\ execing' = execing /\ id \in callbacks
      BY <1>4, <2>1 DEF OnMessage
    <3> HIDE DEF id
    <3>2. called \in Seq(Id) /\ id \in Id /\ id <= nextId /\ id \notin Called
      BY <3>1 DEF AsyncTypes, IdsMatch
    <3>3. /\ Len(called') = Len(called) + 1 /\ Len(called) \in Nat
          /\ called'[Len(called) + 1] = id
          /\ \A i \in DOMAIN called : i \in DOMAIN called' /\ i <= Len(called)
                                      /\ called'[i] = called[i]
          /\ \A i \in DOMAIN called' : i \in DOMAIN called \/ i = Len(called) + 1
      BY <3>1, <3>2
    <3>4. Called' = Called \cup {id}
      <4>1. Len(called) + 1 \in DOMAIN called'
        BY <3>1, <3>2
      <4>2. QED  BY <3>3, <4>1 DEF Called
    <3>5. \A i, j \in DOMAIN called' : called'[i] = called'[j] => i = j
      BY <3>2, <3>3 DEF IdsMatch, Called
    <3>6. \A u \in Threads : execing[u].step = "put" =>
            /\ execing[u].id \notin callbacks'
            /\ execing[u].id \notin Called'
      BY <3>1, <3>4 DEF IdsMatch
    <3>7. /\ \A x \in callbacks' : x <= nextId
          /\ \A x \in Called' : x <= nextId /\ x \notin callbacks'
      BY <3>1, <3>2, <3>4 DEF IdsMatch
    <3>8. QED  BY <3>1, <3>5, <3>6, <3>7 DEF IdsMatch
  <2>2. CASE ~(listening /\ id \in callbacks)
    BY <1>4, <2>2, SameIds DEF OnMessage
  <2>3. QED  BY <2>1, <2>2
<1>5. ASSUME NEW p \in Posters, TakeTask(p) \/ PostResult(p)  PROVE IdsMatch'
  BY <1>5, SameIds DEF TakeTask, PostResult
<1>6. CASE LoopStep \/ Shutdown \/ Join
  BY <1>6, SameIds DEF LoopStep, Shutdown, Join, asyncVars
<1>7. CASE UNCHANGED asyncVars
  BY <1>7, SameIds DEF asyncVars
<1>8. QED
  BY <1>1, <1>2, <1>3, <1>4, <1>5, <1>6, <1>7, AsyncCases

-----------------------------------------------------------------------------
(* The results. *)

LEMMA StillUsed == [AsyncNext]_allVars => (exec = "unused" <=> exec' = "unused")
<1> SUFFICES ASSUME [AsyncNext]_allVars
             PROVE  exec = "unused" <=> exec' = "unused"
  OBVIOUS
<1>1. ASSUME exec' = exec  PROVE exec = "unused" <=> exec' = "unused"
  BY <1>1
<1>2. ASSUME exec \in {"running", "joining"}, exec' # "unused"
      PROVE  exec = "unused" <=> exec' = "unused"
  BY <1>2
<1>3. QED
  BY <1>1, <1>2, AsyncCases
  DEF ExecBegin, ExecPut, ExecSubmit, TakeTask, PostResult, OnMessage,
      LoopStep, Shutdown, Join, asyncVars

LEMMA RanGrows ==
  ASSUME QueueTypes, AsyncTypes, ThreadsMatch, [AsyncNext]_allVars,
         exec # "unused", NEW p \in Posters, NEW k \in 1..posted[p]
  PROVE  k \in 1..posted'[p] /\ ran'[p][k] = ran[p][k]
<1>0. /\ posted \in [Posters -> 0..MaxPosts] /\ posted[p] \in Nat /\ k \in Nat
      /\ ran \in [Posters -> Seq(Id)]
  BY DEF QueueTypes, AsyncTypes
<1>1. ASSUME UNCHANGED <<posted, ran>>  PROVE k \in 1..posted'[p] /\ ran'[p][k] = ran[p][k]
  BY <1>1
<1>2. ASSUME NEW q \in Posters, TakeTask(q)
      PROVE  k \in 1..posted'[p] /\ ran'[p][k] = ran[p][k]
  <2>1. posted' = posted
    BY <1>2 DEF TakeTask, vars
  <2>2. CASE p = q
    <3>1. Len(ran[p]) = posted[p] /\ ran[p] \in Seq(Id) /\ Head(tasks) \in Id
      BY <1>2, <2>2 DEF TakeTask, ThreadsMatch, ThreadIsRight, AsyncTypes
    <3>2. ran'[p] = Append(ran[p], Head(tasks))
      BY <1>0, <1>2, <2>2 DEF TakeTask
    <3>3. QED  BY <1>0, <2>1, <3>1, <3>2
  <2>3. CASE p # q
    BY <1>0, <1>2, <2>1, <2>3 DEF TakeTask
  <2>4. QED  BY <2>2, <2>3
<1>3. ASSUME NEW q \in Posters, PostResult(q)
      PROVE  k \in 1..posted'[p] /\ ran'[p][k] = ran[p][k]
  <2>1. ran' = ran
    BY <1>3 DEF PostResult
  <2>2. posted' = posted \/ posted' = [posted EXCEPT ![q] = @ + 1]
    BY <1>3 DEF PostResult, PostCheck, PostOffer, PostSend
  <2>3. posted'[p] \in {posted[p], posted[p] + 1}
    BY <1>0, <2>2
  <2>4. QED  BY <1>0, <2>1, <2>3
<1>4. ASSUME NEW t \in Threads, ExecBegin(t) \/ ExecPut(t) \/ ExecSubmit(t)
      PROVE  k \in 1..posted'[p] /\ ran'[p][k] = ran[p][k]
  BY <1>1, <1>4 DEF ExecBegin, ExecPut, ExecSubmit, vars
<1>5. CASE OnMessage \/ Shutdown \/ Join
  BY <1>1, <1>5 DEF OnMessage, Poll, Shutdown, Join, Close, vars
<1>6. CASE LoopStep
  BY <1>1, <1>6
  DEF LoopStep, Receive, ListenerReturns, EndLoop, Closed, asyncVars
<1>7. CASE UNCHANGED asyncVars /\ UNCHANGED vars
  BY <1>1, <1>7 DEF asyncVars, vars
<1>8. QED
  BY <1>2, <1>3, <1>4, <1>5, <1>6, <1>7, AsyncCases

LEMMA HasRunStays ==
  ASSUME QueueTypes, AsyncTypes, ThreadsMatch, [AsyncNext]_allVars,
         exec # "unused", NEW p \in Posters, NEW k, NEW id, HasRun(p, k, id)
  PROVE  HasRun(p, k, id)'
BY RanGrows DEF HasRun

(* What a message of the queue carries has been run by its thread. *)
LEMMA CarriesRun ==
  ASSUME QueueTypes, AsyncTypes, ResultsMatch, exec # "unused",
         NEW i \in DOMAIN queue
  PROVE  LET m == queue[i]
         IN  /\ m.by \in Posters /\ m.n \in 1..posted[m.by]
             /\ HasRun(m.by, m.n, Carries(m))
             /\ m = [by |-> m.by, n |-> m.n]
<1>1. queue[i] \in Message
  BY DEF QueueTypes
<1>2. posted[queue[i].by] \in Nat
  BY <1>1 DEF QueueTypes, Message
<1>3. queue[i].n <= posted[queue[i].by]
  BY DEF ResultsMatch
<1>4. QED  BY <1>1, <1>2, <1>3, ConstantsAssumption DEF Message, HasRun, Carries

LEMMA ResultsNext ==
  /\ QueueTypes /\ AsyncTypes /\ ThreadsMatch /\ ResultsMatch
  /\ [AsyncNext]_allVars
  => ResultsMatch'
<1> SUFFICES ASSUME QueueTypes, AsyncTypes, ThreadsMatch, ResultsMatch,
                    [AsyncNext]_allVars, exec' # "unused"
             PROVE  ResultsMatch'
  BY DEF ResultsMatch
<1>1. exec # "unused"
  BY StillUsed
<1>2. ASSUME NEW id \in Called
      PROVE  \E p \in Posters : \E k \in 1..posted'[p] : HasRun(p, k, id)'
  <2>1. PICK p \in Posters : \E k \in 1..posted[p] : HasRun(p, k, id)
    BY <1>1, <1>2 DEF ResultsMatch
  <2>2. PICK k \in 1..posted[p] : HasRun(p, k, id)
    BY <2>1
  <2>3. HasRun(p, k, id)' /\ k \in 1..posted'[p]
    BY <1>1, <2>2, HasRunStays, RanGrows
  <2>4. QED  BY <2>3
<1>3. ASSUME NEW i \in DOMAIN queue
      PROVE  queue[i].n <= posted'[queue[i].by]
  <2>1. queue[i].by \in Posters /\ queue[i].n \in 1..posted[queue[i].by]
    BY <1>1, CarriesRun
  <2>2. queue[i].n \in 1..posted'[queue[i].by]
    BY <1>1, <2>1, RanGrows
  <2>3. posted'[queue[i].by] \in Nat
    BY <1>1, <2>1, TypesNext, AsyncStep DEF QueueTypes
  <2>4. QED  BY <2>2, <2>3
<1>4. ASSUME queue' = queue, called' = called  PROVE ResultsMatch'
  <2>1. Called' \subseteq Called
    BY <1>4 DEF Called
  <2>2. QED  BY <1>2, <1>3, <1>4, <2>1 DEF ResultsMatch
<1>5. CASE OnMessage
  <2>1. queue \in Seq(Message) /\ queue # <<>> /\ queue' = Tail(queue)
    BY <1>5 DEF OnMessage, Poll, QueueTypes
  <2>2. \A i \in DOMAIN queue' : i + 1 \in DOMAIN queue /\ queue'[i] = queue[i + 1]
    BY <2>1
  <2>3. \A i \in DOMAIN queue' : queue'[i].n <= posted'[queue'[i].by]
    BY <1>3, <2>2
  <2> DEFINE id == Carries(Head(queue))
  <2>4. called' = called \/ called' = Append(called, id)
    BY <1>5 DEF OnMessage
  <2>5. ASSUME NEW x, x = id
        PROVE  \E p \in Posters : \E k \in 1..posted'[p] : HasRun(p, k, x)'
    <3>1. 1 \in DOMAIN queue /\ Head(queue) = queue[1]
      BY <2>1
    <3>2. /\ queue[1].by \in Posters /\ queue[1].n \in 1..posted[queue[1].by]
          /\ HasRun(queue[1].by, queue[1].n, x)
      BY <1>1, <2>5, <3>1, CarriesRun
    <3> HIDE DEF id
    <3>3. PICK p \in Posters : \E k \in 1..posted[p] : HasRun(p, k, x)
      BY <3>2
    <3>4. PICK k \in 1..posted[p] : HasRun(p, k, x)
      BY <3>3
    <3>5. HasRun(p, k, x)' /\ k \in 1..posted'[p]
      BY <1>1, <3>4, HasRunStays, RanGrows
    <3>6. QED  BY <3>5
  <2> HIDE DEF id
  <2>6. called \in Seq(Id)
    BY DEF AsyncTypes
  <2>7. Called' \subseteq Called \cup {id}
    BY <2>4, <2>6 DEF Called
  <2>8. QED  BY <1>2, <2>3, <2>5, <2>7 DEF ResultsMatch
<1>6. ASSUME NEW p \in Posters, PostResult(p)  PROVE ResultsMatch'
  <2>1. called' = called
    BY <1>6 DEF PostResult
  <2>2. CASE queue' = queue
    BY <1>4, <2>1, <2>2
  <2>3. CASE PostOffer(p)
    <3>1. queue \in Seq(Message) /\ queue' = Append(queue, Posting(p))
          /\ posted' = posted /\ posted[p] \in Nat
      BY <2>3 DEF PostOffer, QueueTypes
    <3>2. Posting(p).by = p /\ Posting(p).n = posted[p]
      BY DEF Posting
    <3>3. \A i \in DOMAIN queue' : \/ i \in DOMAIN queue /\ queue'[i] = queue[i]
                                   \/ queue'[i] = Posting(p)
      BY <3>1
    <3>4. \A i \in DOMAIN queue' : queue'[i].n <= posted'[queue'[i].by]
      BY <1>3, <3>1, <3>2, <3>3
    <3>5. Called' \subseteq Called
      BY <2>1 DEF Called
    <3>6. QED  BY <1>2, <3>4, <3>5 DEF ResultsMatch
  <2>4. QED  BY <1>6, <2>2, <2>3 DEF PostResult, PostCheck, PostSend
<1>7. ASSUME NEW t \in Threads, ExecBegin(t) \/ ExecPut(t) \/ ExecSubmit(t)
      PROVE  ResultsMatch'
  BY <1>4, <1>7 DEF ExecBegin, ExecPut, ExecSubmit, vars
<1>8. ASSUME NEW p \in Posters, TakeTask(p)  PROVE ResultsMatch'
  BY <1>4, <1>8 DEF TakeTask, vars
<1>9. CASE LoopStep \/ Shutdown \/ Join
  BY <1>4, <1>9
  DEF LoopStep, Receive, ListenerReturns, EndLoop, Closed, Shutdown, Join,
      Close, vars, asyncVars
<1>10. CASE UNCHANGED asyncVars /\ UNCHANGED vars
  BY <1>4, <1>10 DEF asyncVars, vars
<1>11. QED
  BY <1>1, <1>5, <1>6, <1>7, <1>8, <1>9, <1>10, AsyncCases

-----------------------------------------------------------------------------
(* What was asked for comes. *)

(* A thread keeps what it has begun. *)
LEMMA RunWay ==
  ASSUME QueueTypes, AsyncTypes, ThreadsMatch, [AsyncNext]_allVars,
         exec # "unused", NEW p \in Posters, NEW k \in 1..posted[p], NEW id,
         HasRun(p, k, id),
         (pc'[p] = "offer" /\ k = posted'[p])
         \/ InQueue([by |-> p, n |-> k])'
  PROVE  OnItsWay(id)'
<1>1. HasRun(p, k, id)' /\ k \in 1..posted'[p]
  BY HasRunStays, RanGrows
<1>2. QED  BY <1>1 DEF OnItsWay

(* Until it is dropped or its message is delivered, a task and its result  *)
(* are on their way to the loop thread.                                    *)
LEMMA WayStays ==
  ASSUME QueueTypes, AsyncTypes, ThreadsMatch, IdsMatch, ResultsMatch,
         [AsyncNext]_allVars, exec # "unused",
         NEW id \in Id, OnItsWay(id), id \notin dropped',
         OnMessage => id # Carries(Head(queue))
  PROVE  OnItsWay(id)'
<1>0. /\ tasks \in Seq(Id) /\ queue \in Seq(Message)
      /\ running \in [Posters -> Id \cup {0}] /\ id # 0
      /\ pc \in [Posters -> {"idle", "offer", "send"}]
      /\ posted \in [Posters -> 0..MaxPosts]
  BY Naturals DEF AsyncTypes, QueueTypes
<1>1. ASSUME UNCHANGED <<running, pc, posted, ran, queue>>,
             \A i \in DOMAIN tasks : \E j \in DOMAIN tasks' : tasks'[j] = tasks[i]
      PROVE  OnItsWay(id)'
  BY <1>1 DEF OnItsWay, HasRun, InQueue
<1>2. ASSUME UNCHANGED <<tasks, running, pc, posted, ran, queue>>
      PROVE  OnItsWay(id)'
  BY <1>1, <1>2
<1>3. ASSUME NEW t \in Threads, ExecBegin(t) \/ ExecPut(t)
      PROVE  OnItsWay(id)'
  BY <1>2, <1>3 DEF ExecBegin, ExecPut, vars
<1>4. ASSUME NEW t \in Threads, ExecSubmit(t)  PROVE OnItsWay(id)'
  <2>1. \/ tasks' = tasks
        \/ tasks' = Append(tasks, execing[t].id)
    BY <1>4 DEF ExecSubmit
  <2>2. \A i \in DOMAIN tasks : i \in DOMAIN tasks' /\ tasks'[i] = tasks[i]
    <3> DEFINE x == execing[t].id
    <3>1. x \in Id
      BY <1>4, ExecingId DEF ExecSubmit
    <3>2. tasks' = tasks \/ tasks' = Append(tasks, x)
      BY <2>1
    <3> HIDE DEF x
    <3>3. CASE tasks' = tasks
      BY <3>3
    <3>4. CASE tasks' = Append(tasks, x)
      BY <1>0, <3>1, <3>4, Appended
    <3>5. QED  BY <3>2, <3>3, <3>4
  <2>3. UNCHANGED <<running, pc, posted, ran, queue>>
    BY <1>4 DEF ExecSubmit, vars
  <2>4. QED  BY <1>1, <2>2, <2>3
<1>5. ASSUME NEW p \in Posters, TakeTask(p)  PROVE OnItsWay(id)'
  <2>1. /\ tasks # <<>> /\ tasks' = Tail(tasks) /\ running[p] = 0
        /\ running' = [running EXCEPT ![p] = Head(tasks)]
        /\ pc' = pc /\ queue' = queue /\ posted' = posted
    BY <1>5 DEF TakeTask, vars
  <2>2. pc[p] = "idle"
    BY <2>1 DEF ThreadsMatch, ThreadIsRight
  <2>3. ASSUME NEW i \in DOMAIN tasks, tasks[i] = id  PROVE OnItsWay(id)'
    <3>1. CASE i = 1
      <4>1. running'[p] = id /\ pc'[p] = "idle"
        BY <1>0, <2>1, <2>2, <2>3, <3>1
      <4>2. QED  BY <4>1 DEF OnItsWay
    <3>2. CASE i # 1
      <4>1. i - 1 \in DOMAIN tasks' /\ tasks'[i - 1] = id
        BY <1>0, <2>1, <2>3, <3>2
      <4>2. QED  BY <4>1 DEF OnItsWay
    <3>3. QED  BY <3>1, <3>2
  <2>4. ASSUME NEW q \in Posters, running[q] = id, pc[q] = "idle"
        PROVE  OnItsWay(id)'
    <3>1. running'[q] = id /\ pc'[q] = "idle"
      BY <1>0, <2>1, <2>4
    <3>2. QED  BY <3>1 DEF OnItsWay
  <2>5. ASSUME NEW q \in Posters, NEW k \in 1..posted[q], HasRun(q, k, id),
               (pc[q] = "offer" /\ k = posted[q]) \/ InQueue([by |-> q, n |-> k])
        PROVE  OnItsWay(id)'
    <3>1. (pc'[q] = "offer" /\ k = posted'[q]) \/ InQueue([by |-> q, n |-> k])'
      BY <2>1, <2>5 DEF InQueue
    <3>2. QED  BY <2>5, <3>1, RunWay
  <2>6. QED  BY <2>3, <2>4, <2>5 DEF OnItsWay
<1>6. ASSUME NEW p \in Posters, PostResult(p)  PROVE OnItsWay(id)'
  <2>1. /\ tasks' = tasks /\ ran' = ran /\ running[p] # 0
        /\ ThreadIsRight(p) /\ open
    BY <1>6 DEF PostResult, ThreadsMatch, ThreadIsRight
  <2>2. \A q \in Posters : q # p => running'[q] = running[q] /\ pc'[q] = pc[q]
                                    /\ posted'[q] = posted[q]
    BY <1>0, <1>6 DEF PostResult, PostCheck, PostOffer, PostSend
  <2>3. \A m : InQueue(m) => InQueue(m)'
    <3>1. queue' = queue \/ queue' = Append(queue, Posting(p))
      BY <1>6 DEF PostResult, PostCheck, PostOffer, PostSend
    <3>2. \A i \in DOMAIN queue : i \in DOMAIN queue' /\ queue'[i] = queue[i]
      BY <1>0, <3>1
    <3>3. QED  BY <3>2 DEF InQueue
  <2>4. ASSUME NEW i \in DOMAIN tasks, tasks[i] = id  PROVE OnItsWay(id)'
    BY <2>1, <2>4 DEF OnItsWay
  <2>5. ASSUME NEW q \in Posters, running[q] = id, pc[q] = "idle"
        PROVE  OnItsWay(id)'
    <3>1. CASE q # p
      BY <2>2, <2>5, <3>1 DEF OnItsWay
    <3>2. CASE q = p
      <4>1. PostCheck(p)
        BY <1>6, <2>5, <3>2 DEF PostResult, PostOffer, PostSend
      <4>2. pc'[p] = "offer" /\ posted'[p] = posted[p] + 1
        BY <1>0, <2>1, <4>1 DEF PostCheck
      <4>3. PICK k \in Nat : k = Len(ran[p])
        BY <1>0, <2>1, <2>5, <3>2 DEF ThreadIsRight
      <4>4. k = posted'[p] /\ ran'[p][k] = id /\ k > 0
        BY <1>0, <2>1, <2>5, <3>2, <4>2, <4>3 DEF ThreadIsRight
      <4>5. k \in 1..posted'[p] /\ HasRun(p, k, id)'
        BY <4>3, <4>4 DEF HasRun
      <4>6. QED  BY <4>2, <4>4, <4>5 DEF OnItsWay
    <3>3. QED  BY <3>1, <3>2
  <2>6. ASSUME NEW q \in Posters, NEW k \in 1..posted[q], HasRun(q, k, id),
               (pc[q] = "offer" /\ k = posted[q]) \/ InQueue([by |-> q, n |-> k])
        PROVE  OnItsWay(id)'
    <3>1. CASE InQueue([by |-> q, n |-> k])
      BY <2>3, <2>6, <3>1, RunWay
    <3>2. CASE q # p /\ pc[q] = "offer" /\ k = posted[q]
      BY <2>2, <2>6, <3>2, RunWay
    <3>3. CASE q = p /\ pc[p] = "offer" /\ k = posted[p]
      <4>1. PostOffer(p)
        BY <1>6, <3>3 DEF PostResult, PostCheck, PostSend
      <4>2. queue' = Append(queue, [by |-> q, n |-> k])
        BY <3>3, <4>1 DEF PostOffer, Posting
      <4>3. /\ Len(queue) + 1 \in DOMAIN queue'
            /\ queue'[Len(queue) + 1] = [by |-> q, n |-> k]
        BY <1>0, <4>2
      <4>4. InQueue([by |-> q, n |-> k])'
        BY <4>3 DEF InQueue
      <4>5. QED  BY <2>6, <4>4, RunWay
    <3>4. QED  BY <2>6, <3>1, <3>2, <3>3
  <2>7. QED  BY <2>4, <2>5, <2>6 DEF OnItsWay
<1>7. CASE OnMessage
  <2>1. /\ tasks' = tasks /\ running' = running /\ pc' = pc /\ posted' = posted
        /\ queue # <<>> /\ queue' = Tail(queue)
    BY <1>7 DEF OnMessage, Poll
  <2>2. ASSUME NEW q \in Posters, NEW k \in 1..posted[q], HasRun(q, k, id),
               (pc[q] = "offer" /\ k = posted[q]) \/ InQueue([by |-> q, n |-> k])
        PROVE  OnItsWay(id)'
    <3>1. CASE pc[q] = "offer" /\ k = posted[q]
      BY <2>1, <2>2, <3>1, RunWay
    <3>2. CASE InQueue([by |-> q, n |-> k])
      <4>1. PICK i \in DOMAIN queue : queue[i] = [by |-> q, n |-> k]
        BY <3>2 DEF InQueue
      <4>2. Carries(queue[i]) = id
        BY <2>2, <4>1 DEF Carries, HasRun
      <4>3. i # 1
        BY <1>0, <1>7, <2>1, <4>2
      <4>4. i - 1 \in DOMAIN queue' /\ queue'[i - 1] = [by |-> q, n |-> k]
        BY <1>0, <2>1, <4>1, <4>3
      <4>5. InQueue([by |-> q, n |-> k])'
        BY <4>4 DEF InQueue
      <4>6. QED  BY <2>2, <4>5, RunWay
    <3>3. QED  BY <2>2, <3>1, <3>2
  <2>3. QED  BY <2>1, <2>2 DEF OnItsWay
<1>8. CASE LoopStep
  BY <1>2, <1>8
  DEF LoopStep, Receive, ListenerReturns, EndLoop, Closed, asyncVars
<1>9. CASE Shutdown
  <2>1. UNCHANGED <<running, pc, posted, ran, queue>>
    BY <1>9 DEF Shutdown, vars
  <2>2. CASE tasks' = tasks
    BY <1>1, <2>1, <2>2
  <2>3. CASE dropped' = dropped \cup {tasks[i] : i \in DOMAIN tasks}
    <3>1. \A i \in DOMAIN tasks : tasks[i] # id
      BY <2>3
    <3>2. QED  BY <2>1, <3>1 DEF OnItsWay, HasRun, InQueue
  <2>4. QED  BY <1>9, <2>2, <2>3 DEF Shutdown
<1>10. CASE Join
  BY <1>2, <1>10 DEF Join, Close
<1>11. CASE UNCHANGED asyncVars /\ UNCHANGED vars
  BY <1>2, <1>11 DEF asyncVars, vars
<1>12. QED
  BY <1>3, <1>4, <1>5, <1>6, <1>7, <1>8, <1>9, <1>10, <1>11, AsyncCases

LEMMA WantedNext ==
  /\ QueueInv /\ AsyncInv /\ [AsyncNext]_allVars
  => WantedMatch'
<1> SUFFICES ASSUME QueueInv, AsyncInv, [AsyncNext]_allVars,
                    exec' # "unused", NEW id \in wanted' \ dropped'
             PROVE  id \in Called' \/ (id \in callbacks' /\ OnItsWay(id)')
  BY DEF WantedMatch
<1>0. /\ exec # "unused" /\ QueueTypes /\ AsyncTypes /\ ThreadsMatch
      /\ IdsMatch /\ ResultsMatch /\ WantedMatch
      /\ called \in Seq(Id) /\ queue \in Seq(Message)
  BY StillUsed DEF QueueInv, AsyncInv, AsyncTypes, QueueTypes
<1>1. dropped \subseteq dropped'
  BY AsyncCases
  DEF ExecBegin, ExecPut, ExecSubmit, TakeTask, PostResult, OnMessage,
      LoopStep, Shutdown, Join, asyncVars
<1>2. Called \subseteq Called'
  <2>1. called' = called \/ called' = Append(called, Carries(Head(queue)))
    BY AsyncCases
    DEF ExecBegin, ExecPut, ExecSubmit, TakeTask, PostResult, OnMessage,
        LoopStep, Shutdown, Join, asyncVars
  <2>2. \A i \in DOMAIN called : i \in DOMAIN called' /\ called'[i] = called[i]
    BY <1>0, <2>1
  <2>3. QED  BY <2>2 DEF Called
<1>3. ASSUME id \in wanted, id \notin Called'
      PROVE  id \in callbacks' /\ OnItsWay(id)'
  <2>1. id \in callbacks /\ OnItsWay(id) /\ id \in Id
    BY <1>0, <1>1, <1>2, <1>3 DEF WantedMatch, AsyncTypes
  <2>2. ASSUME OnMessage  PROVE id \in callbacks' /\ id # Carries(Head(queue))
    <3> DEFINE x == Carries(Head(queue))
    <3>1. ~raced /\ queue # <<>>
      BY <1>0, <2>2 DEF ThreadsMatch, OnMessage, Poll
    <3>2. listening
      BY <3>1 DEF QueueInv, NothingLost
    <3>3. \/ callbacks' = callbacks \ {x} /\ called' = Append(called, x)
          \/ callbacks' = callbacks /\ x \notin callbacks
      BY <2>2, <3>2 DEF OnMessage
    <3> HIDE DEF x
    <3>4. called' = Append(called, x) => x \in Called'
      <4>1. called' = Append(called, x)
             => /\ Len(called) + 1 \in DOMAIN called'
                /\ called'[Len(called) + 1] = x
        BY <1>0
      <4>2. QED  BY <4>1 DEF Called
    <3>5. id # x /\ id \in callbacks'
      BY <1>3, <2>1, <3>3, <3>4
    <3>6. QED  BY <3>5 DEF x
  <2>3. OnItsWay(id)'
    BY <1>0, <2>1, <2>2, WayStays
  <2>4. ~OnMessage => callbacks \subseteq callbacks'
    BY AsyncCases
    DEF ExecBegin, ExecPut, ExecSubmit, TakeTask, PostResult,
        LoopStep, Shutdown, Join, asyncVars
  <2>5. QED  BY <2>1, <2>2, <2>3, <2>4
<1>4. ASSUME id \notin wanted  PROVE id \in callbacks' /\ OnItsWay(id)'
  <2>1. PICK t \in Threads : ExecSubmit(t)
    BY <1>4, AsyncCases
    DEF ExecBegin, ExecPut, TakeTask, PostResult, OnMessage,
        LoopStep, Shutdown, Join, asyncVars
  <2>2. /\ id \in callbacks /\ id = execing[t].id /\ callbacks' = callbacks
        /\ tasks' = Append(tasks, id)
    BY <1>4, <2>1 DEF ExecSubmit
  <2>3. tasks \in Seq(Id) /\ id \in Id
    BY <1>0, <2>2 DEF AsyncTypes
  <2>4. Len(tasks) + 1 \in DOMAIN tasks' /\ tasks'[Len(tasks) + 1] = id
    BY <2>2, <2>3
  <2>5. QED  BY <2>2, <2>4 DEF OnItsWay
<1>5. QED  BY <1>2, <1>3, <1>4

-----------------------------------------------------------------------------
LEMMA AsyncInitial == AsyncInit => QueueInv /\ AsyncInv
<1> SUFFICES ASSUME AsyncInit PROVE QueueInv /\ AsyncInv
  OBVIOUS
<1>1. QueueInv
  <2>1. CASE Init
    BY <2>1, QueueInit
  <2>2. CASE Created
    <3>1. [p \in Posters |-> 0] \in [Posters -> 0..MaxPosts]
      BY ConstantsAssumption
    <3>2. /\ pc \in [Posters -> {"idle", "offer", "send"}]
          /\ \A p \in Posters : pc[p] = "idle"
          /\ posted \in [Posters -> 0..MaxPosts]
      BY <2>2, <3>1 DEF Created
    <3>3. <<>> \in Seq(Message) /\ <<>> \in Seq(Frame)
      OBVIOUS
    <3>4. QueueTypes
      BY <2>2, <3>2, <3>3 DEF Created, QueueTypes
    <3>5. ClosesLast /\ NothingLost
      BY <2>2, <3>2 DEF Created, ClosesLast, NothingLost, Closing
    <3>6. QED  BY <3>4, <3>5 DEF QueueInv
  <2>3. QED  BY <2>1, <2>2 DEF AsyncInit
<1>2. /\ nextId = 0 /\ callbacks = {} /\ tasks = <<>> /\ called = <<>>
      /\ wanted = {} /\ dropped = {}
      /\ running \in [Posters -> Id \cup {0}]
      /\ ran \in [Posters -> Seq(Id)]
      /\ execing \in [Threads -> [id: Id \cup {0}, step: {"none", "put", "submit"}]]
      /\ \A p \in Posters : running[p] = 0 /\ ran[p] = <<>>
      /\ \A t \in Threads : execing[t].step = "none"
      /\ (exec = "unused" \/ (exec = "running" /\ Created))
  <2>1. exec = "unused" \/ (exec = "running" /\ Created)
    BY DEF AsyncInit, Created
  <2>2. running = [p \in Posters |-> 0] /\ ran = [p \in Posters |-> <<>>]
    BY DEF AsyncInit
  <2>3. <<>> \in Seq(Id)
    OBVIOUS
  <2>4. /\ running \in [Posters -> Id \cup {0}]
        /\ ran \in [Posters -> Seq(Id)]
        /\ \A p \in Posters : running[p] = 0 /\ ran[p] = <<>>
    BY <2>2, <2>3
  <2>5. execing = [t \in Threads |-> [id |-> 0, step |-> "none"]]
    BY DEF AsyncInit, NoExec
  <2>6. /\ execing \in [Threads -> [id: Id \cup {0}, step: {"none", "put", "submit"}]]
        /\ \A t \in Threads : execing[t].step = "none"
    BY <2>5
  <2>7. QED  BY <2>1, <2>4, <2>6 DEF AsyncInit
<1>3. AsyncTypes
  <2>1. <<>> \in Seq(Id) /\ 0 \in 0..MaxTasks
    BY Naturals
  <2>2. QED  BY <1>2, <2>1 DEF AsyncTypes
<1>4. ThreadsMatch
  <2>1. ASSUME Created, NEW p \in Posters  PROVE ThreadIsRight(p)
    <3>1. p \in Threads /\ pc[p] = "idle" /\ posted[p] = 0
      BY <2>1, Naturals DEF Created
    <3>2. QED  BY <1>2, <3>1 DEF ThreadIsRight
  <2>2. QED  BY <1>2, <2>1 DEF ThreadsMatch, Created
<1>5. Called = {} /\ (exec # "unused" => queue = <<>>)
  BY <1>2 DEF Called, Created
<1>6. IdsMatch /\ ResultsMatch /\ WantedMatch
  BY <1>2, <1>5 DEF IdsMatch, ResultsMatch, WantedMatch
<1>7. QED  BY <1>1, <1>3, <1>4, <1>6 DEF AsyncInv

LEMMA AsyncInvNext ==
  QueueInv /\ AsyncInv /\ [AsyncNext]_allVars => (QueueInv /\ AsyncInv)'
BY AsyncStep, QueueNext, AsyncTypesNext, ThreadsNext, IdsNext, ResultsNext,
   WantedNext
DEF AsyncInv, QueueInv

LEMMA AsyncInvariance == AsyncSpec => [](QueueInv /\ AsyncInv)
<1>1. QED  BY AsyncInitial, AsyncInvNext, PTL DEF AsyncSpec

LEMMA AsyncImplies == QueueInv /\ AsyncInv => CallbacksOnce
<1> SUFFICES ASSUME QueueInv, AsyncInv, exec # "unused"
             PROVE  CallbacksOnce
  BY DEF CallbacksOnce
<1>1. \A i, j \in DOMAIN called : called[i] = called[j] => i = j
  BY DEF AsyncInv, IdsMatch
<1>2. ASSUME NEW i \in DOMAIN called
      PROVE  \E p \in Posters : \E k \in 1..posted[p] : ran[p][k] = called[i]
  <2>1. called[i] \in Called
    BY DEF Called
  <2>2. QED  BY <2>1 DEF AsyncInv, ResultsMatch, HasRun
<1>3. ~sentClosed
  BY DEF AsyncInv, ThreadsMatch, QueueInv, NothingLost
<1>4. ASSUME exec = "null", frames = <<>>, NEW id \in wanted \ dropped
      PROVE  \E i \in DOMAIN called : called[i] = id
  <2>1. tasks = <<>> /\ ~open /\ ~raced
    BY <1>4 DEF AsyncInv, ThreadsMatch
  <2>2. \A p \in Posters : running[p] = 0 /\ pc[p] = "idle"
    BY <1>4, <2>1 DEF AsyncInv, ThreadsMatch, ThreadIsRight
  <2>3. queue = <<>>
    BY <1>4, <2>1 DEF QueueInv, NothingLost, Closing
  <2>4. id \in Id
    BY DEF AsyncInv, AsyncTypes
  <2>5. ~OnItsWay(id)
    BY <2>1, <2>2, <2>3, <2>4, Naturals DEF OnItsWay, InQueue
  <2>6. id \in Called
    BY <2>5 DEF AsyncInv, WantedMatch
  <2>7. QED  BY <2>6 DEF Called
<1>5. QED  BY <1>1, <1>2, <1>3, <1>4 DEF CallbacksOnce

(* For any number of threads, tasks and nested calls of exec(): a callback *)
(* is called at most once and for a task that has run, no thread posts to  *)
(* the closed handle, and when close() has returned every callback asked   *)
(* for has been called, unless the executor dropped its task.              *)
THEOREM CalledOnce == AsyncSpec => []CallbacksOnce
<1>1. QED  BY AsyncInvariance, AsyncImplies, PTL

(* Async closes its queue only when no thread is in postMessage(), so its  *)
(* queue loses nothing.                                                    *)
THEOREM AsyncLosesNothing ==
  AsyncSpec => [](QuietIsLossless /\ (exec # "unused" => ~raced))
<1>1. AsyncInv => (exec # "unused" => ~raced)
  BY DEF AsyncInv, ThreadsMatch
<1>2. QED  BY <1>1, AsyncInvariance, QueueImplies, PTL

(* Every step of Async, or of a queue by itself, keeps the listeners       *)
(* silent once close() has returned.                                       *)
THEOREM AsyncIsSilent == AsyncSpec => SilentWhenClosed
<1>1. QueueInv /\ [AsyncNext]_allVars =>
        [~open /\ (\A i \in DOMAIN frames : frames[i].from # "close")
           => delivered' = delivered]_vars
  BY AsyncStep, QueueSilent
<1>2. QED  BY <1>1, AsyncInvariance, PTL DEF AsyncSpec, SilentWhenClosed

-----------------------------------------------------------------------------
(* Timers.                                                                 *)

(* The condition, without which the code does misuse deleted Timers. *)
Careful == ClearsLate = FALSE /\ "nothing" \notin Reactions

ATimer == [owner : {"socket", "timeout", "interval"}, delay : 0..TimeoutMax,
           left : 0..TimeoutMax, state : {"started", "closed", "deleted"}]

State == [timers : Seq(ATimer), timer_ : Nat, timeout_ : Nat, destroyed : BOOLEAN,
          quiet : 0..TimeoutMax, misused : BOOLEAN]

(* timer_ is a Timer of the socket that runs, or UNDEFINED. *)
TimerIsThere(s) ==
  s.timer_ # UNDEFINED =>
    /\ s.timer_ \in DOMAIN s.timers /\ ~s.destroyed
    /\ s.timers[s.timer_].owner = "socket" /\ s.timers[s.timer_].state = "started"

(* No other Timer of the socket runs, and by the time it has none left the *)
(* socket was quiet for timeout_.                                          *)
OnlyOne(s) ==
  \A i \in DOMAIN s.timers :
    s.timers[i].owner = "socket" /\ s.timers[i].state = "started" =>
      /\ i = s.timer_ /\ s.timers[i].delay = Delay(s.timeout_)
      /\ s.timers[i].delay - s.timers[i].left <= s.quiet

(* The inductive invariant. *)
Good(s) == s \in State /\ ~s.misused /\ TimerIsThere(s) /\ OnlyOne(s)

IInv == Good(S)

LEMMA DelayBound == \A d \in Nat : Delay(d) \in 1..TimeoutMax
  BY TimersAssumption, SMT DEF Delay

LEMMA ClosedType ==
  ASSUME NEW t \in ATimer
  PROVE  ClosedTimer(t) \in ATimer /\ ClosedTimer(t).state = "closed" /\ ClosedTimer(t).owner = t.owner
<1>1. 0 \in 0..TimeoutMax
  BY TimersAssumption
<1> QED BY <1>1 DEF ClosedTimer, ATimer

(* What CloseTimer does to a Timer that is not deleted. *)
LEMMA CloseStep ==
  ASSUME NEW s \in State, NEW i \in DOMAIN s.timers, s.timers[i].state # "deleted",
         NEW c, c = CloseTimer(s, i)
  PROVE  /\ c \in State /\ DOMAIN c.timers = DOMAIN s.timers
         /\ c.timer_ = s.timer_ /\ c.timeout_ = s.timeout_
         /\ c.destroyed = s.destroyed /\ c.quiet = s.quiet /\ c.misused = s.misused
         /\ \A j \in DOMAIN s.timers : j # i => c.timers[j] = s.timers[j]
         /\ c.timers[i].state = "closed" /\ c.timers[i].owner = s.timers[i].owner
<1> DEFINE t == [s.timers EXCEPT ![i] = ClosedTimer(s.timers[i])]
<1>1. s.timers \in Seq(ATimer) /\ s.timers[i] \in ATimer
  BY DEF State
<1>2. CASE s.timers[i].state = "closed"
  <2>1. c = s
    BY <1>2 DEF CloseTimer
  <2> QED BY <2>1, <1>2
<1>3. CASE s.timers[i].state = "started"
  <2>1. c = [s EXCEPT !.timers = t]
    BY <1>3 DEF CloseTimer, State
  <2>2. ClosedTimer(s.timers[i]) \in ATimer
    BY <1>1, ClosedType
  <2>3. t \in Seq(ATimer) /\ DOMAIN t = DOMAIN s.timers
    BY <1>1, <2>2
  <2>4. /\ c.timers = t /\ c.timer_ = s.timer_ /\ c.timeout_ = s.timeout_
        /\ c.destroyed = s.destroyed /\ c.quiet = s.quiet /\ c.misused = s.misused
    BY <2>1 DEF State
  <2>5. c \in State
    BY <2>1, <2>3 DEF State
  <2>6. t[i] = ClosedTimer(s.timers[i]) /\ \A j \in DOMAIN s.timers : j # i => t[j] = s.timers[j]
    BY <2>3
  <2> QED BY <1>1, <2>3, <2>4, <2>5, <2>6, ClosedType
<1> QED BY <1>1, <1>2, <1>3 DEF ATimer

(* Closing a Timer that is not that of the socket. *)
LEMMA CloseOther ==
  ASSUME NEW s, Good(s), NEW i \in DOMAIN s.timers, i # s.timer_,
         s.timers[i].state # "deleted"
  PROVE  Good(CloseTimer(s, i)) /\ CloseTimer(s, i).timer_ = s.timer_
         /\ DOMAIN CloseTimer(s, i).timers = DOMAIN s.timers
<1> DEFINE c == CloseTimer(s, i)
<1>1. /\ c \in State /\ DOMAIN c.timers = DOMAIN s.timers
      /\ c.timer_ = s.timer_ /\ c.timeout_ = s.timeout_
      /\ c.destroyed = s.destroyed /\ c.quiet = s.quiet /\ c.misused = s.misused
      /\ \A j \in DOMAIN s.timers : j # i => c.timers[j] = s.timers[j]
      /\ c.timers[i].state = "closed" /\ c.timers[i].owner = s.timers[i].owner
  BY CloseStep DEF Good
<1> HIDE DEF c
<1>2. TimerIsThere(c)
  BY <1>1 DEF TimerIsThere, Good
<1>3. OnlyOne(c)
  BY <1>1 DEF OnlyOne, Good
<1> QED BY <1>1, <1>2, <1>3 DEF Good, c

(* finishTimer() *)
LEMMA FinishGood ==
  ASSUME NEW s, Good(s), NEW f, f = FinishTimer(s)
  PROVE  /\ Good(f) /\ f.timer_ = UNDEFINED /\ f.timeout_ = s.timeout_
         /\ f.destroyed = s.destroyed /\ f.quiet = s.quiet
         /\ DOMAIN f.timers = DOMAIN s.timers
         /\ \A j \in DOMAIN s.timers : f.timers[j].owner = s.timers[j].owner
         /\ s.timer_ # UNDEFINED => f.timers[s.timer_].state = "closed"
         /\ \A j \in DOMAIN s.timers : j # s.timer_ => f.timers[j] = s.timers[j]
<1>1. CASE s.timer_ = UNDEFINED
  <2>1. f = s
    BY <1>1 DEF FinishTimer, Good, State
  <2> QED BY <1>1, <2>1
<1>2. CASE s.timer_ # UNDEFINED
  <2> DEFINE c == CloseTimer(s, s.timer_)
  <2>1. s.timer_ \in DOMAIN s.timers /\ s.timers[s.timer_].state = "started"
    BY <1>2 DEF Good, TimerIsThere
  <2>2. /\ c \in State /\ DOMAIN c.timers = DOMAIN s.timers
        /\ c.timer_ = s.timer_ /\ c.timeout_ = s.timeout_
        /\ c.destroyed = s.destroyed /\ c.quiet = s.quiet /\ c.misused = s.misused
        /\ \A j \in DOMAIN s.timers : j # s.timer_ => c.timers[j] = s.timers[j]
        /\ c.timers[s.timer_].state = "closed"
        /\ c.timers[s.timer_].owner = s.timers[s.timer_].owner
    BY <2>1, CloseStep DEF Good
  <2>3. f = [c EXCEPT !.timer_ = UNDEFINED]
    BY <1>2 DEF FinishTimer
  <2> HIDE DEF c
  <2>4. /\ f \in State /\ f.timers = c.timers /\ f.timer_ = UNDEFINED
        /\ f.timeout_ = c.timeout_ /\ f.destroyed = c.destroyed
        /\ f.quiet = c.quiet /\ f.misused = c.misused
    BY <2>2, <2>3 DEF State, UNDEFINED
  <2>5. TimerIsThere(f)
    BY <2>4 DEF TimerIsThere
  <2>6. OnlyOne(f)
    BY <2>2, <2>4 DEF OnlyOne, Good
  <2> QED BY <2>1, <2>2, <2>4, <2>5, <2>6 DEF Good
<1> QED BY <1>1, <1>2

(* active() and its like forget how long the socket was quiet: no matter to *)
(* a Timer that has just been started.                                     *)
LEMMA QuietReset ==
  ASSUME NEW s, Good(s), NEW q, q = [s EXCEPT !.quiet = 0],
         \A i \in DOMAIN s.timers :
           s.timers[i].owner = "socket" /\ s.timers[i].state = "started" =>
             s.timers[i].delay = s.timers[i].left
  PROVE  Good(q) /\ q.timers = s.timers /\ q.timer_ = s.timer_
<1>1. 0 \in 0..TimeoutMax
  BY TimersAssumption
<1>2. /\ q \in State /\ q.timers = s.timers /\ q.timer_ = s.timer_
      /\ q.timeout_ = s.timeout_ /\ q.destroyed = s.destroyed
      /\ q.misused = s.misused /\ q.quiet = 0
  BY <1>1 DEF Good, State
<1>3. \A i \in DOMAIN s.timers : s.timers[i] \in ATimer
  BY DEF Good, State
<1>4. OnlyOne(q)
  BY <1>2, <1>3, TimersAssumption DEF OnlyOne, Good, ATimer
<1>5. TimerIsThere(q)
  BY <1>2 DEF TimerIsThere, Good
<1> QED BY <1>2, <1>4, <1>5 DEF Good

LEMMA NewTimerType ==
  ASSUME NEW d \in Nat, NEW owner \in {"socket", "timeout", "interval"},
         NEW t, t = NewTimer(owner, d)
  PROVE  /\ t \in ATimer /\ t.owner = owner /\ t.state = "started"
         /\ t.delay = Delay(d) /\ t.left = Delay(d)
<1>1. Delay(d) \in 0..TimeoutMax
  BY DelayBound
<1> QED BY <1>1 DEF NewTimer, ATimer

(* startTimer() *)
LEMMA StartGood ==
  ASSUME NEW s, Good(s), ~s.destroyed, NEW d \in Nat, NEW n, n = StartTimer(s, d)
  PROVE  /\ Good(n) /\ n.timeout_ = d /\ DOMAIN s.timers \subseteq DOMAIN n.timers
         /\ \A j \in DOMAIN n.timers :
              n.timers[j].owner = "socket" /\ n.timers[j].state = "started" =>
                n.timers[j].delay = n.timers[j].left
         /\ s.timer_ # UNDEFINED => n.timers[s.timer_].state = "closed"
         /\ \A j \in DOMAIN s.timers : j # s.timer_ => n.timers[j] = s.timers[j]
<1> DEFINE f  == FinishTimer(s)
           t  == NewTimer("socket", d)
           ts == Append(f.timers, t)
           l  == Len(s.timers) + 1
<1>1. /\ Good(f) /\ f.timer_ = UNDEFINED /\ f.destroyed = s.destroyed
      /\ DOMAIN f.timers = DOMAIN s.timers
      /\ s.timer_ # UNDEFINED => f.timers[s.timer_].state = "closed"
      /\ \A j \in DOMAIN s.timers : j # s.timer_ => f.timers[j] = s.timers[j]
  BY FinishGood
<1>2. /\ t \in ATimer /\ t.owner = "socket" /\ t.state = "started"
      /\ t.delay = Delay(d) /\ t.left = Delay(d)
  BY NewTimerType
<1>3. n = [f EXCEPT !.timers = ts, !.timer_ = l, !.timeout_ = d]
  BY DEF StartTimer
<1> HIDE DEF f, t
<1>4. f \in State /\ f.timers \in Seq(ATimer) /\ s.timers \in Seq(ATimer)
  BY <1>1 DEF Good, State
<1>5. Len(f.timers) = Len(s.timers) /\ Len(s.timers) \in Nat /\ DOMAIN s.timers = 1..Len(s.timers)
  BY <1>1, <1>4
<1>6. /\ ts \in Seq(ATimer) /\ DOMAIN ts = 1..l /\ ts[l] = t
      /\ \A j \in DOMAIN s.timers : ts[j] = f.timers[j]
  BY <1>2, <1>4, <1>5
<1> HIDE DEF ts
<1>7. /\ n \in State /\ n.timers = ts /\ n.timer_ = l /\ n.timeout_ = d
      /\ n.destroyed = f.destroyed /\ n.quiet = f.quiet /\ n.misused = f.misused
  <2>1. l \in Nat
    BY <1>5
  <2> HIDE DEF l
  <2>2. /\ f.timer_ \in Nat /\ f.timeout_ \in Nat /\ f.destroyed \in BOOLEAN
        /\ f.quiet \in 0..TimeoutMax /\ f.misused \in BOOLEAN
        /\ f = [timers |-> f.timers, timer_ |-> f.timer_, timeout_ |-> f.timeout_,
                destroyed |-> f.destroyed, quiet |-> f.quiet, misused |-> f.misused]
    BY <1>4 DEF State
  <2>3. n = [timers |-> ts, timer_ |-> l, timeout_ |-> d, destroyed |-> f.destroyed,
             quiet |-> f.quiet, misused |-> f.misused]
    BY <1>3, <2>2
  <2> QED BY <1>6, <2>1, <2>2, <2>3 DEF State
<1>8. ~n.misused /\ n.quiet \in 0..TimeoutMax
  BY <1>1, <1>4, <1>7 DEF Good, State
<1>9. l \in DOMAIN ts /\ DOMAIN s.timers \subseteq DOMAIN ts
      /\ \A j \in DOMAIN ts : j = l \/ j \in DOMAIN s.timers
  BY <1>5, <1>6
<1>10. \A j \in DOMAIN s.timers :
         ~(ts[j].owner = "socket" /\ ts[j].state = "started")
  <2>1. \A j \in DOMAIN s.timers : j # UNDEFINED
    BY <1>5 DEF UNDEFINED
  <2> QED BY <1>1, <1>6, <2>1 DEF Good, OnlyOne
<1>11. OnlyOne(n)
  <2>1. t.delay - t.left <= n.quiet
    <3>1. Delay(d) \in 1..TimeoutMax
      BY DelayBound
    <3> QED BY <1>2, <1>8, <3>1, TimersAssumption
  <2> QED BY <1>2, <1>6, <1>7, <1>9, <1>10, <2>1 DEF OnlyOne
<1>12. TimerIsThere(n)
  BY <1>1, <1>2, <1>6, <1>7, <1>9 DEF TimerIsThere
<1>13. s.timer_ # UNDEFINED => s.timer_ \in DOMAIN s.timers
  BY DEF Good, TimerIsThere
<1> QED BY <1>1, <1>2, <1>6, <1>7, <1>8, <1>9, <1>10, <1>11, <1>12, <1>13 DEF Good

(* active(), which a destroyed socket may be told of. *)
LEMMA ActiveGood ==
  ASSUME NEW s, Good(s), NEW a, a = Active(s)
  PROVE  /\ Good(a) /\ DOMAIN s.timers \subseteq DOMAIN a.timers
         /\ s.timer_ # UNDEFINED => a.timers[s.timer_].state = "closed"
<1> USE DEF Active
<1>1. CASE s.timer_ = UNDEFINED
  <2>1. a = [s EXCEPT !.quiet = 0]
    BY <1>1
  <2>2. \A i \in DOMAIN s.timers :
          ~(s.timers[i].owner = "socket" /\ s.timers[i].state = "started")
    <3>1. s.timers \in Seq(ATimer)
      BY DEF Good, State
    <3>2. \A i \in DOMAIN s.timers : i # UNDEFINED
      BY <3>1 DEF UNDEFINED
    <3> QED BY <1>1, <3>2 DEF Good, OnlyOne
  <2>3. Good(a) /\ a.timers = s.timers
    BY <2>1, <2>2, QuietReset
  <2> QED BY <1>1, <2>3
<1>2. CASE s.timer_ # UNDEFINED
  <2> DEFINE f == FinishTimer(s)
             n == StartTimer(f, s.timeout_)
  <2>1. s.timer_ \in DOMAIN s.timers /\ ~s.destroyed /\ s.timeout_ \in Nat
    BY <1>2 DEF Good, TimerIsThere, State
  <2>2. /\ Good(f) /\ f.destroyed = s.destroyed /\ f.timer_ = UNDEFINED
        /\ DOMAIN f.timers = DOMAIN s.timers /\ f.timers[s.timer_].state = "closed"
    BY <1>2, FinishGood
  <2>3. a = [n EXCEPT !.quiet = 0]
    BY <1>2
  <2>4. n = StartTimer(f, s.timeout_)
    OBVIOUS
  <2>5. f.timers[s.timer_].state # "started" /\ s.timer_ \in DOMAIN f.timers
    BY <2>1, <2>2
  <2> HIDE DEF f, n
  <2>6. /\ Good(n) /\ DOMAIN f.timers \subseteq DOMAIN n.timers
        /\ \A j \in DOMAIN n.timers :
             n.timers[j].owner = "socket" /\ n.timers[j].state = "started" =>
               n.timers[j].delay = n.timers[j].left
        /\ n.timers[s.timer_] = f.timers[s.timer_]
    <3>1. s.timer_ # f.timer_
      BY <1>2, <2>2
    <3> QED BY <2>1, <2>2, <2>4, <2>5, <3>1, StartGood
  <2>7. Good(a) /\ a.timers = n.timers
    BY <2>3, <2>6, QuietReset
  <2> QED BY <1>2, <2>1, <2>2, <2>4, <2>5, <2>6, <2>7
<1> QED BY <1>1, <1>2

LEMMA DestroyGood ==
  ASSUME NEW s, Good(s), NEW n, n = DestroySocket(s)
  PROVE  /\ Good(n) /\ DOMAIN s.timers \subseteq DOMAIN n.timers
         /\ s.timer_ # UNDEFINED => n.timers[s.timer_].state = "closed"
<1> DEFINE f == FinishTimer(s)
<1>1. /\ Good(f) /\ f.timer_ = UNDEFINED /\ DOMAIN f.timers = DOMAIN s.timers
      /\ s.timer_ # UNDEFINED => f.timers[s.timer_].state = "closed"
  BY FinishGood
<1>2. n = [f EXCEPT !.destroyed = TRUE]
  BY DEF DestroySocket
<1> HIDE DEF f
<1>3. /\ n \in State /\ n.timers = f.timers /\ n.timer_ = f.timer_
      /\ n.timeout_ = f.timeout_ /\ n.quiet = f.quiet /\ n.misused = f.misused
  BY <1>1, <1>2 DEF Good, State
<1>4. TimerIsThere(n)
  BY <1>1, <1>3 DEF TimerIsThere
<1>5. OnlyOne(n)
  BY <1>1, <1>3 DEF OnlyOne, Good
<1> QED BY <1>1, <1>3, <1>4, <1>5 DEF Good

(* setTimeout() of a socket that is not destroyed. *)
LEMMA SetSocketTimeoutGood ==
  ASSUME NEW s, Good(s), ~s.destroyed, NEW d \in Nat, NEW n, n = SetSocketTimeout(s, d)
  PROVE  /\ Good(n) /\ DOMAIN s.timers \subseteq DOMAIN n.timers
         /\ s.timer_ # UNDEFINED => n.timers[s.timer_].state = "closed"
<1>1. CASE d = 0
  <2> DEFINE f == FinishTimer(s)
  <2>1. /\ Good(f) /\ f.timer_ = UNDEFINED /\ DOMAIN f.timers = DOMAIN s.timers
        /\ s.timer_ # UNDEFINED => f.timers[s.timer_].state = "closed"
    BY FinishGood
  <2>2. n = [f EXCEPT !.quiet = 0]
    BY <1>1 DEF SetSocketTimeout
  <2> HIDE DEF f
  <2>3. \A i \in DOMAIN f.timers :
          ~(f.timers[i].owner = "socket" /\ f.timers[i].state = "started")
    <3>1. \A i \in DOMAIN f.timers : i # UNDEFINED
      BY <2>1 DEF UNDEFINED, Good, State
    <3> QED BY <2>1, <3>1 DEF Good, OnlyOne
  <2>4. Good(n) /\ n.timers = f.timers
    BY <2>1, <2>2, <2>3, QuietReset
  <2> QED BY <2>1, <2>4
<1>2. CASE d # 0
  <2> DEFINE f == StartTimer(s, d)
  <2>1. f = StartTimer(s, d)
    OBVIOUS
  <2>2. n = [f EXCEPT !.quiet = 0]
    BY <1>2 DEF SetSocketTimeout
  <2> HIDE DEF f
  <2>3. /\ Good(f) /\ DOMAIN s.timers \subseteq DOMAIN f.timers
        /\ \A j \in DOMAIN f.timers :
             f.timers[j].owner = "socket" /\ f.timers[j].state = "started" =>
               f.timers[j].delay = f.timers[j].left
        /\ s.timer_ # UNDEFINED => f.timers[s.timer_].state = "closed"
    BY <2>1, StartGood
  <2>4. Good(n) /\ n.timers = f.timers
    BY <2>2, <2>3, QuietReset
  <2> QED BY <2>3, <2>4
<1> QED BY <1>1, <1>2

(* The listeners of "timeout": whatever they do finishes the Timer. *)
LEMMA ReactGood ==
  ASSUME Careful, NEW s, Good(s), s.timer_ # UNDEFINED, NEW reaction \in Reactions,
         NEW n, n = React(s, reaction)
  PROVE  /\ Good(n) /\ s.timer_ \in DOMAIN n.timers
         /\ n.timers[s.timer_].state = "closed"
<1>1. ~s.destroyed /\ s.timer_ \in DOMAIN s.timers /\ s.timeout_ \in Nat /\ 0 \in Nat
  BY DEF Good, TimerIsThere, State
<1>2. reaction \in {"destroy", "off", "again", "write"}
  BY TimersAssumption DEF Careful
<1>3. CASE reaction = "destroy"
  <2>1. n = DestroySocket(s)
    BY <1>3 DEF React
  <2> QED BY <1>1, <2>1, DestroyGood
<1>4. CASE reaction = "off"
  <2>1. n = SetSocketTimeout(s, 0)
    BY <1>4 DEF React
  <2> QED BY <1>1, <2>1, SetSocketTimeoutGood
<1>5. CASE reaction = "again"
  <2>1. n = SetSocketTimeout(s, s.timeout_)
    BY <1>5 DEF React
  <2> QED BY <1>1, <2>1, SetSocketTimeoutGood
<1>6. CASE reaction = "write"
  <2>1. n = Active(s)
    BY <1>6 DEF React
  <2> QED BY <1>1, <2>1, ActiveGood
<1> QED BY <1>2, <1>3, <1>4, <1>5, <1>6

-----------------------------------------------------------------------------
(* The actions. *)

(* The state is read as a record and written back. *)
LEMMA WrittenDown ==
  ASSUME NEW n, Good(n), Becomes_T(n)
  PROVE  IInv'
<1>1. /\ timers' = n.timers /\ timer_' = n.timer_ /\ timeout_' = n.timeout_
      /\ destroyed' = n.destroyed /\ quiet' = n.quiet /\ misused' = n.misused
  BY DEF Becomes_T
<1>2. S' = [timers |-> n.timers, timer_ |-> n.timer_, timeout_ |-> n.timeout_,
            destroyed |-> n.destroyed, quiet |-> n.quiet, misused |-> n.misused]
  BY <1>1 DEF S
<1>3. n = [timers |-> n.timers, timer_ |-> n.timer_, timeout_ |-> n.timeout_,
           destroyed |-> n.destroyed, quiet |-> n.quiet, misused |-> n.misused]
  BY DEF Good, State
<1>4. S' = n
  BY <1>2, <1>3
<1> QED BY <1>4 DEF IInv

LEMMA Fields ==
  /\ S.timers = timers /\ S.timer_ = timer_ /\ S.timeout_ = timeout_
  /\ S.destroyed = destroyed /\ S.quiet = quiet /\ S.misused = misused
  BY DEF S

(* OnTimeout of the Timer of the socket: it does not come early, and the *)
(* Timer is closed when the listeners return.                            *)
LEMMA SocketTimerRunsGood ==
  ASSUME Careful, IInv, NEW i \in DOMAIN timers, NEW reaction \in Reactions,
         SocketTimerRuns(i, reaction)
  PROVE  IInv'
<1> DEFINE told == [S EXCEPT !.misused = @ \/ quiet < Delay(timeout_) \/ destroyed]
           n    == React(S, reaction)
<1>1. Good(S)
  BY DEF IInv
<1>2. /\ timers[i].owner = "socket" /\ timers[i].state = "started" /\ timers[i].left = 0
      /\ Becomes_T(CloseTimer(React(told, reaction), i))
  BY DEF SocketTimerRuns, Due
<1>3. /\ i = timer_ /\ timers[i].delay = Delay(timeout_)
      /\ timers[i].delay - timers[i].left <= quiet /\ timers \in Seq(ATimer)
      /\ quiet \in 0..TimeoutMax /\ timeout_ \in Nat /\ ~misused
  BY <1>1, <1>2, Fields DEF Good, OnlyOne, State
<1>4. timer_ # UNDEFINED
  BY <1>3 DEF UNDEFINED
<1>5. ~destroyed
  BY <1>1, <1>4, Fields DEF Good, TimerIsThere
<1>6. ~(quiet < Delay(timeout_))
  <2>1. Delay(timeout_) \in 1..TimeoutMax
    BY <1>3, DelayBound
  <2> QED BY <1>2, <1>3, <2>1, TimersAssumption
<1>7. told = S
  <2> DEFINE e == S.misused \/ quiet < Delay(timeout_) \/ destroyed
  <2>1. told = [S EXCEPT !.misused = e]
    OBVIOUS
  <2>2. e = FALSE
    <3>1. ~S.misused
      BY <1>3, Fields
    <3> QED BY <3>1, <1>5, <1>6, Zenon
  <2> HIDE DEF e, told
  <2>3. misused = FALSE
    BY <1>1, <1>3, Fields DEF Good, State
  <2> QED BY <2>1, <2>2, <2>3 DEF S
<1>8. n = React(S, reaction) /\ Becomes_T(CloseTimer(n, i))
  BY <1>2, <1>7
<1> HIDE DEF n
<1>9. Good(n) /\ n.timers[i].state = "closed"
  BY <1>1, <1>3, <1>4, <1>8, ReactGood, Fields
<1>10. CloseTimer(n, i) = n
  BY <1>9 DEF CloseTimer
<1> QED BY <1>8, <1>9, <1>10, WrittenDown

(* The callback of an interval, which libuv has started again. *)
LEMMA AgainGood ==
  ASSUME NEW s, Good(s), NEW i \in DOMAIN s.timers, s.timers[i].owner # "socket",
         NEW n, n = [s EXCEPT !.timers[i].left = s.timers[i].delay]
  PROVE  /\ Good(n) /\ DOMAIN n.timers = DOMAIN s.timers /\ n.timer_ = s.timer_
         /\ n.timers[i].owner = s.timers[i].owner /\ n.timers[i].state = s.timers[i].state
         /\ \A j \in DOMAIN s.timers : j # i => n.timers[j] = s.timers[j]
<1> DEFINE u  == [s.timers[i] EXCEPT !.left = s.timers[i].delay]
           ts == [s.timers EXCEPT ![i] = u]
<1>1. s.timers \in Seq(ATimer) /\ s.timers[i] \in ATimer
  BY DEF Good, State
<1>2. u \in ATimer /\ u.owner = s.timers[i].owner /\ u.state = s.timers[i].state
  BY <1>1 DEF ATimer
<1>3. n = [s EXCEPT !.timers = ts]
  BY DEF Good, State
<1> HIDE DEF u
<1>4. /\ ts \in Seq(ATimer) /\ DOMAIN ts = DOMAIN s.timers /\ ts[i] = u
      /\ \A j \in DOMAIN s.timers : j # i => ts[j] = s.timers[j]
  BY <1>1, <1>2
<1> HIDE DEF ts
<1>5. /\ n \in State /\ n.timers = ts /\ n.timer_ = s.timer_
      /\ n.timeout_ = s.timeout_ /\ n.destroyed = s.destroyed
      /\ n.quiet = s.quiet /\ n.misused = s.misused
  BY <1>3, <1>4 DEF Good, State
<1>6. TimerIsThere(n)
  BY <1>2, <1>4, <1>5 DEF TimerIsThere, Good
<1>7. OnlyOne(n)
  BY <1>2, <1>4, <1>5 DEF OnlyOne, Good
<1> QED BY <1>2, <1>4, <1>5, <1>6, <1>7 DEF Good

(* A Timer of the application is not that of the socket. *)
LEMMA NotOfSocket ==
  ASSUME NEW s, Good(s), NEW i \in DOMAIN s.timers, s.timers[i].owner # "socket"
  PROVE  i # s.timer_
<1>1. i # UNDEFINED
  BY DEF Good, State, UNDEFINED
<1> QED BY <1>1 DEF Good, TimerIsThere

(* clearTimeout() of a Timer that has not run. *)
LEMMA ClearsTimerGood ==
  ASSUME Careful, IInv, NEW i \in DOMAIN timers, ClearsTimer(i)
  PROVE  IInv'
<1>1. Good(S) /\ i \in DOMAIN S.timers
  BY Fields DEF IInv
<1>2. i # 0
  BY <1>1 DEF Good, State
<1>3. S.timers[i].owner # "socket" /\ S.timers[i].state = "started"
  BY <1>2, Fields DEF ClearsTimer, May, Careful
<1>4. Good(CloseTimer(S, i))
  BY <1>1, <1>3, CloseOther, NotOfSocket
<1> QED BY <1>4, WrittenDown DEF ClearsTimer

(* OnTimeout of a Timer of the application, which may clear one. *)
LEMMA TimerRunsGood ==
  ASSUME Careful, IInv, NEW i \in DOMAIN timers,
         NEW cleared \in {{}} \cup {{j} : j \in DOMAIN timers}, TimerRuns(i, cleared)
  PROVE  IInv'
<1> DEFINE repeat == timers[i].owner = "interval"
           again  == IF repeat THEN [S EXCEPT !.timers[i].left = timers[i].delay] ELSE S
           after  == IF cleared = {} THEN again
                     ELSE CloseTimer(again, CHOOSE j \in cleared : TRUE)
           last   == IF repeat THEN after ELSE CloseTimer(after, i)
<1>1. Good(S) /\ i \in DOMAIN S.timers /\ S.timers[i].owner # "socket"
      /\ S.timers[i].state = "started"
  BY Fields DEF IInv, TimerRuns, Due
<1>2. Becomes_T(last) /\ \A j \in cleared : May(j, i)
  BY DEF TimerRuns
<1>3. /\ Good(again) /\ DOMAIN again.timers = DOMAIN S.timers
      /\ again.timers[i].owner # "socket" /\ again.timers[i].state = "started"
      /\ \A j \in DOMAIN S.timers : j # i => again.timers[j] = S.timers[j]
  <2>1. CASE repeat
    <3>1. again = [S EXCEPT !.timers[i].left = S.timers[i].delay]
      BY <2>1, Fields
    <3> HIDE DEF again
    <3> QED BY <1>1, <3>1, AgainGood
  <2>2. CASE ~repeat
    BY <1>1, <2>2
  <2> QED BY <2>1, <2>2
<1> HIDE DEF again
<1>4. /\ Good(after) /\ i \in DOMAIN after.timers
      /\ after.timers[i].owner # "socket" /\ after.timers[i].state # "deleted"
  <2>1. CASE cleared = {}
    BY <1>1, <1>3, <2>1
  <2>2. CASE cleared # {}
    <3>1. PICK j \in DOMAIN timers : cleared = {j}
      BY <2>2
    <3>2. after = CloseTimer(again, j)
      BY <3>1
    <3>3. timers[j].owner # "socket" /\ (timers[j].state = "started" \/ j = i)
      BY <1>2, <3>1 DEF May, Careful
    <3>4. /\ j \in DOMAIN again.timers /\ again.timers[j].owner # "socket"
          /\ again.timers[j].state = "started"
      BY <1>3, <3>3, Fields
    <3> HIDE DEF after
    <3>5. Good(after) /\ DOMAIN after.timers = DOMAIN again.timers
      BY <1>3, <3>2, <3>4, CloseOther, NotOfSocket
    <3>6. /\ \A k \in DOMAIN again.timers : k # j => after.timers[k] = again.timers[k]
          /\ after.timers[j].state = "closed" /\ after.timers[j].owner = again.timers[j].owner
      BY <1>3, <3>2, <3>4, CloseStep DEF Good
    <3> QED BY <1>1, <1>3, <3>4, <3>5, <3>6
  <2> QED BY <2>1, <2>2
<1> HIDE DEF after
<1>5. Good(last)
  <2>1. Good(CloseTimer(after, i))
    BY <1>4, CloseOther, NotOfSocket
  <2> QED BY <1>4, <2>1
<1> HIDE DEF last
<1> QED BY <1>2, <1>5, WrittenDown

(* setTimeout() and setInterval() of the application. *)
LEMMA SetsTimerGood ==
  ASSUME IInv, NEW d \in Delays, NEW owner \in {"timeout", "interval"}, SetsTimer(owner, d)
  PROVE  IInv'
<1> DEFINE t  == NewTimer(owner, d)
           ts == Append(timers, t)
           n  == [S EXCEPT !.timers = ts]
<1>1. Good(S) /\ d \in Nat
  BY TimersAssumption DEF IInv
<1>2. t \in ATimer /\ t.owner = owner
  BY <1>1, NewTimerType
<1>3. Becomes_T(n)
  BY Fields DEF SetsTimer
<1> HIDE DEF t
<1>4. timers \in Seq(ATimer) /\ S \in State /\ ~S.misused
  BY <1>1, Fields DEF Good, State
<1>5. /\ ts \in Seq(ATimer) /\ \A j \in DOMAIN timers : j \in DOMAIN ts /\ ts[j] = timers[j]
      /\ \A j \in DOMAIN ts : j \in DOMAIN timers \/ ts[j] = t
  BY <1>2, <1>4
<1> HIDE DEF ts
<1>6. /\ n \in State /\ n.timers = ts /\ n.timer_ = timer_ /\ n.timeout_ = timeout_
      /\ n.destroyed = destroyed /\ n.quiet = quiet /\ n.misused = misused
  BY <1>4, <1>5, Fields DEF State
<1> HIDE DEF n
<1>7. TimerIsThere(n)
  BY <1>1, <1>5, <1>6, Fields DEF TimerIsThere, Good
<1>8. OnlyOne(n)
  BY <1>1, <1>2, <1>5, <1>6, Fields DEF OnlyOne, Good
<1>9. Good(n)
  BY <1>4, <1>6, <1>7, <1>8, Fields DEF Good
<1> QED BY <1>3, <1>9, WrittenDown

(* What a step leaves of the state when it only deletes closed Timers. *)
LEMMA Kept ==
  ASSUME Good(S), timers' \in Seq(ATimer), DOMAIN timers' = DOMAIN timers,
         UNCHANGED <<timer_, timeout_, destroyed, quiet, misused>>,
         \A i \in DOMAIN timers :
           /\ timers[i].state = "started" => timers'[i] = timers[i]
           /\ timers'[i].state = "started" => timers'[i] = timers[i]
  PROVE  IInv'
<1>1. S'.timers = timers' /\ S'.timer_ = timer_ /\ S'.timeout_ = timeout_
      /\ S'.destroyed = destroyed /\ S'.misused = misused /\ S'.quiet = quiet
  BY DEF S
<1>2. S' \in State
  BY Fields DEF S, State, Good
<1>3. TimerIsThere(S')
  BY <1>1, Fields DEF TimerIsThere, Good
<1>4. OnlyOne(S')
  BY <1>1, Fields DEF OnlyOne, Good
<1> QED BY <1>1, <1>2, <1>3, <1>4, Fields DEF Good, IInv

(* Handle::onClose of what is closed. *)
LEMMA IterationEndsGood ==
  ASSUME IInv, IterationEnds
  PROVE  IInv'
<1> DEFINE u(i) == IF timers[i].state = "closed"
                   THEN [timers[i] EXCEPT !.state = "deleted", !.delay = 0] ELSE timers[i]
<1>1. Good(S) /\ timers \in Seq(ATimer) /\ timer_ \in Nat
  BY Fields DEF IInv, Good, State
<1>2. timers' = [i \in DOMAIN timers |-> u(i)]
      /\ UNCHANGED <<timer_, timeout_, destroyed, quiet, misused>>
  BY DEF IterationEnds
<1>3. \A i \in DOMAIN timers :
        /\ u(i) \in ATimer /\ u(i).owner = timers[i].owner
        /\ timers[i].state = "started" => u(i) = timers[i]
        /\ u(i).state = "started" => u(i) = timers[i]
  <2> TAKE i \in DOMAIN timers
  <2>1. timers[i] \in ATimer /\ 0 \in 0..TimeoutMax
    BY <1>1, TimersAssumption
  <2>2. CASE timers[i].state = "closed"
    <3>1. u(i) = [owner |-> timers[i].owner, delay |-> 0, left |-> timers[i].left,
                  state |-> "deleted"]
      BY <2>1, <2>2 DEF ATimer
    <3> QED BY <2>1, <2>2, <3>1 DEF ATimer
  <2>3. CASE timers[i].state # "closed"
    BY <2>1, <2>3
  <2> QED BY <2>2, <2>3
<1> HIDE DEF u
<1>4. timers' \in Seq(ATimer) /\ DOMAIN timers' = DOMAIN timers
      /\ \A i \in DOMAIN timers : timers'[i] = u(i)
  BY <1>1, <1>2, <1>3
<1> QED BY <1>1, <1>2, <1>3, <1>4, Kept

LEMMA TimePassesGood ==
  ASSUME IInv, TimePasses
  PROVE  IInv'
<1> DEFINE u(i) == [timers[i] EXCEPT !.left = IF @ > 0 THEN @ - 1 ELSE 0]
<1>1. Good(S) /\ timers \in Seq(ATimer) /\ timer_ \in Nat /\ quiet \in 0..TimeoutMax
  BY Fields DEF IInv, Good, State
<1>2. /\ timers' = [i \in DOMAIN timers |-> u(i)]
      /\ quiet' = IF quiet < TimeoutMax THEN quiet + 1 ELSE quiet
      /\ UNCHANGED <<timer_, timeout_, destroyed, misused>>
  BY DEF TimePasses
<1>3. \A i \in DOMAIN timers :
        /\ u(i) \in ATimer /\ u(i).owner = timers[i].owner
        /\ u(i).state = timers[i].state /\ u(i).delay = timers[i].delay
        /\ u(i).left = IF timers[i].left > 0 THEN timers[i].left - 1 ELSE 0
  <2> TAKE i \in DOMAIN timers
  <2> DEFINE l == IF timers[i].left > 0 THEN timers[i].left - 1 ELSE 0
  <2>1. timers[i] \in ATimer
    BY <1>1
  <2>2. l \in 0..TimeoutMax
    BY <2>1, TimersAssumption DEF ATimer
  <2>3. u(i) = [timers[i] EXCEPT !.left = l]
    OBVIOUS
  <2>4. l = IF timers[i].left > 0 THEN timers[i].left - 1 ELSE 0
    OBVIOUS
  <2> HIDE DEF l, u
  <2>5. u(i) = [owner |-> timers[i].owner, delay |-> timers[i].delay, left |-> l,
                state |-> timers[i].state]
    BY <2>1, <2>3 DEF ATimer
  <2> QED BY <2>1, <2>2, <2>4, <2>5 DEF ATimer
<1> HIDE DEF u
<1>4. timers' \in Seq(ATimer) /\ DOMAIN timers' = DOMAIN timers
      /\ \A i \in DOMAIN timers : timers'[i] = u(i)
  BY <1>1, <1>2, <1>3
<1>5. S'.timers = timers' /\ S'.timer_ = timer_ /\ S'.timeout_ = timeout_
      /\ S'.destroyed = destroyed /\ S'.misused = misused /\ S'.quiet = quiet'
  BY <1>2 DEF S
<1>6. S' \in State
  <2>1. quiet' \in 0..TimeoutMax
    BY <1>1, <1>2, TimersAssumption
  <2> QED BY <1>1, <1>2, <1>4, <2>1, Fields DEF S, State, Good
<1>7. TimerIsThere(S')
  BY <1>1, <1>3, <1>4, <1>5, Fields DEF TimerIsThere, Good
<1>8. OnlyOne(S')
  <2> SUFFICES ASSUME NEW i \in DOMAIN timers, u(i).owner = "socket", u(i).state = "started"
               PROVE  i = timer_ /\ u(i).delay = Delay(timeout_)
                      /\ u(i).delay - u(i).left <= quiet'
    BY <1>4, <1>5 DEF OnlyOne
  <2>1. /\ i = timer_ /\ timers[i].delay = Delay(timeout_)
        /\ timers[i].delay - timers[i].left <= quiet
    <3>1. timers[i].owner = "socket" /\ timers[i].state = "started"
      BY <1>3
    <3>2. OnlyOne(S)
      BY <1>1 DEF Good
    <3> QED BY <3>1, <3>2, Fields DEF OnlyOne
  <2>2. timers[i].delay \in 0..TimeoutMax /\ timers[i].left \in 0..TimeoutMax
    <3>1. timers[i] \in ATimer
      BY <1>1
    <3> QED BY <3>1 DEF ATimer
  <2>3. u(i).delay - u(i).left <= quiet'
    <3>1. /\ u(i).delay = timers[i].delay
          /\ u(i).left = IF timers[i].left > 0 THEN timers[i].left - 1 ELSE 0
      BY <1>3
    <3>2. TimeoutMax \in Nat /\ quiet \in Nat
          /\ quiet' = IF quiet < TimeoutMax THEN quiet + 1 ELSE quiet
      BY <1>1, <1>2, TimersAssumption
    <3> QED BY <2>1, <2>2, <3>1, <3>2
  <2> QED BY <1>3, <2>1, <2>3
<1> QED BY <1>1, <1>5, <1>6, <1>7, <1>8, Fields DEF Good, IInv

-----------------------------------------------------------------------------
LEMMA InitGood == TimersInit => IInv
<1> SUFFICES ASSUME TimersInit PROVE IInv
  OBVIOUS
<1>1. /\ timers = <<>> /\ timer_ = UNDEFINED /\ timeout_ = 0 /\ destroyed = FALSE
      /\ quiet = 0 /\ misused = FALSE /\ 0 \in 0..TimeoutMax
  BY TimersAssumption DEF TimersInit
<1>2. S \in State
  <2>1. <<>> \in Seq(ATimer)
    OBVIOUS
  <2> QED BY <1>1, <2>1 DEF S, State, UNDEFINED
<1>3. DOMAIN timers = {}
  BY <1>1
<1> QED BY <1>1, <1>2, <1>3, Fields DEF IInv, Good, TimerIsThere, OnlyOne

LEMMA NextGood ==
  ASSUME Careful, IInv, [TimersNext]_timerVars
  PROVE  IInv'
<1>1. Good(S)
  BY DEF IInv
<1>2. CASE UNCHANGED timerVars
  <2>1. S' = S
    BY <1>2 DEF S, timerVars
  <2> QED BY <1>1, <2>1 DEF IInv
<1>3. ASSUME NEW d \in Delays, SetsSocketTimeout(d) PROVE IInv'
  <2>1. Good(SetSocketTimeout(S, d))
    BY <1>1, <1>3, SetSocketTimeoutGood, Fields, TimersAssumption DEF SetsSocketTimeout
  <2> QED BY <1>3, <2>1, WrittenDown DEF SetsSocketTimeout
<1>4. ASSUME NEW d \in Delays, NEW owner \in {"timeout", "interval"}, SetsTimer(owner, d)
      PROVE  IInv'
  BY <1>4, SetsTimerGood
<1>5. CASE IsActive
  <2>1. Good(Active(S))
    BY <1>1, ActiveGood
  <2> QED BY <1>5, <2>1, WrittenDown DEF IsActive
<1>6. CASE Destroys
  <2>1. Good(DestroySocket(S))
    BY <1>1, DestroyGood
  <2> QED BY <1>6, <2>1, WrittenDown DEF Destroys
<1>7. ASSUME NEW i \in DOMAIN timers, ClearsTimer(i) PROVE IInv'
  BY <1>7, ClearsTimerGood
<1>8. ASSUME NEW i \in DOMAIN timers, Runs(i) PROVE IInv'
  BY <1>8, SocketTimerRunsGood, TimerRunsGood DEF Runs
<1>9. CASE IterationEnds
  BY <1>9, IterationEndsGood
<1>10. CASE TimePasses
  BY <1>10, TimePassesGood
<1> QED BY <1>2, <1>3, <1>4, <1>5, <1>6, <1>7, <1>8, <1>9, <1>10 DEF TimersNext

LEMMA IInvSound == IInv => TimersSound
<1> SUFFICES ASSUME IInv PROVE TimersSound
  OBVIOUS
<1>1. Good(S)
  BY DEF IInv
<1>2. destroyed => timer_ = UNDEFINED
  BY <1>1, Fields DEF Good, TimerIsThere
<1> QED BY <1>1, <1>2, Fields DEF Good, OnlyOne, TimersSound

(* No Timer is used after its deletion, a socket hears of a timeout only    *)
(* when it was quiet for so long, and one Timer of it runs at most: for all *)
(* delays, and applications that are careful.                               *)
THEOREM TimersAreSound ==
  ASSUME Careful
  PROVE  TimersInit /\ [][TimersNext]_timerVars => []TimersSound
<1>1. TimersInit => IInv
  BY InitGood
<1>2. IInv /\ [TimersNext]_timerVars => IInv'
  BY NextGood
<1>3. IInv => TimersSound
  BY IInvSound
<1> QED BY <1>1, <1>2, <1>3, PTL

-----------------------------------------------------------------------------
(***************************************************************************)
(* The chains of requests of fs.h.                                         *)
(***************************************************************************)
FileSpec == FileInit /\ [][FileNext]_fileVars


Text == Seq(Nat) \cup {Absent}

(* One call, whatever the file. *)
Answers == Seq([err : BOOLEAN, file : Text])
Calls ==
  [kind : {"none", "read", "write", "append", "truncate"},
   at : {"none", "stat", "open", "read", "write", "ftruncate", "close"},
   fd : BOOLEAN, size : Nat, offset : Nat, length : Nat, err : BOOLEAN,
   failed : SUBSET {"stat", "open", "read", "write", "ftruncate", "close"},
   partial : BOOLEAN, before : Text, answers : Answers]

IsCall(s) == s \in Calls
IsText(x) == x \in Text

Told(s, err) == s.answers # <<>> /\ s.answers[1].err = err

(* What a call has answered fits what failed. *)
Honest(s) ==
  /\ Len(s.answers) = 1
  /\ s.answers[1].err => s.failed # {}
  /\ ~s.answers[1].err => s.failed \subseteq IF s.kind = "read" THEN {"close"}
                                              ELSE {"ftruncate"}

CallOk(s) ==
  /\ s.at = "none" => s = Unused \/ Honest(s)
  /\ s.at \notin {"none", "close"} => s.answers = <<>> /\ s.failed = {} /\ ~s.err
  /\ s.at # "none" => s.kind # "none"
  /\ s.at \in {"stat", "read"} => s.kind = "read"
  /\ s.at \in {"stat", "open"} => ~s.partial /\ s.offset = 0
  /\ s.at = "write" => /\ s.kind \in {"write", "append"}
                       /\ ~s.partial => s.offset = 0 /\ s.length = 2
  /\ s.at = "ftruncate" => s.kind = "truncate"
  /\ s.at = "close" /\ s.kind = "read" => Honest(s) /\ (~s.answers[1].err => s.failed = {})
  /\ s.at = "close" /\ s.kind # "read" =>
       /\ s.answers = <<>> /\ (s.err <=> s.failed # {})
       /\ s.failed \subseteq IF s.kind = "truncate" THEN {"ftruncate"} ELSE {"write"}

IsThere(s, f) == s.at \in {"read", "write", "ftruncate"} => f # Absent

(* What the file has once a call that was alone has done its work. *)
Had(x) == IF x = Absent THEN <<>> ELSE x
Result(c, s) ==
  CASE s.kind = "write" -> Data(c)
    [] s.kind = "append" -> Had(s.before) \o Data(c)
    [] s.kind = "read" -> s.before
    [] s.kind = "truncate" -> [i \in 1..TruncateTo |-> 0]

Works(c, s, f) ==
  s.failed = {} /\ ~s.partial =>
    /\ s.at \in {"stat", "open", "read"} => f = s.before
    /\ s.kind = "read" /\ s.at \in {"open", "read"} => f \in Seq(Nat) /\ s.size = Len(f)
    /\ s.at = "write" => f = IF s.kind = "append" THEN Had(s.before) ELSE <<>>
    /\ s.at = "ftruncate" => f = <<>>
    /\ s.at = "close" /\ s.kind # "read" => f = Result(c, s)
    /\ Told(s, FALSE) => s.answers[1].file = Result(c, s)

Undisturbed(c) == Running(c) => \A d \in FsCall \ {c} : ~Running(d)

(* Calls of appendFile() that do not fail. *)
Appending(s) == s.kind \in {"none", "append"} /\ s.failed = {} /\ ~s.partial
HasWritten(s) == s.kind = "append" /\ (s.at = "close" \/ s.answers # <<>>)
DataOf(order) == [i \in DOMAIN order |-> Data(order[i])]
Orders(order, V) ==
  /\ order \in Seq(FsCall) /\ {order[i] : i \in DOMAIN order} = V
  /\ \A i, j \in DOMAIN order : i # j => order[i] # order[j]
Holds(order) ==
  IF file = Absent THEN initially = Absent /\ order = <<>>
  ELSE file = Had(initially) \o FlattenSeq(DataOf(order))
AllKept ==
  (\A c \in FsCall : Appending(call[c])) =>
    \E order \in Seq(FsCall) :
      Orders(order, {c \in FsCall : HasWritten(call[c])}) /\ Holds(order)

FileInv ==
  /\ IsText(file) /\ IsText(initially)
  /\ call \in [FsCall -> Calls]
  /\ alone \subseteq FsCall /\ fails \in Nat
  /\ \A c \in FsCall : CallOk(call[c]) /\ IsThere(call[c], file)
  /\ \A c \in alone : Undisturbed(c) /\ Works(c, call[c], file)
  /\ AllKept

-----------------------------------------------------------------------------
LEMMA NatHasMin ==
  ASSUME NEW T \in SUBSET Nat, T # {}
  PROVE  \E x \in T : \A y \in T : x <= y
<1> DEFINE R == OpToRel(<, Nat)
<1>1. \E x \in T : \A y \in T : ~ (<<y, x>> \in R)
  BY NatLessThanWellFounded, WFMin
<1>2. \A x, y \in Nat : y < x => <<y, x>> \in R
  BY DEF OpToRel
<1> HIDE DEF R
<1>3. PICK x \in T : \A y \in T : ~ (<<y, x>> \in R)
  BY <1>1
<1>4. ASSUME NEW y \in T  PROVE x <= y
  <2>1. x \in Nat /\ y \in Nat
    OBVIOUS
  <2>2. ~ (y < x)
    BY <1>2, <1>3, <2>1
  <2>3. QED  BY <2>1, <2>2
<1>5. QED  BY <1>4

(* FlattenSeq() is a recursive function: that there is one is shown by the *)
(* shortest sequence without it.                                           *)
Flattens(f, ss) ==
  f = [i \in 1..Len(ss) |-> IF i = 1 THEN ss[i] ELSE f[i - 1] \o ss[i]]

LEMMA FlattenIs ==
  ASSUME NEW ss, Len(ss) # 0
  PROVE  FlattenSeq(ss) = (CHOOSE f : Flattens(f, ss))[Len(ss)]
BY DEF FlattenSeq, Flattens

(* One more. *)
Longer(f, ss, x) ==
  [i \in 1..Len(ss) + 1 |->
     IF i <= Len(ss) THEN f[i] ELSE IF i = 1 THEN x ELSE f[i - 1] \o x]

LEMMA FlattenLonger ==
  ASSUME NEW V, NEW ss \in Seq(V), NEW x \in V, NEW f, Flattens(f, ss)
  PROVE  Flattens(Longer(f, ss, x), Append(ss, x))
<1> DEFINE tt == Append(ss, x)
           g == Longer(f, ss, x)
<1>1. Len(ss) \in Nat /\ Len(tt) = Len(ss) + 1
  OBVIOUS
<1>2. \A i \in 1..Len(ss) : tt[i] = ss[i]
  OBVIOUS
<1>3. tt[Len(ss) + 1] = x
  OBVIOUS
<1>4. \A i \in 1..Len(ss) : f[i] = IF i = 1 THEN ss[i] ELSE f[i - 1] \o ss[i]
  BY DEF Flattens
<1>5. \A i \in 1..Len(ss) + 1 :
        g[i] = IF i <= Len(ss) THEN f[i] ELSE IF i = 1 THEN x ELSE f[i - 1] \o x
  BY DEF Longer
<1>6. g = [i \in 1..Len(ss) + 1 |-> g[i]]
  BY DEF Longer
<1> HIDE DEF g, tt
<1>7. ASSUME NEW i \in 1..Len(ss) + 1
      PROVE  g[i] = IF i = 1 THEN tt[i] ELSE g[i - 1] \o tt[i]
  <2>1. CASE i = Len(ss) + 1
    <3>1. tt[i] = x /\ ~(i <= Len(ss))
      BY <1>1, <1>3, <2>1
    <3>2. CASE i = 1
      BY <1>5, <3>1, <3>2
    <3>3. CASE i # 1
      <4>1. i - 1 \in 1..Len(ss)
        BY <1>1, <2>1, <3>3
      <4>2. g[i - 1] = f[i - 1]
        BY <1>1, <1>5, <4>1
      <4>3. QED  BY <1>5, <3>1, <3>3, <4>2
    <3>4. QED  BY <3>2, <3>3
  <2>2. CASE i # Len(ss) + 1
    <3>1. i \in 1..Len(ss) /\ i <= Len(ss)
      BY <1>1, <2>2
    <3>2. tt[i] = ss[i] /\ g[i] = f[i]
      BY <1>2, <1>5, <3>1
    <3>3. CASE i = 1
      BY <1>4, <3>1, <3>2, <3>3
    <3>4. CASE i # 1
      <4>1. i - 1 \in 1..Len(ss) /\ i - 1 \in 1..Len(ss) + 1 /\ i - 1 <= Len(ss)
        BY <1>1, <3>1, <3>4
      <4>2. g[i - 1] = f[i - 1]
        BY <1>5, <4>1
      <4>3. QED  BY <1>4, <3>1, <3>2, <3>4, <4>2
    <3>5. QED  BY <3>3, <3>4
  <2>3. QED  BY <2>1, <2>2
<1>8. g = [i \in 1..Len(tt) |-> IF i = 1 THEN tt[i] ELSE g[i - 1] \o tt[i]]
  BY <1>1, <1>6, <1>7
<1>9. QED  BY <1>8 DEF Flattens, g, tt

(* Sequences without one, by their lengths. *)
Unflat(V) == {n \in Nat : \E ss \in Seq(V) : Len(ss) = n /\ \A f : ~Flattens(f, ss)}

LEMMA FlattenExists ==
  ASSUME NEW V, NEW ss \in Seq(V)
  PROVE  \E f : Flattens(f, ss)
<1>1. SUFFICES ASSUME Unflat(V) # {}  PROVE FALSE
  BY DEF Unflat
<1>2. PICK n \in Unflat(V) : \A m \in Unflat(V) : n <= m
  <2>1. Unflat(V) \in SUBSET Nat
    BY DEF Unflat
  <2>2. QED  BY <1>1, <2>1, NatHasMin
<1>3. PICK tt \in Seq(V) : Len(tt) = n /\ \A f : ~Flattens(f, tt)
  BY DEF Unflat
<1>4. n \in Nat
  BY DEF Unflat
<1>5. CASE n = 0
  <2>1. Flattens([i \in 1..Len(tt) |-> tt[i]], tt)
    BY <1>3, <1>5 DEF Flattens
  <2>2. QED  BY <1>3, <2>1
<1>6. CASE n # 0
  <2> DEFINE uu == SubSeq(tt, 1, n - 1)
             x == tt[n]
  <2>1. uu \in Seq(V) /\ Len(uu) = n - 1 /\ x \in V
    BY <1>3, <1>4, <1>6
  <2>2. tt = Append(uu, x)
    BY <1>3, <1>4, <1>6
  <2>3. n - 1 \in Nat /\ ~(n <= n - 1)
    BY <1>4, <1>6
  <2>4. n - 1 \notin Unflat(V)
    BY <1>2, <2>3
  <2> HIDE DEF uu, x
  <2>5. PICK f : Flattens(f, uu)
    BY <2>1, <2>3, <2>4 DEF Unflat
  <2>6. Flattens(Longer(f, uu, x), Append(uu, x))
    BY <2>1, <2>5, FlattenLonger
  <2>7. QED  BY <1>3, <2>2, <2>6
<1>7. QED  BY <1>5, <1>6

(* There is but one. *)
LEMMA FlattenUnique ==
  ASSUME NEW V, NEW ss \in Seq(V), NEW f, NEW g, Flattens(f, ss), Flattens(g, ss)
  PROVE  f = g
<1> DEFINE T == {i \in 1..Len(ss) : f[i] # g[i]}
<1>1. Len(ss) \in Nat
  OBVIOUS
<1>2. \A i \in 1..Len(ss) : f[i] = IF i = 1 THEN ss[i] ELSE f[i - 1] \o ss[i]
  BY DEF Flattens
<1>3. \A i \in 1..Len(ss) : g[i] = IF i = 1 THEN ss[i] ELSE g[i - 1] \o ss[i]
  BY DEF Flattens
<1>4. T = {}
  <2>1. SUFFICES ASSUME T # {}  PROVE FALSE
    OBVIOUS
  <2>2. PICK k \in T : \A j \in T : k <= j
    <3>1. T \in SUBSET Nat
      BY <1>1
    <3>2. QED  BY <2>1, <3>1, NatHasMin
  <2>3. k \in 1..Len(ss) /\ f[k] # g[k]
    OBVIOUS
  <2>4. k # 1
    BY <1>2, <1>3, <2>3
  <2>5. k - 1 \in 1..Len(ss) /\ ~(k <= k - 1)
    BY <1>1, <2>3, <2>4
  <2>6. f[k - 1] = g[k - 1]
    BY <2>2, <2>5
  <2>7. QED  BY <1>2, <1>3, <2>3, <2>4, <2>6
<1>5. f = [i \in 1..Len(ss) |-> f[i]] /\ g = [i \in 1..Len(ss) |-> g[i]]
  <2>1. f = [i \in 1..Len(ss) |-> IF i = 1 THEN ss[i] ELSE f[i - 1] \o ss[i]]
    BY DEF Flattens
  <2>2. g = [i \in 1..Len(ss) |-> IF i = 1 THEN ss[i] ELSE g[i - 1] \o ss[i]]
    BY DEF Flattens
  <2>3. f = [i \in 1..Len(ss) |-> f[i]]
    BY <1>2, <2>1, Zenon
  <2>4. g = [i \in 1..Len(ss) |-> g[i]]
    BY <1>3, <2>2, Zenon
  <2>5. QED  BY <2>3, <2>4
<1>6. \A i \in 1..Len(ss) : f[i] = g[i]
  BY <1>4
<1>7. QED  BY <1>5, <1>6

LEMMA FlattenBy ==
  ASSUME NEW V, NEW ss \in Seq(V), ss # <<>>, NEW f, Flattens(f, ss)
  PROVE  FlattenSeq(ss) = f[Len(ss)]
<1>1. Len(ss) # 0
  OBVIOUS
<1> DEFINE g == CHOOSE h : Flattens(h, ss)
<1>2. Flattens(g, ss)
  <2>1. \E h : Flattens(h, ss)
    OBVIOUS
  <2>2. QED  BY <2>1, Zenon
<1>3. FlattenSeq(ss) = g[Len(ss)]
  BY <1>1, FlattenIs
<1> HIDE DEF g
<1>4. g = f
  BY <1>2, FlattenUnique
<1>5. QED  BY <1>3, <1>4

LEMMA FlattenTyped ==
  ASSUME NEW V, NEW ss \in Seq(Seq(V))
  PROVE  FlattenSeq(ss) \in Seq(V)
<1>1. PICK f : Flattens(f, ss)
  BY FlattenExists
<1>2. \A i \in 1..Len(ss) : f[i] = IF i = 1 THEN ss[i] ELSE f[i - 1] \o ss[i]
  BY <1>1 DEF Flattens
<1>3. Len(ss) \in Nat /\ \A i \in 1..Len(ss) : ss[i] \in Seq(V)
  <2>1. \A T : ss \in Seq(T) => Len(ss) \in Nat /\ \A i \in 1..Len(ss) : ss[i] \in T
    OBVIOUS
  <2>2. QED  BY <2>1
<1> DEFINE T == {i \in 1..Len(ss) : f[i] \notin Seq(V)}
<1>4. T = {}
  <2>1. SUFFICES ASSUME T # {}  PROVE FALSE
    OBVIOUS
  <2>2. PICK k \in T : \A j \in T : k <= j
    <3>1. T \in SUBSET Nat
      BY <1>3
    <3>2. QED  BY <2>1, <3>1, NatHasMin
  <2>3. k \in 1..Len(ss) /\ f[k] \notin Seq(V)
    OBVIOUS
  <2>4. k # 1
    BY <1>2, <1>3, <2>3
  <2>5. k - 1 \in 1..Len(ss) /\ ~(k <= k - 1)
    BY <1>3, <2>3, <2>4
  <2>6. f[k - 1] \in Seq(V)
    BY <2>2, <2>5
  <2>7. f[k] = f[k - 1] \o ss[k] /\ ss[k] \in Seq(V)
    BY <1>2, <1>3, <2>3, <2>4
  <2>8. f[k - 1] \o ss[k] \in Seq(V)
    BY <2>6, <2>7, ConcatProperties
  <2>9. QED  BY <2>3, <2>7, <2>8
<1>5. CASE ss = <<>>
  <2>1. FlattenSeq(ss) = <<>>
    BY <1>5 DEF FlattenSeq
  <2>2. QED  BY <2>1, EmptySeq
<1>6. CASE ss # <<>>
  <2>1. Len(ss) # 0
    <3>1. \A U : ss \in Seq(U) => Len(ss) # 0
      BY <1>6
    <3>2. QED  BY <3>1
  <2>2. Len(ss) \in 1..Len(ss)
    BY <1>3, <2>1
  <2>3. FlattenSeq(ss) = f[Len(ss)]
    BY <1>1, <1>6, FlattenBy
  <2>4. QED  BY <1>4, <2>2, <2>3
<1>7. QED  BY <1>5, <1>6

(* What it gives for one sequence more. *)
LEMMA FlattenAppend ==
  ASSUME NEW V, NEW ss \in Seq(Seq(V)), NEW x \in Seq(V)
  PROVE  FlattenSeq(Append(ss, x)) = FlattenSeq(ss) \o x
<1> DEFINE tt == Append(ss, x)
<1>1. PICK f : Flattens(f, ss)
  BY FlattenExists
<1> DEFINE g == Longer(f, ss, x)
<1>2. Flattens(g, tt)
  BY <1>1, FlattenLonger
<1>3. tt \in Seq(Seq(V)) /\ tt # <<>> /\ Len(tt) = Len(ss) + 1 /\ Len(ss) \in Nat
  <2>1. \A T : ss \in Seq(T) /\ x \in T =>
          /\ Append(ss, x) \in Seq(T) /\ Append(ss, x) # <<>>
          /\ Len(Append(ss, x)) = Len(ss) + 1 /\ Len(ss) \in Nat
    OBVIOUS
  <2>2. QED  BY <2>1
<1>4. g[Len(ss) + 1] = IF Len(ss) + 1 = 1 THEN x ELSE f[Len(ss) + 1 - 1] \o x
  BY <1>3 DEF Longer
<1> HIDE DEF g, tt
<1>5. FlattenSeq(tt) = g[Len(ss) + 1]
  BY <1>2, <1>3, FlattenBy
<1>6. CASE ss = <<>>
  <2>1. Len(ss) = 0 /\ FlattenSeq(ss) = <<>>
    BY <1>6 DEF FlattenSeq
  <2>2. g[Len(ss) + 1] = x
    BY <1>4, <2>1
  <2>3. <<>> \o x = x
    BY ConcatEmptySeq
  <2>4. QED  BY <1>5, <2>1, <2>2, <2>3 DEF tt
<1>7. CASE ss # <<>>
  <2>1. Len(ss) + 1 # 1 /\ Len(ss) + 1 - 1 = Len(ss)
    BY <1>3, <1>7
  <2>2. g[Len(ss) + 1] = f[Len(ss)] \o x
    BY <1>4, <2>1
  <2>3. FlattenSeq(ss) = f[Len(ss)]
    BY <1>1, <1>7, FlattenBy
  <2>4. QED  BY <1>5, <2>2, <2>3 DEF tt
<1>8. QED  BY <1>6, <1>7

-----------------------------------------------------------------------------
(* What the requests make of the content. *)
LEMMA MaxOfTwo ==
  ASSUME NEW a \in Nat, NEW b \in Nat
  PROVE  /\ Max({a, b}) \in Nat /\ Max({a, b}) >= a /\ Max({a, b}) >= b
         /\ Max({a, b}) = a \/ Max({a, b}) = b
<1> DEFINE m == IF a >= b THEN a ELSE b
<1>1. m \in {a, b} /\ \A y \in {a, b} : m >= y
  OBVIOUS
<1>2. Max({a, b}) = CHOOSE x \in {a, b} : \A y \in {a, b} : x >= y
  BY DEF Max
<1> HIDE DEF m
<1>3. Max({a, b}) \in {a, b} /\ \A y \in {a, b} : Max({a, b}) >= y
  BY <1>1, <1>2, Zenon
<1>4. QED  BY <1>3

LEMMA OverlayIs ==
  ASSUME NEW old \in Seq(Nat), NEW p \in Nat, NEW bytes \in Seq(Nat)
  PROVE  Overlay(old, p, bytes) \in Seq(Nat)
<1> DEFINE m == Max({Len(old), p + Len(bytes)})
           e(i) == IF i - p \in DOMAIN bytes THEN bytes[i - p]
                   ELSE IF i \in DOMAIN old THEN old[i] ELSE 0
<1>1. m \in Nat
  <2>1. Len(old) \in Nat /\ p + Len(bytes) \in Nat
    OBVIOUS
  <2>2. QED  BY <2>1, MaxOfTwo
<1>2. \A j \in DOMAIN bytes : bytes[j] \in Nat
  OBVIOUS
<1>3. \A j \in DOMAIN old : old[j] \in Nat
  OBVIOUS
<1>4. \A i \in 1..m : e(i) \in Nat
  BY <1>2, <1>3
<1>5. Overlay(old, p, bytes) = [i \in 1..m |-> e(i)]
  BY DEF Overlay
<1> HIDE DEF m, e
<1>6. QED  BY <1>1, <1>4, <1>5

LEMMA OverlayNew ==
  ASSUME NEW bytes \in Seq(Nat)
  PROVE  Overlay(<<>>, 0, bytes) = bytes
<1>1. Max({Len(<<>>), 0 + Len(bytes)}) = Len(bytes)
  <2>1. Len(<<>>) = 0 /\ 0 + Len(bytes) = Len(bytes) /\ Len(bytes) \in Nat
    OBVIOUS
  <2>2. QED  BY <2>1, MaxOfTwo
<1>2. \A i \in 1..Len(bytes) : i - 0 = i /\ i \in DOMAIN bytes
  OBVIOUS
<1>3. Overlay(<<>>, 0, bytes) = [i \in 1..Len(bytes) |-> bytes[i]]
  BY <1>1, <1>2 DEF Overlay
<1>4. QED  BY <1>3

LEMMA DataIs ==
  ASSUME NEW c \in FsCall
  PROVE  /\ c \in Nat /\ Data(c) \in Seq(Nat) /\ Len(Data(c)) = 2
         /\ SubSeq(Data(c), 1, 2) = Data(c)
         /\ \A n \in 1..2 : SubSeq(Data(c), 1, n) \in Seq(Nat)
<1>1. c \in Nat
  BY FileAssumption
<1>2. Data(c) \in Seq(Nat) /\ Len(Data(c)) = 2
  BY <1>1 DEF Data
<1>3. SubSeq(Data(c), 1, 2) = Data(c)
  BY <1>2, SubSeqFull
<1>4. \A n \in 1..2 : SubSeq(Data(c), 1, n) \in Seq(Nat)
  <2>1. ASSUME NEW n \in 1..2  PROVE SubSeq(Data(c), 1, n) \in Seq(Nat)
    <3>1. \A i \in 1..n : i \in 1..2
      OBVIOUS
    <3>2. \A i \in 1..n : Data(c)[i] \in Nat
      BY <1>2, <3>1
    <3>3. n \in Int /\ 1 \in Int
      OBVIOUS
    <3>4. QED  BY <3>2, <3>3, SubSeqProperties
  <2>2. QED  BY <2>1
<1>5. QED  BY <1>1, <1>2, <1>3, <1>4

LEMMA AbsentIsNone == Absent \notin Seq(Nat) /\ Absent # <<>>
<1>1. Absent = <<-1>> /\ Len(Absent) = 1 /\ Absent[1] = -1
  BY DEF Absent
<1>2. -1 \notin Nat
  OBVIOUS
<1>3. ASSUME Absent \in Seq(Nat)  PROVE FALSE
  <2>1. Absent[1] \in Nat
    BY <1>1, <1>3, ElementOfSeq
  <2>2. QED  BY <1>1, <1>2, <2>1
<1>4. QED  BY <1>1, <1>3

LEMMA TextIs ==
  ASSUME NEW x
  PROVE  /\ x \in Seq(Nat) => IsText(x) /\ x # Absent /\ Had(x) = x
         /\ IsText(x) => Had(x) \in Seq(Nat)
         /\ IsText(x) /\ x # Absent => x \in Seq(Nat)
         /\ IsText(x) <=> x \in Text
         /\ <<>> \in Seq(Nat) /\ IsText(<<>>) /\ IsText(Absent)
BY AbsentIsNone DEF IsText, Text, Had

LEMMA TruncateIs ==
  ASSUME NEW f
  PROVE  LET bytes == [i \in 1..TruncateTo |-> IF i \in DOMAIN f THEN f[i] ELSE 0]
         IN  /\ f \in Seq(Nat) => bytes \in Seq(Nat)
             /\ f = <<>> => bytes = [i \in 1..TruncateTo |-> 0]
<1>1. TruncateTo \in Nat
  BY DEF TruncateTo
<1>2. QED  BY <1>1

LEMMA ListOfNumbers ==
  ASSUME NEW m \in Nat, NEW f \in [1..m -> Nat]
  PROVE  f \in Seq(Nat)
OBVIOUS

LEMMA ReadIs ==
  ASSUME NEW c \in FsCall, call[c].size \in Nat, file \in Seq(Nat),
         NEW n \in Nat, n <= call[c].size, n <= Len(file)
  PROVE  /\ ReadBuffer(c, n) \in Seq(Nat)
         /\ call[c].size = Len(file) /\ ~(n < Min({call[c].size, Len(file)})) =>
              ReadBuffer(c, n) = file
<1>1. ReadBuffer(c, n) \in Seq(Nat)
  <2>1. \A i \in 1..call[c].size : (IF i <= n THEN file[i] ELSE 0) \in Nat
    OBVIOUS
  <2>2. ReadBuffer(c, n) \in [1..call[c].size -> Nat]
    BY <2>1 DEF ReadBuffer
  <2>3. QED  BY <2>2, ListOfNumbers
<1>2. ASSUME call[c].size = Len(file), ~(n < Min({call[c].size, Len(file)}))
      PROVE  ReadBuffer(c, n) = file
  <2>1. Min({call[c].size, Len(file)}) = Len(file)
    BY <1>2 DEF Min
  <2>2. n = Len(file)
    BY <1>2, <2>1
  <2>3. ReadBuffer(c, n) = [i \in 1..Len(file) |-> file[i]]
    BY <1>2, <2>2 DEF ReadBuffer
  <2>4. QED  BY <2>3
<1>3. QED  BY <1>1, <1>2

LEMMA ResultSame ==
  ASSUME NEW c, NEW s, NEW t, t.kind = s.kind, t.before = s.before
  PROVE  Result(c, t) = Result(c, s)
BY DEF Result

LEMMA ResultIs ==
  ASSUME NEW c, NEW s
  PROVE  /\ s.kind = "write" => Result(c, s) = Data(c)
         /\ s.kind = "append" => Result(c, s) = Had(s.before) \o Data(c)
         /\ s.kind = "read" => Result(c, s) = s.before
         /\ s.kind = "truncate" => Result(c, s) = [i \in 1..TruncateTo |-> 0]
BY DEF Result

-----------------------------------------------------------------------------
(* The appends. *)
LEMMA FlattenedData ==
  ASSUME NEW order \in Seq(FsCall)
  PROVE  DataOf(order) \in Seq(Seq(Nat))
<1>1. \A d \in FsCall : Data(d) \in Seq(Nat)
  BY DataIs
<1> DEFINE T == Seq(Nat)
<1>2. \A d \in FsCall : Data(d) \in T
  BY <1>1
<1> HIDE DEF T
<1>3. DataOf(order) \in Seq(T)
  BY <1>2 DEF DataOf
<1>4. QED  BY <1>3 DEF T

LEMMA DataOfMore ==
  ASSUME NEW order \in Seq(FsCall), NEW c \in FsCall
  PROVE  FlattenSeq(DataOf(Append(order, c))) = FlattenSeq(DataOf(order)) \o Data(c)
<1> DEFINE more == Append(order, c)
<1>1. DataOf(order) \in Seq(Seq(Nat)) /\ Data(c) \in Seq(Nat)
  BY FlattenedData, DataIs
<1>2. more \in Seq(FsCall) /\ Len(more) = Len(order) + 1 /\ Len(order) \in Nat
      /\ DOMAIN order = 1..Len(order) /\ DOMAIN more = 1..Len(order) + 1
      /\ \A i \in 1..Len(order) + 1 : more[i] = IF i <= Len(order) THEN order[i] ELSE c
  OBVIOUS
<1> HIDE DEF more
<1>3. DataOf(more) = [i \in 1..Len(order) + 1 |-> Data(more[i])]
  BY <1>2 DEF DataOf
<1>4. DataOf(order) = [i \in 1..Len(order) |-> Data(order[i])]
  BY <1>2 DEF DataOf
<1>5. DataOf(more) = Append(DataOf(order), Data(c))
  <2>1. Len(DataOf(order)) = Len(order)
    BY <1>1, <1>2, <1>4
  <2> DEFINE a == Append(DataOf(order), Data(c))
  <2>2. a = [i \in 1..Len(order) + 1 |->
               IF i <= Len(order) THEN DataOf(order)[i] ELSE Data(c)]
    <3>1. \A T : \A ss \in Seq(T) : \A x \in T :
            Append(ss, x) = [i \in 1..Len(ss) + 1 |-> IF i <= Len(ss) THEN ss[i] ELSE x]
      <4>1. ASSUME NEW T, NEW ss \in Seq(T), NEW x \in T
            PROVE  Append(ss, x) = [i \in 1..Len(ss) + 1 |-> IF i <= Len(ss) THEN ss[i] ELSE x]
        <5> DEFINE b == [i \in 1..Len(ss) + 1 |-> IF i <= Len(ss) THEN ss[i] ELSE x]
        <5>1. Append(ss, x) \in Seq(T) /\ Len(Append(ss, x)) = Len(ss) + 1
              /\ \A i \in 1..Len(ss) + 1 :
                   Append(ss, x)[i] = IF i <= Len(ss) THEN ss[i] ELSE x
          OBVIOUS
        <5>2. b \in Seq(T) /\ Len(b) = Len(ss) + 1
              /\ \A i \in 1..Len(ss) + 1 : b[i] = IF i <= Len(ss) THEN ss[i] ELSE x
          OBVIOUS
        <5> HIDE DEF b
        <5>3. Append(ss, x) = b
          BY <5>1, <5>2, SeqEqual
        <5>4. QED  BY <5>3 DEF b
      <4>2. QED  BY <4>1
    <3>2. QED  BY <1>1, <2>1, <3>1
  <2>3. \A i \in 1..Len(order) + 1 :
          Data(more[i]) = IF i <= Len(order) THEN DataOf(order)[i] ELSE Data(c)
    BY <1>2, <1>4
  <2> HIDE DEF a
  <2>4. a = DataOf(more)
    BY <1>3, <2>2, <2>3, Zenon
  <2>5. QED  BY <2>4 DEF a
<1>6. FlattenSeq(Append(DataOf(order), Data(c))) = FlattenSeq(DataOf(order)) \o Data(c)
  BY <1>1, FlattenAppend
<1>7. QED  BY <1>5, <1>6 DEF more

LEMMA NoDataFlat == FlattenSeq(DataOf(<<>>)) = <<>>
<1>1. DataOf(<<>>) = <<>>
  BY DEF DataOf
<1>2. QED  BY <1>1 DEF FlattenSeq

LEMMA OrderMore ==
  ASSUME NEW order, NEW V, Orders(order, V), NEW c \in FsCall, c \notin V
  PROVE  Orders(Append(order, c), V \cup {c})
<1> DEFINE more == Append(order, c)
<1>1. order \in Seq(FsCall) /\ {order[i] : i \in DOMAIN order} = V
      /\ \A i, j \in DOMAIN order : i # j => order[i] # order[j]
  BY DEF Orders
<1>2. /\ more \in Seq(FsCall) /\ Len(order) \in Nat
      /\ DOMAIN order = 1..Len(order) /\ DOMAIN more = 1..Len(order) + 1
      /\ \A i \in 1..Len(order) : more[i] = order[i]
      /\ more[Len(order) + 1] = c
      /\ Len(order) + 1 \in 1..Len(order) + 1
  BY <1>1
<1> HIDE DEF more
<1>3. \A i \in 1..Len(order) : order[i] \in V
  BY <1>1, <1>2
<1>4. \A i \in 1..Len(order) + 1 : i \in 1..Len(order) \/ i = Len(order) + 1
  BY <1>2
<1>5. {more[i] : i \in DOMAIN more} = V \cup {c}
  <2>1. ASSUME NEW i \in DOMAIN more  PROVE more[i] \in V \cup {c}
    <3>1. CASE i \in 1..Len(order)
      BY <1>2, <1>3, <3>1
    <3>2. CASE i = Len(order) + 1
      <4>1. more[Len(order) + 1] = c
        BY <1>2
      <4>2. QED  BY <3>2, <4>1
    <3>3. QED  BY <1>2, <1>4, <3>1, <3>2
  <2>2. ASSUME NEW x \in V  PROVE \E i \in DOMAIN more : more[i] = x
    <3>1. PICK i \in DOMAIN order : order[i] = x
      BY <1>1
    <3>2. i \in DOMAIN more /\ more[i] = x
      BY <1>2, <3>1
    <3>3. QED  BY <3>2
  <2>3. \E i \in DOMAIN more : more[i] = c
    <3>1. Len(order) + 1 \in DOMAIN more
      BY <1>2
    <3>2. more[Len(order) + 1] = c
      BY <1>2
    <3>3. QED  BY <3>1, <3>2
  <2>4. QED  BY <2>1, <2>2, <2>3
<1>6. ASSUME NEW i \in DOMAIN more, NEW j \in DOMAIN more, i # j
      PROVE  more[i] # more[j]
  <2>1. CASE i \in 1..Len(order) /\ j \in 1..Len(order)
    BY <1>1, <1>2, <1>6, <2>1
  <2>2. CASE i = Len(order) + 1
    <3>1. j \in 1..Len(order)
      BY <1>2, <1>4, <1>6, <2>2
    <3>2. QED  BY <1>2, <1>3, <2>2, <3>1
  <2>3. CASE j = Len(order) + 1
    <3>1. i \in 1..Len(order)
      BY <1>2, <1>4, <1>6, <2>3
    <3>2. QED  BY <1>2, <1>3, <2>3, <3>1
  <2>4. QED  BY <1>2, <1>4, <2>1, <2>2, <2>3
<1>7. QED  BY <1>2, <1>5, <1>6 DEF Orders, more

Moves(c, t) == call' = [call EXCEPT ![c] = t]

LEMMA Moved ==
  ASSUME call \in [FsCall -> Calls], NEW c \in FsCall, NEW t, Moves(c, t)
  PROVE  call'[c] = t /\ \A d \in FsCall : d # c => call'[d] = call[d]
BY DEF Moves

(* A step that writes nothing. *)
LEMMA KeptStays ==
  ASSUME AllKept, call \in [FsCall -> Calls], NEW c \in FsCall, NEW t, Moves(c, t),
         initially' = initially,
         Appending(t) =>
           /\ Appending(call[c]) /\ (HasWritten(t) <=> HasWritten(call[c]))
           /\ file' = file \/ (file = Absent /\ file' = <<>>)
  PROVE  AllKept'
<1>1. SUFFICES ASSUME \A d \in FsCall : Appending(call'[d])
      PROVE  \E order \in Seq(FsCall) :
               Orders(order, {d \in FsCall : HasWritten(call'[d])}) /\ Holds(order)'
  BY DEF AllKept
<1>2. call'[c] = t /\ \A d \in FsCall : d # c => call'[d] = call[d]
  BY Moved
<1>3. \A d \in FsCall : Appending(call[d])
  BY <1>1, <1>2
<1>4. PICK order \in Seq(FsCall) :
        Orders(order, {d \in FsCall : HasWritten(call[d])}) /\ Holds(order)
  BY <1>3 DEF AllKept
<1>5. \A d \in FsCall : HasWritten(call'[d]) <=> HasWritten(call[d])
  BY <1>1, <1>2
<1>6. {d \in FsCall : HasWritten(call'[d])} = {d \in FsCall : HasWritten(call[d])}
  BY <1>5
<1>7. Holds(order)'
  <2>1. Appending(t)
    BY <1>1, <1>2
  <2>2. CASE file' = file
    BY <1>4, <2>2 DEF Holds
  <2>3. CASE file = Absent /\ file' = <<>>
    <3>1. initially = Absent /\ order = <<>>
      BY <1>4, <2>3 DEF Holds
    <3>2. <<>> = <<>> \o <<>> /\ file' # Absent
      BY <2>3, AbsentIsNone
    <3>3. QED  BY <2>3, <3>1, <3>2, NoDataFlat DEF Holds, Had
  <2>4. QED  BY <2>1, <2>2, <2>3
<1>8. QED  BY <1>4, <1>6, <1>7

(* A call of appendFile() has written its data. *)
LEMMA KeptGrows ==
  ASSUME AllKept, IsText(file), IsText(initially),
         call \in [FsCall -> Calls], NEW c \in FsCall, NEW t, Moves(c, t),
         initially' = initially,
         Appending(t) =>
           /\ Appending(call[c]) /\ HasWritten(t) /\ ~HasWritten(call[c])
           /\ file # Absent /\ file' = file \o Data(c)
  PROVE  AllKept'
<1>1. SUFFICES ASSUME \A d \in FsCall : Appending(call'[d])
      PROVE  \E order \in Seq(FsCall) :
               Orders(order, {d \in FsCall : HasWritten(call'[d])}) /\ Holds(order)'
  BY DEF AllKept
<1> DEFINE V == {d \in FsCall : HasWritten(call[d])}
<1>2. call'[c] = t /\ \A d \in FsCall : d # c => call'[d] = call[d]
  BY Moved
<1>3. \A d \in FsCall : Appending(call[d])
  BY <1>1, <1>2
<1>4. PICK order \in Seq(FsCall) : Orders(order, V) /\ Holds(order)
  BY <1>3 DEF AllKept
<1>5. HasWritten(t) /\ ~HasWritten(call[c]) /\ file # Absent /\ file' = file \o Data(c)
  BY <1>1, <1>2
<1>6. {d \in FsCall : HasWritten(call'[d])} = V \cup {c}
  BY <1>2, <1>5
<1>7. c \notin V
  BY <1>5
<1> HIDE DEF V
<1>8. Orders(Append(order, c), V \cup {c}) /\ Append(order, c) \in Seq(FsCall)
  <2>1. Append(order, c) \in Seq(FsCall)
    OBVIOUS
  <2>2. QED  BY <1>4, <1>7, <2>1, OrderMore
<1>9. Holds(Append(order, c))'
  <2> DEFINE h == Had(initially)
             flat == FlattenSeq(DataOf(order))
             d == Data(c)
  <2>1. file = h \o flat
    BY <1>4, <1>5 DEF Holds
  <2>2. h \in Seq(Nat) /\ d \in Seq(Nat) /\ file \in Seq(Nat)
    BY <1>5, TextIs, DataIs
  <2>3. flat \in Seq(Nat)
    BY FlattenedData, FlattenTyped
  <2>4. FlattenSeq(DataOf(Append(order, c))) = flat \o d
    BY DataOfMore
  <2> HIDE DEF h, flat, d
  <2>5. (h \o flat) \o d = h \o (flat \o d)
    BY <2>2, <2>3, ConcatAssociative
  <2>6. file' \in Seq(Nat) /\ file' = h \o (flat \o d)
    <3>1. file' = file \o d
      BY <1>5 DEF d
    <3>2. file \o d \in Seq(Nat)
      BY <2>2, ConcatProperties
    <3>3. QED  BY <2>1, <2>5, <3>1, <3>2
  <2>7. file' # Absent
    BY <2>6, AbsentIsNone
  <2>8. file' = Had(initially') \o FlattenSeq(DataOf(Append(order, c)))
    BY <2>4, <2>6 DEF h
  <2>9. QED  BY <2>7, <2>8 DEF Holds
<1>10. QED  BY <1>6, <1>8, <1>9

(* What the invariant says of a call. *)
OfCall(c, s, f) ==
  /\ IsCall(s) /\ CallOk(s) /\ IsThere(s, f) /\ (c \in alone => Works(c, s, f))

LEMMA OfCallIs ==
  ASSUME FileInv, NEW c \in FsCall
  PROVE  OfCall(c, call[c], file)
BY DEF FileInv, OfCall, IsCall

(* A step of a call that runs keeps the invariant if it keeps what is said *)
(* of the call, and the appends.                                           *)
LEMMA MoveKeeps ==
  ASSUME FileInv, NEW c \in FsCall, NEW t, Running(c), Moves(c, t),
         UNCHANGED <<initially, alone>>, fails' \in Nat,
         IsText(file'), file # Absent => file' # Absent,
         OfCall(c, t, file'), AllKept'
  PROVE  FileInv'
<1>1. /\ call \in [FsCall -> Calls] /\ alone \subseteq FsCall /\ IsText(initially)
      /\ \A d \in FsCall : CallOk(call[d]) /\ IsThere(call[d], file)
      /\ \A d \in alone : Undisturbed(d) /\ Works(d, call[d], file)
  BY DEF FileInv
<1>2. /\ call'[c] = t
      /\ \A d \in FsCall : d # c => call'[d] = call[d]
  BY <1>1, Moved
<1>3. call' \in [FsCall -> Calls]
  BY <1>1 DEF Moves, OfCall, IsCall
<1>4. ASSUME NEW d \in FsCall  PROVE CallOk(call'[d]) /\ IsThere(call'[d], file')
  <2>1. CASE d = c
    BY <1>2, <2>1 DEF OfCall
  <2>2. CASE d # c
    <3>1. call'[d] = call[d] /\ CallOk(call[d]) /\ IsThere(call[d], file)
      BY <1>1, <1>2, <2>2
    <3>2. IsThere(call[d], file')
      BY <3>1 DEF IsThere
    <3>3. QED  BY <3>1, <3>2
  <2>3. QED  BY <2>1, <2>2
<1>5. ASSUME NEW d \in FsCall, Running(d)'  PROVE Running(d)
  BY <1>2, <1>5 DEF Running
<1>6. ASSUME NEW d \in alone  PROVE Undisturbed(d)' /\ Works(d, call'[d], file')
  <2>1. d \in FsCall /\ Undisturbed(d) /\ Works(d, call[d], file)
    BY <1>1
  <2>2. CASE d = c
    <3>1. Works(d, call'[d], file')
      BY <1>2, <2>2 DEF OfCall
    <3>2. \A e \in FsCall \ {c} : ~Running(e)
      BY <2>1, <2>2 DEF Undisturbed
    <3>3. QED  BY <1>5, <2>2, <3>1, <3>2 DEF Undisturbed
  <2>3. CASE d # c
    <3>1. ~Running(d)
      BY <2>1, <2>3 DEF Undisturbed
    <3>2. call'[d] = call[d] /\ call[d].at = "none" /\ ~Running(d)'
      BY <1>2, <2>1, <2>3, <3>1 DEF Running
    <3>3. Works(d, call'[d], file')
      BY <2>1, <3>2 DEF Works
    <3>4. QED  BY <3>2, <3>3 DEF Undisturbed
  <2>4. QED  BY <2>2, <2>3
<1>7. QED  BY <1>1, <1>3, <1>4, <1>6 DEF FileInv

(* The fields of a call. *)
LEMMA CallFields ==
  ASSUME NEW s, IsCall(s)
  PROVE  /\ s.kind \in {"none", "read", "write", "append", "truncate"}
         /\ s.at \in {"none", "stat", "open", "read", "write", "ftruncate", "close"}
         /\ s.fd \in BOOLEAN /\ s.size \in Nat /\ s.offset \in Nat /\ s.length \in Nat
         /\ s.err \in BOOLEAN /\ s.partial \in BOOLEAN
         /\ s.failed \in SUBSET {"stat", "open", "read", "write", "ftruncate", "close"}
         /\ IsText(s.before) /\ s.answers \in Answers
BY DEF IsCall, Calls, IsText

Tells(q, err, content) ==
  /\ q \in Answers /\ Len(q) = 1 /\ q # <<>>
  /\ q[1].err = err /\ q[1].file = content

LEMMA OneAnswer ==
  ASSUME NEW q, q = <<>>, NEW err \in BOOLEAN, NEW content, IsText(content)
  PROVE  Tells(Append(q, Answer(err, content)), err, content)
<1> DEFINE a == Answer(err, content)
           T == [err : BOOLEAN, file : Text]
<1>1. a \in T /\ a.err = err /\ a.file = content
  BY DEF Answer, IsText
<1>2. q \in Seq(T)
  OBVIOUS
<1> HIDE DEF a, T
<1>3. /\ Append(q, a) \in Seq(T) /\ Len(Append(q, a)) = 1 /\ Append(q, a) # <<>>
      /\ Append(q, a)[1] = a
  BY <1>1, <1>2
<1>4. QED  BY <1>1, <1>3 DEF Tells, Answers, T, a

-----------------------------------------------------------------------------
(* The requests, one by one. *)
LEMMA StatDoneKeeps ==
  ASSUME FileInv, NEW c \in FsCall, StatDone(c)
  PROVE  FileInv'
<1> DEFINE s == call[c]
           t == [s EXCEPT !.at = "open", !.size = Len(file)]
<1>1. OfCall(c, s, file) /\ IsText(file) /\ fails \in Nat /\ AllKept
      /\ call \in [FsCall -> Calls]
  BY OfCallIs DEF FileInv
<1>2. s.at = "stat" /\ file # Absent /\ call' = [call EXCEPT ![c].at = "open", ![c].size = Len(file)]
      /\ UNCHANGED <<file, initially, alone, fails>>
  BY DEF StatDone, Waits
<1>3. Moves(c, t)
  BY <1>2 DEF Moves
<1>4. file \in Seq(Nat) /\ Len(file) \in Nat
  <2>1. file \in Seq(Nat)
    BY <1>1, <1>2, TextIs
  <2>2. QED  BY <2>1
<1>5. /\ IsCall(t) /\ t.at = "open" /\ t.size = Len(file) /\ t.kind = s.kind
      /\ t.offset = s.offset /\ t.err = s.err /\ t.failed = s.failed
      /\ t.partial = s.partial /\ t.before = s.before /\ t.answers = s.answers
  BY <1>1, <1>4 DEF OfCall, IsCall, Calls
<1> HIDE DEF t
<1>6. CallOk(t) /\ IsThere(t, file)
  BY <1>1, <1>2, <1>5 DEF OfCall, CallOk, IsThere
<1>7. ASSUME c \in alone  PROVE Works(c, t, file)
  <2>1. Works(c, s, file) /\ s.answers = <<>>
    BY <1>1, <1>2, <1>7 DEF OfCall, CallOk
  <2>2. QED  BY <1>2, <1>4, <1>5, <2>1 DEF Works, Told
<1>8. Appending(t) => Appending(s) /\ (HasWritten(t) <=> HasWritten(s))
  BY <1>2, <1>5 DEF Appending, HasWritten
<1>9. AllKept'
  BY <1>1, <1>2, <1>3, <1>8, KeptStays
<1>10. Running(c)
  BY <1>2 DEF Running
<1>11. OfCall(c, t, file)
  BY <1>5, <1>6, <1>7 DEF OfCall
<1>12. QED  BY <1>1, <1>2, <1>3, <1>9, <1>10, <1>11, MoveKeeps

LEMMA OpenDoneKeeps ==
  ASSUME FileInv, NEW c \in FsCall, OpenDone(c)
  PROVE  FileInv'
<1> DEFINE s == call[c]
           n == IF s.kind \in {"write", "append"} THEN Len(Data(c)) ELSE 0
           next == CASE s.kind = "read" -> "read"
                     [] s.kind \in {"write", "append"} -> "write"
                     [] s.kind = "truncate" -> "ftruncate"
           t == [s EXCEPT !.fd = TRUE, !.length = n, !.at = next]
<1>1. /\ OfCall(c, s, file) /\ IsText(file) /\ fails \in Nat /\ AllKept
      /\ call \in [FsCall -> Calls]
  BY OfCallIs DEF FileInv
<1>2. /\ s.at = "open" /\ (s.kind = "read" => file # Absent)
      /\ file' = Opened(s.kind) /\ UNCHANGED <<initially, alone, fails>>
  BY DEF OpenDone, Waits
<1>3. Moves(c, t)
  <2>1. call' = [call EXCEPT ![c].fd = TRUE, ![c].length = n, ![c].at = next]
    BY Zenon DEF OpenDone
  <2> HIDE DEF n, next
  <2>2. QED  BY <2>1 DEF Moves
<1>4. /\ s.answers = <<>> /\ s.failed = {} /\ ~s.err /\ ~s.partial /\ s.offset = 0
      /\ s.kind \in {"read", "write", "append", "truncate"}
  BY <1>1, <1>2, CallFields DEF OfCall, CallOk
<1>5. /\ s.kind = "read" => next = "read"
      /\ s.kind \in {"write", "append"} => next = "write" /\ n = 2
      /\ s.kind = "truncate" => next = "ftruncate"
      /\ n \in Nat
  BY <1>4, DataIs
<1> HIDE DEF n, next
<1>6. /\ IsCall(t) /\ t.at = next /\ t.length = n /\ t.kind = s.kind /\ t.size = s.size
      /\ t.offset = s.offset /\ t.err = s.err /\ t.failed = s.failed
      /\ t.partial = s.partial /\ t.before = s.before /\ t.answers = s.answers
  BY <1>1, <1>4, <1>5 DEF OfCall, IsCall, Calls
<1> HIDE DEF t
<1>7. /\ s.kind \in {"write", "truncate"} => file' = <<>>
      /\ s.kind = "append" => file' = Had(file)
      /\ s.kind = "read" => file' = file
  BY <1>2 DEF Opened, Had
<1>8. IsText(file') /\ file' # Absent
  <2>1. Had(file) \in Seq(Nat) /\ <<>> \in Seq(Nat)
    BY <1>1, TextIs
  <2>2. s.kind = "read" => file \in Seq(Nat)
    BY <1>1, <1>2, TextIs
  <2>3. file' \in Seq(Nat)
    BY <1>4, <1>7, <2>1, <2>2
  <2>4. QED  BY <2>3, TextIs
<1>9. CallOk(t) /\ IsThere(t, file')
  BY <1>4, <1>5, <1>6, <1>8 DEF CallOk, IsThere
<1>10. ASSUME c \in alone  PROVE Works(c, t, file')
  <2>1. Works(c, s, file)
    BY <1>1, <1>10 DEF OfCall
  <2>2. /\ file = s.before
        /\ s.kind = "read" => file \in Seq(Nat) /\ s.size = Len(file)
    BY <1>2, <1>4, <2>1 DEF Works
  <2>3. QED  BY <1>4, <1>5, <1>6, <1>7, <2>2 DEF Works, Told
<1>11. Appending(t) => /\ Appending(s) /\ (HasWritten(t) <=> HasWritten(s))
                       /\ file' = file \/ (file = Absent /\ file' = <<>>)
  BY <1>2, <1>4, <1>5, <1>6, <1>7 DEF Appending, HasWritten, Had
<1>12. AllKept'
  BY <1>1, <1>2, <1>3, <1>11, KeptStays
<1>13. Running(c)
  BY <1>2 DEF Running
<1>14. OfCall(c, t, file')
  BY <1>6, <1>9, <1>10 DEF OfCall
<1>15. QED  BY <1>1, <1>2, <1>3, <1>8, <1>12, <1>13, <1>14, MoveKeeps

LEMMA ReadDoneKeeps ==
  ASSUME FileInv, NEW c \in FsCall, NEW n \in 0..Len(file), ReadDone(c, n)
  PROVE  FileInv'
<1> DEFINE s == call[c]
           short == n < Min({s.size, Len(file)})
           told == Append(s.answers, Answer(FALSE, ReadBuffer(c, n)))
           t == [s EXCEPT !.at = "close", !.partial = @ \/ short, !.answers = told]
<1>1. /\ OfCall(c, s, file) /\ IsText(file) /\ fails \in Nat /\ AllKept
      /\ call \in [FsCall -> Calls]
  BY OfCallIs DEF FileInv
<1>2. s.at = "read" /\ UNCHANGED <<file, initially, alone>> /\ n <= s.size /\ n <= Len(file)
  BY DEF ReadDone, Waits
<1>3. Moves(c, t)
  BY DEF ReadDone, Moves
<1>a. fails' \in Nat
  <2>1. fails' = fails \/ fails' = fails + 1
    BY DEF ReadDone
  <2>2. QED  BY <1>1, <2>1
<1>4. /\ s.answers = <<>> /\ s.failed = {} /\ ~s.err /\ s.kind = "read" /\ file # Absent
      /\ s.size \in Nat
  BY <1>1, <1>2, CallFields DEF OfCall, CallOk, IsThere
<1>5. /\ ReadBuffer(c, n) \in Seq(Nat)
      /\ s.size = Len(file) /\ ~short => ReadBuffer(c, n) = file
  <2>1. file \in Seq(Nat)
    BY <1>1, <1>4, TextIs
  <2>2. n \in Nat /\ s = call[c]
    BY <2>1
  <2> HIDE DEF s
  <2>3. QED  BY <1>2, <1>4, <2>1, <2>2, ReadIs
<1>6. Tells(told, FALSE, ReadBuffer(c, n))
  <2>1. IsText(ReadBuffer(c, n))
    BY <1>5, TextIs
  <2>2. QED  BY <1>4, <2>1, OneAnswer
<1> HIDE DEF told
<1>7. /\ IsCall(t) /\ t.at = "close" /\ t.kind = s.kind /\ t.failed = s.failed
      /\ t.partial = (s.partial \/ short) /\ t.before = s.before /\ t.answers = told
  BY <1>1, <1>6 DEF OfCall, IsCall, Calls, Tells
<1> HIDE DEF t, short
<1>8. CallOk(t) /\ IsThere(t, file)
  BY <1>4, <1>6, <1>7 DEF CallOk, IsThere, Honest, Tells
<1>9. ASSUME c \in alone  PROVE Works(c, t, file)
  <2>1. Works(c, s, file)
    BY <1>1, <1>9 DEF OfCall
  <2>2. ~s.partial => file = s.before /\ s.size = Len(file)
    BY <1>2, <1>4, <2>1 DEF Works
  <2>3. Result(c, t) = t.before
    BY <1>4, <1>7, ResultIs
  <2>4. QED  BY <1>4, <1>5, <1>6, <1>7, <2>2, <2>3 DEF Works, Told, Tells
<1>10. Appending(t) => Appending(s) /\ (HasWritten(t) <=> HasWritten(s))
  BY <1>4, <1>7 DEF Appending, HasWritten
<1>11. AllKept'
  BY <1>1, <1>2, <1>3, <1>10, KeptStays
<1>12. Running(c)
  BY <1>2 DEF Running
<1>13. OfCall(c, t, file)
  BY <1>7, <1>8, <1>9 DEF OfCall
<1>14. QED  BY <1>a, <1>1, <1>2, <1>3, <1>11, <1>12, <1>13, MoveKeeps

LEMMA WriteDoneKeeps ==
  ASSUME FileInv, NEW c \in FsCall, NEW n \in 1..2, WriteDone(c, n)
  PROVE  FileInv'
<1> DEFINE s == call[c]
           left == s.length - n
           t == [s EXCEPT !.at = IF left = 0 THEN "close" ELSE "write",
                          !.offset = @ + n, !.length = left,
                          !.partial = @ \/ left > 0]
<1>1. /\ OfCall(c, s, file) /\ IsText(file) /\ IsText(initially) /\ fails \in Nat
      /\ AllKept /\ call \in [FsCall -> Calls]
  BY OfCallIs DEF FileInv
<1>2. /\ s.at = "write" /\ n \in 1..s.length /\ file' = Written(c, n)
      /\ fails' = (IF left > 0 THEN fails + 1 ELSE fails)
      /\ UNCHANGED <<initially, alone>>
  BY DEF WriteDone, Waits
<1>3. Moves(c, t)
  BY DEF WriteDone, Moves
<1>4. /\ s.answers = <<>> /\ s.failed = {} /\ ~s.err /\ s.kind \in {"write", "append"}
      /\ file # Absent /\ s.length \in Nat /\ s.offset \in Nat
      /\ ~s.partial => s.offset = 0 /\ s.length = 2
  BY <1>1, <1>2, CallFields DEF OfCall, CallOk, IsThere
<1>5. left \in Nat /\ fails' \in Nat
  BY <1>1, <1>2, <1>4
<1>6. /\ IsCall(t) /\ t.at = (IF left = 0 THEN "close" ELSE "write") /\ t.kind = s.kind
      /\ t.failed = s.failed /\ t.err = s.err /\ t.partial = (s.partial \/ left > 0)
      /\ t.before = s.before /\ t.answers = s.answers
  <2>1. s.offset + n \in Nat
    BY <1>4
  <2>2. QED  BY <1>1, <1>4, <1>5, <2>1 DEF OfCall, IsCall, Calls
<1> HIDE DEF t
<1>7. ~t.partial => left = 0 /\ ~s.partial /\ n = 2
  <2>1. SUFFICES ASSUME ~t.partial  PROVE left = 0 /\ ~s.partial /\ n = 2
    OBVIOUS
  <2>2. ~s.partial /\ ~(left > 0)
    BY <1>6, <2>1
  <2>3. s.length = 2
    BY <1>4, <2>2
  <2>4. QED  BY <1>5, <2>2, <2>3
<1> HIDE DEF left
<1>8. file \in Seq(Nat)
  BY <1>1, <1>4, TextIs
<1>9. file' \in Seq(Nat)
  <2>1. SubSeq(Data(c), 1, n) \in Seq(Nat)
    BY DataIs
  <2>2. file \o SubSeq(Data(c), 1, n) \in Seq(Nat)
    BY <1>8, <2>1, ConcatProperties
  <2>3. Overlay(file, s.offset, SubSeq(Data(c), 1, n)) \in Seq(Nat)
    BY <1>4, <1>8, <2>1, OverlayIs
  <2>4. QED  BY <1>2, <2>2, <2>3 DEF Written
<1>10. n = 2 /\ s.kind = "append" => file' = file \o Data(c)
  BY <1>2, DataIs DEF Written
<1>11. n = 2 /\ s.kind = "write" /\ s.offset = 0 /\ file = <<>> => file' = Data(c)
  <2>1. Overlay(<<>>, 0, Data(c)) = Data(c)
    BY DataIs, OverlayNew
  <2>2. QED  BY <1>2, <2>1, DataIs DEF Written
<1>12. IsText(file') /\ file' # Absent
  BY <1>9, TextIs
<1>13. CallOk(t) /\ IsThere(t, file')
  BY <1>4, <1>5, <1>6, <1>7, <1>12 DEF CallOk, IsThere
<1>14. ASSUME c \in alone  PROVE Works(c, t, file')
  <2>1. SUFFICES ASSUME ~t.partial  PROVE t.at = "close" /\ file' = Result(c, t)
    BY <1>4, <1>6, <1>7 DEF Works, Told
  <2>2. Works(c, s, file) /\ ~s.partial /\ n = 2 /\ left = 0
    BY <1>1, <1>7, <1>14, <2>1 DEF OfCall
  <2>3. file = IF s.kind = "append" THEN Had(s.before) ELSE <<>>
    BY <1>2, <1>4, <2>2 DEF Works
  <2>4. t.at = "close"
    BY <1>6, <2>2
  <2>5. CASE s.kind = "append"
    <3>1. file' = Had(s.before) \o Data(c)
      BY <1>10, <2>2, <2>3, <2>5
    <3>2. Result(c, t) = Had(t.before) \o Data(c) /\ t.before = s.before
      BY <1>6, <2>5, ResultIs
    <3>3. QED  BY <2>4, <3>1, <3>2
  <2>6. CASE s.kind = "write"
    <3>1. file' = Data(c)
      BY <1>4, <1>11, <2>2, <2>3, <2>6
    <3>2. QED  BY <1>6, <2>4, <2>6, <3>1, ResultIs
  <2>7. QED  BY <1>4, <2>5, <2>6
<1>15. Appending(t) => /\ Appending(s) /\ HasWritten(t) /\ ~HasWritten(s)
                       /\ file # Absent /\ file' = file \o Data(c)
  <2>1. SUFFICES ASSUME Appending(t)
        PROVE  /\ Appending(s) /\ HasWritten(t) /\ ~HasWritten(s)
               /\ file # Absent /\ file' = file \o Data(c)
    OBVIOUS
  <2>2. s.kind = "append" /\ n = 2 /\ left = 0 /\ ~s.partial
    BY <1>4, <1>6, <1>7, <2>1 DEF Appending
  <2>3. Appending(s) /\ HasWritten(t) /\ ~HasWritten(s)
    BY <1>2, <1>4, <1>6, <2>2 DEF Appending, HasWritten
  <2>4. QED  BY <1>4, <1>10, <2>2, <2>3
<1>16. AllKept'
  BY <1>1, <1>2, <1>3, <1>15, KeptGrows
<1>17. Running(c)
  BY <1>2 DEF Running
<1>18. OfCall(c, t, file')
  BY <1>6, <1>13, <1>14 DEF OfCall
<1>19. QED  BY <1>2, <1>3, <1>5, <1>12, <1>16, <1>17, <1>18, MoveKeeps

LEMMA FtruncateDoneKeeps ==
  ASSUME FileInv, NEW c \in FsCall, FtruncateDone(c)
  PROVE  FileInv'
<1> DEFINE s == call[c]
           t == [s EXCEPT !.at = "close"]
           bytes == [i \in 1..TruncateTo |-> IF i \in DOMAIN file THEN file[i] ELSE 0]
<1>1. /\ OfCall(c, s, file) /\ IsText(file) /\ fails \in Nat /\ AllKept
      /\ call \in [FsCall -> Calls]
  BY OfCallIs DEF FileInv
<1>2. /\ s.at = "ftruncate" /\ file' = Overlay(<<>>, 0, bytes)
      /\ UNCHANGED <<initially, alone, fails>>
  BY DEF FtruncateDone, Waits
<1>3. Moves(c, t)
  BY DEF FtruncateDone, Moves
<1>4. /\ s.answers = <<>> /\ s.failed = {} /\ ~s.err /\ s.kind = "truncate"
      /\ file # Absent
  BY <1>1, <1>2, CallFields DEF OfCall, CallOk, IsThere
<1>5. /\ bytes \in Seq(Nat)
      /\ file = <<>> => bytes = [i \in 1..TruncateTo |-> 0]
  <2>1. file \in Seq(Nat)
    BY <1>1, <1>4, TextIs
  <2>2. QED  BY <2>1, TruncateIs
<1> HIDE DEF bytes
<1>6. file' = bytes
  BY <1>2, <1>5, OverlayNew
<1>7. /\ IsCall(t) /\ t.at = "close" /\ t.kind = s.kind /\ t.err = s.err
      /\ t.failed = s.failed /\ t.partial = s.partial /\ t.before = s.before
      /\ t.answers = s.answers
  BY <1>1 DEF OfCall, IsCall, Calls
<1> HIDE DEF t
<1>8. IsText(file') /\ file' # Absent
  BY <1>5, <1>6, TextIs
<1>9. CallOk(t) /\ IsThere(t, file')
  BY <1>4, <1>7 DEF CallOk, IsThere
<1>10. ASSUME c \in alone  PROVE Works(c, t, file')
  <2>1. Works(c, s, file)
    BY <1>1, <1>10 DEF OfCall
  <2>2. ~s.partial => file = <<>>
    BY <1>2, <1>4, <2>1 DEF Works
  <2>3. Result(c, t) = [i \in 1..TruncateTo |-> 0]
    BY <1>4, <1>7, ResultIs
  <2>4. QED  BY <1>4, <1>5, <1>6, <1>7, <2>2, <2>3 DEF Works, Told
<1>11. ~Appending(t)
  BY <1>4, <1>7 DEF Appending
<1>12. AllKept'
  BY <1>1, <1>2, <1>3, <1>11, KeptStays
<1>13. Running(c)
  BY <1>2 DEF Running
<1>14. OfCall(c, t, file')
  BY <1>7, <1>9, <1>10 DEF OfCall
<1>15. QED  BY <1>1, <1>2, <1>3, <1>8, <1>12, <1>13, <1>14, MoveKeeps

-----------------------------------------------------------------------------
(* The end of a call, its failures and its beginning. *)
LEMMA CloseKeeps ==
  ASSUME FileInv, NEW c \in FsCall, NEW failed \in BOOLEAN, Waits(c, "close"),
         CloseAnswers(c, failed), UNCHANGED <<file, initially, alone>>, fails' \in Nat
  PROVE  FileInv'
<1> DEFINE s == call[c]
           err == IF s.kind = "truncate" THEN failed ELSE s.err \/ failed
           all == IF failed THEN s.failed \cup {"close"} ELSE s.failed
           told == IF s.kind = "read" THEN s.answers
                   ELSE Append(s.answers, Answer(err, file))
           t == [s EXCEPT !.at = "none", !.fd = FALSE, !.failed = all, !.answers = told]
<1>1. /\ OfCall(c, s, file) /\ IsText(file) /\ AllKept /\ call \in [FsCall -> Calls]
  BY OfCallIs DEF FileInv
<1>2. s.at = "close"
  BY DEF Waits
<1>3. Moves(c, t)
  BY DEF CloseAnswers, Moves
<1>4. /\ s.kind # "none" /\ s.err \in BOOLEAN /\ s.answers \in Answers
      /\ s.kind = "read" => Honest(s) /\ (~s.answers[1].err => s.failed = {})
      /\ s.kind # "read" =>
           /\ s.answers = <<>> /\ (s.err <=> s.failed # {})
           /\ s.failed \subseteq IF s.kind = "truncate" THEN {"ftruncate"} ELSE {"write"}
  BY <1>1, <1>2, CallFields DEF OfCall, CallOk
<1>5. s.kind # "read" => Tells(told, err, file)
  <2>1. err \in BOOLEAN
    BY <1>4
  <2>2. SUFFICES ASSUME s.kind # "read"  PROVE Tells(Append(s.answers, Answer(err, file)), err, file)
    OBVIOUS
  <2> HIDE DEF err
  <2>3. QED  BY <1>1, <1>4, <2>1, <2>2, OneAnswer
<1>6. /\ s.kind = "read" => told = s.answers
      /\ told \in Answers
  BY <1>4, <1>5 DEF Tells
<1> HIDE DEF told
<1>7. /\ IsCall(t) /\ t.at = "none" /\ t.kind = s.kind /\ t.failed = all
      /\ t.partial = s.partial /\ t.before = s.before /\ t.answers = told
  BY <1>1, <1>6 DEF OfCall, IsCall, Calls
<1> HIDE DEF t
<1>8. Honest(t)
  <2>1. CASE s.kind = "read"
    BY <1>4, <1>6, <1>7, <2>1 DEF Honest
  <2>2. CASE s.kind = "truncate"
    BY <1>4, <1>5, <1>7, <2>2 DEF Honest, Tells
  <2>3. CASE s.kind \notin {"read", "truncate"}
    BY <1>4, <1>5, <1>7, <2>3 DEF Honest, Tells
  <2>4. QED  BY <2>1, <2>2, <2>3
<1>9. CallOk(t) /\ IsThere(t, file)
  BY <1>7, <1>8 DEF CallOk, IsThere
<1>10. ASSUME c \in alone  PROVE Works(c, t, file)
  <2>1. Works(c, s, file)
    BY <1>1, <1>10 DEF OfCall
  <2>2. SUFFICES ASSUME t.failed = {}, ~t.partial, Told(t, FALSE)
        PROVE  t.answers[1].file = Result(c, t)
    BY <1>7 DEF Works
  <2>3. s.failed = {} /\ ~s.partial /\ Result(c, t) = Result(c, s)
    BY <1>7, <2>2, ResultSame
  <2>4. CASE s.kind = "read"
    BY <1>6, <1>7, <2>1, <2>2, <2>3, <2>4 DEF Works, Told
  <2>5. CASE s.kind # "read"
    <3>1. file = Result(c, s)
      BY <1>2, <2>1, <2>3, <2>5 DEF Works
    <3>2. t.answers[1].file = file
      BY <1>5, <1>7, <2>5 DEF Tells
    <3>3. QED  BY <2>3, <3>1, <3>2
  <2>6. QED  BY <2>4, <2>5
<1>11. Appending(t) => Appending(s) /\ (HasWritten(t) <=> HasWritten(s))
  <2>1. SUFFICES ASSUME Appending(t)
        PROVE  Appending(s) /\ (HasWritten(t) <=> HasWritten(s))
    OBVIOUS
  <2>2. s.kind = "append" /\ told # <<>>
    BY <1>4, <1>5, <1>7, <2>1 DEF Appending, Tells
  <2>3. s.failed = {} /\ ~s.partial
    BY <1>7, <2>1 DEF Appending
  <2>4. QED  BY <1>2, <1>7, <2>2, <2>3 DEF Appending, HasWritten
<1>12. AllKept'
  BY <1>1, <1>3, <1>11, KeptStays
<1>13. Running(c)
  BY <1>2 DEF Running
<1>14. OfCall(c, t, file)
  BY <1>7, <1>9, <1>10 DEF OfCall
<1>15. QED  BY <1>1, <1>3, <1>12, <1>13, <1>14, MoveKeeps

LEMMA CloseDoneKeeps ==
  ASSUME FileInv, NEW c \in FsCall, CloseDone(c) \/ CloseFails(c)
  PROVE  FileInv'
<1>1. fails \in Nat
  BY DEF FileInv
<1>2. CASE CloseDone(c)
  BY <1>1, <1>2, CloseKeeps DEF CloseDone
<1>3. CASE CloseFails(c)
  <2>1. Waits(c, "close") /\ CloseAnswers(c, TRUE) /\ Failing(c)
    BY <1>3, Zenon DEF CloseFails
  <2>2. fails' \in Nat /\ UNCHANGED <<file, initially, alone>>
    BY <1>1, <2>1 DEF Failing
  <2>3. TRUE \in BOOLEAN
    OBVIOUS
  <2>4. QED  BY <2>1, <2>2, <2>3, CloseKeeps, Zenon
<1>4. QED  BY <1>2, <1>3

(* A call that fails has the failure, and is not one of those that do as   *)
(* they should.                                                            *)
LEMMA FailureKeeps ==
  ASSUME FileInv, NEW c \in FsCall, NEW t, Running(c), Moves(c, t),
         UNCHANGED <<file, initially, alone>>, fails' \in Nat,
         IsCall(t), CallOk(t), t.at \in {"none", "close"}, t.failed # {}
  PROVE  FileInv'
<1>1. IsText(file) /\ AllKept /\ call \in [FsCall -> Calls]
  BY DEF FileInv
<1>2. IsThere(t, file) /\ Works(c, t, file) /\ ~Appending(t)
  BY DEF IsThere, Works, Appending
<1>3. AllKept'
  BY <1>1, <1>2, KeptStays
<1>4. OfCall(c, t, file)
  BY <1>2 DEF OfCall
<1>5. QED  BY <1>1, <1>3, <1>4, MoveKeeps

LEMMA NotOpenedKeeps ==
  ASSUME FileInv, NEW c \in FsCall, NotOpened(c)
  PROVE  FileInv'
<1> DEFINE s == call[c]
           told == Append(s.answers, Answer(TRUE, file))
           t == [s EXCEPT !.at = "none", !.failed = @ \cup {s.at}, !.answers = told]
<1>1. /\ OfCall(c, s, file) /\ IsText(file) /\ fails \in Nat /\ call \in [FsCall -> Calls]
  BY OfCallIs DEF FileInv
<1>2. s.at \in {"stat", "open"} /\ UNCHANGED <<file, initially, alone>> /\ fails' \in Nat
  BY <1>1 DEF NotOpened, Waits, Failing
<1>3. Moves(c, t)
  BY DEF NotOpened, Moves
<1>4. s.answers = <<>> /\ s.failed = {}
  BY <1>1, <1>2 DEF OfCall, CallOk
<1>5. Tells(told, TRUE, file)
  BY <1>1, <1>4, OneAnswer
<1> HIDE DEF told
<1>6. IsCall(t) /\ t.at = "none" /\ t.kind = s.kind /\ t.failed = {s.at} /\ t.answers = told
  BY <1>1, <1>2, <1>4, <1>5 DEF OfCall, IsCall, Calls, Tells
<1> HIDE DEF t
<1>7. CallOk(t)
  BY <1>5, <1>6 DEF CallOk, Honest, Tells
<1>8. Running(c)
  BY <1>2 DEF Running
<1>9. QED  BY <1>2, <1>3, <1>6, <1>7, <1>8, FailureKeeps

LEMMA ReadFailsKeeps ==
  ASSUME FileInv, NEW c \in FsCall, ReadFails(c)
  PROVE  FileInv'
<1> DEFINE s == call[c]
           told == Append(s.answers, Answer(TRUE, file))
           t == [s EXCEPT !.at = "close", !.failed = @ \cup {"read"}, !.answers = told]
<1>1. /\ OfCall(c, s, file) /\ IsText(file) /\ fails \in Nat /\ call \in [FsCall -> Calls]
  BY OfCallIs DEF FileInv
<1>2. s.at = "read" /\ UNCHANGED <<file, initially, alone>> /\ fails' \in Nat
  BY <1>1 DEF ReadFails, Waits, Failing
<1>3. Moves(c, t)
  BY DEF ReadFails, Moves
<1>4. s.answers = <<>> /\ s.failed = {} /\ s.kind = "read"
  BY <1>1, <1>2 DEF OfCall, CallOk
<1>5. Tells(told, TRUE, file)
  BY <1>1, <1>4, OneAnswer
<1> HIDE DEF told
<1>6. IsCall(t) /\ t.at = "close" /\ t.kind = s.kind /\ t.failed = {"read"} /\ t.answers = told
  BY <1>1, <1>4, <1>5 DEF OfCall, IsCall, Calls, Tells
<1> HIDE DEF t
<1>7. CallOk(t)
  BY <1>4, <1>5, <1>6 DEF CallOk, Honest, Tells
<1>8. Running(c)
  BY <1>2 DEF Running
<1>9. QED  BY <1>2, <1>3, <1>6, <1>7, <1>8, FailureKeeps

LEMMA WriteFailsKeeps ==
  ASSUME FileInv, NEW c \in FsCall, WriteFails(c)
  PROVE  FileInv'
<1> DEFINE s == call[c]
           t == [s EXCEPT !.at = "close", !.err = TRUE, !.failed = @ \cup {"write"}]
<1>1. /\ OfCall(c, s, file) /\ IsText(file) /\ fails \in Nat /\ call \in [FsCall -> Calls]
  BY OfCallIs DEF FileInv
<1>2. s.at = "write" /\ UNCHANGED <<file, initially, alone>> /\ fails' \in Nat
  BY <1>1 DEF WriteFails, Waits, Failing
<1>3. Moves(c, t)
  BY DEF WriteFails, Moves
<1>4. s.answers = <<>> /\ s.failed = {} /\ s.kind \in {"write", "append"}
  BY <1>1, <1>2 DEF OfCall, CallOk
<1>5. /\ IsCall(t) /\ t.at = "close" /\ t.kind = s.kind /\ t.failed = {"write"}
      /\ t.answers = <<>> /\ t.err
  BY <1>1, <1>4 DEF OfCall, IsCall, Calls
<1> HIDE DEF t
<1>6. CallOk(t)
  BY <1>4, <1>5 DEF CallOk
<1>7. Running(c)
  BY <1>2 DEF Running
<1>8. QED  BY <1>2, <1>3, <1>5, <1>6, <1>7, FailureKeeps

LEMMA FtruncateFailsKeeps ==
  ASSUME FileInv, NEW c \in FsCall, FtruncateFails(c)
  PROVE  FileInv'
<1> DEFINE s == call[c]
           t == [s EXCEPT !.at = "close", !.err = TRUE, !.failed = @ \cup {"ftruncate"}]
<1>1. /\ OfCall(c, s, file) /\ IsText(file) /\ fails \in Nat /\ call \in [FsCall -> Calls]
  BY OfCallIs DEF FileInv
<1>2. s.at = "ftruncate" /\ UNCHANGED <<file, initially, alone>> /\ fails' \in Nat
  BY <1>1 DEF FtruncateFails, Waits, Failing
<1>3. Moves(c, t)
  BY DEF FtruncateFails, Moves
<1>4. s.answers = <<>> /\ s.failed = {} /\ s.kind = "truncate"
  BY <1>1, <1>2 DEF OfCall, CallOk
<1>5. /\ IsCall(t) /\ t.at = "close" /\ t.kind = s.kind /\ t.failed = {"ftruncate"}
      /\ t.answers = <<>> /\ t.err
  BY <1>1, <1>4 DEF OfCall, IsCall, Calls
<1> HIDE DEF t
<1>6. CallOk(t)
  BY <1>4, <1>5 DEF CallOk
<1>7. Running(c)
  BY <1>2 DEF Running
<1>8. QED  BY <1>2, <1>3, <1>5, <1>6, <1>7, FailureKeeps

LEMMA BeginKeeps ==
  ASSUME FileInv, NEW c \in FsCall, NEW kind \in Kinds, Begin(c, kind)
  PROVE  FileInv'
<1> DEFINE first == IF kind = "read" THEN "stat" ELSE "open"
           t == [Unused EXCEPT !.kind = kind, !.before = file, !.at = first]
           others == {d \in FsCall : Running(d)}
<1>1. /\ IsText(file) /\ IsText(initially) /\ fails \in Nat /\ AllKept
      /\ call \in [FsCall -> Calls] /\ alone \subseteq FsCall
      /\ \A d \in FsCall : CallOk(call[d]) /\ IsThere(call[d], file)
      /\ \A d \in alone : Undisturbed(d) /\ Works(d, call[d], file)
  BY DEF FileInv
<1>2. /\ call[c] = Unused /\ UNCHANGED <<file, initially, fails>>
      /\ alone' = (IF \E d \in FsCall : Running(d) THEN alone \ ({c} \cup others) ELSE alone)
  BY DEF Begin
<1>3. Moves(c, t)
  BY <1>2 DEF Begin, Moves
<1>4. kind \in {"read", "write", "append", "truncate"}
  BY FileAssumption
<1>5. /\ IsCall(t) /\ t.at = first /\ t.kind = kind /\ t.before = file
      /\ t.answers = <<>> /\ t.failed = {} /\ ~t.partial /\ ~t.err /\ t.offset = 0
  <2>1. /\ t.at = first /\ t.kind = kind /\ t.before = file
        /\ t.answers = <<>> /\ t.failed = {} /\ ~t.partial /\ ~t.err /\ t.offset = 0
    BY DEF Unused
  <2>2. <<>> \in Answers
    BY DEF Answers
  <2>3. IsCall(t)
    BY <1>1, <1>4, <2>2 DEF Unused, IsCall, Calls, IsText
  <2>4. QED  BY <2>1, <2>3
<1>6. Unused.at = "none" /\ Unused.failed = {} /\ ~Unused.partial /\ Unused.kind = "none"
  BY DEF Unused
<1> HIDE DEF t
<1>7. call'[c] = t /\ \A d \in FsCall : d # c => call'[d] = call[d]
  BY <1>1, <1>3, Moved
<1>8. call' \in [FsCall -> Calls] /\ alone' \subseteq FsCall
  BY <1>1, <1>2, <1>3, <1>5 DEF Moves, IsCall
<1>9. CallOk(t) /\ IsThere(t, file) /\ Works(c, t, file)
  BY <1>4, <1>5 DEF CallOk, IsThere, Works, Told
<1>10. ASSUME NEW d \in FsCall  PROVE CallOk(call'[d]) /\ IsThere(call'[d], file')
  BY <1>1, <1>2, <1>7, <1>9
<1>11. ASSUME NEW d \in alone'  PROVE Undisturbed(d)' /\ Works(d, call'[d], file')
  <2>1. d \in FsCall /\ d \in alone
    BY <1>1, <1>2
  <2>2. Works(d, call'[d], file')
    BY <1>1, <1>2, <1>7, <1>9, <2>1
  <2>3. CASE \E e \in FsCall : Running(e)
    <3>1. d # c /\ ~Running(d)
      BY <1>2, <2>1, <2>3
    <3>2. ~Running(d)'
      BY <1>7, <2>1, <3>1 DEF Running
    <3>3. QED  BY <2>2, <3>2 DEF Undisturbed
  <2>4. CASE \A e \in FsCall : ~Running(e)
    <3>1. \A e \in FsCall : e # c => ~Running(e)'
      BY <1>7, <2>4 DEF Running
    <3>2. Undisturbed(d)'
      BY <2>1, <3>1 DEF Undisturbed
    <3>3. QED  BY <2>2, <3>2
  <2>5. QED  BY <2>3, <2>4
<1>12. Appending(t) => Appending(call[c]) /\ (HasWritten(t) <=> HasWritten(call[c]))
  <2>1. Appending(call[c]) /\ ~HasWritten(call[c])
    BY <1>2, <1>6 DEF Appending, HasWritten
  <2>2. ~HasWritten(t)
    BY <1>5 DEF HasWritten
  <2>3. QED  BY <2>1, <2>2
<1>13. AllKept'
  BY <1>1, <1>2, <1>3, <1>12, KeptStays
<1>14. QED  BY <1>1, <1>2, <1>8, <1>10, <1>11, <1>13 DEF FileInv

LEMMA FileInitial == FileInit => FileInv
<1>1. SUFFICES ASSUME FileInit  PROVE FileInv
  OBVIOUS
<1>2. IsText(file) /\ initially = file /\ alone = FsCall /\ fails = 0
      /\ call = [c \in FsCall |-> Unused]
  BY <1>1, FileAssumption DEF FileInit, IsText, Text
<1>3. IsCall(Unused) /\ CallOk(Unused) /\ Unused.at = "none" /\ Unused.answers = <<>>
      /\ Unused.kind = "none"
  <2>1. <<>> \in Text /\ <<>> \in Answers
    BY DEF Text, Answers
  <2>2. IsCall(Unused)
    BY <2>1 DEF IsCall, Calls, Unused
  <2>3. Unused.at = "none" /\ Unused.answers = <<>> /\ Unused.kind = "none"
    BY DEF Unused
  <2>4. QED  BY <2>2, <2>3 DEF CallOk
<1>4. call \in [FsCall -> Calls] /\ \A c \in FsCall : call[c] = Unused
  BY <1>2, <1>3 DEF IsCall
<1>5. \A f : IsThere(Unused, f)
  BY <1>3 DEF IsThere
<1>6. \A c \in FsCall : ~Running(c) /\ Works(c, Unused, file)
  BY <1>3, <1>4 DEF Running, Works, Told
<1>7. AllKept
  <2>1. {c \in FsCall : HasWritten(call[c])} = {}
    BY <1>3, <1>4 DEF HasWritten
  <2>2. Orders(<<>>, {}) /\ <<>> \in Seq(FsCall)
    BY DEF Orders
  <2>3. Holds(<<>>)
    <3>1. CASE file = Absent
      BY <1>2, <3>1 DEF Holds
    <3>2. CASE file # Absent
      <4>1. file \in Seq(Nat) /\ Had(initially) = file
        BY <1>2, <3>2, TextIs
      <4>2. file \o <<>> = file
        BY <4>1, ConcatEmptySeq
      <4>3. QED  BY <3>2, <4>1, <4>2, NoDataFlat DEF Holds
    <3>3. QED  BY <3>1, <3>2
  <2>4. QED  BY <2>1, <2>2, <2>3 DEF AllKept
<1>8. QED  BY <1>2, <1>3, <1>4, <1>5, <1>6, <1>7 DEF FileInv, Undisturbed

LEMMA FileKeeps == FileInv /\ [FileNext]_fileVars => FileInv'
<1> SUFFICES ASSUME FileInv, [FileNext]_fileVars  PROVE FileInv'
  OBVIOUS
<1>1. CASE UNCHANGED fileVars
  BY <1>1 DEF fileVars, FileInv, AllKept, Holds, Undisturbed, Running
<1>2. ASSUME NEW c \in FsCall, Served(c)  PROVE FileInv'
  <2>1. CASE StatDone(c)
    BY <2>1, StatDoneKeeps
  <2>2. CASE OpenDone(c)
    BY <2>2, OpenDoneKeeps
  <2>3. CASE \E n \in 0..Len(file) : ReadDone(c, n)
    BY <2>3, ReadDoneKeeps
  <2>4. CASE FtruncateDone(c)
    BY <2>4, FtruncateDoneKeeps
  <2>5. CASE \E n \in 1..2 : WriteDone(c, n)
    BY <2>5, WriteDoneKeeps
  <2>6. CASE CloseDone(c) \/ CloseFails(c)
    BY <2>6, CloseDoneKeeps
  <2>7. CASE NotOpened(c)
    BY <2>7, NotOpenedKeeps
  <2>8. CASE ReadFails(c)
    BY <2>8, ReadFailsKeeps
  <2>9. CASE WriteFails(c)
    BY <2>9, WriteFailsKeeps
  <2>10. CASE FtruncateFails(c)
    BY <2>10, FtruncateFailsKeeps
  <2>11. QED
    BY <1>2, <2>1, <2>2, <2>3, <2>4, <2>5, <2>6, <2>7, <2>8, <2>9, <2>10 DEF Served
<1>3. ASSUME NEW c \in FsCall, NEW kind \in Kinds, Begin(c, kind)  PROVE FileInv'
  BY <1>3, BeginKeeps
<1>4. QED  BY <1>1, <1>2, <1>3 DEF FileNext

(* An order of all the calls. *)
LEMMA OrderOfAll ==
  ASSUME NEW order, Orders(order, FsCall)
  PROVE  order \in SetToSeqs(FsCall)
<1>1. /\ order \in Seq(FsCall) /\ {order[i] : i \in DOMAIN order} = FsCall
      /\ \A i, j \in DOMAIN order : i # j => order[i] # order[j]
  BY DEF Orders
<1> DEFINE n == Len(order)
<1>2. n \in Nat /\ DOMAIN order = 1..n /\ order \in [1..n -> FsCall]
  BY <1>1
<1>3. order \in Bijection(1..n, FsCall)
  <2>1. order \in Injection(1..n, FsCall)
    <3>1. IsInjective(order)
      BY <1>1, <1>2 DEF IsInjective
    <3>2. QED  BY <1>2, <3>1 DEF Injection
  <2>2. order \in Surjection(1..n, FsCall)
    BY <1>1, <1>2 DEF Surjection
  <2>3. QED  BY <2>1, <2>2 DEF Bijection
<1>4. Cardinality(FsCall) = n
  <2>1. ExistsBijection(1..n, FsCall)
    BY <1>3 DEF ExistsBijection
  <2>2. IsFiniteSet(1..n) /\ Cardinality(1..n) = n
    BY <1>2, FS_Interval
  <2>3. QED  BY <2>1, <2>2, FS_Bijection
<1>5. QED  BY <1>1, <1>2, <1>4 DEF SetToSeqs

LEMMA FileInvHonest == FileInv => AnswersHonest
<1> SUFFICES ASSUME FileInv  PROVE AnswersHonest
  OBVIOUS
<1>1. ASSUME NEW c \in FsCall
      PROVE  LET s == call[c]  a == s.answers[1]
             IN  /\ Len(s.answers) <= 1
                 /\ Said(c, TRUE) => s.failed # {}
                 /\ Said(c, FALSE) => s.failed \subseteq IF s.kind = "read" THEN {"close"}
                                                          ELSE {"ftruncate"}
                 /\ Said(c, FALSE) /\ c \in alone /\ ~s.partial /\ s.failed = {} =>
                      a.file = CASE s.kind = "write" -> Data(c)
                                 [] s.kind = "append" ->
                                      (IF s.before = Absent THEN <<>> ELSE s.before) \o Data(c)
                                 [] s.kind = "read" -> s.before
                                 [] s.kind = "truncate" -> [i \in 1..TruncateTo |-> 0]
  <2> DEFINE s == call[c]
  <2>1. IsCall(s) /\ CallOk(s) /\ (c \in alone => Works(c, s, file))
    BY OfCallIs DEF OfCall
  <2>2. s.answers = <<>> \/ Honest(s)
    <3>1. s.at \in {"none", "stat", "open", "read", "write", "ftruncate", "close"}
      BY <2>1, CallFields
    <3>2. Unused.answers = <<>>
      BY DEF Unused
    <3>3. QED  BY <2>1, <3>1, <3>2 DEF CallOk
  <2>3. Said(c, TRUE) <=> Told(s, TRUE)
    BY DEF Said, Told
  <2>4. Said(c, FALSE) <=> Told(s, FALSE)
    BY DEF Said, Told
  <2>5. Result(c, s) = CASE s.kind = "write" -> Data(c)
                         [] s.kind = "append" ->
                              (IF s.before = Absent THEN <<>> ELSE s.before) \o Data(c)
                         [] s.kind = "read" -> s.before
                         [] s.kind = "truncate" -> [i \in 1..TruncateTo |-> 0]
    BY DEF Result, Had
  <2> HIDE DEF s
  <2>6. /\ Len(s.answers) <= 1
        /\ Told(s, TRUE) => s.failed # {}
        /\ Told(s, FALSE) => s.failed \subseteq IF s.kind = "read" THEN {"close"}
                                                 ELSE {"ftruncate"}
    <3>1. s.answers = <<>> => Len(s.answers) = 0
      OBVIOUS
    <3>2. Len(s.answers) = 1 => s.answers[1].err \in BOOLEAN
      <4>1. SUFFICES ASSUME Len(s.answers) = 1  PROVE s.answers[1].err \in BOOLEAN
        OBVIOUS
      <4>2. s.answers[1] \in [err : BOOLEAN, file : Text]
        <5>1. s.answers \in Seq([err : BOOLEAN, file : Text])
          BY <2>1, CallFields DEF Answers
        <5>2. \A T : \A q \in Seq(T) : Len(q) = 1 => q[1] \in T
          <6>1. ASSUME NEW T, NEW q \in Seq(T), Len(q) = 1  PROVE q[1] \in T
            <7>1. 1 \in 1..Len(q)
              BY <6>1
            <7>2. QED  BY <7>1, ElementOfSeq
          <6>2. QED  BY <6>1
        <5>3. QED  BY <4>1, <5>1, <5>2, Zenon
      <4>3. QED  BY <4>2
    <3>3. CASE s.answers = <<>>
      BY <3>1, <3>3 DEF Told
    <3>4. CASE Honest(s)
      BY <3>2, <3>4 DEF Honest, Told
    <3>5. QED  BY <2>2, <3>3, <3>4
  <2>7. Told(s, FALSE) /\ c \in alone /\ ~s.partial /\ s.failed = {} =>
          s.answers[1].file = Result(c, s)
    BY <2>1 DEF Works
  <2>8. QED  BY <2>3, <2>4, <2>5, <2>6, <2>7, Zenon DEF s
<1>2. ASSUME \A c \in FsCall : call[c].kind = "append" /\ call[c].failed = {}
                             /\ ~call[c].partial /\ call[c].answers # <<>>
      PROVE  \E order \in SetToSeqs(FsCall) :
               file = (IF initially = Absent THEN <<>> ELSE initially)
                      \o FlattenSeq([i \in DOMAIN order |-> Data(order[i])])
  <2>1. \A c \in FsCall : Appending(call[c]) /\ HasWritten(call[c])
    BY <1>2 DEF Appending, HasWritten
  <2>2. {c \in FsCall : HasWritten(call[c])} = FsCall
    BY <2>1
  <2>3. PICK order \in Seq(FsCall) : Orders(order, FsCall) /\ Holds(order)
    BY <2>1, <2>2 DEF FileInv, AllKept
  <2>4. order # <<>>
    BY <2>3, FileAssumption DEF Orders
  <2>5. file = Had(initially) \o FlattenSeq(DataOf(order))
    BY <2>3, <2>4 DEF Holds
  <2>6. order \in SetToSeqs(FsCall)
    BY <2>3, OrderOfAll
  <2>7. QED  BY <2>5, <2>6 DEF Had, DataOf
<1>3. QED  BY <1>1, <1>2 DEF AnswersHonest

(* Every call on a file is answered once at most, with an error when a     *)
(* request failed and only then (but for ftruncate()), a call that was     *)
(* alone has done what it says, and appends that overlap lose nothing of   *)
(* each other: AfterWriteInWriteAll, AfterCloseInWriteAll and the others.  *)
THEOREM AnswersAreHonest == FileSpec => []AnswersHonest
<1>1. QED  BY FileInitial, FileKeeps, FileInvHonest, PTL DEF FileSpec
=============================================================================
