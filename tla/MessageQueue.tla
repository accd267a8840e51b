---------------------------- MODULE MessageQueue ----------------------------
(***************************************************************************)
(* MessageQueue (include/libnode/detail/message_queue.h): other threads    *)
(* post messages, which a uv_async_t delivers to the listeners on the      *)
(* thread of the event loop.                                               *)
(*                                                                         *)
(* postMessage() runs on any thread and takes three steps, the test of     *)
(* open_, the offer to the queue and uv_async_send(), which interleave     *)
(* with the loop thread.  open_ is not atomic: a stale read of it is the   *)
(* same as a long pause after the test.  On the loop thread close() may be *)
(* called by a listener, in the middle of emitMessage().                   *)
(***************************************************************************)
EXTENDS Naturals, Sequences, FiniteSets

CONSTANTS
  Posters,     \* the threads that post
  MaxPosts,    \* bound: calls of postMessage() of each
  MaxOpens     \* bound: calls of open()

ASSUME ConstantsAssumption ==
  IsFiniteSet(Posters) /\ MaxPosts \in Nat /\ MaxOpens \in Nat

Message == [by: Posters, n: 1..MaxPosts]

(* An emitMessage() under way: called by receive() or by close(), before   *)
(* it looks at the queue or in the listener.                               *)
Frame == [from: {"receive", "close"}, inListener: BOOLEAN]

VARIABLES
  \* the MessageQueue object
  open,         \* open_
  queue,        \* queue_
  async,        \* async_: "none", "active", "closing", "closed"
  listening,    \* the message listeners are registered
  \* the loop thread
  frames,       \* the calls of emitMessage() under way, innermost last
  signalled,    \* uv_async_send() has been called since the last receive()
  \* the other threads
  pc,           \* "idle", or in postMessage() before "offer" or "send"
  posted,       \* calls of postMessage() begun by each
  \* history
  opens,        \* calls of open() that made the queue open
  accepted,     \* messages for which postMessage() returned true
  delivered,    \* messages the listeners have got, in order
  lost,         \* messages polled when there were no listeners
  raced,        \* close() was called while a thread was in postMessage()
  sentClosed,   \* uv_async_send() was called on a handle that is closed
  broken        \* the assertion of open() has failed

loopVars == <<open, async, listening, frames, opens, delivered, lost, raced, broken>>
vars == <<open, queue, async, listening, frames, signalled, pc, posted,
          opens, accepted, delivered, lost, raced, sentClosed, broken>>

Top      == frames[Len(frames)]
Replace(f) == [frames EXCEPT ![Len(frames)] = f]
AppsTurn == frames # <<>> => Top.inListener
Posting(p) == [by |-> p, n |-> posted[p]]

-----------------------------------------------------------------------------
(* The loop thread.  The application calls open() and close() outside      *)
(* emitMessage() or in a listener, and open() again only when uv_close()   *)
(* has called back; it registers its listeners with it.                    *)
Open ==
  /\ AppsTurn /\ async \in {"none", "closed"} /\ opens < MaxOpens
  /\ broken' = (broken \/ queue # <<>>)
  /\ open' = TRUE /\ async' = "active" /\ signalled' = FALSE
  /\ listening' = TRUE /\ opens' = opens + 1
  /\ UNCHANGED <<queue, frames, pc, posted, accepted, delivered, lost,
                 raced, sentClosed>>

(* Mutant: what is left in the queue is not emitted. *)
CloseLeaving ==
  /\ AppsTurn /\ open
  /\ raced' = (raced \/ \E p \in Posters : pc[p] # "idle")
  /\ open' = FALSE /\ async' = "closing" /\ signalled' = FALSE
  /\ listening' = FALSE
  /\ UNCHANGED <<queue, frames, pc, posted, opens, accepted, delivered, lost,
                 sentClosed, broken>>

(* close() up to its emitMessage(); EndLoop ends it. *)
Close ==
  /\ AppsTurn /\ open
  /\ raced' = (raced \/ \E p \in Posters : pc[p] # "idle")
  /\ open' = FALSE /\ async' = "closing" /\ signalled' = FALSE
  /\ frames' = Append(frames, [from |-> "close", inListener |-> FALSE])
  /\ UNCHANGED <<queue, listening, pc, posted, opens, accepted, delivered,
                 lost, sentClosed, broken>>

(* The loop calls back uv_close(). *)
Closed ==
  /\ frames = <<>> /\ async = "closing"
  /\ async' = "closed"
  /\ UNCHANGED <<open, queue, listening, frames, signalled, pc, posted, opens,
                 accepted, delivered, lost, raced, sentClosed, broken>>

(* uv_async_t: several sends are one callback. *)
Receive ==
  /\ frames = <<>> /\ async = "active" /\ signalled
  /\ signalled' = FALSE
  /\ frames' = <<[from |-> "receive", inListener |-> FALSE]>>
  /\ UNCHANGED <<open, queue, async, listening, pc, posted, opens, accepted,
                 delivered, lost, raced, sentClosed, broken>>

(* One turn of the loop of emitMessage().  Only this thread takes messages *)
(* out, so the queue is not empty when it polls.                           *)
Poll ==
  /\ frames # <<>> /\ ~Top.inListener /\ queue # <<>>
  /\ queue' = Tail(queue)
  /\ IF listening
     THEN /\ delivered' = Append(delivered, Head(queue))
          /\ frames' = Replace([Top EXCEPT !.inListener = TRUE])
          /\ lost' = lost
     ELSE /\ lost' = lost \cup {Head(queue)}
          /\ UNCHANGED <<delivered, frames>>
  /\ UNCHANGED <<open, async, listening, signalled, pc, posted, opens,
                 accepted, raced, sentClosed, broken>>

ListenerReturns ==
  /\ frames # <<>> /\ Top.inListener
  /\ frames' = Replace([Top EXCEPT !.inListener = FALSE])
  /\ UNCHANGED <<open, queue, async, listening, signalled, pc, posted, opens,
                 accepted, delivered, lost, raced, sentClosed, broken>>

(* Mutant: close() leaves the listeners registered. *)
EndLoopListening ==
  /\ frames # <<>> /\ ~Top.inListener /\ queue = <<>>
  /\ frames' = SubSeq(frames, 1, Len(frames) - 1)
  /\ UNCHANGED <<open, queue, async, listening, signalled, pc, posted, opens,
                 accepted, delivered, lost, raced, sentClosed, broken>>

(* The queue is empty: emitMessage() returns, and close() goes on to       *)
(* remove the listeners.                                                   *)
EndLoop ==
  /\ frames # <<>> /\ ~Top.inListener /\ queue = <<>>
  /\ frames' = SubSeq(frames, 1, Len(frames) - 1)
  /\ listening' = (listening /\ Top.from # "close")
  /\ UNCHANGED <<open, queue, async, signalled, pc, posted, opens, accepted,
                 delivered, lost, raced, sentClosed, broken>>

-----------------------------------------------------------------------------
(* postMessage(), on the thread p. *)

PostCheck(p) ==
  /\ pc[p] = "idle" /\ posted[p] < MaxPosts
  /\ posted' = [posted EXCEPT ![p] = @ + 1]
  /\ pc' = IF open THEN [pc EXCEPT ![p] = "offer"] ELSE pc
  /\ UNCHANGED <<loopVars, queue, signalled, accepted, sentClosed>>

PostOffer(p) ==
  /\ pc[p] = "offer"
  /\ queue' = Append(queue, Posting(p))
  /\ pc' = [pc EXCEPT ![p] = "send"]
  /\ UNCHANGED <<loopVars, signalled, posted, accepted, sentClosed>>

(* Mutant: the send is left out when the queue was not empty. *)
PostSendFirst(p) ==
  /\ pc[p] = "send"
  /\ signalled' = (signalled \/ (async = "active" /\ Len(queue) = 1))
  /\ sentClosed' = (sentClosed \/ async # "active")
  /\ accepted' = accepted \cup {Posting(p)}
  /\ pc' = [pc EXCEPT ![p] = "idle"]
  /\ UNCHANGED <<loopVars, queue, posted>>

(* uv_async_send() on a closed handle wakes nobody; it still returns 0. *)
PostSend(p) ==
  /\ pc[p] = "send"
  /\ signalled' = (signalled \/ async = "active")
  /\ sentClosed' = (sentClosed \/ async # "active")
  /\ accepted' = accepted \cup {Posting(p)}
  /\ pc' = [pc EXCEPT ![p] = "idle"]
  /\ UNCHANGED <<loopVars, queue, posted>>

Post(p) == PostCheck(p) \/ PostOffer(p) \/ PostSend(p)

-----------------------------------------------------------------------------
Init ==
  /\ open = FALSE /\ queue = <<>> /\ async = "none" /\ listening = FALSE
  /\ frames = <<>> /\ signalled = FALSE
  /\ pc = [p \in Posters |-> "idle"] /\ posted = [p \in Posters |-> 0]
  /\ opens = 0 /\ accepted = {} /\ delivered = <<>> /\ lost = {}
  /\ raced = FALSE /\ sentClosed = FALSE /\ broken = FALSE

(* The event loop, the application apart. *)
Loop == Receive \/ Poll \/ ListenerReturns \/ EndLoop \/ Closed

Next ==
  \/ Open
  \/ Close
  \/ Loop
  \/ \E p \in Posters : Post(p)

Spec == Init /\ [][Next]_vars

(* The loop turns, listeners return, and threads are scheduled until they  *)
(* have returned from postMessage(); nobody has to open, close or post.    *)
FairSpec ==
  /\ Spec
  /\ WF_vars(Loop)
  /\ \A p \in Posters : WF_vars(PostOffer(p) \/ PostSend(p))

-----------------------------------------------------------------------------
(* Properties. *)

(* Where close() is only called while no thread is in postMessage(), what  *)
(* postMessage() has accepted is delivered, or still in an open queue or   *)
(* one that close() is emptying; and the handle that is closed gets no     *)
(* uv_async_send().                                                        *)
QuietIsLossless ==
  ~raced =>
    /\ ~sentClosed
    /\ \A m \in accepted :
         \/ \E i \in DOMAIN delivered : delivered[i] = m
         \/ (\E i \in DOMAIN queue : queue[i] = m) /\ (open \/ frames # <<>>)

(* The queue is empty when it is opened (line 32). *)
EmptyWhenOpened == ~broken

(* Once close() has returned no listener is called until the next open(),  *)
(* not even by the emitMessage() from which a listener called close() when *)
(* a thread has meanwhile put a message into the queue.                    *)
SilentWhenClosed ==
  [][~open /\ (\A i \in DOMAIN frames : frames[i].from # "close")
       => delivered' = delivered]_vars

(* A message in an open queue is delivered, or the queue is closed. *)
Delivered ==
  \A m \in Message :
    (open /\ ~broken /\ \E i \in DOMAIN queue : queue[i] = m) ~>
      (~open \/ \E i \in DOMAIN delivered : delivered[i] = m)
=============================================================================
