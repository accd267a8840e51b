----------------------------- MODULE DgramSocket -----------------------------
(***************************************************************************)
(* dgram::Socket (detail/dgram/socket.h): datagrams sent before the socket *)
(* is bound wait in sendQueue_, every send() and bind() first looks its    *)
(* address up, and close() may come between any two of these steps.        *)
(* dns::lookup() answers for a numeric address in the next tick, in order, *)
(* and for a name at any later time and in any order.                      *)
(***************************************************************************)
EXTENDS Naturals, Sequences, FiniteSets, SequencesExt

CONSTANTS
  MaxSends,    \* bound: calls of send() that are accepted
  MaxBinds     \* bound: calls of bind() that are accepted

ASSUME DgramAssumption == MaxSends \in Nat /\ MaxBinds \in Nat

VARIABLES
  handle,      \* handle_ is not NULL
  bindState,   \* bindState_
  receiving,   \* receiving_
  sendQueue,   \* the sends in sendQueue_
  listeners,   \* of "listening": callbacks of bind(), and OnListening
  ticks,       \* what process::nextTick() will call
  names,       \* lookups of names that getaddrinfo will answer
  flying,      \* sends that libuv will complete
  sends,       \* history: the sends, to whom and how each was answered
  out,         \* history: the sends that were given to libuv
  outAtClose,  \* history: how many of them before close()
  binds        \* calls of bind() and send() that began to bind

dgramVars == <<handle, bindState, receiving, sendQueue, listeners, ticks, names,
               flying, sends, out, outAtClose, binds>>

(* What is not a send among the ticks and the lookups. *)
TheBind  == 0
TheClose == MaxSends + 1

Numeric(i) == sends[i].to = "numeric"

-----------------------------------------------------------------------------
(* dns::lookup() of one address, for x. *)
LookupOne(x, to) ==
  IF to = "numeric" THEN ticks' = Append(ticks, x) /\ UNCHANGED names
                    ELSE names' = names \cup {x} /\ UNCHANGED ticks

(* bind(): callback says whether it has one. *)
BindTo(to, callback, more) ==
  /\ binds < MaxBinds /\ binds' = binds + 1
  /\ bindState' = "BINDING"
  /\ listeners' = listeners \o callback \o more
  /\ LookupOne(TheBind, to)

Bind(to, callback) ==
  /\ handle /\ bindState = "UNBOUND"
  /\ BindTo(to, callback, <<>>)
  /\ UNCHANGED <<handle, receiving, sendQueue, flying, sends, out, outAtClose>>

(* send(): OnListening is there from the first send that has to wait. *)
Flusher == IF "flush" \in ToSet(listeners) THEN <<>> ELSE <<"flush">>

(* Mutant: what is sent while the socket is being bound does not wait. *)
SendNoWait(to) ==
  LET i == Len(sends) + 1
  IN  /\ handle /\ i <= MaxSends
      /\ sends' = Append(sends, [to |-> to, inside |-> FALSE, answers |-> <<>>])
      /\ IF bindState = "UNBOUND"
         THEN /\ BindTo("numeric", <<>>, Flusher) /\ sendQueue' = Append(sendQueue, i)
         ELSE /\ LookupOne(i, to)
              /\ UNCHANGED <<bindState, sendQueue, listeners, binds>>
      /\ UNCHANGED <<handle, receiving, flying, out, outAtClose>>

Send(to) ==
  LET i == Len(sends) + 1
  IN  /\ handle /\ i <= MaxSends
      /\ sends' = Append(sends, [to |-> to, inside |-> FALSE, answers |-> <<>>])
      /\ \/ /\ bindState = "UNBOUND"
            /\ BindTo("numeric", <<>>, Flusher)
            /\ sendQueue' = Append(sendQueue, i)
         \/ /\ bindState = "BINDING"
            /\ sendQueue' = Append(sendQueue, i)
            /\ listeners' = listeners \o Flusher
            /\ UNCHANGED <<bindState, ticks, names, binds>>
         \/ /\ bindState = "BOUND"
            /\ LookupOne(i, to)
            /\ UNCHANGED <<bindState, sendQueue, listeners, binds>>
      /\ UNCHANGED <<handle, receiving, flying, out, outAtClose>>

(* close() *)
Close ==
  /\ handle
  /\ handle' = FALSE /\ receiving' = FALSE
  /\ outAtClose' = Len(out)
  /\ ticks' = Append(ticks, TheClose)
  /\ UNCHANGED <<bindState, sendQueue, listeners, names, flying, sends, out, binds>>

-----------------------------------------------------------------------------
(* OnListening: what it sends, and nothing of it when the socket is closed. *)
OnListening(open) == IF open THEN sendQueue ELSE <<>>

(* The numbers in S in order, and the sends of s to numeric addresses in   *)
(* the order of s.                                                         *)
Ascending(S) ==
  CHOOSE f \in [1..Cardinality(S) -> S] : \A a, b \in DOMAIN f : a < b => f[a] < f[b]
OnlyNumeric(s, history) ==
  LET places == {k \in DOMAIN s : history[s[k]].to = "numeric"}
  IN  [a \in 1..Cardinality(places) |-> s[Ascending(places)[a]]]

(* startListening() emits "listening".  The k-th listener is a callback of *)
(* the application that closes the socket or sends a datagram; without one *)
(* k is 0.                                                                 *)
StartListening(k, does) ==
  LET flush == SelectInSeq(listeners, LAMBDA x : x = "flush")
      dead  == k # 0 /\ does = "close"
      mine  == IF does = "send" THEN <<Len(sends) + 1>> ELSE <<>>
      queue == OnListening(flush # 0 /\ ~(dead /\ k < flush))
      sent  == IF k < flush THEN mine \o queue ELSE queue \o mine
  IN  /\ bindState' = "BOUND"
      /\ receiving' = ~dead /\ handle' = ~dead
      /\ sends' = IF does = "send"
                  THEN Append(sends, [to |-> "numeric", inside |-> TRUE, answers |-> <<>>])
                  ELSE sends
      /\ ticks' = (IF ticks # <<>> /\ Head(ticks) = TheBind THEN Tail(ticks) ELSE ticks)
                  \o (IF dead /\ k < flush THEN <<TheClose>> ELSE <<>>)
                  \o OnlyNumeric(sent, sends')
                  \o (IF dead /\ k > flush THEN <<TheClose>> ELSE <<>>)
      /\ names' = (names \ {TheBind})
                  \cup {i \in ToSet(sent) : sends'[i].to # "numeric"}
      /\ sendQueue' = IF flush # 0 THEN <<>> ELSE sendQueue
      /\ listeners' = IF flush # 0 THEN <<"flush">> ELSE <<>>
      /\ outAtClose' = IF dead THEN Len(out) ELSE outAtClose
      /\ UNCHANGED <<flying, out, binds>>

(* The lookup for x is answered: it was the first tick, or a name. *)
TickAnswers(x) ==
  ticks # <<>> /\ Head(ticks) = x /\ ticks' = Tail(ticks) /\ UNCHANGED names
NameAnswers(x) == x \in names /\ names' = names \ {x} /\ UNCHANGED ticks
Answered(x)    == TickAnswers(x) \/ NameAnswers(x)
Pends(x) == (ticks # <<>> /\ Head(ticks) = x) \/ x \in names

(* Mutant: a bind that has failed leaves the socket as it is. *)
BindFailsBinding ==
  /\ Answered(TheBind)
  /\ TheBind \in names \/ handle
  /\ UNCHANGED <<handle, bindState, receiving, sendQueue, listeners, flying, sends,
                 out, outAtClose, binds>>

(* AfterLookupInBind: a name is not found, or the address cannot be bound. *)
BindFails ==
  /\ Answered(TheBind)
  /\ TheBind \in names \/ handle
  /\ bindState' = "UNBOUND"
  /\ UNCHANGED <<handle, receiving, sendQueue, listeners, flying, sends, out,
                 outAtClose, binds>>

BindTooLate ==
  /\ ~handle /\ Answered(TheBind)
  /\ UNCHANGED <<handle, bindState, receiving, sendQueue, listeners, flying, sends,
                 out, outAtClose, binds>>

BindSucceeds ==
  /\ handle /\ Pends(TheBind)
  /\ \/ StartListening(0, "nothing")
     \/ \E k \in DOMAIN listeners, does \in {"close", "send"} :
          /\ listeners[k] = "callback"
          /\ does = "send" => Len(sends) < MaxSends
          /\ StartListening(k, does)

(* A callback of send i gets an error or a length. *)
Call(i, with) == sends' = [sends EXCEPT ![i].answers = Append(@, with)]

(* AfterLookupInSend: a name is not found, closed or not, or libuv refuses *)
(* the datagram.                                                           *)
SendFails(i) ==
  /\ Answered(i)
  /\ i \in names \/ handle
  /\ Call(i, "error")
  /\ UNCHANGED <<handle, bindState, receiving, sendQueue, listeners, flying, out,
                 outAtClose, binds>>

SendTooLate(i) ==
  /\ ~handle /\ Answered(i)
  /\ UNCHANGED <<handle, bindState, receiving, sendQueue, listeners, flying, sends,
                 out, outAtClose, binds>>

(* Mutant: a lookup that ends after close() is not told from the others. *)
SendGoesLate(i) ==
  /\ Answered(i)
  /\ out' = Append(out, i) /\ flying' = flying \cup {i}
  /\ UNCHANGED <<handle, bindState, receiving, sendQueue, listeners, sends,
                 outAtClose, binds>>

SendGoes(i) ==
  /\ handle /\ Answered(i)
  /\ out' = Append(out, i) /\ flying' = flying \cup {i}
  /\ UNCHANGED <<handle, bindState, receiving, sendQueue, listeners, sends,
                 outAtClose, binds>>

(* AfterSend: whatever the status, the callback gets the length of the     *)
(* buffer.  An assertion that it is 0 stops a debug build when libuv could *)
(* not send the datagram, or had it in hand at the close.                  *)
AfterSend(i) ==
  /\ i \in flying
  /\ flying' = flying \ {i}
  /\ Call(i, "sent")
  /\ UNCHANGED <<handle, bindState, receiving, sendQueue, listeners, ticks, names,
                 out, outAtClose, binds>>

(* AfterClose removes the listeners. *)
AfterClose ==
  /\ ticks # <<>> /\ Head(ticks) = TheClose /\ ticks' = Tail(ticks)
  /\ listeners' = <<>>
  /\ UNCHANGED <<handle, bindState, receiving, sendQueue, names, flying, sends, out,
                 outAtClose, binds>>

DgramInit ==
  /\ handle = TRUE /\ bindState = "UNBOUND" /\ receiving = FALSE
  /\ sendQueue = <<>> /\ listeners = <<>> /\ ticks = <<>> /\ names = {}
  /\ flying = {} /\ sends = <<>> /\ out = <<>> /\ outAtClose = 0 /\ binds = 0

SendId == 1..MaxSends

DgramAnswers ==
  \/ BindFails \/ BindTooLate \/ BindSucceeds \/ AfterClose
  \/ \E i \in SendId : SendFails(i) \/ SendTooLate(i) \/ SendGoes(i) \/ AfterSend(i)

DgramNext ==
  \/ \E to \in {"numeric", "name"}, callback \in {<<>>, <<"callback">>} : Bind(to, callback)
  \/ \E to \in {"numeric", "name"} : Send(to)
  \/ Close
  \/ DgramAnswers

-----------------------------------------------------------------------------
(* Properties. *)

Place(i) == SelectInSeq(out, LAMBDA j : j = i)

(* A datagram is given to libuv at most once and never after close(), its  *)
(* callback is called at most once, and says that it was sent only if it   *)
(* was given to libuv.  Datagrams for numeric addresses leave in the order *)
(* of send(), those that waited for the bind among them, except that what  *)
(* a "listening" callback sends may overtake what waits.                   *)
DatagramsOnce ==
  /\ IsInjective(out)
  /\ ~handle => Len(out) = outAtClose
  /\ \A i \in DOMAIN sends :
       /\ Len(sends[i].answers) <= 1
       /\ sends[i].answers = <<"sent">> => Place(i) # 0 /\ i \notin flying
       /\ sends[i].answers = <<"error">> => Place(i) = 0
       /\ \A j \in DOMAIN sends :
            (i < j /\ Numeric(i) /\ Numeric(j) /\ ~sends[j].inside
               /\ Place(i) # 0 /\ Place(j) # 0) => Place(i) < Place(j)
  /\ receiving <=> handle /\ bindState = "BOUND"

(* Every datagram that send() accepts is answered in the end, unless the   *)
(* socket is closed, or a bind failed and nothing binds the socket again.  *)
DatagramsSettle ==
  \A i \in SendId :
    (i \in DOMAIN sends)
      ~> (\/ i \in DOMAIN sends /\ sends[i].answers # <<>>
          \/ ~handle
          \/ bindState = "UNBOUND" /\ i \in ToSet(sendQueue))
=============================================================================
