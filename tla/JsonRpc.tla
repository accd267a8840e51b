------------------------------- MODULE JsonRpc -------------------------------
(***************************************************************************)
(* The JSON-RPC service of exts/jsonrpc (detail/service.h): requests are   *)
(* posted to a message queue (module MessageQueue, here a FIFO), checked   *)
(* in the order of the code, and handed to a method, which answers at once *)
(* or later through the Respond object it gets.                            *)
(*                                                                         *)
(* A request is abstracted to what the checks tell apart.  Its answers are *)
(* what its callback and the 'response' listeners get; "done" is the null  *)
(* that the callback of a notification gets.                               *)
(***************************************************************************)
EXTENDS Naturals, Sequences, FiniteSets, SequencesExt

CONSTANTS
  Shapes,        \* the kinds of requests that are posted
  MaxRequests,   \* bound: requests
  MaxStarts,     \* bound: calls of start()
  MaxNested      \* bound: answers that are emitted within one another

Shape == [json: {"invalid", "value", "object"},
          version: {"1.0", "2.0"},
          id: {"undefined", "null", "bad", "own"},
          method: {"undefined", "add", "stop"},
          params: {"undefined", "array", "object", "other"},
          fits: BOOLEAN]      \* the params fit the arity of the method

ASSUME JsonRpcAssumption ==
  /\ Shapes \subseteq Shape /\ MaxRequests \in Nat /\ MaxStarts \in Nat
  /\ MaxNested \in Nat

Request == 1..MaxRequests
Method  == {"add", "stop"}
Answer  ==
  [version: {"1.0", "2.0"}, id: {"null", "bad", "own"},
   is: {"result", "error", "parseError", "invalidRequest",
        "methodNotFound", "invalidParams", "done"}]

VARIABLES
  running,    \* running_
  methods,    \* names in methods_
  queue,      \* the messages of msgQueue_
  requests,   \* history: the shapes of the requests that were accepted
  answers,    \* history: what each request was answered
  pending,    \* requests whose Respond the application holds, not emitted_
  emitting,   \* the requests whose Respond is emitting their answer, innermost last
  again,      \* history: how often a Respond was used while it was emitting
  starts      \* calls of start()

rpcVars ==
  <<running, methods, queue, requests, answers, pending, emitting, again, starts>>

-----------------------------------------------------------------------------
(* emitResult10(), emitError10(), emitResult20() and emitError20() *)
Emitted(s, id, is) ==
  [version |-> s.version, id |-> IF id = "undefined" THEN "null" ELSE id,
   is |-> is]

Refused(s, id, is) == [call |-> FALSE, answer |-> <<Emitted(s, id, is)>>]
Silent             == [call |-> FALSE, answer |-> <<>>]
Notified(s)        == [call |-> TRUE, answer |-> <<Emitted(s, "null", "done")>>]

(* jsonrpc10(): params must be an array of the right length. *)
Dispatch10(s, ms) ==
  LET known == s.method \in ms
  IN  IF s.id = "undefined" THEN Refused(s, "null", "invalidRequest")
      ELSE IF s.method = "undefined" \/ s.params # "array"
      THEN Refused(s, s.id, "invalidRequest")
      ELSE IF s.id = "null"
      THEN IF known /\ s.fits THEN Notified(s)
           ELSE Silent
      ELSE IF ~known THEN Refused(s, s.id, "methodNotFound")
      ELSE IF ~s.fits THEN Refused(s, s.id, "invalidParams")
      ELSE [call |-> TRUE, answer |-> <<>>]

(* Mutant: a request without an id is answered when its method is unknown. *)
Dispatch20Answering(s, ms) ==
  IF s.id = "bad" THEN Refused(s, "null", "invalidRequest")
  ELSE IF s.method = "undefined" \/ s.params = "other"
  THEN Refused(s, s.id, "invalidRequest")
  ELSE IF s.method \notin ms THEN Refused(s, s.id, "methodNotFound")
  ELSE IF ~s.fits THEN Refused(s, s.id, "invalidParams")
  ELSE IF s.id = "undefined" THEN Notified(s) ELSE [call |-> TRUE, answer |-> <<>>]

(* Mutant: an unknown method is passed over in silence. *)
Dispatch20Silent(s, ms) ==
  IF s.id = "bad" THEN Refused(s, "null", "invalidRequest")
  ELSE IF s.method = "undefined" \/ s.params = "other"
  THEN Refused(s, s.id, "invalidRequest")
  ELSE IF s.method \notin ms THEN Silent
  ELSE IF ~s.fits THEN Refused(s, s.id, "invalidParams")
  ELSE IF s.id = "undefined" THEN Notified(s) ELSE [call |-> TRUE, answer |-> <<>>]

(* checkId20(), checkParams20(), toArguments20() and jsonrpc20() *)
Dispatch20(s, ms) ==
  LET known == s.method \in ms
  IN  IF s.id = "bad" THEN Refused(s, "null", "invalidRequest")
      ELSE IF s.method = "undefined" \/ s.params = "other"
      THEN Refused(s, s.id, "invalidRequest")
      ELSE IF s.id = "undefined"
      THEN IF known /\ s.fits THEN Notified(s)
           ELSE Silent
      ELSE IF ~known THEN Refused(s, s.id, "methodNotFound")
      ELSE IF ~s.fits THEN Refused(s, s.id, "invalidParams")
      ELSE [call |-> TRUE, answer |-> <<>>]

(* OnMessage: what comes of a request when the service has the methods ms. *)
Dispatch(s, ms) ==
  CASE s.json = "invalid" -> Refused([s EXCEPT !.version = "2.0"], "null", "parseError")
    [] s.json = "value" -> Refused([s EXCEPT !.version = "2.0"], "null", "invalidRequest")
    [] s.json = "object" /\ s.version = "2.0" -> Dispatch20(s, ms)
    [] s.json = "object" /\ s.version = "1.0" -> Dispatch10(s, ms)

(* The requests qs are handled with no method left. *)
Drained(as, qs) ==
  [q \in DOMAIN as |->
     IF q \in ToSet(qs) THEN as[q] \o Dispatch(requests[q], {}).answer
     ELSE as[q]]

-----------------------------------------------------------------------------
Start ==
  /\ ~running /\ starts < MaxStarts
  /\ running' = TRUE /\ starts' = starts + 1
  /\ UNCHANGED <<methods, queue, requests, answers, pending, emitting, again>>

(* stop() clears the methods, and close() of the queue then handles what   *)
(* is left in it.                                                          *)
StopWith(as, qs) ==
  /\ running' = FALSE /\ methods' = {} /\ queue' = <<>>
  /\ answers' = Drained(as, qs)

Stop ==
  /\ running
  /\ StopWith(answers, queue)
  /\ UNCHANGED <<requests, pending, emitting, again, starts>>

AddMethod(m) ==
  /\ running /\ m \notin methods
  /\ methods' = methods \cup {m}
  /\ UNCHANGED <<running, queue, requests, answers, pending, emitting, again, starts>>

(* postRequest(): refused by a queue that is not open. *)
PostRequest(s) ==
  /\ running /\ Len(requests) < MaxRequests
  /\ requests' = Append(requests, s)
  /\ answers' = Append(answers, <<>>)
  /\ queue' = Append(queue, Len(requests'))
  /\ UNCHANGED <<running, methods, pending, emitting, again, starts>>

(* The queue hands over its first message, to a loop that is in no         *)
(* listener.  The method "stop" stops the service, and the callback of a   *)
(* notification comes after that.                                          *)
OnMessage ==
  /\ queue # <<>> /\ emitting = <<>>
  /\ LET q == Head(queue)
         s == requests[q]
         d == Dispatch(s, methods)
         answered == [answers EXCEPT ![q] = @ \o d.answer]
     IN  /\ pending' = IF d.call /\ d.answer = <<>> THEN pending \cup {q}
                       ELSE pending
         /\ IF d.call /\ s.method = "stop" THEN StopWith(answered, Tail(queue))
            ELSE /\ queue' = Tail(queue) /\ answers' = answered
                 /\ UNCHANGED <<running, methods>>
  /\ UNCHANGED <<requests, emitting, again, starts>>

(* The application answers, by result() or error() of Respond10 and        *)
(* Respond20: the 'response' listeners and the callback get the answer     *)
(* before emitted_ is set, and may use the same Respond again.             *)
Respond(q, is) ==
  /\ q \in pending /\ Len(emitting) < MaxNested
  /\ answers' = [answers EXCEPT ![q] = Append(@, Emitted(requests[q], requests[q].id, is))]
  /\ emitting' = Append(emitting, q)
  /\ again' = [again EXCEPT ![q] = @ + IF q \in ToSet(emitting) THEN 1 ELSE 0]
  /\ UNCHANGED <<running, methods, queue, requests, pending, starts>>

(* Mutant: emitted_ stays unset. *)
LeaveUnset ==
  /\ emitting # <<>>
  /\ emitting' = Front(emitting)
  /\ UNCHANGED <<running, methods, queue, requests, answers, pending, again, starts>>

(* Listeners and callback have returned: the Respond has emitted_. *)
SetEmitted ==
  /\ emitting # <<>>
  /\ pending' = pending \ {Last(emitting)}
  /\ emitting' = Front(emitting)
  /\ UNCHANGED <<running, methods, queue, requests, answers, again, starts>>

RpcInit ==
  /\ running = FALSE /\ methods = {} /\ queue = <<>> /\ requests = <<>>
  /\ answers = <<>> /\ pending = {} /\ starts = 0
  /\ emitting = <<>> /\ again = [q \in Request |-> 0]

RpcNext ==
  \/ Start
  \/ Stop
  \/ \E m \in Method : AddMethod(m)
  \/ \E s \in Shapes : PostRequest(s)
  \/ OnMessage
  \/ \E q \in pending, is \in {"result", "error"} : Respond(q, is)
  \/ SetEmitted

-----------------------------------------------------------------------------
(* Properties. *)

(* A request that says what it wants, and that its sender wants no answer. *)
Notification(s) ==
  /\ s.json = "object" /\ s.method # "undefined"
  /\ \/ s.version = "2.0" /\ s.id = "undefined" /\ s.params # "other"
     \/ s.version = "1.0" /\ s.id = "null" /\ s.params = "array"

(* A request is answered at most once, but for the times its Respond was   *)
(* used from within its own emission, and never after that; by its own id  *)
(* and in its own version.  A notification gets no response, whenever the  *)
(* service is stopped.  A result or an error of a method is given only to  *)
(* a request that fits the method, and no request that fits is called      *)
(* invalid.                                                                *)
AnsweredAsAsked ==
  \A q \in DOMAIN answers :
    LET s  == requests[q]
        ok == /\ s.json = "object" /\ s.method \in Method /\ s.fits
              /\ s.id \in IF s.version = "2.0" THEN {"null", "own"} ELSE {"bad", "own"}
              /\ s.params \in IF s.version = "2.0" THEN {"undefined", "array", "object"}
                              ELSE {"array"}
    IN  /\ Len(answers[q]) <= 1 + again[q]
        /\ q \in pending => ok /\ (answers[q] = <<>> \/ q \in ToSet(emitting))
        /\ \A i \in DOMAIN answers[q] :
             LET a == answers[q][i]
             IN  /\ Notification(s) <=> a.is = "done"
                 /\ s.json = "object" => a.version = s.version
                 /\ s.id = "own" /\ s.json = "object" => a.id = "own"
                 /\ a.is \in {"result", "error"} => ok
                 /\ ok => a.is \in {"result", "error", "methodNotFound"}
                 /\ a \in Answer

(* A request that was accepted and is no notification is answered, or the  *)
(* application holds its Respond, even when the service stops meanwhile.   *)
(* Requests are finitely many and stay answered, so that this is: in the   *)
(* end none is left without.                                               *)
RequestsSettle ==
  <>[](\A q \in DOMAIN requests :
         Notification(requests[q]) \/ q \in pending \/ answers[q] # <<>>)
=============================================================================
