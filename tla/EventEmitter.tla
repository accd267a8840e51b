---------------------------- MODULE EventEmitter ----------------------------
(***************************************************************************)
(* events::EventEmitter (include/libnode/detail/events/event_emitter.h),   *)
(* in its default build: the lists of listeners, and emit(), which walks a *)
(* list while the listeners it calls change it.                            *)
(*                                                                         *)
(* A listener may register and remove listeners and emit again, so emit()  *)
(* is re-entrant: stack holds one frame for each emit() under way, and the *)
(* calls made by a listener are actions of their own between the call of   *)
(* the listener and its return.  The lists are shared objects: a list      *)
(* taken out of the table by removeAllListeners() lives on in the frames   *)
(* that walk it.                                                           *)
(***************************************************************************)
EXTENDS Naturals, Sequences, FiniteSets, SequencesExt

CONSTANTS
  Events,       \* the events, "newListener" among them or not
  Listeners,    \* the functions that are registered
  Habits,       \* what listeners may do besides the obvious, see AllHabits
  MaxEntries,   \* bound: registrations
  MaxDepth      \* bound: emit() calls within each other

(* What listeners do to a list that an emit() is walking, in one execution *)
(* one of these: nothing that disturbs the walk, register the same         *)
(* function twice (and then emit() does not nest), remove a listener of    *)
(* the walk, detach the list while the walk has listeners of once() in it, *)
(* or emit the event again while the walk has.                             *)
AllHabits == {"none", "duplicates", "removes", "clears", "reenters"}

ASSUME HabitsAssumption == Habits \subseteq AllHabits
ASSUME BoundsAssumption == MaxEntries \in Nat /\ MaxDepth \in Nat \ {0}

NoList  == 0
Lists   == 1..MaxEntries
Entry   == [id: 1..MaxEntries, ev: Events, fn: Listeners, once: BOOLEAN]
NoEntry == [id |-> 0]

Frame == [list: Lists, i: Nat, len: Nat, running: Entry \cup {NoEntry},
          atStart: Seq(1..MaxEntries), called: Seq(1..MaxEntries)]

VARIABLES
  table,      \* events_ and listenerArrays_: the list of each event
  lists,      \* the lists made so far, sequences of entries
  stack,      \* the calls of emit() under way, innermost last
  entries,    \* registrations made so far
  habit,      \* what listeners do in this execution
  spent,      \* registrations by once() whose function has been called
  again       \* those that have been called again

emitterVars == <<table, lists, stack, entries, habit, spent, again>>

-----------------------------------------------------------------------------
(* The lists. *)

ListOf(ev) == IF table[ev] = NoList THEN <<>> ELSE lists[table[ev]]

Matches(l, fn) == {k \in DOMAIN l : l[k].fn = fn}

First(S) == CHOOSE k \in S : \A j \in S : k <= j

(* removeListener(): the first match goes; a Once matches by its listener. *)
RemoveFrom(l, fn) ==
  IF Matches(l, fn) = {} THEN l ELSE RemoveAt(l, First(Matches(l, fn)))

(* What a frame still has to call: the entry it is running was counted     *)
(* out of len when it is a Once, and into i when it is not.                *)
OnceRunning(f) == f.running # NoEntry /\ f.running.once
LastIndex(f)   == IF OnceRunning(f) THEN f.len + 1 ELSE f.len
Left(f)        == (f.i + 1)..LastIndex(f)

Walks(f, ev) == f.list = table[ev]

OnceIn(f) == \E k \in Left(f) \cap DOMAIN lists[f.list] : lists[f.list][k].once

Top == stack[Len(stack)]

(* The program is in the hands of the application: outside emit(), or in a *)
(* listener that emit() has called.                                        *)
AppsTurn == stack # <<>> => Top.running # NoEntry

-----------------------------------------------------------------------------
(* emit(), up to the walk: no frame when there is nothing to call. *)
Walk(ev, tbl, ls, st) ==
  IF tbl[ev] = NoList \/ ls[tbl[ev]] = <<>> THEN st
  ELSE LET l == ls[tbl[ev]]
       IN  Append(st, [list |-> tbl[ev], i |-> 0, len |-> Len(l),
                       running |-> NoEntry,
                       atStart |-> [k \in DOMAIN l |-> l[k].id],
                       called |-> <<>>])

MayWalk(ev) ==
  /\ habit # "reenters" =>
       \A k \in DOMAIN stack : Walks(stack[k], ev) => ~OnceIn(stack[k])
  /\ habit = "duplicates" => stack = <<>>

Emit(ev) ==
  /\ AppsTurn /\ Len(stack) < MaxDepth
  /\ MayWalk(ev)
  /\ stack' = Walk(ev, table, lists, stack)
  /\ UNCHANGED <<table, lists, entries, spent, again, habit>>

(* Mutant: the new listener is put first. *)
PrependListener(ev, fn, once) ==
  LET a == IF table[ev] = NoList THEN Len(lists) + 1 ELSE table[ev]
      e == [id |-> entries + 1, ev |-> ev, fn |-> fn, once |-> once]
  IN  /\ AppsTurn /\ entries < MaxEntries
      /\ "newListener" \in Events =>
           Len(stack) < MaxDepth /\ MayWalk("newListener")
      /\ habit # "duplicates" => Matches(ListOf(ev), fn) = {}
      /\ table' = [table EXCEPT ![ev] = a]
      /\ lists' = IF a > Len(lists) THEN Append(lists, <<e>>)
                  ELSE [lists EXCEPT ![a] = <<e>> \o @]
      /\ entries' = entries + 1
      /\ stack' = IF "newListener" \in Events
                  THEN Walk("newListener", table', lists', stack) ELSE stack
      /\ UNCHANGED <<spent, again, habit>>

(* on() and once(): the new listener comes last; 'newListener' is emitted. *)
AddListener(ev, fn, once) ==
  LET a == IF table[ev] = NoList THEN Len(lists) + 1 ELSE table[ev]
      e == [id |-> entries + 1, ev |-> ev, fn |-> fn, once |-> once]
  IN  /\ AppsTurn /\ entries < MaxEntries
      /\ "newListener" \in Events =>
           Len(stack) < MaxDepth /\ MayWalk("newListener")
      /\ habit # "duplicates" => Matches(ListOf(ev), fn) = {}
      /\ table' = [table EXCEPT ![ev] = a]
      /\ lists' = IF a > Len(lists) THEN Append(lists, <<e>>)
                  ELSE [lists EXCEPT ![a] = Append(@, e)]
      /\ entries' = entries + 1
      /\ stack' = IF "newListener" \in Events
                  THEN Walk("newListener", table', lists', stack) ELSE stack
      /\ UNCHANGED <<spent, again, habit>>

RemoveListener(ev, fn) ==
  /\ AppsTurn /\ Matches(ListOf(ev), fn) # {}
  /\ habit # "removes"
       => \A k \in DOMAIN stack :
            Walks(stack[k], ev) =>
              First(Matches(ListOf(ev), fn)) > LastIndex(stack[k])
  /\ lists' = [lists EXCEPT ![table[ev]] = RemoveFrom(@, fn)]
  /\ UNCHANGED <<table, stack, entries, spent, again, habit>>

(* removeAllListeners(), of an event or of all: the table lets go of them. *)
RemoveAllListeners(evs) ==
  /\ AppsTurn /\ \E ev \in evs : table[ev] # NoList
  /\ habit # "clears" => \A k \in DOMAIN stack : ~OnceIn(stack[k])
  /\ table' = [ev \in Events |-> IF ev \in evs THEN NoList ELSE table[ev]]
  /\ UNCHANGED <<lists, stack, entries, spent, again, habit>>

-----------------------------------------------------------------------------
(* The walk of emit(). *)

Replace(f) == [stack EXCEPT ![Len(stack)] = f]

(* i and len before the listener e is called. *)
Advance(f, e) == IF e.once THEN [f EXCEPT !.len = @ - 1]
                           ELSE [f EXCEPT !.i = @ + 1]

(* getTyped(i), within the list, and the call. *)
CallListener ==
  /\ stack # <<>> /\ Top.running = NoEntry /\ Top.i < Top.len
  /\ Top.i < Len(lists[Top.list])
  /\ LET e == lists[Top.list][Top.i + 1]
     IN  /\ stack' = Replace([Advance(Top, e) EXCEPT
                                !.running = e, !.called = Append(@, e.id)])
         /\ again' = IF e.id \in spent THEN again \cup {e.id} ELSE again
         /\ spent' = IF e.once THEN spent \cup {e.id} ELSE spent
  /\ UNCHANGED <<table, lists, entries, habit>>

(* Mutant: Once does not remove its listener. *)
ReturnKeeping ==
  /\ stack # <<>> /\ Top.running # NoEntry
  /\ stack' = Replace([Top EXCEPT !.running = NoEntry])
  /\ UNCHANGED <<table, lists, entries, spent, again, habit>>

(* The listener returns; a Once then removes its function from the list    *)
(* the event has by now.                                                   *)
Return ==
  /\ stack # <<>> /\ Top.running # NoEntry
  /\ LET e == Top.running
     IN  lists' = IF e.once /\ table[e.ev] # NoList
                  THEN [lists EXCEPT ![table[e.ev]] = RemoveFrom(@, e.fn)]
                  ELSE lists
  /\ stack' = Replace([Top EXCEPT !.running = NoEntry])
  /\ UNCHANGED <<table, entries, spent, again, habit>>

Finish ==
  /\ stack # <<>> /\ Top.running = NoEntry /\ Top.i >= Top.len
  /\ stack' = SubSeq(stack, 1, Len(stack) - 1)
  /\ UNCHANGED <<table, lists, entries, spent, again, habit>>

EmitterInit ==
  /\ table = [ev \in Events |-> NoList]
  /\ lists = <<>> /\ stack = <<>> /\ entries = 0
  /\ habit \in Habits /\ spent = {} /\ again = {}

EmitterNext ==
  \/ \E ev \in Events : Emit(ev)
  \/ \E ev \in Events, fn \in Listeners, once \in BOOLEAN :
       AddListener(ev, fn, once)
  \/ \E ev \in Events, fn \in Listeners : RemoveListener(ev, fn)
  \/ \E evs \in {{ev} : ev \in Events} \cup {Events} : RemoveAllListeners(evs)
  \/ CallListener
  \/ Return
  \/ Finish

-----------------------------------------------------------------------------
(* Properties. *)

(* The entries before the first one still to be called. *)
Passed(f) == IF OnceRunning(f) THEN f.i + 1 ELSE f.i

(* What an emit() has called and what it still has to call are, in their   *)
(* order, the listeners there were when it began: none is skipped, called  *)
(* twice or added, whatever the listeners register meanwhile.  getTyped(i) *)
(* is within the list (line 107), though len was read when the walk began. *)
EachCalledOnce ==
  \A k \in DOMAIN stack :
    LET f == stack[k]
    IN  /\ habit \in {"none", "duplicates"} =>
             /\ LastIndex(f) <= Len(lists[f.list])
             /\ f.called \o [j \in 1..(LastIndex(f) - Passed(f)) |->
                               lists[f.list][Passed(f) + j].id] = f.atStart
        /\ habit \in {"none", "duplicates", "clears"} =>
             (f.running = NoEntry /\ f.i < f.len => f.i < Len(lists[f.list]))

(* A function registered with once() is called once; and when no emit() is *)
(* under way, it is not registered any more once it has been called, also  *)
(* if listeners detached or changed the list that was walked.              *)
OnceIsOnce ==
  /\ habit = "none" => again = {}
  /\ habit # "duplicates" /\ stack = <<>> =>
       \A ev \in Events : \A k \in DOMAIN ListOf(ev) :
         ListOf(ev)[k].id \notin spent
=============================================================================
