------------------------------ MODULE MCAsync ------------------------------
(* What other threads and the clock bring to the loop: an Async or a       *)
(* MessageQueue in some behaviours, timers in the others.                  *)
EXTENDS Async, Timers

everyVar == <<allVars, timerVars>>

AsyncUnused  == exec = "unused" /\ opens = 0 /\ \A p \in Posters : posted[p] = 0 /\ pc[p] = "idle"
TimersUnused == timers = <<>> /\ ~destroyed

LoopInit == AsyncInit /\ TimersInit

LoopNext ==
  \/ TimersUnused /\ AsyncNext /\ UNCHANGED timerVars
  \/ AsyncUnused /\ TimersNext /\ UNCHANGED allVars

LoopSpec == LoopInit /\ [][LoopNext]_everyVar /\ AsyncFairness /\ TimersFairness

(* What is sent to the loop arrives (CallsBack), and what is set to run    *)
(* later does (TimersSettle).                                              *)
LoopDelivers == CallsBack /\ TimersSettle
=============================================================================
