------------------------- MODULE MCIncomingMessage -------------------------
(* The instances of IncomingMessage and EventEmitter for TLC: a behaviour  *)
(* is of the one or of the other.                                          *)
EXTENDS IncomingMessage, EventEmitter, TLC

Permuted == Permutations(Conns) \cup Permutations(Listeners)

vars == <<incomingVars, emitterVars>>

Init == IncomingInit /\ EmitterInit

EmitterUnused  == entries = 0 /\ stack = <<>> /\ table = [ev \in Events |-> NoList]
IncomingUnused == objectOf = <<>> /\ \A c \in Conns : conn[c].state = "idle"

Next ==
  \/ EmitterUnused /\ habit = "none" /\ IncomingNext /\ UNCHANGED emitterVars
  \/ IncomingUnused /\ EmitterNext /\ UNCHANGED incomingVars

Spec == Init /\ [][Next]_vars
=============================================================================
