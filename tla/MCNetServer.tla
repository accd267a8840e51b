---------------------------- MODULE MCNetServer -----------------------------
(* Instances of NetServer for TLC: which calls the application makes.      *)
EXTENDS NetServer

Op(names) == {c \in AllCalls : c.op \in names}

(* An application that listens until it succeeds, and closes once. *)
PlainOps == Op({"listen", "close", "setMaxConnections", "destroy", "release"})
=============================================================================
