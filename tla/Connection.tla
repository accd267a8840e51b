----------------------------- MODULE Connection -----------------------------
(***************************************************************************)
(* What a net::Socket promises to the code that uses it, and what          *)
(* net::Server and http::Server count on: a connection is torn down at     *)
(* most once, after that it stays inert, and the end is announced by       *)
(* exactly one 'close' event, in a later turn of the loop.  NetSocket is   *)
(* the detailed specification; NetServer is built on this one.             *)
(***************************************************************************)

VARIABLE life     \* of one connection

Life == {"open", "destroyed", "closed"}

Opening == life = "open"

(* destroy(): by the application, a failure or the end of the stream. *)
TearDown == life = "open" /\ life' = "destroyed"

(* 'close' is emitted. *)
Announce == life = "destroyed" /\ life' = "closed"

(* The same Socket is connected again, which may fail at once. *)
Reopen == life = "closed" /\ life' \in {"open", "destroyed"}

Step == TearDown \/ Announce \/ Reopen

Promise == Opening /\ [][Step]_life

(* The announcement does come. *)
FairPromise == Promise /\ WF_life(Announce)

=============================================================================
