--------------------------- MODULE MCMessageQueue ---------------------------
(* The instance of MessageQueue for TLC. *)
EXTENDS MessageQueue
=============================================================================
