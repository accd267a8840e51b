---------------------------- MODULE MCHttpServer ----------------------------
(* Instances of HttpServer for TLC. *)
EXTENDS HttpServer

(* Requests that keep the connection alive, answered with a body. *)
Plain == {[keep |-> TRUE, body |-> TRUE, expect |-> FALSE]}
(* The same, and a HEAD request with Expect that ends the connection. *)
Mixed == Plain \cup {[keep |-> FALSE, body |-> FALSE, expect |-> TRUE]}

Chunked == {[framing |-> "chunked", close |-> FALSE]}
(* Bodies that are chunked or have a length; responses that say close. *)
ThreeHeads == Chunked \cup [framing: {"length"}, close: BOOLEAN]
=============================================================================
