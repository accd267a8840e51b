----------------------------- MODULE MCHttpAgent -----------------------------
(* The instance of HttpAgent for TLC: all requests are to one host. *)
EXTENDS HttpAgent

OneHost(r) == "host:80"
=============================================================================
