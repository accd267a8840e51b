---------------------------- MODULE MCNetSocket ----------------------------
(* Instances of NetSocket for TLC: which calls the application makes.      *)
EXTENDS NetSocket

Op(names) == {c \in AllCalls : c.op \in names}

(* Every call, and every failure of the calls that can fail, by an         *)
(* application that connects the socket again only when it has settled.    *)
AllOps == Op({"write", "end", "connect", "reopen", "pause", "resume",
              "destroy", "destroySoon", "release"})

(* An application that connects the socket again, from any listener. *)
RetryOps == {c \in Op({"connect", "reconnect", "destroy"}) :
               c.op # "destroy" => ~c.lookup}
=============================================================================
