------------------------------ MODULE MCRequests ------------------------------
(* What an application asks of libuv, in one behaviour only one of: the    *)
(* sends of a dgram::Socket, two hosts that discover each other's          *)
(* services, calls that read and write one file, and calls of realpath()   *)
(* that share a cache.                                                     *)
EXTENDS DgramSocket, Discovery, FileChains, Realpath

vars == <<dgramVars, discoveryVars, fileVars, realpathVars>>

MCService == {[name |-> "web", passwd |-> Nothing], [name |-> "web", passwd |-> "p"]}
MCQuery ==
  {[name |-> "web", passwd |-> Nothing], [name |-> Nothing, passwd |-> "p"],
   [name |-> "mail", passwd |-> "q"]}

CONSTANT Asker    \* the only host that discovers, and starts again
MCMaxId     == [h \in Host |-> IF h = Asker THEN 1 ELSE 0]
MCMaxStarts == [h \in Host |-> IF h = Asker THEN 2 ELSE 1]

MCContents == {<<>>, <<7>>, <<7, 8, 9>>}

Dir         == [is |-> "dir"]
To(p)       == [is |-> "link", absolute |-> TRUE, up |-> 0, to |-> p]
Near(up, p) == [is |-> "link", absolute |-> FALSE, up |-> up, to |-> p]

(* /d and its subdirectory, and links to it: one by way of another, one    *)
(* beside it, one that comes back to a link, two that lead to each other,  *)
(* and one that leads nowhere.                                             *)
MCTrees ==
  LET base == (<<"d">> :> Dir) @@ (<<"d", "e">> :> Dir)
  IN  {base @@ (<<"l">> :> To(<<"k">>)) @@ (<<"k">> :> Near(0, <<"d">>))
            @@ (<<"d", "m">> :> To(<<"l", "e">>)),
       base @@ (<<"l">> :> Near(0, <<"d">>)) @@ (<<"d", "m">> :> Near(1, <<"l", "e">>))
            @@ (<<"d", "n">> :> Near(0, <<"m">>)),
       base @@ (<<"l">> :> To(<<"k">>)) @@ (<<"k">> :> To(<<"l">>))
            @@ (<<"d", "m">> :> Near(0, <<"x">>))}

MCPaths == {<<>>, <<"l", "e">>, <<"d", "x">>} \cup UNION {DOMAIN t : t \in MCTrees}

Init == DgramInit /\ DiscoveryInit /\ FileInit /\ RealpathInit

DgramUnused     == sends = <<>> /\ binds = 0 /\ handle
DiscoveryUnused == starts_D = [h \in Host |-> 0] /\ services = [h \in Host |-> {}]
                   /\ hash2passwd = [h \in Host |-> {}]
FilesUnused     == \A c \in FsCall : call[c] = Unused
RealpathUnused  == \A c \in Walk : walk[c] = Idle

(* Init makes a choice of files and of file systems only where it matters. *)
AnyFile == file = Absent
AnyTree == tree = CHOOSE t \in Trees : TRUE

OfDgram(A) ==
  /\ DiscoveryUnused /\ FilesUnused /\ RealpathUnused
  /\ AnyFile /\ AnyTree
  /\ A /\ UNCHANGED <<discoveryVars, fileVars, realpathVars>>
OfDiscovery(A) ==
  /\ DgramUnused /\ FilesUnused /\ RealpathUnused
  /\ AnyFile /\ AnyTree
  /\ A /\ UNCHANGED <<dgramVars, fileVars, realpathVars>>
OfFiles(A) ==
  /\ DgramUnused /\ DiscoveryUnused /\ RealpathUnused /\ AnyTree
  /\ A /\ UNCHANGED <<dgramVars, discoveryVars, realpathVars>>
OfRealpath(A) ==
  /\ DgramUnused /\ DiscoveryUnused /\ FilesUnused /\ AnyFile
  /\ A /\ UNCHANGED <<dgramVars, discoveryVars, fileVars>>

Next == OfDgram(DgramNext) \/ OfDiscovery(DiscoveryNext) \/ OfFiles(FileNext)
        \/ OfRealpath(RealpathNext)

(* libuv serves every request and tells of it, and the ticks are called.  *)
Fairness ==
  /\ WF_vars(OfDgram(ticks # <<>> /\ DgramAnswers))
  /\ \A x \in SendId \cup {TheBind} : WF_vars(OfDgram(x \in names /\ DgramAnswers /\ x \notin names'))
  /\ \A i \in SendId : WF_vars(OfDgram(AfterSend(i)))
  /\ \A c \in FsCall : WF_vars(OfFiles(Served(c)))
  /\ \A c \in Walk : WF_vars(OfRealpath(Advances(c)))

Spec == Init /\ [][Next]_vars /\ Fairness

(* Every datagram is answered (DatagramsSettle), every call on a file is   *)
(* answered and gives back its descriptor, every walk of realpath() comes  *)
(* to its end, even where links lead in a circle.                          *)
CallsSettle ==
  /\ DatagramsSettle
  /\ \A c \in FsCall : Running(c) ~> (call[c].answers # <<>> /\ ~call[c].fd)
  /\ \A c \in Walk : (walk[c] # Idle) ~> (walk[c].at = "done")
=============================================================================
