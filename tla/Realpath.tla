------------------------------ MODULE Realpath -------------------------------
(***************************************************************************)
(* realpath() of detail/fs.h: walks a path part by part, asks for each     *)
(* part that is not known to be real with lstat(), and starts again with   *)
(* the target of each link in its place.  Calls share a cache if the       *)
(* application gives them the same one, and run interleaved.               *)
(*                                                                         *)
(* A path is the sequence of its parts, absolute and in normal form, as    *)
(* path::resolve() makes it.                                               *)
(***************************************************************************)
EXTENDS Naturals, Sequences, FiniteSets, SequencesExt

CONSTANTS
  Walk,        \* the calls of realpath()
  Trees,       \* file systems: functions of paths to "dir" or a link's target
  Paths,       \* bound: the paths that are met
  MaxErrors    \* bound: requests that fail for other reasons

ASSUME RealpathAssumption == IsFiniteSet(Walk) /\ MaxErrors \in Nat

VARIABLES
  tree,    \* the file system, of one of Trees
  leads,   \* where each path leads in it, as the system finds it
  cache,   \* the cache of the application: a function of the paths it has
  walk,    \* each call: its RealpathContext, and what it waits for
  errors   \* requests that failed

realpathVars == <<tree, leads, cache, walk, errors>>

Idle == [at |-> "idle", original |-> <<>>, path |-> <<>>, pos |-> 0,
         seenLinks |-> <<>>, knownHard |-> {}, cached |-> FALSE,
         answers |-> <<>>]

(* What a request finds: nothing, a directory or a link. *)
EntryOf(t, p) == IF p = <<>> THEN [is |-> "dir"]
                 ELSE IF p \in DOMAIN t THEN t[p] ELSE [is |-> "nothing"]
Entry(p) == EntryOf(tree, p)
Upper(p) == SubSeq(p, 1, Len(p) - 1)
Base(w)  == SubSeq(w.path, 1, w.pos)
Rest(w)  == SubSeq(w.path, w.pos + 1, Len(w.path))

(* path::resolve() of the directory a link is in and its target. *)
ResolveTarget(dir, t) == IF t.absolute THEN t.to
                         ELSE SubSeq(dir, 1, Len(dir) - t.up) \o t.to

(* The reference: where p leads in t, without a cache, in so many steps.   *)
Fuel == 12
Step(t, s) ==
  LET e == EntryOf(t, SubSeq(s.path, 1, s.pos + 1))
  IN  IF s.lost \/ s.pos = Len(s.path) THEN s
      ELSE CASE e.is = "dir"     -> [s EXCEPT !.pos = @ + 1]
             [] e.is = "nothing" -> [s EXCEPT !.lost = TRUE]
             [] e.is = "link"    -> [s EXCEPT !.pos = 0,
                  !.path = ResolveTarget(SubSeq(@, 1, s.pos), e)
                           \o SubSeq(@, s.pos + 2, Len(@))]
Follow(t, p) == FoldLeft(LAMBDA s, i : Step(t, s), [path |-> p, pos |-> 0, lost |-> FALSE],
                         [i \in 1..Fuel |-> i])
RealPath(p) == leads[p].path
Exists(p)   == ~leads[p].lost /\ leads[p].pos = Len(RealPath(p))

-----------------------------------------------------------------------------
Update(c, new) == walk' = [walk EXCEPT ![c] = new]
Fail(w)      == [w EXCEPT !.at = "done", !.answers = Append(@, [err |-> TRUE, path |-> <<>>])]
Found(w, p)  == [w EXCEPT !.at = "done", !.answers = Append(@, [err |-> FALSE, path |-> p])]

(* StartInRealpath, with LoopInRealpath in the next tick. *)
Start_R(w, p) == [w EXCEPT !.path = p, !.pos = 0, !.at = "loop"]

(* GotResolvedLinkInRealpath: the link is replaced by what it leads to. *)
GotResolvedLink(w, resolved) == Start_R(w, resolved \o Rest(w))

(* realpath() *)
Realpath(c, p) ==
  /\ walk[c] = Idle
  /\ Update(c, IF p \in DOMAIN cache
               THEN [Idle EXCEPT !.original = p, !.at = "cached", !.path = cache[p]]
               ELSE Start_R([Idle EXCEPT !.original = p], p))
  /\ UNCHANGED <<tree, leads, cache, errors>>

(* UseCacheInRealpath, in the next tick. *)
UseCache(c) ==
  /\ walk[c].at = "cached"
  /\ Update(c, [Found(walk[c], walk[c].path) EXCEPT !.cached = TRUE])
  /\ UNCHANGED <<tree, leads, cache, errors>>

(* LoopInRealpath at the end of the path. *)
LoopEnds(c) ==
  LET w == walk[c]
  IN  /\ w.at = "loop" /\ w.pos = Len(w.path)
      /\ cache' = (w.original :> w.path) @@ cache
      /\ Update(c, Found(w, w.path))
      /\ UNCHANGED <<tree, leads, errors>>

(* LoopInRealpath at the next part: known to be real, a link in the cache, *)
(* or to be asked for.                                                     *)
Loop(c) ==
  LET w    == [walk[c] EXCEPT !.pos = @ + 1]
      base == Base(w)
      real == base \in w.knownHard \/ (base \in DOMAIN cache /\ cache[base] = base)
  IN  /\ w.at = "loop" /\ walk[c].pos < Len(w.path)
      /\ Update(c, IF real THEN w
                   ELSE IF base \in DOMAIN cache THEN GotResolvedLink(w, cache[base])
                   ELSE [w EXCEPT !.at = "lstat"])
      /\ UNCHANGED <<tree, leads, cache, errors>>

(* Mutant: the target of a link is taken to be relative to the root. *)
GotTargetAtRoot(c, w, target, seen) ==
  LET resolved == ResolveTarget(<<>>, target)
  IN  /\ cache' = IF seen THEN (Base(w) :> resolved) @@ cache ELSE cache
      /\ Update(c, GotResolvedLink(w, resolved))

(* GotTargetInRealpath, of a link in this call's seenLinks: its own target *)
(* goes to the cache, be it a link or not.                                 *)
GotTarget(c, w, target, seen) ==
  LET resolved == ResolveTarget(Upper(Base(w)), target)
  IN  /\ cache' = IF seen THEN (Base(w) :> resolved) @@ cache ELSE cache
      /\ Update(c, GotResolvedLink(w, resolved))

(* Mutant: a link counts as seen before stat() has told that it leads      *)
(* somewhere.                                                              *)
GotStatLinkUnchecked(c) ==
  LET w == walk[c]  e == Entry(Base(w))
  IN  /\ w.at = "lstat" /\ e.is = "link"
      /\ GotTarget(c, w, e, FALSE)
      /\ UNCHANGED <<tree, leads, errors>>

(* GotStatInRealpath *)
GotStatReal(c) ==
  LET w == walk[c]
  IN  /\ w.at = "lstat" /\ Entry(Base(w)).is = "dir"
      /\ cache' = (Base(w) :> Base(w)) @@ cache
      /\ Update(c, [w EXCEPT !.at = "loop", !.knownHard = @ \cup {Base(w)}])
      /\ UNCHANGED <<tree, leads, errors>>

GotStatLink(c) ==
  LET w == walk[c]  e == Entry(Base(w))
  IN  /\ w.at = "lstat" /\ e.is = "link"
      /\ IF Base(w) \in DOMAIN w.seenLinks
         THEN GotTarget(c, w, w.seenLinks[Base(w)], TRUE)
         ELSE Update(c, [w EXCEPT !.at = "stat"]) /\ UNCHANGED cache
      /\ UNCHANGED <<tree, leads, errors>>

(* AfterStatInRealpath: the link leads somewhere. *)
AfterStat(c) ==
  /\ walk[c].at = "stat" /\ Exists(Base(walk[c]))
  /\ Update(c, [walk[c] EXCEPT !.at = "readlink"])
  /\ UNCHANGED <<tree, leads, cache, errors>>

(* AfterReadlinkInRealpath passes its own arguments on, in which the base  *)
(* is missing: nothing that counts goes to the cache.                      *)
AfterReadlink(c) ==
  LET w == walk[c]  e == Entry(Base(w))
  IN  /\ w.at = "readlink"
      /\ GotTarget(c, [w EXCEPT !.seenLinks = (Base(w) :> e) @@ @], e, FALSE)
      /\ UNCHANGED <<tree, leads, errors>>

(* What is asked for is not there, or a request fails. *)
RequestFails(c) ==
  LET w == walk[c]
      gone == \/ w.at = "lstat" /\ Entry(Base(w)).is = "nothing"
              \/ w.at = "stat" /\ ~Exists(Base(w))
  IN  /\ w.at \in {"lstat", "stat", "readlink"}
      /\ IF gone THEN UNCHANGED errors ELSE errors < MaxErrors /\ errors' = errors + 1
      /\ Update(c, Fail(w))
      /\ UNCHANGED <<tree, leads, cache>>

RealpathInit ==
  /\ tree \in Trees /\ leads = [p \in Paths |-> Follow(tree, p)]
  /\ cache = <<>> /\ walk = [c \in Walk |-> Idle] /\ errors = 0

Advances(c) ==
  \/ UseCache(c) \/ LoopEnds(c) \/ Loop(c) \/ GotStatReal(c) \/ GotStatLink(c)
  \/ AfterStat(c) \/ AfterReadlink(c) \/ RequestFails(c)

RealpathNext ==
  \E c \in Walk : Advances(c) \/ \E p \in DOMAIN tree : Realpath(c, p)

-----------------------------------------------------------------------------
(* Properties. *)

(* A path that realpath() answers leads to where the path it was asked for *)
(* leads, and what follows no link needs no other: it is real, unless it   *)
(* came from the cache of an earlier call.  Without failures a path that   *)
(* exists is found, and one that does not is an error.                     *)
RealpathAgrees ==
  \A c \in Walk : walk[c].at = "done" =>
    LET w == walk[c]  a == w.answers[1]
    IN  /\ Len(w.answers) = 1
        /\ ~a.err => /\ Exists(w.original) /\ RealPath(a.path) = RealPath(w.original)
                     /\ w.cached \/ a.path = RealPath(w.original)
        /\ a.err /\ errors = 0 => ~Exists(w.original)
=============================================================================
