------------------------------- MODULE Timers --------------------------------
(***************************************************************************)
(* The timers of src/timer.cpp, uv::Timer and uv::Handle, and what         *)
(* net::Socket does with one for its timeout: setTimeout(), active(),      *)
(* startTimer() and finishTimer().  A Timer is closed by its callback or   *)
(* by clearTimeout() and deleted by libuv when the iteration of the loop   *)
(* ends; what holds its address is not told.                               *)
(*                                                                         *)
(* What a callback calls is a chain of operators on the record of all      *)
(* variables.                                                              *)
(***************************************************************************)
EXTENDS Naturals, Sequences

CONSTANTS
  Delays,      \* what setTimeout() and setInterval() are called with
  TimeoutMax,  \* TIMEOUT_MAX, 2^31 - 1 in the code
  Reactions,   \* what the listeners of "timeout" may do
  ClearsLate,  \* whether the application clears timers that have run
  MaxTimers    \* bound: timers that are made

ASSUME TimersAssumption ==
  /\ Delays \subseteq Nat /\ TimeoutMax \in Nat \ {0}
  /\ Reactions \subseteq {"destroy", "off", "again", "write", "nothing"}
  /\ ClearsLate \in BOOLEAN /\ MaxTimers \in Nat

UNDEFINED == 0

VARIABLES
  timers,     \* every Timer: whose it is, how long it has left, its state
  timer_,     \* of the socket: UNDEFINED or its Timer
  timeout_,   \* of the socket
  destroyed,  \* of the socket: the flag DESTROYED
  quiet,      \* history: how long the socket has done nothing
  misused     \* history: a deleted Timer was used, or a timeout came wrongly

timerVars == <<timers, timer_, timeout_, destroyed, quiet, misused>>

S == [timers |-> timers, timer_ |-> timer_, timeout_ |-> timeout_,
      destroyed |-> destroyed, quiet |-> quiet, misused |-> misused]

Becomes_T(new) ==
  \E s \in {new} :
    /\ timers' = s.timers /\ timer_' = s.timer_ /\ timeout_' = s.timeout_
    /\ destroyed' = s.destroyed /\ quiet' = s.quiet /\ misused' = s.misused
    /\ Len(s.timers) <= MaxTimers

Delay(d) == IF d = 0 \/ d > TimeoutMax THEN 1 ELSE d

NewTimer(owner, d) ==
  [owner |-> owner, delay |-> Delay(d), left |-> Delay(d), state |-> "started"]

ClosedTimer(t) == [t EXCEPT !.state = "closed", !.left = 0]

(* Handle::close(): "closed" has no handle_ any more, "deleted" no members. *)
CloseTimer(s, i) ==
  CASE s.timers[i].state = "started" -> [s EXCEPT !.timers[i] = ClosedTimer(@)]
    [] s.timers[i].state = "closed"  -> s
    [] s.timers[i].state = "deleted" -> [s EXCEPT !.misused = TRUE]

(* Mutant: timer_ keeps the address. *)
FinishTimerStale(s) ==
  IF s.timer_ = UNDEFINED THEN s ELSE CloseTimer(s, s.timer_)

FinishTimer(s) ==
  [IF s.timer_ = UNDEFINED THEN s ELSE CloseTimer(s, s.timer_) EXCEPT !.timer_ = UNDEFINED]

(* Mutant: the timer there is goes on. *)
StartTimerBeside(s, d) ==
  [s EXCEPT !.timers = Append(@, NewTimer("socket", d)),
            !.timer_ = Len(s.timers) + 1, !.timeout_ = d]

StartTimer(s, d) ==
  [FinishTimer(s) EXCEPT !.timers = Append(@, NewTimer("socket", d)),
                         !.timer_ = Len(s.timers) + 1, !.timeout_ = d]

(* active(): called by connect, reads, writes and their callbacks. *)
Active(s) ==
  LET on == IF s.timer_ = UNDEFINED THEN s ELSE StartTimer(FinishTimer(s), s.timeout_)
  IN  [on EXCEPT !.quiet = 0]

(* setTimeout() of the socket. *)
SetSocketTimeout(s, d) ==
  [IF d = 0 THEN FinishTimer(s) ELSE StartTimer(s, d) EXCEPT !.quiet = 0]

DestroySocket(s) == [FinishTimer(s) EXCEPT !.destroyed = TRUE]

(* The listeners of "timeout"; http::Server destroys the socket when it    *)
(* has none.                                                               *)
React(s, reaction) ==
  CASE reaction = "destroy" -> DestroySocket(s)
    [] reaction = "off"     -> SetSocketTimeout(s, 0)
    [] reaction = "again"   -> SetSocketTimeout(s, s.timeout_)
    [] reaction = "write"   -> Active(s)
    [] reaction = "nothing" -> s

-----------------------------------------------------------------------------
(* The application, and the callbacks of libuv by which the socket is      *)
(* active, which may come after its destruction.                           *)
SetsSocketTimeout(d) == ~destroyed /\ Becomes_T(SetSocketTimeout(S, d))
IsActive             == quiet # 0 /\ Becomes_T(Active(S))
Destroys             == ~destroyed /\ Becomes_T(DestroySocket(S))

(* setTimeout() and setInterval(). *)
SetsTimer(owner, d) ==
  Becomes_T([S EXCEPT !.timers = Append(@, NewTimer(owner, d))])

(* clearTimeout() and clearInterval(). *)
May(i, callee) == /\ timers[i].owner # "socket"
                  /\ timers[i].state = "started" \/ ClearsLate \/ i = callee
ClearsTimer(i) == May(i, 0) /\ Becomes_T(CloseTimer(S, i))

(* OnTimeout: the callback, and then close() unless it is an interval,     *)
(* which libuv has started again.                                          *)
Due(i) == timers[i].state = "started" /\ timers[i].left = 0

SocketTimerRuns(i, reaction) ==
  /\ timers[i].owner = "socket" /\ Due(i)
  /\ LET early == quiet < Delay(timeout_)
         told  == [S EXCEPT !.misused = @ \/ early \/ destroyed]
     IN  Becomes_T(CloseTimer(React(told, reaction), i))

(* Mutant: a timer that has run is not closed. *)
TimerRunsOpen(i, cleared) ==
  /\ timers[i].owner # "socket" /\ Due(i)
  /\ \A j \in cleared : May(j, i)
  /\ Becomes_T(IF cleared = {} THEN S ELSE CloseTimer(S, CHOOSE j \in cleared : TRUE))

TimerRuns(i, cleared) ==
  /\ timers[i].owner # "socket" /\ Due(i)
  /\ \A j \in cleared : May(j, i)
  /\ LET repeat == timers[i].owner = "interval"
         again  == IF repeat THEN [S EXCEPT !.timers[i].left = timers[i].delay] ELSE S
         after  == IF cleared = {} THEN again
                   ELSE CloseTimer(again, CHOOSE j \in cleared : TRUE)
     IN  Becomes_T(IF repeat THEN after ELSE CloseTimer(after, i))

(* libuv calls Handle::onClose at the end of the iteration. *)
IterationEnds ==
  /\ \E i \in DOMAIN timers : timers[i].state = "closed"
  /\ timers' = [i \in DOMAIN timers |->
       IF timers[i].state = "closed" THEN [timers[i] EXCEPT !.state = "deleted", !.delay = 0]
       ELSE timers[i]]
  /\ UNCHANGED <<timer_, timeout_, destroyed, quiet, misused>>

TimePasses ==
  /\ timers # <<>>
  /\ quiet' = IF quiet < TimeoutMax THEN quiet + 1 ELSE quiet
  /\ timers' = [i \in DOMAIN timers |-> [timers[i] EXCEPT !.left = IF @ > 0 THEN @ - 1 ELSE 0]]
  /\ UNCHANGED <<timer_, timeout_, destroyed, misused>>

TimersInit ==
  /\ timers = <<>> /\ timer_ = UNDEFINED /\ timeout_ = 0 /\ destroyed = FALSE
  /\ quiet = 0 /\ misused = FALSE

Runs(i) ==
  \/ \E reaction \in Reactions : SocketTimerRuns(i, reaction)
  \/ \E cleared \in {{}} \cup {{j} : j \in DOMAIN timers} : TimerRuns(i, cleared)

TimersNext ==
  \/ \E d \in Delays :
       \/ SetsSocketTimeout(d)
       \/ \E owner \in {"timeout", "interval"} : SetsTimer(owner, d)
  \/ IsActive \/ Destroys
  \/ \E i \in DOMAIN timers : ClearsTimer(i) \/ Runs(i)
  \/ IterationEnds \/ TimePasses

(* libuv lets time pass, runs what is due and tells of what is closed; the *)
(* application has to clear nothing.                                       *)
TimersFairness ==
  /\ \A i \in 1..MaxTimers :
       WF_timerVars(/\ i \in DOMAIN timers
                    /\ \/ TimerRuns(i, {})
                       \/ \E reaction \in Reactions : SocketTimerRuns(i, reaction))
  /\ WF_timerVars(IterationEnds) /\ WF_timerVars(TimePasses)

-----------------------------------------------------------------------------
(* Properties. *)

(* No Timer is used after libuv has deleted it; a socket hears of a        *)
(* timeout only when it was quiet for so long and is not destroyed; and it *)
(* has one Timer that runs at most, the one it can still finish.           *)
TimersSound ==
  /\ ~misused
  /\ \A i \in DOMAIN timers :
       timers[i].owner = "socket" /\ timers[i].state = "started" => i = timer_
  /\ destroyed => timer_ = UNDEFINED

(* A Timer that is not an interval runs or is cleared, and is deleted.     *)
TimersSettle ==
  \A i \in 1..MaxTimers :
    (i \in DOMAIN timers /\ timers[i].owner # "interval")
      ~> (i \in DOMAIN timers /\ timers[i].state = "deleted")
=============================================================================
