------------------------------- MODULE Async -------------------------------
(***************************************************************************)
(* Async (include/libnode/detail/async.h): tasks run on the threads of an  *)
(* executor, their callbacks on the thread of the event loop, to which a   *)
(* MessageQueue takes the results.                                         *)
(*                                                                         *)
(* The Posters of MessageQueue are the threads of the executor; the n-th   *)
(* message of a thread is the result of the n-th task it ran.  exec() is   *)
(* called on the loop thread, outside a callback or in one, or by a task   *)
(* (its counter is atomic and its map concurrent); its steps interleave    *)
(* with the other threads.  close() is called on the loop thread.  The     *)
(* executor is external: when it is destroyed it runs the tasks still      *)
(* waiting or drops them, and waits for those that run.                    *)
(*                                                                         *)
(* A behaviour is either that of an Async or that of a MessageQueue used   *)
(* by itself (exec is "unused"), which its threads may also reopen.        *)
(***************************************************************************)
EXTENDS MessageQueue

CONSTANTS
  Main,        \* the thread of the event loop
  MaxTasks,    \* bound: calls of exec()
  MaxAlone     \* bound: messages of a thread when there is no Async

ASSUME AsyncAssumption ==
  /\ Main \notin Posters /\ MaxTasks \in Nat
  /\ MaxPosts = MaxTasks   \* no thread is kept from posting a result
  /\ MaxAlone \in Nat

Threads == Posters \cup {Main}
Id == 1..MaxTasks

VARIABLES
  exec,        \* exec_: "running", "joining" (being destroyed), "null";
               \* "unused" when there is no Async
  nextId,      \* nextId_
  callbacks,   \* callbacks_: the ids that have one
  tasks,       \* the tasks waiting in the executor
  running,     \* the task each thread of the executor runs, 0 for none
  execing,     \* a call of exec() under way: its id and next step
  \* history
  ran,         \* the tasks each thread has begun, in order
  called,      \* the ids whose callbacks were called, in order
  wanted,      \* the ids that exec() has returned true for, with a callback
  dropped      \* the tasks that the executor dropped

asyncVars == <<exec, nextId, callbacks, tasks, running, execing, ran, called,
               wanted, dropped>>
allVars == <<vars, asyncVars>>

NoExec == [id |-> 0, step |-> "none"]
Carries(m) == ran[m.by][m.n]

(* The loop thread waits neither in exec() nor for the executor. *)
MainFree == exec \in {"running", "null"} /\ execing[Main] = NoExec

(* The application has its turn: outside emitMessage(), or in the callback *)
(* of the message that was delivered last.                                 *)
MainsTurn ==
  /\ AppsTurn
  /\ frames # <<>> =>
       called # <<>> /\ called[Len(called)] = Carries(delivered[Len(delivered)])

MayExec(t) ==
  IF t = Main THEN MainsTurn ELSE running[t] # 0 /\ pc[t] = "idle"

-----------------------------------------------------------------------------
(* exec() takes an id, registers the callback and hands the task over. *)
ExecBegin(t) ==
  /\ exec = "running" /\ MayExec(t) /\ execing[t] = NoExec
  /\ nextId < MaxTasks
  /\ nextId' = nextId + 1
  /\ \E step \in {"put", "submit"} :    \* with or without a callback
       execing' = [execing EXCEPT ![t] = [id |-> nextId + 1, step |-> step]]
  /\ UNCHANGED <<vars, exec, callbacks, tasks, running, ran, called, wanted,
                 dropped>>

ExecPut(t) ==
  /\ execing[t].step = "put"
  /\ callbacks' = callbacks \cup {execing[t].id}
  /\ execing' = [execing EXCEPT ![t].step = "submit"]
  /\ UNCHANGED <<vars, exec, nextId, tasks, running, ran, called, wanted,
                 dropped>>

(* An executor that is being destroyed takes no tasks. *)
ExecSubmit(t) ==
  LET id == execing[t].id
  IN  /\ execing[t].step = "submit"
      /\ IF exec = "running"
         THEN tasks' = Append(tasks, id) /\ dropped' = dropped
         ELSE dropped' = dropped \cup {id} /\ tasks' = tasks
      /\ wanted' = wanted \cup ({id} \cap callbacks)
      /\ execing' = [execing EXCEPT ![t] = NoExec]
      /\ UNCHANGED <<vars, exec, nextId, callbacks, running, ran, called>>

(* Mutant: the task is handed over before the callback is registered. *)
ExecSubmittingFirst(t) ==
  \/ ExecBegin(t) \/ ExecSubmit(t)
  \/ /\ execing[t].step = "put" /\ exec = "running"
     /\ tasks' = Append(tasks, execing[t].id)
     /\ execing' = [execing EXCEPT ![t].step = "late"]
     /\ UNCHANGED <<vars, exec, nextId, callbacks, running, ran, called,
                    wanted, dropped>>
  \/ /\ execing[t].step = "late"
     /\ callbacks' = callbacks \cup {execing[t].id}
     /\ wanted' = wanted \cup {execing[t].id}
     /\ execing' = [execing EXCEPT ![t] = NoExec]
     /\ UNCHANGED <<vars, exec, nextId, tasks, running, ran, called, dropped>>

Exec(t) == ExecBegin(t) \/ ExecPut(t) \/ ExecSubmit(t)

-----------------------------------------------------------------------------
(* A thread of the executor. *)

TakeTask(p) ==
  /\ tasks # <<>> /\ running[p] = 0 /\ exec # "null"
  /\ tasks' = Tail(tasks)
  /\ running' = [running EXCEPT ![p] = Head(tasks)]
  /\ ran' = [ran EXCEPT ![p] = Append(@, Head(tasks))]
  /\ UNCHANGED <<vars, exec, nextId, callbacks, execing, called, wanted,
                 dropped>>

(* The task returns, and Task::operator() posts the result. *)
PostResult(p) ==
  /\ running[p] # 0 /\ execing[p] = NoExec
  /\ \/ PostCheck(p) /\ running' = IF open THEN running
                                   ELSE [running EXCEPT ![p] = 0]
     \/ PostOffer(p) /\ running' = running
     \/ PostSend(p)  /\ running' = [running EXCEPT ![p] = 0]
  /\ UNCHANGED <<exec, nextId, callbacks, tasks, execing, ran, called, wanted,
                 dropped>>

-----------------------------------------------------------------------------
(* The loop thread. *)

(* OnMessage::operator() takes the callback out of the map and calls it.   *)
OnMessage ==
  /\ MainFree /\ Poll
  /\ LET id == Carries(Head(queue))
     IN  IF listening /\ id \in callbacks
         THEN callbacks' = callbacks \ {id} /\ called' = Append(called, id)
         ELSE UNCHANGED <<callbacks, called>>
  /\ UNCHANGED <<exec, nextId, tasks, running, execing, ran, wanted, dropped>>

(* Receive, ListenerReturns, EndLoop and Closed of the queue. *)
LoopStep ==
  /\ MainFree
  /\ Receive \/ ListenerReturns \/ EndLoop \/ Closed
  /\ UNCHANGED asyncVars

(* Mutant: the queue is closed before the executor is destroyed. *)
ShutdownClosingFirst ==
  /\ exec = "running" /\ MainFree /\ Close
  /\ exec' = "null"
  /\ UNCHANGED <<nextId, callbacks, tasks, running, execing, ran, called,
                 wanted, dropped>>

(* close(): exec_ is reset, which destroys the executor ... *)
Shutdown ==
  /\ exec = "running" /\ MainFree /\ MainsTurn
  /\ exec' = "joining"
  /\ \/ UNCHANGED <<tasks, dropped>>
     \/ /\ tasks # <<>> /\ tasks' = <<>>
        /\ dropped' = dropped \cup {tasks[i] : i \in DOMAIN tasks}
  /\ UNCHANGED <<vars, nextId, callbacks, running, execing, ran, called,
                 wanted>>

(* ... and when its threads have ended the queue is closed. *)
Join ==
  /\ exec = "joining" /\ tasks = <<>> /\ \A p \in Posters : running[p] = 0
  /\ Close
  /\ exec' = "null"
  /\ UNCHANGED <<nextId, callbacks, tasks, running, execing, ran, called,
                 wanted, dropped>>

-----------------------------------------------------------------------------
(* The queue by itself. *)
Alone ==
  /\ exec = "unused" /\ UNCHANGED asyncVars
  /\ Open \/ Close \/ Loop \/ \E p \in Posters : Post(p)
  /\ \A p \in Posters : posted'[p] <= MaxAlone

(* The constructor creates the queue, the executor, and opens the queue. *)
Created ==
  /\ open = TRUE /\ queue = <<>> /\ async = "active" /\ listening = TRUE
  /\ frames = <<>> /\ signalled = FALSE
  /\ pc = [p \in Posters |-> "idle"] /\ posted = [p \in Posters |-> 0]
  /\ opens = 1 /\ accepted = {} /\ delivered = <<>> /\ lost = {}
  /\ raced = FALSE /\ sentClosed = FALSE /\ broken = FALSE
  /\ exec = "running"

AsyncInit ==
  /\ Created \/ (Init /\ exec = "unused")
  /\ nextId = 0 /\ callbacks = {} /\ tasks = <<>>
  /\ running = [p \in Posters |-> 0]
  /\ execing = [t \in Threads |-> NoExec]
  /\ ran = [p \in Posters |-> <<>>]
  /\ called = <<>> /\ wanted = {} /\ dropped = {}

AsyncNext ==
  \/ \E t \in Threads : Exec(t)
  \/ \E p \in Posters : TakeTask(p) \/ PostResult(p)
  \/ OnMessage
  \/ LoopStep
  \/ Shutdown
  \/ Join
  \/ Alone

AsyncSpec == AsyncInit /\ [][AsyncNext]_allVars

(* Threads are scheduled, tasks and callbacks return, the loop turns; no   *)
(* one has to call exec() or close().                                      *)
AsyncFairness ==
  /\ WF_allVars(OnMessage \/ LoopStep \/ Join)
  /\ \A t \in Threads : WF_allVars(ExecPut(t) \/ ExecSubmit(t))
  /\ WF_allVars(\E p \in Posters : TakeTask(p))
  /\ \A p \in Posters : WF_allVars(PostResult(p))
  /\ WF_allVars(Alone /\ Loop)
  /\ \A p \in Posters : WF_allVars(Alone /\ (PostOffer(p) \/ PostSend(p)))

-----------------------------------------------------------------------------
(* Properties. *)

(* A callback is called once, for a task that has run.  When close() has   *)
(* returned, the callback of every task that exec() took has been called,  *)
(* unless the executor dropped the task: close() waits for the tasks and   *)
(* delivers their results before it returns, and so no thread posts to the *)
(* closed handle.                                                          *)
CallbacksOnce ==
  exec # "unused" =>
    /\ \A i, j \in DOMAIN called : called[i] = called[j] => i = j
    /\ \A i \in DOMAIN called :
         \E p \in Posters : \E k \in 1..posted[p] : ran[p][k] = called[i]
    /\ ~sentClosed
    /\ exec = "null" /\ frames = <<>> =>
         \A id \in wanted \ dropped : \E i \in DOMAIN called : called[i] = id

(* A message in an open queue is delivered, or the queue is closed; and    *)
(* the callback of a task is called in the end, unless close() drops it.   *)
CallsBack ==
  /\ Delivered
  /\ \A id \in Id :
    (id \in wanted) ~> (id \in dropped \/ \E i \in DOMAIN called : called[i] = id)
=============================================================================
