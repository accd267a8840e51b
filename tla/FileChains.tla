----------------------------- MODULE FileChains ------------------------------
(***************************************************************************)
(* readFile(), writeFile(), appendFile() and truncate() of detail/fs.h:    *)
(* chains of uv_fs requests, each made by the callback of the one before.  *)
(* Calls may overlap, and all work on one file here.  A request is served  *)
(* by a thread of libuv and may fail; a write may be partial and a read    *)
(* short.                                                                  *)
(***************************************************************************)
EXTENDS Integers, Sequences, FiniteSets, SequencesExt, FiniteSetsExt

CONSTANTS
  FsCall,      \* the calls
  Kinds,       \* what they may be: "read", "write", "append", "truncate"
  Contents,    \* what may be in the file at first
  MaxFails     \* bound: requests that fail, or do a part

(* A call is the number of the first byte that it writes. *)
ASSUME FileAssumption ==
  /\ IsFiniteSet(FsCall) /\ FsCall # {} /\ FsCall \subseteq Nat
  /\ Kinds \subseteq {"read", "write", "append", "truncate"}
  /\ Contents \subseteq Seq(Nat) /\ MaxFails \in Nat

Absent == <<-1>>       \* the content of a file that does not exist
Data(c) == <<c, c + 1>>  \* what call c writes: two bytes
TruncateTo == 1        \* the length that truncate() asks for

VARIABLES
  file,      \* what is in the file
  call,      \* each call: its kind, the request it waits for, its progress
  initially, \* history: what was in the file at first
  alone,     \* history: the calls that no other overlapped
  fails      \* requests that failed, or did a part of it

fileVars == <<file, call, initially, alone, fails>>

Unused == [kind |-> "none", at |-> "none", fd |-> FALSE, size |-> 0,
           offset |-> 0, length |-> 0, err |-> FALSE, failed |-> {},
           partial |-> FALSE, before |-> <<>>, answers |-> <<>>]

Running(c) == call[c].at # "none"

-----------------------------------------------------------------------------
(* What a request does to the file. *)
Overlay(old, position, bytes) ==
  [i \in 1..Max({Len(old), position + Len(bytes)}) |->
     IF i - position \in DOMAIN bytes THEN bytes[i - position]
     ELSE IF i \in DOMAIN old THEN old[i] ELSE 0]

(* open() with the flag R, W or A, by convertFlag(). *)
Opened(kind) ==
  IF kind \in {"write", "truncate"} THEN <<>>
  ELSE IF kind = "append" /\ file = Absent THEN <<>> ELSE file

(* write(): n bytes, and whatever the offset they are the first of the     *)
(* buffer.                                                                 *)
Written(c, n) ==
  LET bytes == SubSeq(Data(c), 1, n)
  IN  IF call[c].kind = "append" THEN file \o bytes
      ELSE Overlay(file, call[c].offset, bytes)

(* read(): n bytes, in a buffer of the size that stat() found. *)
ReadBuffer(c, n) == [i \in 1..call[c].size |-> IF i <= n THEN file[i] ELSE 0]

(* What a callback gets. *)
Answer(err, content) == [err |-> err, file |-> content]

-----------------------------------------------------------------------------
(* A call begins with its first request. *)
Begin(c, kind) ==
  /\ call[c] = Unused
  /\ call' = [call EXCEPT ![c].kind = kind, ![c].before = file,
                          ![c].at = IF kind = "read" THEN "stat" ELSE "open"]
  /\ alone' = IF \E d \in FsCall : Running(d)
              THEN alone \ ({c} \cup {d \in FsCall : Running(d)}) ELSE alone
  /\ UNCHANGED <<file, initially, fails>>

Waits(c, request) == call[c].at = request

(* AfterStatInReadFile *)
StatDone(c) ==
  /\ Waits(c, "stat") /\ file # Absent
  /\ call' = [call EXCEPT ![c].at = "open", ![c].size = Len(file)]
  /\ UNCHANGED <<file, initially, alone, fails>>

(* AfterOpenInReadFile, AfterOpenInWriteFile ... *)
OpenDone(c) ==
  LET kind == call[c].kind
  IN  /\ Waits(c, "open") /\ (kind = "read" => file # Absent)
      /\ file' = Opened(kind)
      /\ call' = [call EXCEPT ![c].fd = TRUE,
           ![c].length = IF kind \in {"write", "append"} THEN Len(Data(c)) ELSE 0,
           ![c].at = CASE kind = "read" -> "read"
                       [] kind \in {"write", "append"} -> "write"
                       [] kind = "truncate" -> "ftruncate"]
      /\ UNCHANGED <<initially, alone, fails>>

(* AfterReadInReadFile: the callback gets the whole buffer, however many   *)
(* bytes were read, and comes before close(), whose result is of no        *)
(* account.                                                                *)
ReadDone(c, n) ==
  LET short == n < Min({call[c].size, Len(file)})
  IN  /\ Waits(c, "read") /\ n <= call[c].size /\ n <= Len(file)
      /\ call' = [call EXCEPT ![c].at = "close", ![c].partial = @ \/ short,
                              ![c].answers = Append(@, Answer(FALSE, ReadBuffer(c, n)))]
      /\ fails' = IF short THEN fails + 1 ELSE fails
      /\ fails' <= MaxFails
      /\ UNCHANGED <<file, initially, alone>>

(* AfterWriteInWriteAll: writes until nothing is left. *)
WriteDone(c, n) ==
  LET left == call[c].length - n
  IN  /\ Waits(c, "write") /\ n \in 1..call[c].length
      /\ file' = Written(c, n)
      /\ call' = [call EXCEPT ![c].at = IF left = 0 THEN "close" ELSE "write",
                              ![c].offset = @ + n, ![c].length = left,
                              ![c].partial = @ \/ left > 0]
      /\ fails' = IF left > 0 THEN fails + 1 ELSE fails
      /\ fails' <= MaxFails
      /\ UNCHANGED <<initially, alone>>

(* AfterFtruncateInTruncate *)
FtruncateDone(c) ==
  /\ Waits(c, "ftruncate")
  /\ file' = Overlay(<<>>, 0, [i \in 1..TruncateTo |-> IF i \in DOMAIN file THEN file[i] ELSE 0])
  /\ call' = [call EXCEPT ![c].at = "close"]
  /\ UNCHANGED <<initially, alone, fails>>

(* After close(), whether it failed or not: AfterCloseInWriteAll gives the *)
(* error of the write, AfterCloseInTruncate gives the callback that of     *)
(* close() first, and that of ftruncate() after it.                        *)
CloseAnswers(c, failed) ==
  LET s   == call[c]
      err == IF s.kind = "truncate" THEN failed ELSE s.err \/ failed
  IN  call' = [call EXCEPT ![c].at = "none", ![c].fd = FALSE,
                 ![c].failed = IF failed THEN @ \cup {"close"} ELSE @,
                 ![c].answers = IF s.kind = "read" THEN @
                                ELSE Append(@, Answer(err, file))]

CloseDone(c) ==
  /\ Waits(c, "close") /\ CloseAnswers(c, FALSE)
  /\ UNCHANGED <<file, initially, alone, fails>>

Failing(c) == fails < MaxFails /\ fails' = fails + 1 /\ UNCHANGED <<file, initially, alone>>

(* close() frees the descriptor even when it fails. *)
CloseFails(c) == Waits(c, "close") /\ Failing(c) /\ CloseAnswers(c, TRUE)

(* onError() of stat() or open(): there is nothing to close.  A file that  *)
(* does not exist cannot be read.                                          *)
NotOpened(c) ==
  /\ Waits(c, "stat") \/ Waits(c, "open")
  /\ \/ Failing(c)
     \/ file = Absent /\ call[c].kind = "read" /\ UNCHANGED <<file, initially, alone, fails>>
  /\ call' = [call EXCEPT ![c].at = "none", ![c].failed = @ \cup {call[c].at},
                          ![c].answers = Append(@, Answer(TRUE, file))]

ReadFails(c) ==
  /\ Waits(c, "read") /\ Failing(c)
  /\ call' = [call EXCEPT ![c].at = "close", ![c].failed = @ \cup {"read"},
                          ![c].answers = Append(@, Answer(TRUE, file))]

(* Mutant: the callback gets the error, and the file is not closed. *)
WriteFailsOpen(c) ==
  /\ Waits(c, "write") /\ Failing(c)
  /\ call' = [call EXCEPT ![c].at = "none", ![c].failed = @ \cup {"write"},
                          ![c].answers = Append(@, Answer(TRUE, file))]

(* Mutant: the error of the write is not kept. *)
WriteFailsForgotten(c) ==
  /\ Waits(c, "write") /\ Failing(c)
  /\ call' = [call EXCEPT ![c].at = "close", ![c].failed = @ \cup {"write"}]

WriteFails(c) ==
  /\ Waits(c, "write") /\ Failing(c)
  /\ call' = [call EXCEPT ![c].at = "close", ![c].err = TRUE,
                          ![c].failed = @ \cup {"write"}]

FtruncateFails(c) ==
  /\ Waits(c, "ftruncate") /\ Failing(c)
  /\ call' = [call EXCEPT ![c].at = "close", ![c].err = TRUE,
                          ![c].failed = @ \cup {"ftruncate"}]

FileInit ==
  /\ file \in Contents \cup {Absent}
  /\ initially = file
  /\ call = [c \in FsCall |-> Unused]
  /\ alone = FsCall /\ fails = 0

Served(c) ==
  \/ StatDone(c) \/ OpenDone(c) \/ FtruncateDone(c) \/ CloseDone(c)
  \/ \E n \in 0..Len(file) : ReadDone(c, n)
  \/ \E n \in 1..2 : WriteDone(c, n)
  \/ NotOpened(c) \/ ReadFails(c) \/ WriteFails(c) \/ FtruncateFails(c) \/ CloseFails(c)

FileNext == \E c \in FsCall : Served(c) \/ \E kind \in Kinds : Begin(c, kind)

-----------------------------------------------------------------------------
(* Properties. *)

Said(c, err) == call[c].answers # <<>> /\ call[c].answers[1].err = err

(* Each callback is called once at most.  A call that no other overlapped  *)
(* and that answers without an error has done what it says: the file has   *)
(* what was written, or that after what it had, or the length that was     *)
(* asked for, and what was read is what the file had.  An error is told    *)
(* when a request failed, and only then.  Calls of appendFile() that       *)
(* overlap do not lose each other's data.  After a partial write, or a     *)
(* short read, the content is not as it should be, and truncate() hides    *)
(* the error of ftruncate().                                               *)
AnswersHonest ==
  /\ \A c \in FsCall :
       LET s == call[c]  a == s.answers[1]
       IN  /\ Len(s.answers) <= 1
           /\ Said(c, TRUE) => s.failed # {}
           /\ Said(c, FALSE) => s.failed \subseteq IF s.kind = "read" THEN {"close"}
                                                    ELSE {"ftruncate"}
           /\ Said(c, FALSE) /\ c \in alone /\ ~s.partial /\ s.failed = {} =>
                a.file = CASE s.kind = "write" -> Data(c)
                           [] s.kind = "append" ->
                                (IF s.before = Absent THEN <<>> ELSE s.before) \o Data(c)
                           [] s.kind = "read" -> s.before
                           [] s.kind = "truncate" -> [i \in 1..TruncateTo |-> 0]
  /\ (\A c \in FsCall : call[c].kind = "append" /\ call[c].failed = {}
                      /\ ~call[c].partial /\ call[c].answers # <<>>)
     => \E order \in SetToSeqs(FsCall) :
          file = (IF initially = Absent THEN <<>> ELSE initially)
                 \o FlattenSeq([i \in DOMAIN order |-> Data(order[i])])
=============================================================================
