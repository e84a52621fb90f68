------------------------------- MODULE Logger -------------------------------
(***************************************************************************)
(* The server's access log: LogQuery queues an entry, a writer thread puts *)
(* it in a file and rotates the files, Flush waits until nothing is        *)
(* pending, the destructor stops the writer.                               *)
(*                                                                         *)
(* pending_writes_ and running_ are atomics that the mutex does not guard, *)
(* so reading or writing one of them is a step of its own, and the writer  *)
(* still holds the mutex between finding the predicate of its wait false   *)
(* and going to sleep.  A file is what this logger put in it: its lines    *)
(* and their bytes.  A file may hold lines of an earlier run of the server *)
(* already, as it is opened to append; current_file_size_ starts from 0    *)
(* all the same, so nothing here depends on them.                          *)
(***************************************************************************)
EXTENDS Naturals, Sequences, FiniteSets, SequencesExt

CONSTANTS Entries,    \* the queries that are logged, each by one thread
          LineSize,   \* the bytes of the line of each, with its newline
          MaxFileSize \* max_file_size_

ASSUME LoggerAssumption ==
    /\ IsFiniteSet(Entries)
    /\ LineSize \in [Entries -> Nat \ {0}]
    /\ MaxFileSize \in Nat \ {0}

VARIABLES
    queue,      \* queue_
    pending,    \* pending_writes_
    running,    \* running_
    caller,     \* where the call LogQuery(e) is
    writer,     \* where WriteLoop is
    line,       \* the entry the writer has popped, as a sequence of length <= 1
    isOpen,     \* current_file_.is_open()
    size,       \* current_file_size_
    logFiles,   \* the files, the current one last
    dropped,    \* auxiliary: entries popped while no file could be opened
    flush,      \* where the call Flush() is
    promised,   \* auxiliary: the entries that Flush has to wait for
    destructor  \* where ~Logger is

vars == <<queue, pending, running, caller, writer, line, isOpen, size, logFiles,
          dropped, flush, promised, destructor>>
fileVars == <<isOpen, size, logFiles, dropped>>
lifeVars == <<flush, promised, running, destructor>>

\* The writer has the mutex.
Locked == writer \in {"blocking", "draining"}

File == [lines : Seq(Entries), bytes : Nat]
NewFile == [lines |-> <<>>, bytes |-> 0]
WithLine(file, e) ==
    [lines |-> Append(file.lines, e), bytes |-> file.bytes + LineSize[e]]

Init ==
    /\ queue = <<>>
    /\ pending = 0
    /\ running = TRUE
    /\ caller = [e \in Entries |-> "idle"]
    /\ writer = "testing"
    /\ line = <<>>
    /\ isOpen = FALSE
    /\ size = 0
    /\ logFiles = <<NewFile>>
    /\ dropped = {}
    /\ flush = "idle"
    /\ promised = {}
    /\ destructor = "idle"
-----------------------------------------------------------------------------
(* LogQuery; nobody logs once the destructor has begun *)

\* Mutant: does not count the entry.
SkipCount(e) ==
    /\ caller[e] = "idle" /\ destructor = "idle"
    /\ caller' = [caller EXCEPT ![e] = "counted"]
    /\ UNCHANGED <<queue, pending, writer, line, fileVars, lifeVars>>

Count(e) ==
    /\ caller[e] = "idle" /\ destructor = "idle"
    /\ pending' = pending + 1
    /\ caller' = [caller EXCEPT ![e] = "counted"]
    /\ UNCHANGED <<queue, writer, line, fileVars, lifeVars>>

Push(e) ==
    /\ caller[e] = "counted" /\ ~Locked
    /\ queue' = Append(queue, e)
    /\ caller' = [caller EXCEPT ![e] = "pushed"]
    /\ UNCHANGED <<pending, writer, line, fileVars, lifeVars>>

\* A notification that finds the writer not yet asleep does nothing.
WakeWriter == writer' = IF writer = "asleep" THEN "checking" ELSE writer

\* Mutant: forgets to notify.
ReturnSilently(e) ==
    /\ caller[e] = "pushed"
    /\ caller' = [caller EXCEPT ![e] = "returned"]
    /\ UNCHANGED <<queue, pending, writer, line, fileVars, lifeVars>>

Notify(e) ==
    /\ caller[e] = "pushed"
    /\ WakeWriter
    /\ caller' = [caller EXCEPT ![e] = "returned"]
    /\ UNCHANGED <<queue, pending, line, fileVars, lifeVars>>

(* WriteLoop *)

\* Mutant: leaves as soon as the logger is not running.
TestRunningOnly ==
    /\ writer = "testing"
    /\ writer' = IF running THEN "checking" ELSE "gone"
    /\ isOpen' = (isOpen /\ writer' # "gone")
    /\ UNCHANGED <<queue, pending, caller, line, size, logFiles, dropped, lifeVars>>

\* The condition of the outer loop; the file is closed when it ends.
Test ==
    /\ writer = "testing"
    /\ writer' = IF running \/ pending > 0 THEN "checking" ELSE "gone"
    /\ isOpen' = (isOpen /\ writer' # "gone")
    /\ UNCHANGED <<queue, pending, caller, line, size, logFiles, dropped, lifeVars>>

\* Inside cv_.wait, holding the mutex: the predicate.
CheckPredicate ==
    /\ writer = "checking"
    /\ writer' = IF queue # <<>> \/ ~running THEN "draining" ELSE "blocking"
    /\ UNCHANGED <<queue, pending, caller, line, fileVars, lifeVars>>

Block ==
    /\ writer = "blocking"
    /\ writer' = "asleep"
    /\ UNCHANGED <<queue, pending, caller, line, fileVars, lifeVars>>

WakeSpuriously ==
    /\ writer = "asleep"
    /\ writer' = "checking"
    /\ UNCHANGED <<queue, pending, caller, line, fileVars, lifeVars>>

Pop ==
    /\ writer = "draining" /\ queue # <<>>
    /\ line' = <<Head(queue)>>
    /\ queue' = Tail(queue)
    /\ writer' = "writing"
    /\ UNCHANGED <<pending, caller, fileVars, lifeVars>>

Drained ==
    /\ writer = "draining" /\ queue = <<>>
    /\ writer' = "testing"
    /\ UNCHANGED <<queue, pending, caller, line, fileVars, lifeVars>>

\* Mutant: lets a file that is just full have one more line.
RotateLate(opens) ==
    IF ~isOpen THEN isOpen' = opens /\ UNCHANGED <<size, logFiles>>
    ELSE IF size > MaxFileSize
    THEN isOpen' = opens /\ size' = 0 /\ logFiles' = Append(logFiles, NewFile)
    ELSE UNCHANGED <<isOpen, size, logFiles>>

\* RotateIfNeeded; opens: whether a file that must be opened can be.
Rotate(opens) ==
    IF ~isOpen THEN isOpen' = opens /\ UNCHANGED <<size, logFiles>>
    ELSE IF size >= MaxFileSize
    THEN isOpen' = opens /\ size' = 0 /\ logFiles' = Append(logFiles, NewFile)
    ELSE UNCHANGED <<isOpen, size, logFiles>>

RotateFile ==
    /\ writer = "writing"
    /\ \E opens \in BOOLEAN : Rotate(opens)
    /\ writer' = "rotated"
    /\ UNCHANGED <<queue, pending, caller, line, dropped, lifeVars>>

WriteLine ==
    /\ writer = "rotated"
    /\ IF isOpen
       THEN /\ logFiles' = [logFiles EXCEPT ![Len(logFiles)] = WithLine(@, Head(line))]
            /\ size' = size + LineSize[Head(line)]
            /\ UNCHANGED dropped
       ELSE /\ dropped' = dropped \union Range(line)
            /\ UNCHANGED <<logFiles, size>>
    /\ writer' = "written"
    /\ UNCHANGED <<queue, pending, caller, line, isOpen, lifeVars>>

\* fetch_sub, then the mutex is taken again.
CountDown ==
    /\ writer = "written"
    /\ pending' = pending - 1
    /\ line' = <<>>
    /\ writer' = "draining"
    /\ UNCHANGED <<queue, caller, fileVars, lifeVars>>

(* Flush *)

BeginFlush ==
    /\ flush = "idle" /\ destructor = "idle"
    /\ flush' = "waiting"
    /\ promised' = {e \in Entries : caller[e] = "returned"}
    /\ UNCHANGED <<queue, pending, caller, writer, line, fileVars, running, destructor>>

\* Mutant: waits for the queue, not for the writes.
FlushQueue ==
    /\ flush = "waiting"
    /\ queue = <<>>
    /\ flush' = "returned"
    /\ UNCHANGED <<queue, pending, caller, writer, line, fileVars, promised, running, destructor>>

EndFlush ==
    /\ flush = "waiting"
    /\ pending = 0
    /\ flush' = "returned"
    /\ UNCHANGED <<queue, pending, caller, writer, line, fileVars, promised, running, destructor>>

(* ~Logger, when every call has returned *)

StopRunning ==
    /\ destructor = "idle"
    /\ \A e \in Entries : caller[e] \in {"idle", "returned"}
    /\ flush # "waiting"
    /\ running' = FALSE
    /\ destructor' = "notifying"
    /\ UNCHANGED <<queue, pending, caller, writer, line, fileVars, flush, promised>>

NotifyWriter ==
    /\ destructor = "notifying"
    /\ WakeWriter
    /\ destructor' = "joining"
    /\ UNCHANGED <<queue, pending, caller, line, fileVars, flush, promised, running>>

Join ==
    /\ destructor = "joining" /\ writer = "gone"
    /\ destructor' = "returned"
    /\ UNCHANGED <<queue, pending, caller, writer, line, fileVars, flush, promised, running>>

LogQuery(e) == Count(e) \/ Push(e) \/ Notify(e)
WriteLoop == Test \/ CheckPredicate \/ Block \/ Pop \/ Drained
             \/ RotateFile \/ WriteLine \/ CountDown
Destroy == StopRunning \/ NotifyWriter \/ Join

Next ==
    \/ \E e \in Entries : LogQuery(e)
    \/ WriteLoop \/ WakeSpuriously
    \/ BeginFlush \/ EndFlush
    \/ Destroy

Spec == Init /\ [][Next]_vars

\* A thread inside LogQuery, Flush or the destructor goes on when it can, and
\* so does the writer; nobody has to start a call.  A thread that waits for the
\* mutex gets it if the mutex is free again and again.
Fairness ==
    /\ \A e \in Entries : SF_vars(Push(e)) /\ WF_vars(Notify(e))
    /\ WF_vars(WriteLoop)
    /\ WF_vars(EndFlush)
    /\ WF_vars(NotifyWriter \/ Join)

FairSpec == Spec /\ Fairness
-----------------------------------------------------------------------------
(* Properties *)

Written == UNION {Range(logFiles[i].lines) : i \in DOMAIN logFiles}
InQueue == Range(queue)
InHand == Range(line)

\* Every variable has its type, and the count of pending writes never goes
\* below zero: pending_writes_ is unsigned, and Flush waits for it.
TypeOK ==
    /\ queue \in Seq(Entries)
    /\ pending \in 0 .. Cardinality(Entries)
    /\ running \in BOOLEAN
    /\ caller \in [Entries -> {"idle", "counted", "pushed", "returned"}]
    /\ writer \in {"testing", "checking", "blocking", "asleep", "draining", "writing",
                   "rotated", "written", "gone"}
    /\ line \in Seq(Entries) /\ Len(line) <= 1
    /\ isOpen \in BOOLEAN
    /\ size \in Nat
    /\ logFiles \in Seq(File)
    /\ dropped \subseteq Entries
    /\ flush \in {"idle", "waiting", "returned"}
    /\ promised \subseteq Entries
    /\ destructor \in {"idle", "notifying", "joining", "returned"}

\* When Flush returns, every entry whose LogQuery had returned before is in a
\* file, unless none could be opened for it.
FlushKeepsItsPromise == flush = "returned" => promised \subseteq Written \union dropped

\* The writer does not leave an entry behind, even when the logger is
\* destroyed right after LogQuery has returned.
NothingLeftBehind ==
    writer = "gone" => \A e \in Entries : caller[e] = "returned" => e \in Written \union dropped

\* An entry that was pushed is written in the end, also when the push comes
\* while the writer is between two waits.
EveryEntryEnds == \A e \in Entries : e \in InQueue ~> e \in Written \union dropped

\* Flush returns.
FlushReturns == flush = "waiting" ~> flush = "returned"

\* The log as its callers see it.
Logged == {e \in Entries : caller[e] \in {"pushed", "returned"}}
Waiting == IF writer \in {"writing", "rotated"} THEN line \o queue ELSE queue
Phase == CASE destructor = "idle" -> "open"
           [] destructor = "returned" -> "closed"
           [] OTHER -> "closing"

Log == INSTANCE AccessLog WITH logged <- Logged, waiting <- Waiting, phase <- Phase

\* Callers, writer, Flush and destructor together keep the promise of the access
\* log: each query is written once, in the order of the queue, into a file that
\* was below the limit without it, and Flush and ~Logger return when none waits.
ImplementsAccessLog == Log!Spec
=============================================================================
