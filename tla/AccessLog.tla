----------------------------- MODULE AccessLog -----------------------------
(***************************************************************************)
(* What the access log promises, with no threads, counter or wakeups in    *)
(* sight: queries go into the files in the order in which they were        *)
(* logged, each once, unless no file could be opened for one; a file gets  *)
(* lines until they reach the limit, so that it exceeds it by less than    *)
(* its last line, and is then closed; and neither a flush nor the          *)
(* destructor returns while a query waits.                                 *)
(***************************************************************************)
EXTENDS Naturals, Sequences

CONSTANTS Entries,    \* the queries that are logged
          LineSize,   \* the bytes of the line of each
          MaxFileSize \* a file with that many bytes is closed

VARIABLES
    logged,   \* the queries that have been logged
    waiting,  \* those that have not been written yet, in their order
    logFiles, \* the files, each with its lines and bytes, the current one last
    dropped,  \* the queries for which there was no file
    flush,    \* where the call of Flush is: "idle", "waiting" or "returned"
    phase     \* of the log: "open", "closing" or "closed"

vars == <<logged, waiting, logFiles, dropped, flush, phase>>

NewFile == [lines |-> <<>>, bytes |-> 0]

Init ==
    /\ logged = {}
    /\ waiting = <<>>
    /\ logFiles = <<NewFile>>
    /\ dropped = {}
    /\ flush = "idle"
    /\ phase = "open"

Current == Len(logFiles)

Log(e) ==
    /\ phase = "open"
    /\ e \notin logged
    /\ logged' = logged \union {e}
    /\ waiting' = Append(waiting, e)
    /\ UNCHANGED <<logFiles, dropped, flush, phase>>

Rotate ==
    /\ waiting # <<>>
    /\ logFiles[Current].bytes >= MaxFileSize
    /\ logFiles' = Append(logFiles, NewFile)
    /\ UNCHANGED <<logged, waiting, dropped, flush, phase>>

Write ==
    /\ waiting # <<>>
    /\ logFiles[Current].bytes < MaxFileSize
    /\ logFiles' = [logFiles EXCEPT ![Current] =
          [lines |-> Append(@.lines, Head(waiting)), bytes |-> @.bytes + LineSize[Head(waiting)]]]
    /\ waiting' = Tail(waiting)
    /\ UNCHANGED <<logged, dropped, flush, phase>>

Drop ==
    /\ waiting # <<>>
    /\ dropped' = dropped \union {Head(waiting)}
    /\ waiting' = Tail(waiting)
    /\ UNCHANGED <<logged, logFiles, flush, phase>>

BeginFlush ==
    /\ flush = "idle" /\ phase = "open"
    /\ flush' = "waiting"
    /\ UNCHANGED <<logged, waiting, logFiles, dropped, phase>>

EndFlush ==
    /\ flush = "waiting" /\ waiting = <<>>
    /\ flush' = "returned"
    /\ UNCHANGED <<logged, waiting, logFiles, dropped, phase>>

\* Nobody logs or flushes any more.
Close ==
    /\ phase = "open" /\ flush # "waiting"
    /\ phase' = "closing"
    /\ UNCHANGED <<logged, waiting, logFiles, dropped, flush>>

Finish ==
    /\ phase = "closing" /\ waiting = <<>>
    /\ phase' = "closed"
    /\ UNCHANGED <<logged, waiting, logFiles, dropped, flush>>

Next ==
    \/ \E e \in Entries : Log(e)
    \/ Rotate \/ Write \/ Drop
    \/ BeginFlush \/ EndFlush
    \/ Close \/ Finish

Spec == Init /\ [][Next]_vars
=============================================================================
