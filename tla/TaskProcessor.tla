--------------------------- MODULE TaskProcessor ---------------------------
(***************************************************************************)
(* The server's TaskProcessor: REVERT and aggregate SELECT statements run  *)
(* in the background on a ThreadPool, and the table of their results that  *)
(* clients poll with check_task.                                           *)
(*                                                                         *)
(* The table has a mutex of its own, so every access to it is an action    *)
(* apart from those of the pool.  The task a worker runs is the lambda of  *)
(* TaskProcessor::Submit: mark the entry Running, call the handler, store  *)
(* its response or its exception.                                          *)
(***************************************************************************)
EXTENDS ThreadPool

VARIABLES
    entry,    \* tasks_: the entry of each task
    returned, \* the tasks whose Submit has returned, whose id the client has
    step,     \* how far a running worker is in the lambda
    given     \* auxiliary: what the handler gave for a task, one result per call

vars == <<poolVars, entry, returned, step, given>>

Answers == {"none", "response", "exception", "stopped", "cancelled"}
Entry == [status : {"absent", "pending", "running", "completed", "failed"}, answer : Answers]
NoEntry == [status |-> "absent", answer |-> "none"]

\* The lambda, from taking the task to storing what the handler gave.
Steps == {"taken", "marked", "response", "exception", "stored"}

Init ==
    /\ PoolInit
    /\ entry = [t \in Tasks |-> NoEntry]
    /\ returned = {}
    /\ step = [w \in Workers |-> "stored"]
    /\ given = [t \in Tasks |-> <<>>]
-----------------------------------------------------------------------------
(* The table *)

\* Mutant: lets a late result replace a failure.
UpdateAlways(t, status, answer) ==
    entry' = [entry EXCEPT ![t] = [status |-> status, answer |-> answer]]

\* Update: a task that has failed stays so.
Update(t, status, answer) ==
    IF entry[t].status \in {"absent", "failed"} THEN UNCHANGED entry
    ELSE entry' = [entry EXCEPT ![t] = [status |-> status, answer |-> answer]]

(* Submit *)

MakeEntry(t) ==
    /\ entry[t] = NoEntry
    /\ entry' = [entry EXCEPT ![t] = [status |-> "pending", answer |-> "none"]]
    /\ UNCHANGED <<poolVars, returned, step, given>>

HandOver(t) ==
    /\ entry[t] # NoEntry
    /\ Enqueue(t) \/ Refuse(t)
    /\ UNCHANGED <<entry, returned, step, given>>

Notify(t) ==
    /\ NotifyOne(t)
    /\ returned' = returned \union {t}
    /\ UNCHANGED <<entry, step, given>>

\* Mutant: takes the refusal of the pool for an acceptance.
IgnoreRefusal(t) ==
    /\ caller[t] = "refused" /\ t \notin returned
    /\ returned' = returned \union {t}
    /\ UNCHANGED <<poolVars, entry, step, given>>

NoteRefusal(t) ==
    /\ caller[t] = "refused" /\ t \notin returned
    /\ Update(t, "failed", "stopped")
    /\ returned' = returned \union {t}
    /\ UNCHANGED <<poolVars, step, given>>

(* The lambda *)

Begin(w) ==
    /\ Take(w)
    /\ step' = [step EXCEPT ![w] = "taken"]
    /\ UNCHANGED <<entry, returned, given>>

MarkRunning(w) ==
    /\ at[w] = "running" /\ step[w] = "taken"
    /\ Update(task[w], "running", "none")
    /\ step' = [step EXCEPT ![w] = "marked"]
    /\ UNCHANGED <<poolVars, returned, given>>

\* The handler gives a response or throws.
Handle(w) ==
    /\ at[w] = "running" /\ step[w] = "marked"
    /\ \E result \in {"response", "exception"} :
         /\ step' = [step EXCEPT ![w] = result]
         /\ given' = [given EXCEPT ![task[w]] = Append(@, result)]
    /\ UNCHANGED <<poolVars, entry, returned>>

Store(w) ==
    /\ at[w] = "running" /\ step[w] \in {"response", "exception"}
    /\ Update(task[w], IF step[w] = "response" THEN "completed" ELSE "failed", step[w])
    /\ step' = [step EXCEPT ![w] = "stored"]
    /\ UNCHANGED <<poolVars, returned, given>>

Return(w) ==
    /\ step[w] = "stored"
    /\ Finish(w)
    /\ UNCHANGED <<entry, returned, step, given>>

(* Cancel, with the id that Submit returned *)

\* Mutant: sets no error.
CancelStatusOnly(t) ==
    /\ t \in returned
    /\ entry[t].status # "completed"
    /\ entry' = [entry EXCEPT ![t].status = "failed"]
    /\ UNCHANGED <<poolVars, returned, step, given>>

\* A task that has failed gets the new error; a running handler goes on.
Cancel(t) ==
    /\ t \in returned
    /\ entry[t].status # "completed"
    /\ entry' = [entry EXCEPT ![t] = [status |-> "failed", answer |-> "cancelled"]]
    /\ UNCHANGED <<poolVars, returned, step, given>>

PoolStep ==
    /\ \/ \E w \in Workers : Sleep(w) \/ Leave(w) \/ WakeSpuriously(w)
       \/ SetStopped \/ NotifyAll \/ JoinAll
    /\ UNCHANGED <<entry, returned, step, given>>

Submit(t) == MakeEntry(t) \/ HandOver(t) \/ Notify(t) \/ NoteRefusal(t)
Lambda(w) == Begin(w) \/ MarkRunning(w) \/ Handle(w) \/ Store(w) \/ Return(w)

Next ==
    \/ \E t \in Tasks : Submit(t) \/ Cancel(t)
    \/ \E w \in Workers : Lambda(w)
    \/ PoolStep

Spec == Init /\ [][Next]_vars

\* A client thread inside Submit or Stop goes on; a worker with the lambda or a
\* task to take goes on, and its handler returns or throws.  Nobody holds a
\* mutex for ever.
Fairness ==
    /\ \A t \in Tasks :
         WF_vars(entry[t] # NoEntry /\ (HandOver(t) \/ Notify(t) \/ NoteRefusal(t)))
    /\ \A w \in Workers :
         WF_vars(Lambda(w) \/ (Leave(w) /\ UNCHANGED <<entry, returned, step, given>>))
    /\ WF_vars((NotifyAll \/ JoinAll) /\ UNCHANGED <<entry, returned, step, given>>)

FairSpec == Spec /\ Fairness
-----------------------------------------------------------------------------
(* Properties *)

\* Every variable has its type, and exactly the ended tasks have an answer.
TypeOK ==
    /\ PoolTypeOK
    /\ entry \in [Tasks -> Entry]
    /\ returned \subseteq Tasks
    /\ step \in [Workers -> Steps]
    /\ given \in [Tasks -> Seq({"response", "exception"})]
    /\ \A t \in Tasks : entry[t].answer # "none" <=> entry[t].status \in {"completed", "failed"}

\* What check_task replies: the response, or the error, or "pending".
Reply(t) == IF entry[t].answer = "none" THEN "pending" ELSE entry[t].answer

\* The handler is called at most once for a task, never for one that was
\* refused, and what a client is told that it gave is what it gave: the replies
\* tell what happened to the table.  (A task that was cancelled may have run.)
RepliesTellTruth ==
    \A t \in Tasks :
        /\ Len(given[t]) <= 1
        /\ Reply(t) \in {"response", "exception"} => given[t] = <<Reply(t)>>
        /\ caller[t] = "refused" => given[t] = <<>>

\* Every task gets its final reply, whatever Stop and Cancel do meanwhile: a
\* client that polls check_task is not told "pending" for ever.
EveryTaskEnds == \A t \in Tasks : entry[t] # NoEntry ~> Reply(t) # "pending"

\* The processor as its clients see it.
Replies == [t \in Tasks |-> IF entry[t] = NoEntry THEN "unknown" ELSE Reply(t)]
Refused == {t \in Tasks : caller[t] = "refused"}
Phase == IF ~stopped THEN "open" ELSE IF stop = "returned" THEN "closed" ELSE "closing"

Board == INSTANCE TaskBoard
         WITH reply <- Replies, accepted <- Accepted, refused <- Refused, phase <- Phase

\* Pool, table and lambda together keep that promise: the handler sees each
\* accepted task once, no final reply is taken back, and Stop() returns when
\* every accepted task has been run and answered.
ImplementsTaskBoard == Board!Spec
=============================================================================
