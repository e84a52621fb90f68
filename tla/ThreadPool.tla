----------------------------- MODULE ThreadPool -----------------------------
(***************************************************************************)
(* core::ThreadPool: a queue of tasks, a mutex, a condition variable and a *)
(* fixed number of worker threads.                                         *)
(*                                                                         *)
(* What is done while the mutex is held is one action; what is done after  *)
(* it is released (a notification, a task, a join) is another.  A worker   *)
(* that finds its predicate false goes to sleep in the same action, as     *)
(* condition_variable::wait does; a sleeping worker wakes when notified or *)
(* for no reason.                                                          *)
(***************************************************************************)
EXTENDS Naturals, Sequences, FiniteSets, SequencesExt

CONSTANTS Tasks,   \* the tasks that are ever submitted, each once
          Workers, \* the worker threads
          NoTask   \* what a worker has that runs no task

\* ThreadPool::ThreadPool makes one worker when it is asked for none.
ASSUME PoolAssumption == Workers # {} /\ NoTask \notin Tasks

VARIABLES
    queue,   \* tasks_
    stopped, \* stopped_
    at,      \* what a worker is doing
    task,    \* the task a running worker has taken, else NoTask
    caller,  \* where the call Submit(t) is
    stop,    \* where the call Stop() is
    done     \* auxiliary: the tasks that have run to their end

poolVars == <<queue, stopped, at, task, caller, stop, done>>

Asleep == {w \in Workers : at[w] = "asleep"}
Running == {w \in Workers : at[w] = "running"}

\* Tasks that some Submit has put in the queue.
Accepted == {t \in Tasks : caller[t] \in {"notifying", "accepted"}}

PoolInit ==
    /\ queue = <<>>
    /\ stopped = FALSE
    /\ at = [w \in Workers |-> "looking"]
    /\ task = [w \in Workers |-> NoTask]
    /\ caller = [t \in Tasks |-> "idle"]
    /\ stop = "not called"
    /\ done = {}
-----------------------------------------------------------------------------
(* Submit *)

\* Mutant: forgets to notify.
EnqueueSilently(t) ==
    /\ caller[t] = "idle"
    /\ ~stopped
    /\ queue' = Append(queue, t)
    /\ caller' = [caller EXCEPT ![t] = "accepted"]
    /\ UNCHANGED <<stopped, at, task, stop, done>>

Enqueue(t) ==
    /\ caller[t] = "idle"
    /\ ~stopped
    /\ queue' = Append(queue, t)
    /\ caller' = [caller EXCEPT ![t] = "notifying"]
    /\ UNCHANGED <<stopped, at, task, stop, done>>

Refuse(t) ==
    /\ caller[t] = "idle"
    /\ stopped
    /\ caller' = [caller EXCEPT ![t] = "refused"]
    /\ UNCHANGED <<queue, stopped, at, task, stop, done>>

NotifyOne(t) ==
    /\ caller[t] = "notifying"
    /\ caller' = [caller EXCEPT ![t] = "accepted"]
    /\ IF Asleep = {} THEN UNCHANGED at
       ELSE \E w \in Asleep : at' = [at EXCEPT ![w] = "looking"]
    /\ UNCHANGED <<queue, stopped, task, stop, done>>

(* Run *)

\* Mutant: leaves the task in the queue.
TakeACopy(w) ==
    /\ at[w] = "looking"
    /\ queue # <<>>
    /\ at' = [at EXCEPT ![w] = "running"]
    /\ task' = [task EXCEPT ![w] = Head(queue)]
    /\ UNCHANGED <<queue, stopped, caller, stop, done>>

Take(w) ==
    /\ at[w] = "looking"
    /\ queue # <<>>
    /\ at' = [at EXCEPT ![w] = "running"]
    /\ task' = [task EXCEPT ![w] = Head(queue)]
    /\ queue' = Tail(queue)
    /\ UNCHANGED <<stopped, caller, stop, done>>

Sleep(w) ==
    /\ at[w] = "looking"
    /\ queue = <<>> /\ ~stopped
    /\ at' = [at EXCEPT ![w] = "asleep"]
    /\ UNCHANGED <<queue, stopped, task, caller, stop, done>>

\* Mutant: leaves although there is work.
LeaveAtOnce(w) ==
    /\ at[w] = "looking"
    /\ stopped
    /\ at' = [at EXCEPT ![w] = "gone"]
    /\ UNCHANGED <<queue, stopped, task, caller, stop, done>>

Leave(w) ==
    /\ at[w] = "looking"
    /\ queue = <<>> /\ stopped
    /\ at' = [at EXCEPT ![w] = "gone"]
    /\ UNCHANGED <<queue, stopped, task, caller, stop, done>>

Finish(w) ==
    /\ at[w] = "running"
    /\ at' = [at EXCEPT ![w] = "looking"]
    /\ task' = [task EXCEPT ![w] = NoTask]
    /\ done' = done \union {task[w]}
    /\ UNCHANGED <<queue, stopped, caller, stop>>

WakeSpuriously(w) ==
    /\ at[w] = "asleep"
    /\ at' = [at EXCEPT ![w] = "looking"]
    /\ UNCHANGED <<queue, stopped, task, caller, stop, done>>

(* Stop, called by its owner; the destructor's call finds it done *)

SetStopped ==
    /\ stop = "not called"
    /\ stopped' = TRUE
    /\ stop' = "notifying"
    /\ UNCHANGED <<queue, at, task, caller, done>>

\* Mutant: wakes one worker only.
NotifyJustOne ==
    /\ stop = "notifying"
    /\ stop' = "joining"
    /\ IF Asleep = {} THEN UNCHANGED at
       ELSE \E w \in Asleep : at' = [at EXCEPT ![w] = "looking"]
    /\ UNCHANGED <<queue, stopped, task, caller, done>>

NotifyAll ==
    /\ stop = "notifying"
    /\ stop' = "joining"
    /\ at' = [w \in Workers |-> IF w \in Asleep THEN "looking" ELSE at[w]]
    /\ UNCHANGED <<queue, stopped, task, caller, done>>

JoinAll ==
    /\ stop = "joining"
    /\ \A w \in Workers : at[w] = "gone"
    /\ stop' = "returned"
    /\ UNCHANGED <<queue, stopped, at, task, caller, done>>

Run(w) == Take(w) \/ Sleep(w) \/ Leave(w) \/ Finish(w)

PoolNext ==
    \/ \E t \in Tasks : Enqueue(t) \/ Refuse(t) \/ NotifyOne(t)
    \/ \E w \in Workers : Run(w) \/ WakeSpuriously(w)
    \/ SetStopped \/ NotifyAll \/ JoinAll

PoolSpec == PoolInit /\ [][PoolNext]_poolVars
-----------------------------------------------------------------------------
(* Properties *)

\* Every variable has its type, and only a running worker holds a task.
PoolTypeOK ==
    /\ queue \in Seq(Tasks)
    /\ stopped \in BOOLEAN
    /\ at \in [Workers -> {"looking", "asleep", "running", "gone"}]
    /\ task \in [Workers -> Tasks \union {NoTask}]
    /\ \A w \in Workers : task[w] = NoTask <=> at[w] # "running"
    /\ caller \in [Tasks -> {"idle", "notifying", "accepted", "refused"}]
    /\ stop \in {"not called", "notifying", "joining", "returned"}
    /\ done \subseteq Tasks

\* Nobody sleeps in vain: while a task is queued, a worker is awake or a
\* notification is on its way, and while a worker sleeps in a stopped pool, the
\* notification of Stop is.  notify_one is called after the mutex is released,
\* and several tasks may be queued before the first is notified.
NobodySleepsInVain ==
    /\ queue # <<>> =>
         \/ \E w \in Workers : at[w] \in {"looking", "running"}
         \/ \E t \in Tasks : caller[t] = "notifying"
         \/ stop = "notifying"
    /\ stopped /\ Asleep # {} => stop = "notifying"

\* A task that was accepted is in exactly one place: queued once, with one
\* worker, or done.  No task is lost and none runs twice.
EachTaskOnce ==
    /\ IsInjective(queue)
    /\ \A v, w \in Running : task[v] = task[w] => v = w
    /\ \A t \in Accepted :
         \/ t \in Range(queue) /\ t \notin {task[w] : w \in Running} \union done
         \/ t \in {task[w] : w \in Running} /\ t \notin Range(queue) \union done
         \/ t \in done /\ t \notin Range(queue) \union {task[w] : w \in Running}
    /\ Range(queue) \union {task[w] : w \in Running} \union done \subseteq Accepted

\* Stop returns when every accepted task is done and every worker has left.
StopDrains == stop = "returned" =>
    /\ \A w \in Workers : at[w] = "gone"
    /\ Accepted \subseteq done

\* A call of Stop returns.
StopReturns == stop = "notifying" ~> stop = "returned"
=============================================================================
