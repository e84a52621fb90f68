----------------------------- MODULE TaskProofs -----------------------------
(***************************************************************************)
(* Theorems about ThreadPool and TaskProcessor: no task is lost, run twice *)
(* or left behind, nobody sleeps in vain, and check_task tells the truth   *)
(* and does not take it back, for any number of tasks and workers.         *)
(***************************************************************************)
EXTENDS TaskProcessor, QueueLemmas

-----------------------------------------------------------------------------
(* The inductive invariant *)

\* A worker leaves a stopped pool only, whose queue is and stays empty.
GoneIsDrained ==
    /\ stopped <=> stop # "not called"
    /\ \A w \in Workers : at[w] = "gone" => stopped /\ queue = <<>>

PoolInv ==
    /\ PoolTypeOK
    /\ EachTaskOnce
    /\ GoneIsDrained
    /\ NobodySleepsInVain
    /\ StopDrains

\* What the handler gives for one call.
OneResult == {<<"response">>, <<"exception">>}

\* What the handler has given for a task, from where the task is.
ResultsFit ==
    /\ \A t \in Tasks : t \notin Accepted \/ t \in Range(queue) => given[t] = <<>>
    /\ \A w \in Running :
         IF step[w] \in {"taken", "marked"} THEN given[task[w]] = <<>>
         ELSE /\ given[task[w]] \in OneResult
              /\ step[w] # "stored" => given[task[w]] = <<step[w]>>
    /\ \A t \in done : given[t] \in OneResult

\* An entry has a response when it is completed, an answer of the handler is the
\* one it gave, and an entry is answered when its result has been stored, not
\* completed before.
EntriesFit ==
    /\ \A t \in Tasks : entry[t].status = "completed" <=> entry[t].answer = "response"
    /\ \A t \in Tasks : entry[t].answer \in {"response", "exception"} => given[t] = <<entry[t].answer>>
    /\ \A w \in Running : IF step[w] = "stored" THEN entry[task[w]].answer # "none"
                           ELSE entry[task[w]].status # "completed"
    /\ \A t \in done : entry[t].answer # "none"

\* A task that the pool knows has an entry, which only the client has touched
\* before; the client can cancel what the pool has accepted or refused.
CallsFit ==
    \A t \in Tasks :
        /\ IF caller[t] = "idle" THEN entry[t].answer = "none" ELSE entry[t].status # "absent"
        /\ t \in returned => caller[t] \in {"accepted", "refused"}

TaskInv ==
    /\ PoolInv
    /\ TypeOK
    /\ ResultsFit
    /\ EntriesFit
    /\ CallsFit
-----------------------------------------------------------------------------
(* The pool *)

\* The values a call of Submit goes through, and who has been accepted then.
LEMMA Submitted ==
    ASSUME PoolTypeOK, NEW t \in Tasks, NEW place,
           caller' = [caller EXCEPT ![t] = place]
    PROVE  Accepted' = IF place \in {"notifying", "accepted"} THEN Accepted \union {t}
                       ELSE Accepted \ {t}
BY DEF PoolTypeOK, Accepted

\* Nothing is in the pool to begin with.
LEMMA PoolStarts == PoolInit => PoolInv
<1> SUFFICES ASSUME PoolInit PROVE PoolInv
  OBVIOUS
<1>1. PoolTypeOK
  <2>1. queue \in Seq(Tasks)
    BY EmptySeq DEF PoolInit
  <2> QED BY <2>1 DEF PoolInit, PoolTypeOK
<1>2. Range(queue) = {} /\ IsInjective(queue) /\ Running = {} /\ Accepted = {}
  <2>1. DOMAIN queue = {}
    <3>1. queue \in Seq(Tasks) /\ Len(queue) = 0
      BY EmptySeq DEF PoolInit
    <3>2. DOMAIN queue = 1 .. 0
      BY <3>1, LenProperties
    <3> QED BY <3>2
  <2>2. Range(queue) = {} /\ IsInjective(queue)
    BY <2>1 DEF Range, IsInjective
  <2>3. Running = {} /\ Accepted = {}
    BY DEF PoolInit, Running, Accepted
  <2> QED BY <2>2, <2>3
<1>3. EachTaskOnce
  BY <1>2 DEF EachTaskOnce, PoolInit
<1> QED BY <1>1, <1>3 DEF PoolInit, PoolInv, GoneIsDrained, NobodySleepsInVain, Asleep, StopDrains

\* Enqueue: the task is nowhere else, and its notification is on its way.
LEMMA EnqueueKeeps ==
    ASSUME PoolInv, NEW t \in Tasks, Enqueue(t)
    PROVE  /\ PoolInv'
           /\ Range(queue') = Range(queue) \union {t}
           /\ t \notin Range(queue) \union {task[w] : w \in Running} \union done
           /\ Accepted' = Accepted \union {t}
           /\ Running' = Running
<1> USE DEF PoolInv
<1>1. t \notin Accepted /\ Accepted' = Accepted \union {t}
  BY Submitted DEF Enqueue, Accepted
<1>2. t \notin Range(queue) \union {task[w] : w \in Running} \union done
  BY <1>1 DEF EachTaskOnce
<1>3. /\ queue' \in Seq(Tasks) /\ IsInjective(queue') /\ queue' # <<>>
      /\ Range(queue') = Range(queue) \union {t}
  BY <1>2, AppendNew DEF Enqueue, PoolTypeOK, EachTaskOnce
<1>4. Running' = Running /\ {task[w] : w \in Running}' = {task[w] : w \in Running}
  BY DEF Enqueue, Running
<1>5. PoolTypeOK'
  BY <1>3 DEF Enqueue, PoolTypeOK
<1>6. EachTaskOnce'
  <2>1. \A v, w \in Running : task[v] = task[w] => v = w
    BY DEF EachTaskOnce
  <2> QED BY <1>1, <1>2, <1>3, <1>4, <2>1 DEF EachTaskOnce, Enqueue
<1>7. GoneIsDrained'
  BY DEF Enqueue, GoneIsDrained
<1>8. NobodySleepsInVain'
  BY DEF Enqueue, NobodySleepsInVain, PoolTypeOK
<1>9. StopDrains'
  BY DEF Enqueue, StopDrains, GoneIsDrained
<1> QED BY <1>1, <1>2, <1>3, <1>4, <1>5, <1>6, <1>7, <1>8, <1>9

\* Refuse: a task that was not accepted is not accepted.
LEMMA RefuseKeeps ==
    ASSUME PoolInv, NEW t \in Tasks, Refuse(t)
    PROVE  PoolInv' /\ Accepted' = Accepted /\ Running' = Running
<1> USE DEF PoolInv
<1>1. Accepted' = Accepted
  BY Submitted DEF Refuse, Accepted
<1>2. Running' = Running /\ Asleep' = Asleep
  BY DEF Refuse, Running, Asleep
<1>3. PoolTypeOK'
  BY DEF Refuse, PoolTypeOK
<1>4. EachTaskOnce'
  BY <1>1, <1>2 DEF Refuse, EachTaskOnce
<1>5. NobodySleepsInVain'
  BY <1>2 DEF Refuse, NobodySleepsInVain, PoolTypeOK
<1>6. GoneIsDrained' /\ StopDrains'
  BY <1>1 DEF Refuse, GoneIsDrained, StopDrains
<1> QED BY <1>1, <1>2, <1>3, <1>4, <1>5, <1>6

\* While a task is queued nobody has left: whoever does not sleep will look.
LEMMA SomebodyIsThere ==
    ASSUME PoolTypeOK, GoneIsDrained, queue # <<>>
    PROVE  \E w \in Workers : at[w] # "gone"
BY PoolAssumption DEF GoneIsDrained, PoolTypeOK

\* NotifyOne: a sleeping worker is woken, or there is none.
LEMMA NotifyOneKeeps ==
    ASSUME PoolInv, NEW t \in Tasks, NotifyOne(t)
    PROVE  PoolInv' /\ Accepted' = Accepted /\ Running' = Running
<1> USE DEF PoolInv
<1>1. Accepted' = Accepted
  BY Submitted DEF NotifyOne, Accepted
<1>2. Running' = Running /\ Asleep' \subseteq Asleep
  BY DEF NotifyOne, Running, Asleep, PoolTypeOK
<1>3. \A w \in Workers : at'[w] = "gone" <=> at[w] = "gone"
  BY DEF NotifyOne, Asleep, PoolTypeOK
<1>4. PoolTypeOK'
  BY DEF NotifyOne, PoolTypeOK, Asleep
<1>5. EachTaskOnce'
  BY <1>1, <1>2 DEF NotifyOne, EachTaskOnce
<1>6. GoneIsDrained' /\ StopDrains'
  BY <1>1, <1>3 DEF NotifyOne, GoneIsDrained, StopDrains
<1>7. NobodySleepsInVain'
  <2>1. ASSUME queue # <<>> PROVE \E w \in Workers : at'[w] \in {"looking", "running"}
    <3>1. CASE Asleep = {}
      BY <2>1, <3>1, SomebodyIsThere DEF NotifyOne, Asleep, PoolTypeOK
    <3>2. CASE Asleep # {}
      BY <3>2 DEF NotifyOne, Asleep, PoolTypeOK
    <3> QED BY <3>1, <3>2
  <2> QED BY <1>2, <2>1 DEF NotifyOne, NobodySleepsInVain
<1> QED BY <1>1, <1>2, <1>4, <1>5, <1>6, <1>7

\* Take: the first task goes from the queue into a worker's hands.
LEMMA TakeKeeps ==
    ASSUME PoolInv, NEW w \in Workers, Take(w)
    PROVE  /\ PoolInv'
           /\ Accepted' = Accepted
           /\ Running' = Running \union {w} /\ w \notin Running
           /\ task'[w] \in Range(queue) /\ \A v \in Running : task'[v] = task[v]
           /\ Range(queue') \subseteq Range(queue)
<1> USE DEF PoolInv
<1> DEFINE t == Head(queue)
<1>1. /\ t \in Range(queue) /\ t \in Tasks /\ queue' \in Seq(Tasks)
      /\ IsInjective(queue') /\ Range(queue') = Range(queue) \ {t}
  BY TakeFirst DEF Take, PoolTypeOK, EachTaskOnce
<1> HIDE DEF t
<1>2. at' = [at EXCEPT ![w] = "running"] /\ task' = [task EXCEPT ![w] = t] /\ at[w] = "looking"
  BY DEF Take, t
<1>3. /\ Running' = Running \union {w} /\ w \notin Running
      /\ task'[w] = t /\ \A v \in Running : task'[v] = task[v]
  BY <1>2 DEF Running, PoolTypeOK
<1>4. Accepted' = Accepted
  BY DEF Take, Accepted
<1>5. t \in Accepted /\ t \notin done /\ \A v \in Running : task[v] # t
  BY <1>1 DEF EachTaskOnce
<1>6. {task[v] : v \in Running}' = {task[v] : v \in Running} \union {t}
  BY <1>3
<1>7. PoolTypeOK'
  <2>1. /\ at' \in [Workers -> {"looking", "asleep", "running", "gone"}]
        /\ task' \in [Workers -> Tasks \union {NoTask}]
    BY <1>1, <1>2 DEF PoolTypeOK
  <2>2. \A v \in Workers : task'[v] = NoTask <=> at'[v] # "running"
    BY <1>1, <1>2, PoolAssumption DEF PoolTypeOK
  <2> QED BY <1>1, <2>1, <2>2 DEF Take, PoolTypeOK
<1>8. EachTaskOnce'
  <2>1. \A v, u \in Running' : task'[v] = task'[u] => v = u
    BY <1>3, <1>5 DEF EachTaskOnce
  <2>2. done' = done
    BY DEF Take
  <2> QED BY <1>1, <1>4, <1>5, <1>6, <2>1, <2>2 DEF EachTaskOnce
<1>9. GoneIsDrained'
  BY <1>2 DEF Take, GoneIsDrained, PoolTypeOK
<1>10. NobodySleepsInVain'
  <2>1. at'[w] = "running" /\ Asleep' \subseteq Asleep
    BY <1>2 DEF Asleep, PoolTypeOK
  <2> QED BY <2>1 DEF Take, NobodySleepsInVain
<1>11. StopDrains'
  BY <1>2 DEF Take, StopDrains, PoolTypeOK
<1> QED BY <1>1, <1>3, <1>4, <1>7, <1>8, <1>9, <1>10, <1>11

\* Finish: the task in a worker's hands is done.
LEMMA FinishKeeps ==
    ASSUME PoolInv, NEW w \in Workers, Finish(w)
    PROVE  /\ PoolInv'
           /\ Accepted' = Accepted
           /\ Running' = Running \ {w} /\ w \in Running
           /\ \A v \in Running \ {w} : task'[v] = task[v]
           /\ queue' = queue /\ done' = done \union {task[w]}
<1> USE DEF PoolInv
<1>1. at' = [at EXCEPT ![w] = "looking"] /\ task' = [task EXCEPT ![w] = NoTask]
  BY DEF Finish
<1>2. /\ Running' = Running \ {w} /\ w \in Running
      /\ \A v \in Running \ {w} : task'[v] = task[v]
  BY <1>1 DEF Finish, Running, PoolTypeOK
<1>3. task[w] \in Tasks
  BY <1>2 DEF PoolTypeOK, Running
<1>4. Accepted' = Accepted /\ queue' = queue /\ done' = done \union {task[w]}
  BY DEF Finish, Accepted
<1>5. {task[v] : v \in Running}' = {task[v] : v \in Running} \ {task[w]}
  <2>1. \A v \in Running \ {w} : task[v] # task[w]
    BY <1>2 DEF EachTaskOnce
  <2> QED BY <1>2, <2>1
<1>6. PoolTypeOK'
  BY <1>1, <1>3, <1>4, PoolAssumption DEF Finish, PoolTypeOK
<1>7. EachTaskOnce'
  <2>1. \A v, u \in Running' : task'[v] = task'[u] => v = u
    BY <1>2 DEF EachTaskOnce
  <2>2. task[w] \in Accepted /\ task[w] \notin Range(queue)
    BY <1>2 DEF EachTaskOnce
  <2> QED BY <1>4, <1>5, <2>1, <2>2 DEF EachTaskOnce
<1>8. GoneIsDrained'
  BY <1>1 DEF Finish, GoneIsDrained, PoolTypeOK
<1>9. NobodySleepsInVain'
  <2>1. at'[w] = "looking" /\ Asleep' \subseteq Asleep
    BY <1>1 DEF Asleep, PoolTypeOK
  <2> QED BY <2>1 DEF Finish, NobodySleepsInVain
<1>10. StopDrains'
  BY <1>2 DEF Finish, StopDrains, Running
<1> QED BY <1>2, <1>4, <1>6, <1>7, <1>8, <1>9, <1>10

\* A step of a worker or of Stop that moves no task.
Elsewhere ==
    \/ \E w \in Workers : Sleep(w) \/ Leave(w) \/ WakeSpuriously(w)
    \/ SetStopped \/ NotifyAll \/ JoinAll

LEMMA ElsewhereMovesNoTask ==
    ASSUME PoolInv, Elsewhere
    PROVE  /\ queue' = queue /\ task' = task /\ caller' = caller /\ done' = done
           /\ Accepted' = Accepted /\ Running' = Running
           /\ PoolTypeOK' /\ EachTaskOnce'
<1> USE DEF PoolInv
<1>1. queue' = queue /\ task' = task /\ caller' = caller /\ done' = done
  BY DEF Elsewhere, Sleep, Leave, WakeSpuriously, SetStopped, NotifyAll, JoinAll
<1>2. Accepted' = Accepted
  BY <1>1 DEF Accepted
<1>3. /\ at' \in [Workers -> {"looking", "asleep", "running", "gone"}]
      /\ \A w \in Workers : at'[w] = "running" <=> at[w] = "running"
  BY DEF Elsewhere, Sleep, Leave, WakeSpuriously, SetStopped, NotifyAll, JoinAll, PoolTypeOK, Asleep
<1>4. Running' = Running
  BY <1>3 DEF Running
<1>5. PoolTypeOK'
  <2>1. stopped' \in BOOLEAN /\ stop' \in {"not called", "notifying", "joining", "returned"}
    BY DEF Elsewhere, Sleep, Leave, WakeSpuriously, SetStopped, NotifyAll, JoinAll, PoolTypeOK
  <2> QED BY <1>1, <1>3, <2>1 DEF PoolTypeOK
<1>6. EachTaskOnce'
  BY <1>1, <1>2, <1>4 DEF EachTaskOnce
<1> QED BY <1>1, <1>2, <1>4, <1>5, <1>6

LEMMA ElsewhereKeeps ==
    ASSUME PoolInv, Elsewhere
    PROVE  PoolInv'
<1> USE DEF PoolInv
<1>1. /\ queue' = queue /\ caller' = caller /\ done' = done /\ Accepted' = Accepted
      /\ PoolTypeOK' /\ EachTaskOnce'
  BY ElsewhereMovesNoTask
<1>2. GoneIsDrained' /\ NobodySleepsInVain' /\ StopDrains'
  <2>1. ASSUME NEW w \in Workers, Sleep(w) PROVE GoneIsDrained' /\ NobodySleepsInVain' /\ StopDrains'
    BY <2>1 DEF Sleep, GoneIsDrained, NobodySleepsInVain, StopDrains, Asleep, PoolTypeOK
  <2>2. ASSUME NEW w \in Workers, Leave(w) PROVE GoneIsDrained' /\ NobodySleepsInVain' /\ StopDrains'
    BY <1>1, <2>2 DEF Leave, GoneIsDrained, NobodySleepsInVain, StopDrains, Asleep, PoolTypeOK
  <2>3. ASSUME NEW w \in Workers, WakeSpuriously(w)
        PROVE  GoneIsDrained' /\ NobodySleepsInVain' /\ StopDrains'
    BY <1>1, <2>3 DEF WakeSpuriously, GoneIsDrained, NobodySleepsInVain, StopDrains, Asleep, PoolTypeOK
  <2>4. CASE SetStopped
    BY <2>4 DEF SetStopped, GoneIsDrained, NobodySleepsInVain, StopDrains, PoolTypeOK
  <2>5. CASE NotifyAll
    <3>1. Asleep' = {}
      BY <2>5 DEF NotifyAll, Asleep
    <3>2. \A w \in Workers : (at'[w] = "gone" <=> at[w] = "gone") /\ at'[w] # "asleep"
      BY <2>5 DEF NotifyAll, Asleep
    <3>3. GoneIsDrained' /\ StopDrains'
      BY <2>5, <3>2 DEF NotifyAll, GoneIsDrained, StopDrains
    <3>4. ASSUME queue # <<>> PROVE \E w \in Workers : at'[w] \in {"looking", "running"}
      <4>1. PICK w \in Workers : at[w] # "gone"
        BY <3>4, SomebodyIsThere
      <4> QED BY <1>1, <3>2, <4>1 DEF PoolTypeOK
    <3> QED BY <1>1, <3>1, <3>3, <3>4 DEF NobodySleepsInVain
  <2>6. CASE JoinAll
    <3>1. \A w \in Workers : at[w] = "gone"
      BY <2>6 DEF JoinAll
    <3>2. queue = <<>> /\ Running = {}
      BY <3>1, PoolAssumption DEF GoneIsDrained, Running
    <3>3. Range(queue) = {}
      BY <3>2 DEF Range
    <3>4. Accepted \subseteq done
      BY <3>2, <3>3 DEF EachTaskOnce, Accepted
    <3> QED BY <1>1, <2>6, <3>1, <3>2, <3>4
            DEF JoinAll, GoneIsDrained, NobodySleepsInVain, StopDrains, Asleep
  <2> QED BY <2>1, <2>2, <2>3, <2>4, <2>5, <2>6 DEF Elsewhere
<1> QED BY <1>1, <1>2
-----------------------------------------------------------------------------
(* The table of results *)

\* The pool keeps its invariant over a step that does not touch it.
LEMMA PoolStutters == ASSUME PoolInv, UNCHANGED poolVars
                      PROVE  PoolInv' /\ Accepted' = Accepted /\ Running' = Running
<1>1. UNCHANGED <<queue, stopped, at, task, caller, stop, done>>
  BY DEF poolVars
<1>2. Accepted' = Accepted /\ Running' = Running /\ Asleep' = Asleep
  BY <1>1 DEF Accepted, Running, Asleep
<1>3. PoolTypeOK'
  BY <1>1 DEF PoolInv, PoolTypeOK
<1>4. EachTaskOnce'
  BY <1>1, <1>2 DEF PoolInv, EachTaskOnce
<1>5. GoneIsDrained' /\ NobodySleepsInVain' /\ StopDrains'
  BY <1>1, <1>2 DEF PoolInv, GoneIsDrained, NobodySleepsInVain, StopDrains
<1> QED BY <1>2, <1>3, <1>4, <1>5 DEF PoolInv

\* What an entry may be, by its status.
Fits(e) ==
    /\ e.answer # "none" <=> e.status \in {"completed", "failed"}
    /\ e.status = "completed" <=> e.answer = "response"

\* Update, of an entry that has no response: another entry stays as it is, and
\* an answer that is there stays.
LEMMA UpdateIs ==
    ASSUME TypeOK, EntriesFit, NEW t \in Tasks, NEW status, NEW answer,
           [status |-> status, answer |-> answer] \in Entry,
           Fits([status |-> status, answer |-> answer]),
           status # "absent", entry[t].status # "completed",
           Update(t, status, answer)
    PROVE  /\ entry' \in [Tasks -> Entry]
           /\ \A x \in Tasks : Fits(entry'[x])
           /\ \A x \in Tasks \ {t} : entry'[x] = entry[x]
           /\ entry'[t] = entry[t] \/ entry'[t] = [status |-> status, answer |-> answer]
           /\ entry[t].answer # "none" => entry'[t] = entry[t]
           /\ entry'[t].status = "absent" => entry[t].status = "absent"
           /\ entry[t].status # "absent" /\ answer # "none" => entry'[t].answer # "none"
<1> DEFINE e == [status |-> status, answer |-> answer]
<1>1. e \in Entry /\ Fits(e)
  OBVIOUS
<1>2. entry' = entry \/ entry' = [entry EXCEPT ![t] = e]
  BY DEF Update
<1>3. entry[t].answer # "none" => entry' = entry
  BY DEF Update, TypeOK
<1>4. \A x \in Tasks : Fits(entry[x])
  BY DEF Fits, TypeOK, EntriesFit
<1> HIDE DEF e
<1>5. entry \in [Tasks -> Entry]
  BY DEF TypeOK
<1>6. /\ entry' \in [Tasks -> Entry]
      /\ \A x \in Tasks \ {t} : entry'[x] = entry[x]
      /\ entry'[t] = entry[t] \/ entry'[t] = e
  BY <1>1, <1>2, <1>5
<1>7. \A x \in Tasks : Fits(entry'[x])
  BY <1>1, <1>4, <1>6
<1>8. entry'[t].status = "absent" => entry[t].status = "absent"
  BY <1>5, <1>6 DEF e
<1>9. entry[t].status # "absent" /\ answer # "none" => entry'[t].answer # "none"
  <2>1. entry[t].status = "failed" => entry[t].answer # "none"
    BY DEF TypeOK
  <2>2. entry[t].status \notin {"absent", "failed"} => entry' = [entry EXCEPT ![t] = e]
    BY DEF Update, e
  <2> QED BY <2>1, <2>2, <1>3, <1>5, <1>6 DEF e
<1> QED BY <1>3, <1>5, <1>6, <1>7, <1>8, <1>9 DEF e

\* What a step has to show when it changes an entry.
LEMMA EntriesTyped ==
    ASSUME TypeOK, PoolTypeOK', entry' \in [Tasks -> Entry], \A x \in Tasks : Fits(entry'[x]),
           returned' \subseteq Tasks, step' \in [Workers -> Steps],
           given' \in [Tasks -> Seq({"response", "exception"})]
    PROVE  TypeOK' /\ \A t \in Tasks : entry'[t].status = "completed" <=> entry'[t].answer = "response"
BY DEF TypeOK, Fits

\* The promise about replies, for one step.
Settles ==
    \A t \in Tasks :
        Reply(t) # "pending" /\ Reply(t)' # Reply(t) =>
            Reply(t) # "response" /\ Reply(t)' = "cancelled"

\* A step that leaves every answered entry alone.
LEMMA AnsweredStay ==
    ASSUME TypeOK, \A t \in Tasks : entry[t].answer # "none" => entry'[t] = entry[t]
    PROVE  Settles
BY DEF Settles, Reply

\* A step within the pool that moves no task, or hands one over.
LEMMA SameEntries ==
    ASSUME TaskInv, PoolInv', UNCHANGED <<entry, given>>,
           step' \in [Workers -> Steps], returned' \subseteq Tasks
    PROVE  TypeOK' /\ Settles
<1>1. TypeOK'
  BY DEF TaskInv, TypeOK, PoolInv
<1> QED BY <1>1, AnsweredStay DEF TaskInv

LEMMA TasksStart == Init => TaskInv
<1> SUFFICES ASSUME Init PROVE TaskInv
  OBVIOUS
<1>1. PoolInv
  BY PoolStarts DEF Init
<1>2. TypeOK
  BY <1>1 DEF Init, TypeOK, PoolInv, NoEntry, Entry, Answers, Steps
<1>3. Running = {} /\ done = {}
  BY DEF Init, PoolInit, Running
<1>4. ResultsFit /\ EntriesFit /\ CallsFit
  BY <1>3 DEF Init, PoolInit, ResultsFit, EntriesFit, CallsFit, NoEntry
<1> QED BY <1>1, <1>2, <1>4 DEF TaskInv

LEMMA MakeEntryKeeps ==
    ASSUME TaskInv, NEW t \in Tasks, MakeEntry(t)
    PROVE  TaskInv' /\ Settles
<1> USE DEF TaskInv
<1>1. PoolInv' /\ Accepted' = Accepted /\ Running' = Running
  BY PoolStutters DEF MakeEntry
<1>2. UNCHANGED <<queue, task, caller, done, step, given, returned>>
  BY DEF MakeEntry, poolVars
<1>3. /\ entry' = [entry EXCEPT ![t] = [status |-> "pending", answer |-> "none"]]
      /\ entry[t].answer = "none" /\ entry[t].status = "absent"
  BY DEF MakeEntry, NoEntry
<1>4. /\ entry' \in [Tasks -> Entry] /\ \A x \in Tasks \ {t} : entry'[x] = entry[x]
      /\ entry'[t] = [status |-> "pending", answer |-> "none"]
  BY <1>3 DEF TypeOK, Entry, Answers
<1>5. \A x \in Tasks : Fits(entry'[x])
  <2>1. \A x \in Tasks : Fits(entry[x])
    BY DEF Fits, TypeOK, EntriesFit
  <2>2. Fits(entry'[t])
    BY <1>4 DEF Fits
  <2> QED BY <1>4, <2>1, <2>2
<1>6. TypeOK' /\ \A x \in Tasks : entry'[x].status = "completed" <=> entry'[x].answer = "response"
  BY <1>1, <1>2, <1>4, <1>5, EntriesTyped DEF TypeOK, PoolInv
<1>7. ResultsFit'
  BY <1>1, <1>2 DEF ResultsFit
<1>8. t \notin Accepted
  BY <1>3 DEF CallsFit, Accepted
<1>9. EntriesFit'
  <2>1. t \notin done /\ \A w \in Running : task[w] \in Tasks /\ task[w] # t
    BY <1>8 DEF Running, PoolInv, PoolTypeOK, EachTaskOnce
  <2>2. \A x \in Tasks : entry'[x].answer \in {"response", "exception"} => given'[x] = <<entry'[x].answer>>
    BY <1>2, <1>4 DEF EntriesFit
  <2>3. done \subseteq Tasks
    BY DEF PoolInv, PoolTypeOK
  <2> QED BY <1>1, <1>2, <1>4, <1>6, <2>1, <2>2, <2>3 DEF EntriesFit
<1>10. CallsFit'
  BY <1>2, <1>4 DEF CallsFit
<1>11. Settles
  BY <1>3, <1>4, AnsweredStay
<1> QED BY <1>1, <1>6, <1>7, <1>9, <1>10, <1>11

LEMMA HandOverKeeps ==
    ASSUME TaskInv, NEW t \in Tasks, HandOver(t)
    PROVE  TaskInv' /\ Settles
<1> USE DEF TaskInv
<1>1. UNCHANGED <<entry, returned, step, given>>
  BY DEF HandOver
<1>2. /\ PoolInv' /\ Running' = Running /\ UNCHANGED <<task, done>>
      /\ Range(queue') \subseteq Range(queue) \union {t}
      /\ Accepted \subseteq Accepted'
      /\ t \notin Accepted
      /\ caller[t] = "idle" /\ \E place \in {"notifying", "refused"} : caller' = [caller EXCEPT ![t] = place]
  <2>1. CASE Enqueue(t)
    BY <2>1, EnqueueKeeps DEF Enqueue, Accepted
  <2>2. CASE Refuse(t)
    BY <2>2, RefuseKeeps DEF Refuse, Accepted
  <2> QED BY <2>1, <2>2 DEF HandOver
<1>3. TypeOK' /\ Settles
  BY <1>1, <1>2, SameEntries DEF TypeOK
<1>4. ResultsFit'
  <2>1. \A x \in Tasks : x \notin Accepted' \/ x \in Range(queue') => given[x] = <<>>
    BY <1>2 DEF ResultsFit
  <2> QED BY <1>1, <1>2, <2>1 DEF ResultsFit
<1>5. EntriesFit'
  BY <1>1, <1>2 DEF EntriesFit
<1>6. CallsFit'
  <2>1. PICK place \in {"notifying", "refused"} : caller' = [caller EXCEPT ![t] = place]
    BY <1>2
  <2>2. caller'[t] = place /\ \A x \in Tasks \ {t} : caller'[x] = caller[x]
    BY <2>1 DEF PoolInv, PoolTypeOK
  <2>3. entry[t].status # "absent"
    <3>1. entry[t] \in Entry /\ entry[t].answer = "none" /\ entry[t] # NoEntry
      BY <1>2 DEF HandOver, CallsFit, TypeOK
    <3> QED BY <3>1 DEF Entry, NoEntry
  <2> QED BY <1>1, <1>2, <2>2, <2>3 DEF CallsFit
<1> QED BY <1>2, <1>3, <1>4, <1>5, <1>6

LEMMA NotifyKeeps ==
    ASSUME TaskInv, NEW t \in Tasks, Notify(t)
    PROVE  TaskInv' /\ Settles
<1> USE DEF TaskInv
<1>1. UNCHANGED <<entry, step, given, queue, task, done>> /\ returned' = returned \union {t}
  BY DEF Notify, NotifyOne
<1>2. PoolInv' /\ Accepted' = Accepted /\ Running' = Running
  BY NotifyOneKeeps DEF Notify
<1>3. TypeOK' /\ Settles
  BY <1>1, <1>2, SameEntries DEF TypeOK
<1>4. ResultsFit' /\ EntriesFit'
  BY <1>1, <1>2 DEF ResultsFit, EntriesFit
<1>5. CallsFit'
  <2>1. caller[t] = "notifying" /\ caller' = [caller EXCEPT ![t] = "accepted"]
    BY DEF Notify, NotifyOne
  <2>2. caller'[t] = "accepted" /\ \A x \in Tasks \ {t} : caller'[x] = caller[x]
    BY <2>1 DEF PoolInv, PoolTypeOK
  <2> QED BY <1>1, <2>1, <2>2 DEF CallsFit
<1> QED BY <1>2, <1>3, <1>4, <1>5

LEMMA PoolStepKeeps ==
    ASSUME TaskInv, PoolStep
    PROVE  TaskInv' /\ Settles
<1> USE DEF TaskInv
<1>1. UNCHANGED <<entry, returned, step, given>> /\ Elsewhere
  BY DEF PoolStep, Elsewhere
<1>2. PoolInv' /\ Accepted' = Accepted /\ Running' = Running /\ UNCHANGED <<queue, task, caller, done>>
  BY <1>1, ElsewhereKeeps, ElsewhereMovesNoTask
<1>3. TypeOK' /\ Settles
  BY <1>1, <1>2, SameEntries DEF TypeOK
<1>4. ResultsFit' /\ EntriesFit' /\ CallsFit'
  BY <1>1, <1>2 DEF ResultsFit, EntriesFit, CallsFit
<1> QED BY <1>2, <1>3, <1>4

LEMMA BeginKeeps ==
    ASSUME TaskInv, NEW w \in Workers, Begin(w)
    PROVE  TaskInv' /\ Settles
<1> USE DEF TaskInv
<1>1. /\ PoolInv' /\ Accepted' = Accepted
      /\ Running' = Running \union {w} /\ w \notin Running
      /\ task'[w] \in Range(queue) /\ \A v \in Running : task'[v] = task[v]
      /\ Range(queue') \subseteq Range(queue)
  BY TakeKeeps DEF Begin
<1>2. UNCHANGED <<entry, returned, given, caller, done>> /\ step' = [step EXCEPT ![w] = "taken"]
  BY DEF Begin, Take
<1>3. step' \in [Workers -> Steps] /\ step'[w] = "taken" /\ \A v \in Running : step'[v] = step[v]
  BY <1>1, <1>2 DEF TypeOK, Steps, Running
<1>4. TypeOK' /\ Settles
  BY <1>1, <1>2, <1>3, SameEntries DEF TypeOK
<1>5. task'[w] \in Tasks
  BY <1>1 DEF PoolInv, EachTaskOnce, Accepted
<1>6. given[task'[w]] = <<>>
  BY <1>1, <1>5 DEF ResultsFit
<1>7. ResultsFit'
  <2>1. \A t \in Tasks : t \notin Accepted' \/ t \in Range(queue') => given'[t] = <<>>
    BY <1>1, <1>2 DEF ResultsFit
  <2>2. \A v \in Running' :
          IF step'[v] \in {"taken", "marked"} THEN given'[task'[v]] = <<>>
          ELSE /\ given'[task'[v]] \in OneResult
               /\ step'[v] # "stored" => given'[task'[v]] = <<step'[v]>>
    BY <1>1, <1>2, <1>3, <1>6 DEF ResultsFit
  <2>3. \A t \in done' : given'[t] \in OneResult
    BY <1>2 DEF ResultsFit
  <2> QED BY <2>1, <2>2, <2>3 DEF ResultsFit
<1>8. EntriesFit'
  <2>1. entry[task'[w]].status # "completed"
    BY <1>5, <1>6 DEF EntriesFit
  <2>2. \A v \in Running' : IF step'[v] = "stored" THEN entry'[task'[v]].answer # "none"
                              ELSE entry'[task'[v]].status # "completed"
    BY <1>1, <1>2, <1>3, <2>1 DEF EntriesFit
  <2> QED BY <1>2, <2>2 DEF EntriesFit
<1>9. CallsFit'
  BY <1>2 DEF CallsFit
<1> QED BY <1>1, <1>4, <1>7, <1>8, <1>9

\* What is known of a worker that runs a task.
LEMMA InHand ==
    ASSUME TaskInv, NEW w \in Workers, at[w] = "running"
    PROVE  /\ w \in Running /\ task[w] \in Tasks /\ task[w] \in Accepted
           /\ task[w] \notin Range(queue) \union done
           /\ \A v \in Running \ {w} : task[v] # task[w]
           /\ \A v \in Running : task[v] \in Tasks
<1> USE DEF TaskInv, PoolInv
<1>1. w \in Running
  BY DEF Running
<1>2. \A v \in Running : task[v] \in Tasks
  BY DEF Running, PoolTypeOK
<1> QED BY <1>1, <1>2 DEF EachTaskOnce

LEMMA MarkRunningKeeps ==
    ASSUME TaskInv, NEW w \in Workers, MarkRunning(w)
    PROVE  TaskInv' /\ Settles
<1> USE DEF TaskInv
<1>1. PoolInv' /\ Accepted' = Accepted /\ Running' = Running
  BY PoolStutters DEF MarkRunning
<1>2. /\ UNCHANGED <<queue, task, caller, done, given, returned>>
      /\ step' = [step EXCEPT ![w] = "marked"]
      /\ at[w] = "running" /\ step[w] = "taken"
      /\ Update(task[w], "running", "none")
  BY DEF MarkRunning, poolVars
<1> DEFINE t == task[w]
<1>3. /\ w \in Running /\ t \in Tasks /\ t \in Accepted
      /\ \A v \in Running : task[v] \in Tasks
  BY <1>2, InHand
<1>4. entry[t].status # "completed"
  BY <1>2, <1>3 DEF EntriesFit
<1>5. /\ entry' \in [Tasks -> Entry]
      /\ \A x \in Tasks : Fits(entry'[x])
      /\ \A x \in Tasks \ {t} : entry'[x] = entry[x]
      /\ entry'[t] = entry[t] \/ entry'[t] = [status |-> "running", answer |-> "none"]
      /\ entry[t].answer # "none" => entry'[t] = entry[t]
      /\ entry'[t].status = "absent" => entry[t].status = "absent"
  <2>1. /\ [status |-> "running", answer |-> "none"] \in Entry
        /\ Fits([status |-> "running", answer |-> "none"])
    BY DEF Entry, Answers, Fits
  <2> QED BY <1>2, <1>3, <1>4, <2>1, UpdateIs
<1> HIDE DEF t
<1>6. step' \in [Workers -> Steps] /\ step'[w] = "marked" /\ \A v \in Workers \ {w} : step'[v] = step[v]
  BY <1>2 DEF TypeOK, Steps
<1>7. TypeOK' /\ \A x \in Tasks : entry'[x].status = "completed" <=> entry'[x].answer = "response"
  BY <1>1, <1>2, <1>5, <1>6, EntriesTyped DEF TypeOK, PoolInv
<1>8. ResultsFit'
  <2>1. \A v \in Running : (step'[v] \in {"taken", "marked"}) <=> (step[v] \in {"taken", "marked"})
    BY <1>2, <1>6 DEF Running
  <2> QED BY <1>1, <1>2, <2>1 DEF ResultsFit
<1>9. EntriesFit'
  <2>1. \A x \in Tasks : /\ entry'[x].status = "completed" => entry[x].status = "completed"
                         /\ entry[x].answer # "none" => entry'[x] = entry[x]
    BY <1>5
  <2>2. \A x \in Tasks : entry'[x].answer \in {"response", "exception"} => given'[x] = <<entry'[x].answer>>
    BY <1>2, <1>5 DEF EntriesFit
  <2>3. ASSUME NEW v \in Running'
        PROVE  IF step'[v] = "stored" THEN entry'[task'[v]].answer # "none"
               ELSE entry'[task'[v]].status # "completed"
    <3>1. v \in Running /\ v \in Workers /\ task'[v] = task[v] /\ task[v] \in Tasks
      BY <1>1, <1>2, <1>3 DEF Running
    <3>2. CASE v = w
      BY <3>1, <3>2, <1>4, <1>6, <2>1 DEF t
    <3>3. CASE v # w
      BY <3>1, <3>3, <1>6, <2>1 DEF EntriesFit
    <3> QED BY <3>2, <3>3
  <2>4. \A x \in done' : entry'[x].answer # "none"
    BY <1>2, <2>1 DEF EntriesFit, PoolInv, PoolTypeOK
  <2> QED BY <1>7, <2>2, <2>3, <2>4 DEF EntriesFit
<1>10. CallsFit'
  <2>1. caller[t] # "idle"
    BY <1>3 DEF Accepted
  <2> QED BY <2>1, <1>2, <1>5 DEF CallsFit
<1>11. Settles
  BY <1>5, AnsweredStay
<1> QED BY <1>1, <1>7, <1>8, <1>9, <1>10, <1>11

LEMMA HandleKeeps ==
    ASSUME TaskInv, NEW w \in Workers, Handle(w)
    PROVE  TaskInv' /\ Settles
<1> USE DEF TaskInv
<1>1. PoolInv' /\ Accepted' = Accepted /\ Running' = Running
  BY PoolStutters DEF Handle
<1>2. PICK result \in {"response", "exception"} :
        /\ step' = [step EXCEPT ![w] = result]
        /\ given' = [given EXCEPT ![task[w]] = Append(@, result)]
  BY DEF Handle
<1>3. /\ UNCHANGED <<queue, task, caller, done, entry, returned>>
      /\ at[w] = "running" /\ step[w] = "marked"
  BY DEF Handle, poolVars
<1> DEFINE t == task[w]
<1>4. /\ w \in Running /\ t \in Tasks /\ t \in Accepted /\ t \notin Range(queue) \union done
      /\ \A v \in Running \ {w} : task[v] # t
      /\ \A v \in Running : task[v] \in Tasks
  BY <1>3, InHand
<1>5. given[t] = <<>> /\ entry[t].status # "completed"
  BY <1>3, <1>4 DEF ResultsFit, EntriesFit
<1>6. /\ given' \in [Tasks -> Seq({"response", "exception"})]
      /\ given'[t] = <<result>> /\ \A x \in Tasks \ {t} : given'[x] = given[x]
  <2>1. given[t] \in Seq({"response", "exception"}) /\ Append(given[t], result) = <<result>>
    BY <1>4, <1>5 DEF TypeOK
  <2> QED BY <1>2, <1>4, <2>1 DEF TypeOK
<1> HIDE DEF t
<1>7. /\ step' \in [Workers -> Steps] /\ step'[w] = result
      /\ \A v \in Workers \ {w} : step'[v] = step[v]
  BY <1>2 DEF TypeOK, Steps
<1>8. TypeOK'
  BY <1>1, <1>3, <1>6, <1>7 DEF TypeOK, PoolInv
<1>9. ResultsFit'
  <2>1. \A x \in Tasks : x \notin Accepted' \/ x \in Range(queue') => given'[x] = <<>>
    BY <1>1, <1>3, <1>4, <1>6 DEF ResultsFit
  <2>2. ASSUME NEW v \in Running'
        PROVE  IF step'[v] \in {"taken", "marked"} THEN given'[task'[v]] = <<>>
               ELSE /\ given'[task'[v]] \in OneResult
                    /\ step'[v] # "stored" => given'[task'[v]] = <<step'[v]>>
    <3>1. v \in Running /\ v \in Workers /\ task'[v] = task[v] /\ task[v] \in Tasks
      BY <1>1, <1>3, <1>4 DEF Running
    <3>2. CASE v = w
      BY <3>2, <3>1, <1>6, <1>7 DEF t, OneResult
    <3>3. CASE v # w
      BY <3>3, <3>1, <1>4, <1>6, <1>7 DEF ResultsFit
    <3> QED BY <3>2, <3>3
  <2>3. \A x \in done' : given'[x] \in OneResult
    <3>1. done \subseteq Tasks /\ t \notin done
      BY <1>4 DEF PoolInv, PoolTypeOK
    <3> QED BY <3>1, <1>3, <1>6 DEF ResultsFit
  <2> QED BY <2>1, <2>2, <2>3 DEF ResultsFit
<1>10. EntriesFit'
  <2>1. ASSUME NEW x \in Tasks, entry'[x].answer \in {"response", "exception"}
        PROVE  given'[x] = <<entry'[x].answer>>
    <3>1. given[x] = <<entry[x].answer>>
      BY <2>1, <1>3 DEF EntriesFit
    <3>2. x # t
      BY <3>1, <1>5
    <3> QED BY <3>1, <3>2, <1>3, <1>6
  <2>2. ASSUME NEW v \in Running'
        PROVE  IF step'[v] = "stored" THEN entry'[task'[v]].answer # "none"
               ELSE entry'[task'[v]].status # "completed"
    <3>1. v \in Running /\ v \in Workers /\ task'[v] = task[v]
      BY <1>1, <1>3 DEF Running
    <3> QED BY <3>1, <1>3, <1>5, <1>7 DEF EntriesFit, t
  <2>3. \A x \in Tasks : entry'[x].status = "completed" <=> entry'[x].answer = "response"
    BY <1>3 DEF EntriesFit
  <2> QED BY <2>1, <2>2, <2>3, <1>3 DEF EntriesFit
<1>11. CallsFit'
  BY <1>3 DEF CallsFit
<1>12. Settles
  BY <1>3, AnsweredStay
<1> QED BY <1>1, <1>8, <1>9, <1>10, <1>11, <1>12

LEMMA StoreKeeps ==
    ASSUME TaskInv, NEW w \in Workers, Store(w)
    PROVE  TaskInv' /\ Settles
<1> USE DEF TaskInv
<1>1. PoolInv' /\ Accepted' = Accepted /\ Running' = Running
  BY PoolStutters DEF Store
<1> DEFINE t == task[w]
           status == IF step[w] = "response" THEN "completed" ELSE "failed"
<1>2. /\ UNCHANGED <<queue, task, caller, done, given, returned>>
      /\ step' = [step EXCEPT ![w] = "stored"]
      /\ at[w] = "running" /\ step[w] \in {"response", "exception"}
      /\ Update(t, status, step[w])
  BY DEF Store, poolVars
<1>3. /\ w \in Running /\ t \in Tasks /\ t \in Accepted /\ \A v \in Running : task[v] \in Tasks
      /\ \A v \in Running \ {w} : task[v] # t
  BY <1>2, InHand
<1>4. /\ entry[t].status # "completed" /\ given[t] = <<step[w]>> /\ given[t] \in OneResult
      /\ caller[t] # "idle" /\ entry[t].status # "absent"
  BY <1>2, <1>3 DEF EntriesFit, ResultsFit, CallsFit, Accepted
<1>5. /\ entry' \in [Tasks -> Entry]
      /\ \A x \in Tasks : Fits(entry'[x])
      /\ \A x \in Tasks \ {t} : entry'[x] = entry[x]
      /\ entry'[t] = entry[t] \/ entry'[t] = [status |-> status, answer |-> step[w]]
      /\ entry[t].answer # "none" => entry'[t] = entry[t]
      /\ entry'[t].status # "absent" /\ entry'[t].answer # "none"
  <2>1. /\ [status |-> status, answer |-> step[w]] \in Entry
        /\ Fits([status |-> status, answer |-> step[w]])
    BY <1>2 DEF Entry, Answers, Fits
  <2>2. status # "absent" /\ step[w] # "none"
    BY <1>2
  <2> HIDE DEF status, t
  <2> QED BY <1>2, <1>3, <1>4, <2>1, <2>2, UpdateIs
<1> HIDE DEF t, status
<1>6. step' \in [Workers -> Steps] /\ step'[w] = "stored" /\ \A v \in Workers \ {w} : step'[v] = step[v]
  BY <1>2 DEF TypeOK, Steps
<1>7. TypeOK' /\ \A x \in Tasks : entry'[x].status = "completed" <=> entry'[x].answer = "response"
  BY <1>1, <1>2, <1>5, <1>6, EntriesTyped DEF TypeOK, PoolInv
<1>8. ResultsFit'
  <2>1. ASSUME NEW v \in Running'
        PROVE  IF step'[v] \in {"taken", "marked"} THEN given'[task'[v]] = <<>>
               ELSE /\ given'[task'[v]] \in OneResult
                    /\ step'[v] # "stored" => given'[task'[v]] = <<step'[v]>>
    <3>1. v \in Running /\ v \in Workers /\ task'[v] = task[v]
      BY <1>1, <1>2 DEF Running
    <3>2. CASE v = w
      BY <3>1, <3>2, <1>2, <1>4, <1>6 DEF t
    <3>3. CASE v # w
      BY <3>1, <3>3, <1>2, <1>6 DEF ResultsFit
    <3> QED BY <3>2, <3>3
  <2> QED BY <1>1, <1>2, <2>1 DEF ResultsFit
<1>9. EntriesFit'
  <2>1. ASSUME NEW x \in Tasks, entry'[x].answer \in {"response", "exception"}
        PROVE  given'[x] = <<entry'[x].answer>>
    BY <2>1, <1>2, <1>4, <1>5 DEF EntriesFit
  <2>2. ASSUME NEW v \in Running'
        PROVE  IF step'[v] = "stored" THEN entry'[task'[v]].answer # "none"
               ELSE entry'[task'[v]].status # "completed"
    <3>1. v \in Running /\ v \in Workers /\ task'[v] = task[v] /\ task[v] \in Tasks
      BY <1>1, <1>2, <1>3 DEF Running
    <3>2. CASE v = w
      BY <3>1, <3>2, <1>5, <1>6 DEF t
    <3>3. CASE v # w
      BY <3>1, <3>3, <1>3, <1>5, <1>6 DEF EntriesFit
    <3> QED BY <3>2, <3>3
  <2>3. \A x \in done' : entry'[x].answer # "none"
    BY <1>2, <1>5 DEF EntriesFit, PoolInv, PoolTypeOK
  <2> QED BY <1>7, <2>1, <2>2, <2>3 DEF EntriesFit
<1>10. CallsFit'
  BY <1>2, <1>4, <1>5 DEF CallsFit
<1>11. Settles
  BY <1>5, AnsweredStay
<1> QED BY <1>1, <1>7, <1>8, <1>9, <1>10, <1>11

LEMMA ReturnKeeps ==
    ASSUME TaskInv, NEW w \in Workers, Return(w)
    PROVE  TaskInv' /\ Settles
<1> USE DEF TaskInv
<1>1. /\ PoolInv' /\ Accepted' = Accepted
      /\ Running' = Running \ {w} /\ w \in Running
      /\ \A v \in Running \ {w} : task'[v] = task[v]
      /\ queue' = queue /\ done' = done \union {task[w]}
  BY FinishKeeps DEF Return
<1>2. UNCHANGED <<entry, returned, step, given, caller>> /\ step[w] = "stored"
  BY DEF Return, Finish
<1>3. TypeOK' /\ Settles
  BY <1>1, <1>2, SameEntries DEF TypeOK
<1>4. given[task[w]] \in OneResult /\ entry[task[w]].answer # "none"
  BY <1>1, <1>2 DEF ResultsFit, EntriesFit
<1>5. ResultsFit' /\ EntriesFit' /\ CallsFit'
  BY <1>1, <1>2, <1>4 DEF ResultsFit, EntriesFit, CallsFit
<1> QED BY <1>1, <1>3, <1>5

LEMMA NoteRefusalKeeps ==
    ASSUME TaskInv, NEW t \in Tasks, NoteRefusal(t)
    PROVE  TaskInv' /\ Settles
<1> USE DEF TaskInv
<1>1. PoolInv' /\ Accepted' = Accepted /\ Running' = Running
  BY PoolStutters DEF NoteRefusal
<1>2. /\ UNCHANGED <<queue, task, caller, done, given, step>> /\ returned' = returned \union {t}
      /\ caller[t] = "refused"
      /\ Update(t, "failed", "stopped")
  BY DEF NoteRefusal, poolVars
<1>3. entry[t].status # "completed" /\ \A v \in Running : task[v] \in Tasks
  <2>1. given[t] = <<>>
    BY <1>2 DEF ResultsFit, Accepted
  <2>2. entry[t].status # "completed"
    BY <2>1 DEF EntriesFit
  <2> QED BY <2>2 DEF Running, PoolInv, PoolTypeOK
<1>4. /\ entry' \in [Tasks -> Entry]
      /\ \A x \in Tasks : Fits(entry'[x])
      /\ \A x \in Tasks \ {t} : entry'[x] = entry[x]
      /\ entry'[t] = entry[t] \/ entry'[t] = [status |-> "failed", answer |-> "stopped"]
      /\ entry[t].answer # "none" => entry'[t] = entry[t]
      /\ entry'[t].status = "absent" => entry[t].status = "absent"
  <2>1. /\ [status |-> "failed", answer |-> "stopped"] \in Entry
        /\ Fits([status |-> "failed", answer |-> "stopped"])
    BY DEF Entry, Answers, Fits
  <2> QED BY <1>2, <1>3, <2>1, UpdateIs
<1>5. TypeOK' /\ \A x \in Tasks : entry'[x].status = "completed" <=> entry'[x].answer = "response"
  BY <1>1, <1>2, <1>4, EntriesTyped DEF TypeOK, PoolInv
<1>6. ResultsFit'
  BY <1>1, <1>2 DEF ResultsFit
<1>7. EntriesFit'
  <2>1. \A x \in Tasks : /\ entry'[x].status = "completed" => entry[x].status = "completed"
                         /\ entry[x].answer # "none" => entry'[x] = entry[x]
    BY <1>4
  <2>2. ASSUME NEW x \in Tasks, entry'[x].answer \in {"response", "exception"}
        PROVE  given'[x] = <<entry'[x].answer>>
    BY <2>2, <1>2, <1>4 DEF EntriesFit
  <2>3. \A v \in Running' : IF step'[v] = "stored" THEN entry'[task'[v]].answer # "none"
                              ELSE entry'[task'[v]].status # "completed"
    BY <1>1, <1>2, <1>3, <2>1 DEF EntriesFit
  <2>4. \A x \in done' : entry'[x].answer # "none"
    BY <1>2, <2>1 DEF EntriesFit, PoolInv, PoolTypeOK
  <2> QED BY <1>5, <2>2, <2>3, <2>4 DEF EntriesFit
<1>8. CallsFit'
  BY <1>2, <1>4 DEF CallsFit
<1>9. Settles
  BY <1>4, AnsweredStay
<1> QED BY <1>1, <1>5, <1>6, <1>7, <1>8, <1>9

\* Cancel is the one step that replaces an answer, an error by another.
LEMMA CancelKeeps ==
    ASSUME TaskInv, NEW t \in Tasks, Cancel(t)
    PROVE  TaskInv' /\ Settles
<1> USE DEF TaskInv
<1>1. PoolInv' /\ Accepted' = Accepted /\ Running' = Running
  BY PoolStutters DEF Cancel
<1>2. /\ UNCHANGED <<queue, task, caller, done, given, step, returned>>
      /\ t \in returned
      /\ entry[t].status # "completed"
      /\ entry' = [entry EXCEPT ![t] = [status |-> "failed", answer |-> "cancelled"]]
  BY DEF Cancel, poolVars
<1>3. /\ entry' \in [Tasks -> Entry] /\ \A x \in Tasks \ {t} : entry'[x] = entry[x]
      /\ entry'[t] = [status |-> "failed", answer |-> "cancelled"]
  BY <1>2 DEF TypeOK, Entry, Answers
<1>4. \A x \in Tasks : Fits(entry'[x])
  <2>1. \A x \in Tasks : Fits(entry[x])
    BY DEF Fits, TypeOK, EntriesFit
  <2>2. Fits(entry'[t])
    BY <1>3 DEF Fits
  <2> QED BY <1>3, <2>1, <2>2
<1>5. TypeOK' /\ \A x \in Tasks : entry'[x].status = "completed" <=> entry'[x].answer = "response"
  BY <1>1, <1>2, <1>3, <1>4, EntriesTyped DEF TypeOK, PoolInv
<1>6. ResultsFit'
  BY <1>1, <1>2 DEF ResultsFit
<1>7. EntriesFit'
  <2>1. done \subseteq Tasks /\ \A v \in Running : task[v] \in Tasks
    BY DEF Running, PoolInv, PoolTypeOK
  <2>2. \A x \in Tasks : /\ entry'[x].status = "completed" => entry[x].status = "completed"
                         /\ entry[x].answer # "none" => entry'[x].answer # "none"
    BY <1>3
  <2>3. ASSUME NEW x \in Tasks, entry'[x].answer \in {"response", "exception"}
        PROVE  given'[x] = <<entry'[x].answer>>
    BY <2>3, <1>2, <1>3 DEF EntriesFit
  <2> QED BY <1>1, <1>2, <1>5, <2>1, <2>2, <2>3 DEF EntriesFit
<1>8. CallsFit'
  BY <1>2, <1>3 DEF CallsFit
<1>9. Settles
  <2>1. entry[t].answer # "response"
    BY <1>2 DEF EntriesFit
  <2> QED BY <1>3, <2>1 DEF Settles, Reply
<1> QED BY <1>1, <1>5, <1>6, <1>7, <1>8, <1>9
-----------------------------------------------------------------------------
(* The theorems *)

LEMMA StutterKeeps == TaskInv /\ UNCHANGED vars => TaskInv' /\ Settles
<1> SUFFICES ASSUME TaskInv, UNCHANGED vars PROVE TaskInv' /\ Settles
  OBVIOUS
<1> USE DEF TaskInv
<1>1. PoolInv' /\ Accepted' = Accepted /\ Running' = Running
  BY PoolStutters DEF vars
<1>2. UNCHANGED <<queue, task, caller, done, entry, returned, step, given>>
  BY DEF vars, poolVars
<1>3. TypeOK' /\ Settles
  BY <1>1, <1>2, SameEntries DEF TypeOK
<1>4. ResultsFit' /\ EntriesFit' /\ CallsFit'
  BY <1>1, <1>2 DEF ResultsFit, EntriesFit, CallsFit
<1> QED BY <1>1, <1>3, <1>4

\* Every step of the pool and of the table of results keeps the invariant, and
\* takes no reply back.
LEMMA StepKeeps == TaskInv /\ [Next]_vars => TaskInv' /\ Settles
<1> SUFFICES ASSUME TaskInv, [Next]_vars PROVE TaskInv' /\ Settles
  OBVIOUS
<1>1. ASSUME NEW t \in Tasks, Submit(t) \/ Cancel(t) PROVE TaskInv' /\ Settles
  BY <1>1, MakeEntryKeeps, HandOverKeeps, NotifyKeeps, NoteRefusalKeeps, CancelKeeps DEF Submit
<1>2. ASSUME NEW w \in Workers, Lambda(w) PROVE TaskInv' /\ Settles
  BY <1>2, BeginKeeps, MarkRunningKeeps, HandleKeeps, StoreKeeps, ReturnKeeps DEF Lambda
<1>3. CASE PoolStep
  BY <1>3, PoolStepKeeps
<1>4. CASE UNCHANGED vars
  BY <1>4, StutterKeeps
<1> QED BY <1>1, <1>2, <1>3, <1>4 DEF Next

\* The inductive invariant of the pool with the table of results on it: where
\* each task is, how often it has run, what its entry says, and who will look.
THEOREM TaskInvariant == Spec => []TaskInv
<1>1. TaskInv /\ [Next]_vars => TaskInv'
  BY StepKeeps
<1> QED BY TasksStart, <1>1, PTL DEF Spec

\* The variables of pool and table keep their types, and exactly the tasks that
\* have ended have an answer (ThreadPool, TaskProcessor::Update, Cancel).
THEOREM TasksTypeCorrect == Spec => []TypeOK
<1>1. TaskInv => TypeOK
  BY DEF TaskInv
<1> QED BY TaskInvariant, <1>1, PTL

\* ThreadPool::Run and Submit: no wakeup is lost, although notify_one is called
\* without the mutex.
THEOREM NobodyEverSleepsInVain == Spec => []NobodySleepsInVain
<1>1. TaskInv => NobodySleepsInVain
  BY DEF TaskInv, PoolInv
<1> QED BY TaskInvariant, <1>1, PTL

\* ThreadPool: an accepted task is in one place, in the queue, in a worker's
\* hands or done.
THEOREM EachTaskAlwaysOnce == Spec => []EachTaskOnce
<1>1. TaskInv => EachTaskOnce
  BY DEF TaskInv, PoolInv
<1> QED BY TaskInvariant, <1>1, PTL

\* ThreadPool::Stop returns with every accepted task done.
THEOREM StopAlwaysDrains == Spec => []StopDrains
<1>1. TaskInv => StopDrains
  BY DEF TaskInv, PoolInv
<1> QED BY TaskInvariant, <1>1, PTL

\* TaskProcessor: a handler is called at most once for a task, never for a
\* refused one, and before its result is replied.
THEOREM RepliesAlwaysTellTruth == Spec => []RepliesTellTruth
<1>1. ASSUME TaskInv PROVE RepliesTellTruth
  <2> USE <1>1 DEF TaskInv, PoolInv
  <2> SUFFICES ASSUME NEW t \in Tasks
               PROVE  /\ Len(given[t]) <= 1
                      /\ Reply(t) \in {"response", "exception"} => given[t] = <<Reply(t)>>
                      /\ caller[t] = "refused" => given[t] = <<>>
    BY DEF RepliesTellTruth
  <2>1. given[t] = <<>> \/ given[t] \in OneResult
    <3>1. CASE t \notin Accepted \/ t \in Range(queue)
      BY <3>1 DEF ResultsFit
    <3>2. CASE t \in done
      BY <3>2 DEF ResultsFit
    <3>3. CASE t \in {task[w] : w \in Running}
      BY <3>3 DEF ResultsFit
    <3> QED BY <3>1, <3>2, <3>3 DEF EachTaskOnce
  <2>2. Len(given[t]) <= 1
    <3>1. CASE given[t] = <<>>
      BY <3>1
    <3>2. CASE given[t] = <<"response">>
      BY <3>2
    <3>3. CASE given[t] = <<"exception">>
      BY <3>3
    <3> QED BY <2>1, <3>1, <3>2, <3>3 DEF OneResult
  <2>3. Reply(t) \in {"response", "exception"} => given[t] = <<Reply(t)>>
    BY DEF Reply, EntriesFit
  <2>4. caller[t] = "refused" => given[t] = <<>>
    BY DEF ResultsFit, Accepted
  <2> QED BY <2>2, <2>3, <2>4
<1>2. TaskInv => RepliesTellTruth
  BY <1>1
<1> QED BY TaskInvariant, <1>2, PTL

\* TaskProcessor::Update and Cancel: a reply that is final is not taken back,
\* except that an error may turn into "cancelled".
THEOREM RepliesAlwaysSettle == Spec => [][Settles]_vars
<1>1. TaskInv /\ [Next]_vars => [Settles]_vars
  BY StepKeeps
<1> QED BY TaskInvariant, <1>1, PTL DEF Spec
-----------------------------------------------------------------------------
(* The refinement of TaskBoard *)

\* A step that changes nothing that a client is told.
LEMMA BoardStays ==
    ASSUME UNCHANGED <<entry, given, stopped, stop>>, Accepted' = Accepted, Refused' = Refused
    PROVE  UNCHANGED Board!vars
BY DEF Board!vars, Replies, Reply, Phase

\* A step that changes one entry changes one reply.
LEMMA RepliesBecome ==
    ASSUME NEW t \in Tasks, \A x \in Tasks \ {t} : entry'[x] = entry[x],
           NEW r, r = IF entry'[t] = NoEntry THEN "unknown"
                      ELSE IF entry'[t].answer = "none" THEN "pending" ELSE entry'[t].answer
    PROVE  Replies' = [Replies EXCEPT ![t] = r]
BY DEF Replies, Reply

\* What a client is told of an entry that was made.
LEMMA ReplyOf ==
    ASSUME TaskInv, NEW t \in Tasks, entry[t].status # "absent"
    PROVE  Replies[t] = Reply(t) /\ Replies[t] # "unknown"
<1>1. entry[t] # NoEntry /\ entry[t].answer \in Answers
  BY DEF NoEntry, TaskInv, TypeOK, Entry
<1> QED BY <1>1 DEF Replies, Reply, Answers

\* TaskProcessor::Submit makes the entry.
LEMMA MakeEntryImplements ==
    ASSUME TaskInv, NEW t \in Tasks, MakeEntry(t)
    PROVE  Board!Submit(t)
<1>1. /\ UNCHANGED <<given, stopped, stop, caller>>
      /\ entry[t] = NoEntry
      /\ entry' = [entry EXCEPT ![t] = [status |-> "pending", answer |-> "none"]]
  BY DEF MakeEntry, poolVars
<1>2. /\ \A x \in Tasks \ {t} : entry'[x] = entry[x]
      /\ entry'[t] = [status |-> "pending", answer |-> "none"]
  BY <1>1 DEF TaskInv, TypeOK
<1>3. Replies' = [Replies EXCEPT ![t] = "pending"]
  BY <1>2, RepliesBecome DEF NoEntry
<1>4. Replies[t] = "unknown"
  BY <1>1 DEF Replies
<1>5. Accepted' = Accepted /\ Refused' = Refused /\ Phase' = Phase
  BY <1>1 DEF Accepted, Refused, Phase
<1> QED BY <1>1, <1>3, <1>4, <1>5 DEF Board!Submit

\* ThreadPool::Submit takes the task in, or turns it away.
LEMMA HandOverImplements ==
    ASSUME TaskInv, NEW t \in Tasks, HandOver(t)
    PROVE  Board!Accept(t) \/ Board!Refuse(t)
<1>1. /\ UNCHANGED <<entry, given, stopped, stop>>
      /\ entry[t] # NoEntry /\ caller[t] = "idle"
  BY DEF HandOver, Enqueue, Refuse
<1>2. Replies' = Replies /\ Phase' = Phase
  BY <1>1 DEF Replies, Reply, Phase
<1>3. Replies[t] = "pending" /\ t \notin Accepted /\ t \notin Refused
  BY <1>1 DEF Replies, Reply, Accepted, Refused, TaskInv, CallsFit
<1>4. caller \in [Tasks -> {"idle", "notifying", "accepted", "refused"}]
  BY DEF TaskInv, PoolInv, PoolTypeOK
<1>5. CASE Enqueue(t)
  <2>1. ~stopped /\ caller' = [caller EXCEPT ![t] = "notifying"]
    BY <1>5 DEF Enqueue
  <2>2. Phase = "open" /\ Accepted' = Accepted \union {t} /\ Refused' = Refused
    BY <2>1, <1>1, <1>4 DEF Phase, Accepted, Refused
  <2> QED BY <2>2, <1>1, <1>2, <1>3 DEF Board!Accept
<1>6. CASE Refuse(t)
  <2>1. stopped /\ caller' = [caller EXCEPT ![t] = "refused"]
    BY <1>6 DEF Refuse
  <2>2. Phase # "open" /\ Accepted' = Accepted /\ Refused' = Refused \union {t}
    BY <2>1, <1>1, <1>4 DEF Phase, Accepted, Refused
  <2> QED BY <2>2, <1>1, <1>2, <1>3 DEF Board!Refuse
<1> QED BY <1>5, <1>6 DEF HandOver

\* TaskProcessor::Submit notes the refusal, before the client can cancel.
LEMMA NoteRefusalImplements ==
    ASSUME TaskInv, NEW t \in Tasks, NoteRefusal(t)
    PROVE  Board!Answer(t) \/ UNCHANGED Board!vars
<1>1. /\ UNCHANGED <<given, stopped, stop, caller>>
      /\ caller[t] = "refused" /\ Update(t, "failed", "stopped")
  BY DEF NoteRefusal, poolVars
<1>2. Accepted' = Accepted /\ Refused' = Refused /\ Phase' = Phase /\ t \in Refused
  BY <1>1 DEF Accepted, Refused, Phase
<1>3. entry[t].status # "absent"
  BY <1>1 DEF TaskInv, CallsFit
<1>4. CASE entry' = entry
  BY <1>4, <1>1, <1>2, BoardStays
<1>5. CASE entry' # entry
  <2>1. entry[t].status \notin {"absent", "failed"}
        /\ entry' = [entry EXCEPT ![t] = [status |-> "failed", answer |-> "stopped"]]
    BY <1>1, <1>5 DEF Update
  <2>2. given[t] = <<>>
    BY <1>1 DEF TaskInv, ResultsFit, Accepted
  <2>3. entry[t].answer = "none"
    <3>1. entry[t].status # "completed"
      BY <2>2 DEF TaskInv, EntriesFit
    <3> QED BY <2>1, <3>1 DEF TaskInv, TypeOK
  <2>4. /\ \A x \in Tasks \ {t} : entry'[x] = entry[x]
        /\ entry'[t] = [status |-> "failed", answer |-> "stopped"]
    BY <2>1 DEF TaskInv, TypeOK
  <2>5. Replies' = [Replies EXCEPT ![t] = "stopped"]
    BY <2>4, RepliesBecome DEF NoEntry
  <2>6. Replies[t] = "pending"
    BY <1>3, <2>3, ReplyOf DEF Reply
  <2> QED BY <1>1, <1>2, <2>5, <2>6 DEF Board!Answer
<1> QED BY <1>4, <1>5

\* The lambda calls the handler, which the pool has not stopped without.
LEMMA HandleImplements ==
    ASSUME TaskInv, NEW w \in Workers, Handle(w)
    PROVE  Board!Handle(task[w])
<1>1. /\ UNCHANGED <<entry, stopped, stop, caller>>
      /\ at[w] = "running" /\ step[w] = "marked"
  BY DEF Handle, poolVars
<1>2. PICK result \in {"response", "exception"} :
        given' = [given EXCEPT ![task[w]] = Append(@, result)]
  BY DEF Handle
<1>3. w \in Running /\ task[w] \in Tasks /\ task[w] \in Accepted
  BY <1>1, InHand
<1>4. given[task[w]] = <<>>
  BY <1>1, <1>3 DEF TaskInv, ResultsFit
<1>5. given' = [given EXCEPT ![task[w]] = <<result>>]
  <2>1. Append(given[task[w]], result) = <<result>>
    BY <1>4
  <2> QED BY <2>1, <1>2
<1>6. Phase # "closed"
  BY <1>1 DEF Phase, TaskInv, PoolInv, StopDrains
<1>7. Replies' = Replies /\ Accepted' = Accepted /\ Refused' = Refused /\ Phase' = Phase
  BY <1>1 DEF Replies, Reply, Accepted, Refused, Phase
<1>8. result \in Board!Results
  BY DEF Board!Results
<1> QED BY <1>3, <1>4, <1>5, <1>6, <1>7, <1>8 DEF Board!Handle

\* TaskProcessor::Update with Running tells the client nothing.
LEMMA MarkRunningImplements ==
    ASSUME TaskInv, NEW w \in Workers, MarkRunning(w)
    PROVE  UNCHANGED Board!vars
<1> DEFINE t == task[w]
<1>1. /\ UNCHANGED <<given, stopped, stop, caller>>
      /\ at[w] = "running" /\ step[w] = "taken" /\ Update(t, "running", "none")
  BY DEF MarkRunning, poolVars
<1>2. w \in Running /\ t \in Tasks /\ t \in Accepted
  BY <1>1, InHand
<1> HIDE DEF t
<1>3. Accepted' = Accepted /\ Refused' = Refused /\ Phase' = Phase
  BY <1>1 DEF Accepted, Refused, Phase
<1>4. CASE entry' = entry
  BY <1>4, <1>1, <1>3, BoardStays
<1>5. CASE entry' # entry
  <2>1. entry[t].status \notin {"absent", "failed"}
        /\ entry' = [entry EXCEPT ![t] = [status |-> "running", answer |-> "none"]]
    BY <1>1, <1>5 DEF Update
  <2>2. entry[t].answer = "none"
    <3>1. entry[t].status # "completed"
      BY <1>1, <1>2 DEF TaskInv, EntriesFit, t
    <3> QED BY <1>2, <2>1, <3>1 DEF TaskInv, TypeOK
  <2>3. /\ \A x \in Tasks \ {t} : entry'[x] = entry[x]
        /\ entry'[t] = [status |-> "running", answer |-> "none"]
    BY <2>1, <1>2 DEF TaskInv, TypeOK
  <2>4. Replies' = [Replies EXCEPT ![t] = "pending"]
    BY <1>2, <2>3, RepliesBecome DEF NoEntry
  <2>5. Replies[t] = "pending" /\ Replies' = Replies
    <3>1. Replies[t] = "pending"
      BY <1>2, <2>1, <2>2, ReplyOf DEF Reply
    <3> QED BY <3>1, <2>4 DEF Replies
  <2> QED BY <1>1, <1>3, <2>5 DEF Board!vars
<1> QED BY <1>4, <1>5

\* TaskProcessor::Update with what the handler gave: an answer, or nothing if
\* the task has been cancelled.
LEMMA StoreImplements ==
    ASSUME TaskInv, NEW w \in Workers, Store(w)
    PROVE  Board!Answer(task[w]) \/ UNCHANGED Board!vars
<1> DEFINE t == task[w]
           status == IF step[w] = "response" THEN "completed" ELSE "failed"
<1>1. /\ UNCHANGED <<given, stopped, stop, caller>>
      /\ at[w] = "running" /\ step[w] \in {"response", "exception"} /\ Update(t, status, step[w])
  BY DEF Store, poolVars
<1>2. w \in Running /\ t \in Tasks /\ t \in Accepted
  BY <1>1, InHand
<1>3. status \in {"completed", "failed"}
  OBVIOUS
<1>4. given[t] = <<step[w]>> /\ entry[t].status # "completed"
  BY <1>1, <1>2 DEF TaskInv, ResultsFit, EntriesFit
<1> HIDE DEF t, status
<1>5. Accepted' = Accepted /\ Refused' = Refused /\ Phase' = Phase
  BY <1>1 DEF Accepted, Refused, Phase
<1>6. CASE entry' = entry
  BY <1>6, <1>1, <1>5, BoardStays
<1>7. CASE entry' # entry
  <2>1. entry[t].status \notin {"absent", "failed"}
        /\ entry' = [entry EXCEPT ![t] = [status |-> status, answer |-> step[w]]]
    BY <1>1, <1>7 DEF Update
  <2>2. entry[t].answer = "none"
    BY <1>2, <1>4, <2>1 DEF TaskInv, TypeOK
  <2>3. /\ \A x \in Tasks \ {t} : entry'[x] = entry[x]
        /\ entry'[t] = [status |-> status, answer |-> step[w]]
    BY <2>1, <1>2 DEF TaskInv, TypeOK
  <2>4. Replies' = [Replies EXCEPT ![t] = step[w]]
    <3>1. entry'[t].answer = step[w] /\ step[w] # "none"
      BY <2>3, <1>1
    <3>2. entry'[t] # NoEntry
      BY <3>1 DEF NoEntry
    <3> QED BY <1>2, <2>3, <3>1, <3>2, RepliesBecome
  <2>5. Replies[t] = "pending"
    BY <1>2, <2>1, <2>2, ReplyOf DEF Reply
  <2>6. given[t] # <<>> /\ given[t][1] = step[w]
    BY <1>4
  <2>7. Board!Answer(t)
    BY <1>1, <1>5, <2>4, <2>5, <2>6 DEF Board!Answer
  <2> QED BY <2>7 DEF t
<1> QED BY <1>6, <1>7

\* TaskProcessor::Cancel, of a task whose id the client has.
LEMMA CancelImplements ==
    ASSUME TaskInv, NEW t \in Tasks, Cancel(t)
    PROVE  Board!Cancel(t)
<1>1. /\ UNCHANGED <<given, stopped, stop, caller>>
      /\ t \in returned /\ entry[t].status # "completed"
      /\ entry' = [entry EXCEPT ![t] = [status |-> "failed", answer |-> "cancelled"]]
  BY DEF Cancel, poolVars
<1>2. /\ \A x \in Tasks \ {t} : entry'[x] = entry[x]
      /\ entry'[t] = [status |-> "failed", answer |-> "cancelled"]
  BY <1>1 DEF TaskInv, TypeOK
<1>3. Replies' = [Replies EXCEPT ![t] = "cancelled"]
  BY <1>2, RepliesBecome DEF NoEntry
<1>4. caller[t] \in {"accepted", "refused"} /\ entry[t].status # "absent"
  BY <1>1 DEF TaskInv, CallsFit
<1>5. Replies[t] # "response"
  <2>1. entry[t].answer # "response"
    BY <1>1 DEF TaskInv, EntriesFit
  <2> QED BY <1>4, <2>1, ReplyOf DEF Reply
<1>6. t \in Accepted \union Refused
  BY <1>4 DEF Accepted, Refused
<1>7. Accepted' = Accepted /\ Refused' = Refused /\ Phase' = Phase
  BY <1>1 DEF Accepted, Refused, Phase
<1> QED BY <1>1, <1>3, <1>5, <1>6, <1>7 DEF Board!Cancel

\* ThreadPool::Stop closes the board, and returns when everybody is answered.
LEMMA PoolStepImplements ==
    ASSUME TaskInv, PoolStep
    PROVE  Board!Close \/ Board!Drain \/ UNCHANGED Board!vars
<1>1. UNCHANGED <<entry, given>> /\ Elsewhere
  BY DEF PoolStep, Elsewhere
<1>2. PoolInv' /\ Accepted' = Accepted /\ caller' = caller /\ done' = done
  BY <1>1, ElsewhereKeeps, ElsewhereMovesNoTask DEF TaskInv
<1>3. Refused' = Refused /\ Replies' = Replies
  BY <1>1, <1>2 DEF Refused, Replies, Reply
<1>4. stopped <=> stop # "not called"
  BY DEF TaskInv, PoolInv, GoneIsDrained
<1>5. CASE \E w \in Workers : Sleep(w) \/ Leave(w) \/ WakeSpuriously(w)
  <2>1. UNCHANGED <<stopped, stop>>
    BY <1>5 DEF Sleep, Leave, WakeSpuriously
  <2> QED BY <1>1, <1>2, <1>3, <2>1, BoardStays
<1>6. CASE SetStopped
  <2>1. Phase = "open" /\ Phase' = "closing"
    BY <1>4, <1>6 DEF SetStopped, Phase
  <2> QED BY <1>1, <1>2, <1>3, <2>1 DEF Board!Close
<1>7. CASE NotifyAll
  <2>1. Phase' = Phase
    BY <1>7 DEF NotifyAll, Phase
  <2> QED BY <1>1, <1>2, <1>3, <2>1 DEF Board!vars
<1>8. CASE JoinAll
  <2>1. Phase = "closing" /\ Phase' = "closed"
    BY <1>4, <1>8 DEF JoinAll, Phase
  <2>2. Accepted \subseteq done
    BY <1>2, <1>8 DEF JoinAll, PoolInv, StopDrains
  <2>3. ASSUME NEW t \in Accepted PROVE given[t] # <<>> /\ Replies[t] # "pending"
    <3>1. t \in Tasks /\ t \in done /\ given[t] \in OneResult /\ entry[t].answer # "none"
      BY <2>2 DEF Accepted, TaskInv, ResultsFit, EntriesFit
    <3>2. given[t] # <<>>
      <4>1. <<"response">> # <<>> /\ <<"exception">> # <<>>
        OBVIOUS
      <4> QED BY <3>1, <4>1 DEF OneResult
    <3>3. entry[t].status # "absent" /\ entry[t].answer # "pending"
      BY <3>1 DEF TaskInv, TypeOK, Entry, Answers
    <3> QED BY <3>1, <3>2, <3>3, ReplyOf DEF Reply
  <2> QED BY <1>1, <1>2, <1>3, <2>1, <2>3 DEF Board!Drain
<1> QED BY <1>1, <1>5, <1>6, <1>7, <1>8 DEF Elsewhere

\* The steps that move a task between queue and workers, and the notification.
LEMMA OthersImplement ==
    ASSUME TaskInv, \/ \E t \in Tasks : Notify(t)
                    \/ \E w \in Workers : Begin(w) \/ Return(w)
    PROVE  UNCHANGED Board!vars
<1>1. UNCHANGED <<entry, given, stopped, stop>>
  BY DEF Notify, NotifyOne, Begin, Take, Return, Finish
<1>2. ASSUME NEW t \in Tasks, Notify(t) PROVE Accepted' = Accepted /\ Refused' = Refused
  <2>1. caller[t] = "notifying" /\ caller' = [caller EXCEPT ![t] = "accepted"]
    BY <1>2 DEF Notify, NotifyOne
  <2>2. caller'[t] = "accepted" /\ \A x \in Tasks \ {t} : caller'[x] = caller[x]
    BY <2>1 DEF TaskInv, PoolInv, PoolTypeOK
  <2> QED BY <2>1, <2>2 DEF Accepted, Refused
<1>3. ASSUME NEW w \in Workers, Begin(w) \/ Return(w) PROVE Accepted' = Accepted /\ Refused' = Refused
  <2>1. caller' = caller
    BY <1>3 DEF Begin, Take, Return, Finish
  <2> QED BY <2>1 DEF Accepted, Refused
<1> QED BY <1>1, <1>2, <1>3, BoardStays

LEMMA BoardStarts == Init => Board!Init
<1> SUFFICES ASSUME Init PROVE Board!Init
  OBVIOUS
<1>1. Replies = [t \in Tasks |-> "unknown"]
  BY DEF Init, Replies
<1>2. Accepted = {} /\ Refused = {} /\ Phase = "open"
  BY DEF Init, PoolInit, Accepted, Refused, Phase
<1> QED BY <1>1, <1>2 DEF Init, Board!Init

\* Each step is a step of the board or one that its clients cannot see.
LEMMA StepImplements == TaskInv /\ [Next]_vars => [Board!Next]_(Board!vars)
<1> SUFFICES ASSUME TaskInv, [Next]_vars PROVE Board!Next \/ UNCHANGED Board!vars
  OBVIOUS
<1>1. ASSUME NEW t \in Tasks, Submit(t) \/ Cancel(t) PROVE Board!Next \/ UNCHANGED Board!vars
  BY <1>1, MakeEntryImplements, HandOverImplements, NoteRefusalImplements, CancelImplements,
     OthersImplement DEF Submit, Board!Next
<1>2. ASSUME NEW w \in Workers, Lambda(w) PROVE Board!Next \/ UNCHANGED Board!vars
  <2>1. CASE Handle(w)
    <3>1. task[w] \in Tasks
      BY <2>1, InHand DEF Handle
    <3> QED BY <2>1, <3>1, HandleImplements DEF Board!Next
  <2>2. CASE Store(w)
    <3>1. task[w] \in Tasks
      BY <2>2, InHand DEF Store
    <3> QED BY <2>2, <3>1, StoreImplements DEF Board!Next
  <2> QED BY <1>2, <2>1, <2>2, MarkRunningImplements, OthersImplement DEF Lambda
<1>3. CASE PoolStep
  BY <1>3, PoolStepImplements DEF Board!Next
<1>4. CASE UNCHANGED vars
  <2>1. UNCHANGED <<entry, given, stopped, stop, caller>>
    BY <1>4 DEF vars, poolVars
  <2>2. Accepted' = Accepted /\ Refused' = Refused
    BY <2>1 DEF Accepted, Refused
  <2> QED BY <2>1, <2>2, BoardStays
<1> QED BY <1>1, <1>2, <1>3, <1>4 DEF Next

\* ThreadPool and TaskProcessor implement TaskBoard: behind threads, queue and
\* mutexes a client sees a board on which each accepted task is handled once,
\* each reply is final, and Stop() ends with every accepted task answered.
THEOREM TaskBoardImplemented == Spec => ImplementsTaskBoard
<1>1. TaskInv /\ [Next]_vars => [Board!Next]_(Board!vars)
  BY StepImplements
<1> QED BY BoardStarts, <1>1, TaskInvariant, PTL DEF Spec, ImplementsTaskBoard, Board!Spec
=============================================================================
