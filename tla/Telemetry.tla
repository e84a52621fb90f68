------------------------------ MODULE Telemetry ------------------------------
(***************************************************************************)
(* The server's Telemetry: client threads count their requests in atomic   *)
(* counters, a thread moves the counters of the last second into rolling   *)
(* windows, and the telemetry request reads both.                          *)
(*                                                                         *)
(* There is no lock.  Each atomic access that another thread may come      *)
(* between is an action; what the output thread does with values only it   *)
(* and the readers see goes with the access before it.                     *)
(***************************************************************************)
EXTENDS Naturals, FiniteSets

CONSTANTS Requests,       \* the requests that are recorded, each by one thread
          Failed,         \* those that failed
          Duration,       \* the milliseconds each took
          RateWindow,     \* seconds that the request rate looks back (600)
          DurationWindow, \* seconds that the average duration looks back (10)
          ErrorWindow,    \* seconds that the error rate looks back (60)
          MaxSeconds      \* bound: seconds that pass

ASSUME TelemetryAssumption ==
    /\ IsFiniteSet(Requests)
    /\ Failed \subseteq Requests
    /\ Duration \in [Requests -> Nat]
    /\ {RateWindow, DurationWindow, ErrorWindow, MaxSeconds} \subseteq Nat \ {0}

VARIABLES
    totals,     \* total_requests_ and total_errors_
    current,    \* current_second_requests_, _errors_ and _duration_ms_
    currentRps, \* current_rps_
    lastTotal,  \* last_total_requests_
    windows,    \* the five rolling windows
    recorder,   \* how far RecordRequest is
    ticker,     \* where OutputLoop is
    rps,        \* its local variable
    seconds,    \* how often it has ticked
    running,    \* running_, or "unset" while the constructor has not set it
    forgotten   \* auxiliary: what the windows have overwritten

vars == <<totals, current, currentRps, lastTotal, windows, recorder, ticker, rps,
          seconds, running, forgotten>>
tickerVars == <<currentRps, lastTotal, windows, ticker, rps, seconds, forgotten>>

Names == {"rps", "durations", "counts", "errors", "requests"}
SizeOf(name) == CASE name = "rps" -> RateWindow
                  [] name \in {"durations", "counts"} -> DurationWindow
                  [] name \in {"errors", "requests"} -> ErrorWindow

\* RollingWindow: a ring of slots and the index of the next one to write.
EmptyWindow(n) == [slots |-> [i \in 0 .. n - 1 |-> 0], index |-> 0]

\* Mutant: runs over the end of the ring.
WindowTickOn(window, value) ==
    [slots |-> [window.slots EXCEPT ![window.index] = value], index |-> window.index + 1]

WindowTick(window, value) ==
    [slots |-> [window.slots EXCEPT ![window.index] = value],
     index |-> (window.index + 1) % Cardinality(DOMAIN window.slots)]

\* A sum, counted unit by unit.
Units(f, S) == UNION {{x} \X (1 .. f[x]) : x \in S}
SumOf(f, S) == Cardinality(Units(f, S))

WindowSum(window) == SumOf(window.slots, DOMAIN window.slots)

Init ==
    /\ totals = [requests |-> 0, errors |-> 0]
    /\ current = [requests |-> 0, errors |-> 0, duration |-> 0]
    /\ currentRps = 0
    /\ lastTotal = 0
    /\ windows = [name \in Names |-> EmptyWindow(SizeOf(name))]
    /\ recorder = [r \in Requests |-> "idle"]
    /\ ticker = "starting"
    /\ rps = 0
    /\ seconds = 0
    /\ running = "unset"
    /\ forgotten = [name \in Names |-> 0]
-----------------------------------------------------------------------------
(* The constructor starts the thread before it initialises running_, which  *)
(* is declared after it.                                                     *)

FinishConstruction ==
    /\ running = "unset"
    /\ running' = "yes"
    /\ UNCHANGED <<totals, current, recorder, tickerVars>>

\* The thread may read running_ before it has a value.
EnterLoop ==
    /\ ticker = "starting"
    /\ \/ running # "no" /\ ticker' = "sleeping"
       \/ running # "yes" /\ ticker' = "gone"
    /\ UNCHANGED <<totals, current, currentRps, lastTotal, windows, recorder, rps, seconds,
                   running, forgotten>>

(* RecordRequest *)

Advance(r, from, to) ==
    /\ recorder[r] = from
    /\ recorder' = [recorder EXCEPT ![r] = to]

CountTotal(r) ==
    /\ running = "yes"
    /\ Advance(r, "idle", "total")
    /\ totals' = [totals EXCEPT !.requests = @ + 1]
    /\ UNCHANGED <<current, running, tickerVars>>

CountCurrent(r) ==
    /\ Advance(r, "total", "current")
    /\ current' = [current EXCEPT !.requests = @ + 1]
    /\ UNCHANGED <<totals, running, tickerVars>>

AddDuration(r) ==
    /\ Advance(r, "current", IF r \in Failed THEN "duration" ELSE "done")
    /\ current' = [current EXCEPT !.duration = @ + Duration[r]]
    /\ UNCHANGED <<totals, running, tickerVars>>

CountError(r) ==
    /\ Advance(r, "duration", "error")
    /\ totals' = [totals EXCEPT !.errors = @ + 1]
    /\ UNCHANGED <<current, running, tickerVars>>

CountCurrentError(r) ==
    /\ Advance(r, "error", "done")
    /\ current' = [current EXCEPT !.errors = @ + 1]
    /\ UNCHANGED <<totals, running, tickerVars>>

(* OutputLoop *)

\* The window gets the value; what it overwrites is forgotten.
Put(name, value) ==
    /\ windows' = [windows EXCEPT ![name] = WindowTick(@, value)]
    /\ forgotten' = [forgotten EXCEPT ![name] = @ + windows[name].slots[windows[name].index]]

\* Mutant: does not remember the total it has read.
LoadTotalOnly ==
    /\ ticker = "sleeping" /\ seconds < MaxSeconds
    /\ rps' = totals.requests - lastTotal
    /\ UNCHANGED lastTotal
    /\ currentRps' = rps'
    /\ Put("rps", rps')
    /\ seconds' = seconds + 1
    /\ ticker' = "durations"
    /\ UNCHANGED <<totals, current, recorder, running>>

LoadTotal ==
    /\ ticker = "sleeping" /\ seconds < MaxSeconds
    /\ rps' = totals.requests - lastTotal
    /\ lastTotal' = totals.requests
    /\ currentRps' = rps'
    /\ Put("rps", rps')
    /\ seconds' = seconds + 1
    /\ ticker' = "durations"
    /\ UNCHANGED <<totals, current, recorder, running>>

\* Moves a counter of the current second into its window.
Drain(name, counter, next) ==
    /\ ticker = name
    /\ Put(name, current[counter])
    /\ current' = [current EXCEPT ![counter] = 0]
    /\ ticker' = next
    /\ UNCHANGED <<totals, currentRps, lastTotal, recorder, rps, seconds, running>>

DrainDurations == Drain("durations", "duration", "counts")
DrainCounts == Drain("counts", "requests", "errors")
DrainErrors == Drain("errors", "errors", "requests")

\* The last window gets rps, not the count that was drained; then the thread
\* looks at running_ and sleeps.
TickRequests ==
    /\ ticker = "requests"
    /\ Put("requests", rps)
    /\ ticker' = IF running = "no" THEN "gone" ELSE "sleeping"
    /\ UNCHANGED <<totals, current, currentRps, lastTotal, recorder, rps, seconds, running>>

(* The destructor *)
StopRunning ==
    /\ running = "yes"
    /\ \A r \in Requests : recorder[r] \in {"idle", "done"}
    /\ running' = "no"
    /\ UNCHANGED <<totals, current, recorder, tickerVars>>

RecordRequest(r) == CountTotal(r) \/ CountCurrent(r) \/ AddDuration(r)
                    \/ CountError(r) \/ CountCurrentError(r)
OutputLoop == EnterLoop \/ LoadTotal \/ DrainDurations \/ DrainCounts
              \/ DrainErrors \/ TickRequests

Next ==
    \/ FinishConstruction \/ StopRunning
    \/ \E r \in Requests : RecordRequest(r)
    \/ OutputLoop

Spec == Init /\ [][Next]_vars
-----------------------------------------------------------------------------
(* Properties *)

\* Every variable has its type, and the unsigned difference of OutputLoop
\* never wraps: a second has no more requests than there are.
TypeOK ==
    /\ totals \in [requests : 0 .. Cardinality(Requests), errors : Nat]
    /\ current \in [requests : Nat, errors : Nat, duration : Nat]
    /\ currentRps \in 0 .. Cardinality(Requests) /\ rps \in 0 .. Cardinality(Requests)
    /\ lastTotal \in 0 .. totals.requests
    /\ \A name \in Names :
         /\ windows[name].slots \in [0 .. SizeOf(name) - 1 -> Nat]
         /\ windows[name].index \in 0 .. SizeOf(name) - 1
    /\ recorder \in [Requests -> {"idle", "total", "current", "duration", "error", "done"}]
    /\ ticker \in {"starting", "sleeping", "durations", "counts", "errors", "requests", "gone"}
    /\ seconds \in 0 .. MaxSeconds
    /\ running \in {"unset", "yes", "no"}
    /\ forgotten \in [Names -> Nat]

Past(steps) == {r \in Requests : recorder[r] \in steps}
SumDurations(rs) == SumOf(Duration, rs)

\* What a window holds, what it has forgotten and what the current second has
\* add up to what was recorded: a request is in one second, none is lost
\* between two and none is in both, however the counting threads and the
\* output thread interleave.  A window forgets a second only when it is full of
\* later ones.
SecondsAddUp ==
    LET kept(name) == WindowSum(windows[name]) + forgotten[name]
        counted == Past({"current", "duration", "error", "done"})
        timed == Past({"duration", "error", "done"})
    IN  /\ kept("counts") + current.requests = Cardinality(counted)
        /\ kept("durations") + current.duration = SumDurations(timed)
        /\ kept("errors") + current.errors = Cardinality(Failed \cap Past({"done"}))
        /\ kept("rps") = lastTotal
        /\ ticker \in {"starting", "sleeping", "gone"} => kept("requests") = lastTotal
        /\ \A name \in Names : seconds <= SizeOf(name) => forgotten[name] = 0

=============================================================================
