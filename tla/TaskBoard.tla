----------------------------- MODULE TaskBoard -----------------------------
(***************************************************************************)
(* What the server promises to the clients of its background statements,   *)
(* with no threads, queue or mutexes in sight.                             *)
(*                                                                         *)
(* A statement that was taken in is put before the handler once, one that  *)
(* was turned away never.  A reply says what the handler gave, or why it   *)
(* was not asked, and is final, except that an error may give way to       *)
(* "cancelled".  The board closes when all it has taken in is answered.    *)
(***************************************************************************)
EXTENDS Sequences

CONSTANT Tasks

VARIABLES
    reply,    \* what check_task says of a task, "unknown" before it is submitted
    accepted, \* the tasks that were taken in
    refused,  \* the tasks that were turned away
    given,    \* what the handler gave for a task, one result per call
    phase     \* of the board: "open", "closing" or "closed"

vars == <<reply, accepted, refused, given, phase>>

Results == {"response", "exception"}

Init ==
    /\ reply = [t \in Tasks |-> "unknown"]
    /\ accepted = {}
    /\ refused = {}
    /\ given = [t \in Tasks |-> <<>>]
    /\ phase = "open"

Submit(t) ==
    /\ reply[t] = "unknown"
    /\ reply' = [reply EXCEPT ![t] = "pending"]
    /\ UNCHANGED <<accepted, refused, given, phase>>

Accept(t) ==
    /\ phase = "open"
    /\ reply[t] = "pending" /\ t \notin accepted
    /\ accepted' = accepted \union {t}
    /\ UNCHANGED <<reply, refused, given, phase>>

Refuse(t) ==
    /\ phase # "open"
    /\ reply[t] = "pending" /\ t \notin accepted \union refused
    /\ refused' = refused \union {t}
    /\ UNCHANGED <<reply, accepted, given, phase>>

\* The handler runs also for a task that was cancelled meanwhile.
Handle(t) ==
    /\ phase # "closed"
    /\ t \in accepted /\ given[t] = <<>>
    /\ \E result \in Results : given' = [given EXCEPT ![t] = <<result>>]
    /\ UNCHANGED <<reply, accepted, refused, phase>>

Answer(t) ==
    /\ reply[t] = "pending"
    /\ \/ t \in refused /\ reply' = [reply EXCEPT ![t] = "stopped"]
       \/ given[t] # <<>> /\ reply' = [reply EXCEPT ![t] = given[t][1]]
    /\ UNCHANGED <<accepted, refused, given, phase>>

Cancel(t) ==
    /\ t \in accepted \union refused
    /\ reply[t] # "response"
    /\ reply' = [reply EXCEPT ![t] = "cancelled"]
    /\ UNCHANGED <<accepted, refused, given, phase>>

Close ==
    /\ phase = "open"
    /\ phase' = "closing"
    /\ UNCHANGED <<reply, accepted, refused, given>>

\* Nothing that was taken in is still with the handler or without its reply.
Drain ==
    /\ phase = "closing"
    /\ \A t \in accepted : given[t] # <<>> /\ reply[t] # "pending"
    /\ phase' = "closed"
    /\ UNCHANGED <<reply, accepted, refused, given>>

Next ==
    \/ \E t \in Tasks : Submit(t) \/ Accept(t) \/ Refuse(t) \/ Handle(t) \/ Answer(t) \/ Cancel(t)
    \/ Close \/ Drain

Spec == Init /\ [][Next]_vars
=============================================================================
