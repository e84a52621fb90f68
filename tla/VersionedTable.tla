--------------------------- MODULE VersionedTable ---------------------------
(***************************************************************************)
(* What one table of QuasarDB promises to its clients, with no pages,      *)
(* indexes or journal in sight.                                            *)
(*                                                                         *)
(* A table is a set of rows named by record ids, with the id the next      *)
(* INSERT takes.  It remembers the version it had before each applied      *)
(* change together with the time of that change, and REVERT t goes back    *)
(* to the version before the first change stamped t or later.  A row is    *)
(* opaque here except for its indexed columns, whose values are unique.    *)
(***************************************************************************)
EXTENDS Naturals, Sequences

CONSTANTS Rows,     \* the rows a statement may write, functions on the columns
          Indexed,  \* the columns declared INDEXED, unique and never NULL
          Null,     \* the NULL value
          Absent,   \* stands for "no row has this id", not a row
          MaxId,    \* bound: record ids are 0 .. MaxId-1
          MaxClock  \* bound: the clock runs over 0 .. MaxClock

VARIABLES exists,   \* has the table been created
          version,  \* the current version: [rows, nextId]
          log,      \* the versions before each applied change, oldest first
          clock     \* milliseconds, never set back

vars == <<exists, version, log, clock>>

Ids == 0 .. MaxId - 1
Times == 0 .. MaxClock

Empty == [rows |-> [id \in Ids |-> Absent], nextId |-> 0]

\* No other row holds the value that row has in an indexed column.
Fits(rows, id, row) ==
    \A c \in Indexed :
        /\ row[c] # Null
        /\ \A other \in Ids \ {id} : rows[other] # Absent => rows[other][c] # row[c]

Init ==
    /\ exists = FALSE
    /\ version = Empty
    /\ log = <<>>
    /\ clock = 0

Create ==
    /\ ~exists
    /\ exists' = TRUE
    /\ UNCHANGED <<version, log, clock>>

Drop ==
    /\ exists
    /\ exists' = FALSE
    /\ version' = Empty
    /\ log' = <<>>
    /\ UNCHANGED clock

\* A change puts the version it replaces in the log, stamped with the time.
Change(new) ==
    /\ exists
    /\ version' = new
    /\ log' = Append(log, [time |-> clock, before |-> version])
    /\ UNCHANGED <<exists, clock>>

Insert(row) ==
    LET id == version.nextId IN
    /\ id \in Ids
    /\ Fits(version.rows, id, row)
    /\ Change([rows |-> [version.rows EXCEPT ![id] = row], nextId |-> id + 1])

Update(id, row) ==
    /\ version.rows[id] # Absent
    /\ Fits(version.rows, id, row)
    /\ Change([version EXCEPT !.rows[id] = row])

Delete(id) ==
    /\ version.rows[id] # Absent
    /\ Change([version EXCEPT !.rows[id] = Absent])

\* The first n changes are older than t and stay; the others are forgotten.
Revert(t) ==
    \E n \in 0 .. Len(log) :
        /\ exists
        /\ \A i \in 1 .. n : log[i].time < t
        /\ \A i \in n + 1 .. Len(log) : log[i].time >= t
        /\ version' = IF n = Len(log) THEN version ELSE log[n + 1].before
        /\ log' = SubSeq(log, 1, n)
        /\ UNCHANGED <<exists, clock>>

Tick == clock < MaxClock /\ clock' = clock + 1 /\ UNCHANGED <<exists, version, log>>

Next ==
    \/ Create
    \/ Drop
    \/ \E row \in Rows : Insert(row)
    \/ \E id \in Ids, row \in Rows : Update(id, row)
    \/ \E id \in Ids : Delete(id)
    \/ \E t \in Times : Revert(t)
    \/ Tick

Spec == Init /\ [][Next]_vars
=============================================================================
