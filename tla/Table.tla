------------------------------- MODULE Table -------------------------------
(***************************************************************************)
(* One table shard of a qdb-storage process: class Table with its Journal, *)
(* its pages, the id_to_addr tree and the IndexSet, and the part of the    *)
(* Application that opens, creates and drops it.                           *)
(*                                                                         *)
(* The process serves one request at a time, so a row operation is one     *)
(* action; REVERT is a loop over the journal and each turn is an action,   *)
(* because the journal position it moves lives in memory only while every  *)
(* other structure is written through to its file.                         *)
(*                                                                         *)
(* Addresses are <<page, slot>>, both counted from 1 (page 0 of the file   *)
(* holds the metadata; slots are 0-based in the code).  A B*+ tree is the  *)
(* multimap it implements: a key's addresses in leaf order, where insert   *)
(* goes in front and remove and update act on the first.                   *)
(***************************************************************************)
EXTENDS Naturals, Sequences, SequencesExt

CONSTANTS Columns, Values,
          Null,         \* the NULL value
          Absent,       \* "no row has this id", not a row
          Indexed,      \* columns declared INDEXED
          NotNull,      \* columns declared NOT_NULL
          Rows,         \* the well-typed rows that statements may carry
          PageCapacity, \* cells that fit in a page
          MaxId,        \* bound: record ids are 0 .. MaxId-1
          MaxClock,     \* bound: the clock runs over 0 .. MaxClock
          MaxCells      \* bound: cells ever written in one life of the table

ASSUME RowsAssumption ==
    /\ Rows \subseteq [Columns -> Values \union {Null}]
    /\ Absent \notin Rows
    /\ Null \notin Values

\* Column::Column makes every INDEXED column NOT_NULL.
ASSUME IndexedAssumption == Indexed \subseteq NotNull /\ NotNull \subseteq Columns

ASSUME BoundsAssumption ==
    /\ PageCapacity \in Nat \ {0}
    /\ MaxId \in Nat \ {0}
    /\ MaxClock \in Nat
    /\ MaxCells \in Nat

VARIABLES
    mode,        \* "none": no table, "open", "reverting", "down": process ended
    clock,       \* system_clock in milliseconds, never set back
    journal,     \* the .jnl file, a sequence of tracks
    pos,         \* Journal::_pos, as a number of tracks; in memory
    pages,       \* the data pages of the .data file
    idToAddr,    \* the id_to_addr tree
    indexes,     \* one tree per indexed column
    count,       \* Schema::RecordIdCount in memory
    schemaCount, \* the same number in the .schema file
    target,      \* the timestamp of the REVERT being run
    hist,        \* auxiliary: hist[i] is the version before journal[i]
    frozen       \* auxiliary: version and pos when the REVERT began

vars == <<mode, clock, journal, pos, pages, idToAddr, indexes, count,
          schemaCount, target, hist, frozen>>
files == <<pages, idToAddr, indexes>>

Ids == 0 .. MaxId - 1
Times == 0 .. MaxClock
Cell == [id : Ids, row : Rows, deleted : BOOLEAN]
Track == [time : Times, type : {"DELETE"}, id : Ids]
         \union [time : Times, type : {"UPDATE", "INSERT"}, id : Ids, row : Rows]
Version == [rows : [Ids -> Rows \union {Absent}], nextId : 0 .. MaxId]

NothingFrozen == [version |-> [rows |-> [id \in Ids |-> Absent], nextId |-> 0], pos |-> 0]
-----------------------------------------------------------------------------
(* B*+ trees *)

TreeInsert(tree, key, addr) == [tree EXCEPT ![key] = <<addr>> \o @]

TreeRemove(tree, key) == [tree EXCEPT ![key] = IF @ = <<>> THEN @ ELSE Tail(@)]

TreeUpdate(tree, key, addr) ==
    [tree EXCEPT ![key] = IF @ = <<>> THEN @ ELSE <<addr>> \o Tail(@)]

(* Pages: cells are appended and marked deleted, their room is not reused. *)

SlotsOf(pgs) == UNION {{p} \X DOMAIN pgs[p] : p \in DOMAIN pgs}
CellAt(pgs, addr) == pgs[addr[1]][addr[2]]
Exists(pgs, addr) == addr \in SlotsOf(pgs) /\ ~CellAt(pgs, addr).deleted

MarkDeleted(pgs, addr) == [pgs EXCEPT ![addr[1]][addr[2]].deleted = TRUE]

PagesThatFit(pgs) == {p \in DOMAIN pgs : Len(pgs[p]) < PageCapacity}

\* The preferred page if there is one and it has room, else the first page
\* with room, else a new page.
PageFor(pgs, prefer) ==
    IF prefer \in PagesThatFit(pgs) THEN prefer
    ELSE IF PagesThatFit(pgs) = {} THEN Len(pgs) + 1
    ELSE CHOOSE p \in PagesThatFit(pgs) : \A q \in PagesThatFit(pgs) : p <= q

NextSlot(pgs, p) == <<p, IF p \in DOMAIN pgs THEN Len(pgs[p]) + 1 ELSE 1>>

WriteCell(pgs, p, cell) ==
    IF p \in DOMAIN pgs THEN [pgs EXCEPT ![p] = Append(@, cell)]
    ELSE Append(pgs, <<cell>>)

\* IndexSet skips columns whose value is NULL.
IndexInsert(tree, value, addr) ==
    IF value = Null THEN tree ELSE TreeInsert(tree, value, addr)

IndexRemove(tree, value) == IF value = Null THEN tree ELSE TreeRemove(tree, value)

\* Mutant: forgets that a new version of the row is at a new address.
IndexUpdateByValue(tree, old, oldAddr, new, newAddr) ==
    IF old = new THEN tree ELSE IndexInsert(IndexRemove(tree, old), new, newAddr)

IndexUpdate(tree, old, oldAddr, new, newAddr) ==
    IF old = new /\ oldAddr = newAddr THEN tree
    ELSE IndexInsert(IndexRemove(tree, old), new, newAddr)
-----------------------------------------------------------------------------
(* What the table holds. *)

\* read_by_id takes the last address found for the id.
AddrOf(id) == Last(idToAddr[id])

StoredRows == [id \in Ids |-> IF idToAddr[id] = <<>> THEN Absent
                             ELSE CellAt(pages, AddrOf(id)).row]

Current == [rows |-> StoredRows, nextId |-> count]

\* records(): a scan of the ids below RecordIdCount.
ScannedAddrs == {AddrOf(id) : id \in {i \in Ids : i < count /\ idToAddr[i] # <<>>}}

\* find_by_index: the addresses of the tree whose record is there and agrees.
FoundAddrs(c, v) ==
    {a \in Range(indexes[c][v]) : Exists(pages, a) /\ CellAt(pages, a).row[c] = v}

\* The records the executor can hand to an UPDATE or a DELETE.
MatchingAddrs == ScannedAddrs \union UNION {FoundAddrs(c, v) : c \in Indexed, v \in Values}

HasDuplicate(c, v, self) ==
    \E a \in Range(indexes[c][v]) :
        a # self /\ Exists(pages, a) /\ CellAt(pages, a).row[c] = v

NoAddress == <<0, 0>>

\* Mutant: lets a second row have the value of an INDEXED column.
ValidNullOnly(row, self) == \A c \in NotNull : row[c] # Null

Valid(row, self) ==
    /\ \A c \in NotNull : row[c] # Null
    /\ \A c \in Indexed : ~HasDuplicate(c, row[c], self)

CellsUsed == FoldSeq(LAMBDA page, n : Len(page) + n, 0, pages)
-----------------------------------------------------------------------------
(* The three physical changes, shared by the statements and by REVERT. *)

PutRecord(id, row) ==
    LET p == PageFor(pages, 0)
        addr == NextSlot(pages, p)
    IN  /\ pages' = WriteCell(pages, p, [id |-> id, row |-> row, deleted |-> FALSE])
        /\ indexes' = [c \in Indexed |-> IndexInsert(indexes[c], row[c], addr)]
        /\ idToAddr' = TreeInsert(idToAddr, id, addr)

\* Mutant: leaves the id tree at the old version of the row.
ReplaceRecordNotId(addr, id, row) ==
    LET erased == MarkDeleted(pages, addr)
        p == PageFor(erased, addr[1])
        new == NextSlot(erased, p)
        old == CellAt(pages, addr).row
    IN  /\ pages' = WriteCell(erased, p, [id |-> id, row |-> row, deleted |-> FALSE])
        /\ indexes' = [c \in Indexed |-> IndexUpdate(indexes[c], old[c], addr, row[c], new)]
        /\ UNCHANGED idToAddr

ReplaceRecord(addr, id, row) ==
    LET erased == MarkDeleted(pages, addr)
        p == PageFor(erased, addr[1])
        new == NextSlot(erased, p)
        old == CellAt(pages, addr).row
    IN  /\ pages' = WriteCell(erased, p, [id |-> id, row |-> row, deleted |-> FALSE])
        /\ indexes' = [c \in Indexed |-> IndexUpdate(indexes[c], old[c], addr, row[c], new)]
        /\ idToAddr' = TreeUpdate(idToAddr, id, new)

EraseRecord(addr, id) ==
    /\ pages' = MarkDeleted(pages, addr)
    /\ indexes' = [c \in Indexed |-> IndexRemove(indexes[c], CellAt(pages, addr).row[c])]
    /\ idToAddr' = TreeRemove(idToAddr, id)

\* write_track drops the undone tracks that follow pos, then appends.
WriteTrack(track) ==
    /\ journal' = Append(SubSeq(journal, 1, pos), track)
    /\ pos' = pos + 1
    /\ hist' = Append(SubSeq(hist, 1, pos), Current)
-----------------------------------------------------------------------------
Init ==
    /\ mode = "none"
    /\ clock = 0
    /\ journal = <<>>
    /\ pos = 0
    /\ pages = <<>>
    /\ idToAddr = [id \in Ids |-> <<>>]
    /\ indexes = [c \in Indexed |-> [v \in Values |-> <<>>]]
    /\ count = 0
    /\ schemaCount = 0
    /\ target = 0
    /\ hist = <<>>
    /\ frozen = NothingFrozen

CreateTable ==
    /\ mode = "none"
    /\ mode' = "open"
    /\ UNCHANGED <<clock, journal, pos, files, count, schemaCount, target, hist, frozen>>

\* What drop() leaves of the data, index and schema files.
NoFiles ==
    /\ pages' = <<>>
    /\ idToAddr' = [id \in Ids |-> <<>>]
    /\ indexes' = [c \in Indexed |-> [v \in Values |-> <<>>]]
    /\ count' = 0
    /\ schemaCount' = 0

\* Mutant: the next table goes on at the old journal position.
DropTableKeepsPos ==
    /\ mode = "open"
    /\ mode' = "none"
    /\ NoFiles
    /\ journal' = <<>>
    /\ hist' = <<>>
    /\ UNCHANGED <<clock, pos, target, frozen>>

\* Mutant: the journal file survives the table.
DropTableKeepsJournal ==
    /\ mode = "open"
    /\ mode' = "none"
    /\ NoFiles
    /\ UNCHANGED <<clock, journal, pos, hist, target, frozen>>

\* drop() removes every file; the next table starts from empty ones.
DropTable ==
    /\ mode = "open"
    /\ mode' = "none"
    /\ NoFiles
    /\ journal' = <<>>
    /\ pos' = 0
    /\ hist' = <<>>
    /\ UNCHANGED <<clock, target, frozen>>

InsertRecord(row) ==
    /\ mode = "open"
    /\ Valid(row, NoAddress)
    /\ count < MaxId /\ CellsUsed < MaxCells
    /\ WriteTrack([time |-> clock, type |-> "DELETE", id |-> count])
    /\ count' = count + 1
    /\ schemaCount' = count'
    /\ PutRecord(count, row)
    /\ UNCHANGED <<mode, clock, target, frozen>>

\* Mutant: journals the row it writes, not the one it replaces.
UpdateRecordJournalsNew(addr, row) ==
    LET old == CellAt(pages, addr) IN
    /\ mode = "open"
    /\ Valid(row, addr)
    /\ CellsUsed < MaxCells
    /\ WriteTrack([time |-> clock, type |-> "UPDATE", id |-> old.id, row |-> row])
    /\ ReplaceRecord(addr, old.id, row)
    /\ UNCHANGED <<mode, clock, count, schemaCount, target, frozen>>

UpdateRecord(addr, row) ==
    LET old == CellAt(pages, addr) IN
    /\ mode = "open"
    /\ Valid(row, addr)
    /\ CellsUsed < MaxCells
    /\ WriteTrack([time |-> clock, type |-> "UPDATE", id |-> old.id, row |-> old.row])
    /\ ReplaceRecord(addr, old.id, row)
    /\ UNCHANGED <<mode, clock, count, schemaCount, target, frozen>>

DeleteRecord(addr) ==
    LET old == CellAt(pages, addr) IN
    /\ mode = "open"
    /\ WriteTrack([time |-> clock, type |-> "INSERT", id |-> old.id, row |-> old.row])
    /\ EraseRecord(addr, old.id)
    /\ UNCHANGED <<mode, clock, count, schemaCount, target, frozen>>

BeginRevert(t) ==
    /\ mode = "open"
    /\ CellsUsed + pos <= MaxCells
    /\ mode' = "reverting"
    /\ target' = t
    /\ frozen' = [version |-> Current, pos |-> pos]
    /\ UNCHANGED <<clock, journal, pos, files, count, schemaCount, hist>>

\* revert_last: the track before pos is to be undone.
LastTrack == journal[pos]
\* Mutant: spares the changes made at the timestamp itself.
HasTrackAfterTarget == pos > 0 /\ LastTrack.time > target

HasTrackToUndo == pos > 0 /\ LastTrack.time >= target

\* The assertions of Table::revert for the track about to be undone.
AssertionsHold ==
    /\ LastTrack.type \in {"UPDATE", "DELETE"} => Len(idToAddr[LastTrack.id]) = 1
    /\ LastTrack.type = "DELETE" => LastTrack.id + 1 = count

UndoTrack(type) ==
    /\ mode = "reverting"
    /\ HasTrackToUndo
    /\ LastTrack.type = type
    /\ AssertionsHold
    /\ pos' = pos - 1
    /\ UNCHANGED <<mode, clock, journal, schemaCount, target, hist, frozen>>

RevertDeletion ==
    /\ UndoTrack("INSERT")
    /\ PutRecord(LastTrack.id, LastTrack.row)
    /\ UNCHANGED count

RevertUpdate ==
    /\ UndoTrack("UPDATE")
    /\ ReplaceRecord(AddrOf(LastTrack.id), LastTrack.id, LastTrack.row)
    /\ UNCHANGED count

\* Mutant: does not give the record id back.
RevertInsertionKeepsId ==
    /\ UndoTrack("DELETE")
    /\ EraseRecord(AddrOf(LastTrack.id), LastTrack.id)
    /\ UNCHANGED count

RevertInsertion ==
    /\ UndoTrack("DELETE")
    /\ EraseRecord(AddrOf(LastTrack.id), LastTrack.id)
    /\ count' = count - 1

\* Mutant: does not leave the loop when no track is left.
EndRevertLoopsOn ==
    /\ mode = "reverting"
    /\ ~HasTrackToUndo
    /\ UNCHANGED vars

\* The journal keeps the undone tracks; only the schema is saved.
EndRevert ==
    /\ mode = "reverting"
    /\ ~HasTrackToUndo
    /\ mode' = "open"
    /\ schemaCount' = count
    /\ target' = 0
    /\ frozen' = NothingFrozen
    /\ UNCHANGED <<clock, journal, pos, files, count, hist>>

\* The destructors: Journal::close cuts the journal back to pos.
Close ==
    /\ mode = "open"
    /\ mode' = "down"
    /\ journal' = SubSeq(journal, 1, pos)
    /\ hist' = SubSeq(hist, 1, pos)
    /\ UNCHANGED <<clock, pos, files, count, schemaCount, target, frozen>>

\* SIGTERM between two requests: no destructor runs.
Kill ==
    /\ mode = "open"
    /\ mode' = "down"
    /\ UNCHANGED <<clock, journal, pos, files, count, schemaCount, target, hist, frozen>>

\* A kill that finds no undone track in the journal.
KillSettled == pos = Len(journal) /\ Kill

Reopen ==
    /\ mode = "down"
    /\ mode' = "open"
    /\ pos' = Len(journal)
    /\ count' = schemaCount
    /\ UNCHANGED <<clock, journal, files, schemaCount, target, hist, frozen>>

Tick ==
    /\ clock < MaxClock
    /\ clock' = clock + 1
    /\ UNCHANGED <<mode, journal, pos, files, count, schemaCount, target, hist, frozen>>

Statement ==
    \/ \E row \in Rows : InsertRecord(row)
    \/ \E addr \in MatchingAddrs, row \in Rows : UpdateRecord(addr, row)
    \/ \E addr \in MatchingAddrs : DeleteRecord(addr)
    \/ \E t \in Times : BeginRevert(t)

RevertLoop == RevertDeletion \/ RevertUpdate \/ RevertInsertion \/ EndRevert

Next ==
    \/ CreateTable
    \/ DropTable
    \/ Statement
    \/ RevertLoop
    \/ Close
    \/ KillSettled
    \/ Reopen
    \/ Tick

Spec == Init /\ [][Next]_vars

\* The loop of Table::revert runs in one thread and waits for nothing.
FairSpec == Spec /\ WF_vars(RevertLoop)

\* The process may be killed between any two requests, also when the last of
\* them was a REVERT, whose undone tracks are still in the journal.
KillSpec == Init /\ [][Next \/ Kill]_vars
-----------------------------------------------------------------------------
(* Properties *)

\* Every variable has its type.
TypeOK ==
    /\ mode \in {"none", "open", "reverting", "down"}
    /\ clock \in Times
    /\ journal \in Seq(Track)
    /\ pos \in 0 .. Len(journal)
    /\ pages \in Seq(Seq(Cell))
    /\ idToAddr \in [Ids -> Seq(Nat \X Nat)]
    /\ indexes \in [Indexed -> [Values -> Seq(Nat \X Nat)]]
    /\ count \in 0 .. MaxId
    /\ schemaCount \in 0 .. MaxId
    /\ target \in Times
    /\ hist \in Seq(Version)
    /\ frozen \in [version : Version, pos : Nat]

\* The id tree leads to exactly the cells that are not deleted, each under
\* its own id, and every id in use is below RecordIdCount, so that the scan of
\* records() meets every cell and never an empty optional.
IdsCoherent ==
    /\ \A a \in SlotsOf(pages) :
         Exists(pages, a) => idToAddr[CellAt(pages, a).id] = <<a>>
    /\ \A id \in Ids : idToAddr[id] # <<>> =>
         /\ id < count
         /\ \E a \in SlotsOf(pages) :
              Exists(pages, a) /\ CellAt(pages, a).id = id /\ idToAddr[id] = <<a>>

\* Each column index holds exactly the cells that are not deleted, each under
\* the value of its row; no address of an old version of a row survives an
\* UPDATE, a DELETE or a REVERT, and no value is there twice.
IndexesCoherent ==
    \A c \in Indexed :
        /\ \A a \in SlotsOf(pages) :
             Exists(pages, a) => indexes[c][CellAt(pages, a).row[c]] = <<a>>
        /\ \A v \in Values : indexes[c][v] # <<>> =>
             \E a \in SlotsOf(pages) :
                 Exists(pages, a) /\ CellAt(pages, a).row[c] = v /\ indexes[c][v] = <<a>>

\* The assertions in Table::revert hold whenever a track is undone.
RevertAssertionsHold == mode = "reverting" /\ HasTrackToUndo => AssertionsHold

\* Looking a value up in a column index gives the rows that a scan of the
\* table filtered on that value gives, so the executor may use either.
IndexAgreesWithScan ==
    \A c \in Indexed, v \in Values :
        FoundAddrs(c, v) = {a \in ScannedAddrs : CellAt(pages, a).row[c] = v}

\* What undoing the track tr does to a version.
Undo(tr, version) ==
    CASE tr.type = "INSERT" -> [version EXCEPT !.rows[tr.id] = tr.row]
      [] tr.type = "UPDATE" -> [version EXCEPT !.rows[tr.id] = tr.row]
      [] tr.type = "DELETE" -> [rows |-> [version.rows EXCEPT ![tr.id] = Absent],
                                nextId |-> version.nextId - 1]

\* The version that the i-th change made.
After(i) == IF i = pos THEN Current ELSE hist[i + 1]

\* Undoing the journal from its end gives back every version the table had,
\* one after the other, whatever was changed, undone and changed again since.
JournalReplaysHistory ==
    /\ Len(hist) = Len(journal)
    /\ \A i \in 1 .. pos : hist[i] = Undo(journal[i], After(i))

\* A REVERT leaves only changes older than its timestamp: docs/GRAMMAR.md, "Restores the
\* specified table to its state at the given timestamp".
RevertReachesItsTime ==
    [][EndRevert => \A i \in 1 .. pos : journal[i].time < target]_vars

\* A REVERT that has begun ends.
RevertEnds == mode = "reverting" ~> mode = "open"

\* What a search finds for each key of a tree.
Contents(tree) == [key \in {k \in DOMAIN tree : tree[k] # <<>>} |-> tree[key]]

\* Each search finds one address.
Found == [1 .. 1 -> Nat \X Nat]

IdTree == INSTANCE Dictionary WITH Keys <- Ids, Values <- Found, entries <- Contents(idToAddr)
Index(c) == INSTANCE Dictionary
    WITH Keys <- Values, Values <- Found, entries <- Contents(indexes[c])

\* The calls for a row that is added, that replaces another, that goes.
CallsInsert(id, row) ==
    IdTree!Insert(id) /\ \A c \in Indexed : Index(c)!Insert(row[c])

CallsUpdate(id, old, row) ==
    IdTree!Update(id) /\ \A c \in Indexed : Index(c)!Move(old[c], row[c])

CallsRemove(id, row) ==
    IdTree!Remove(id) /\ \A c \in Indexed : Index(c)!Remove(row[c])

\* Which change makes which calls; every other step leaves the trees alone.
TreesCalled ==
    /\ \A row \in Rows : InsertRecord(row) => CallsInsert(count, row)
    /\ \A addr \in MatchingAddrs, row \in Rows : UpdateRecord(addr, row) =>
         CallsUpdate(CellAt(pages, addr).id, CellAt(pages, addr).row, row)
    /\ \A addr \in MatchingAddrs : DeleteRecord(addr) =>
         CallsRemove(CellAt(pages, addr).id, CellAt(pages, addr).row)
    /\ RevertDeletion => CallsInsert(LastTrack.id, LastTrack.row)
    /\ RevertUpdate => CallsUpdate(LastTrack.id, StoredRows[LastTrack.id], LastTrack.row)
    /\ RevertInsertion => CallsRemove(LastTrack.id, StoredRows[LastTrack.id])
    /\ DropTable => IdTree!Discard /\ \A c \in Indexed : Index(c)!Discard
    /\ \/ DropTable \/ RevertDeletion \/ RevertUpdate \/ RevertInsertion
       \/ Statement /\ mode' = "open"
       \/ UNCHANGED <<idToAddr, indexes>>

\* The trees are called as their code needs it, over all statements and reverts.
\* A tree is a multimap that removes and updates any entry of a key, and does
\* nothing or throws for a key it does not have; that is right for keys that are
\* there once.  So a row is added under an id and with values of the INDEXED
\* columns that no tree has, and replaced or taken away under keys that they all
\* have; and what a search for any other key finds stays as it was.
TreesAreDictionaries ==
    /\ IdTree!Init /\ \A c \in Indexed : Index(c)!Init
    /\ [][TreesCalled]_vars

\* The table implements VersionedTable.  A REVERT takes effect when it ends:
\* until then the abstract table is the one frozen when it began.
Reverting == mode = "reverting"
AppliedVersion == IF Reverting THEN frozen.version ELSE Current
AppliedLog ==
    [i \in 1 .. (IF Reverting THEN frozen.pos ELSE pos) |->
        [time |-> journal[i].time, before |-> hist[i]]]

Abstract == INSTANCE VersionedTable WITH
    exists <- mode # "none", version <- AppliedVersion, log <- AppliedLog

ImplementsVersionedTable == Abstract!Spec
-----------------------------------------------------------------------------
(* The inductive invariant of Spec *)

\* No other row has the value of row in an INDEXED column.
KeysFree(rows, id, row) ==
    \A c \in Indexed, other \in Ids \ {id} :
        rows[other] # Absent => rows[other][c] # row[c]

WellFormed(version) ==
    \A id \in Ids : version.rows[id] # Absent =>
        /\ id < version.nextId
        /\ \A c \in Indexed : version.rows[id][c] # Null
        /\ KeysFree(version.rows, id, version.rows[id])

\* The track can be undone in a table that holds the version.
Undoable(tr, version) ==
    /\ (version.rows[tr.id] = Absent) = (tr.type = "INSERT")
    /\ tr.type = "INSERT" => tr.id < version.nextId
    /\ tr.type = "DELETE" => tr.id + 1 = version.nextId

HistoryUndoable ==
    /\ WellFormed(Current)
    /\ \A i \in 1 .. pos : WellFormed(hist[i]) /\ Undoable(journal[i], After(i))

TimesOrdered ==
    \A i \in DOMAIN journal :
        /\ journal[i].time <= clock
        /\ \A j \in 1 .. i : journal[j].time <= journal[i].time

\* A REVERT under way has come from the frozen version to the one before the
\* last track it has undone.
RevertUnderWay == mode = "reverting" =>
    /\ pos <= frozen.pos /\ frozen.pos <= Len(journal)
    /\ \A i \in pos + 1 .. frozen.pos : journal[i].time >= target
    /\ Current = IF pos = frozen.pos THEN frozen.version ELSE hist[pos + 1]

FilesSettled ==
    /\ mode # "reverting" => schemaCount = count
    /\ mode = "down" => pos = Len(journal)

IInv ==
    /\ TypeOK
    /\ IdsCoherent
    /\ IndexesCoherent
    /\ JournalReplaysHistory
    /\ HistoryUndoable
    /\ TimesOrdered
    /\ RevertUnderWay
    /\ FilesSettled
=============================================================================
