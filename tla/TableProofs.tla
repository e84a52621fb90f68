---------------------------- MODULE TableProofs ----------------------------
(***************************************************************************)
(* Theorems about Table: its inductive invariant, the safety properties    *)
(* that follow from it, and that every step of Table is a step of          *)
(* VersionedTable or a stutter.  The first part has the lemmas about the   *)
(* files: what the three physical changes of a record do to the pages, to  *)
(* the id tree and to the column indexes, and that each keeps them         *)
(* coherent and changes the stored rows as it should.                      *)
(***************************************************************************)
EXTENDS Table, SequenceTheorems, WellFoundedInduction, TLAPS

PageSeq == Seq(Seq(Cell))
-----------------------------------------------------------------------------
(* Pages and slots *)

\* A slot is a page number and a number below the length of that page.
LEMMA SlotsMembership ==
    ASSUME NEW pgs \in PageSeq, NEW addr
    PROVE  addr \in SlotsOf(pgs) <=>
             \E p \in 1 .. Len(pgs) : \E s \in 1 .. Len(pgs[p]) : addr = <<p, s>>
<1>1. DOMAIN pgs = 1 .. Len(pgs)
  BY DEF PageSeq
<1>2. \A p \in 1 .. Len(pgs) : pgs[p] \in Seq(Cell) /\ DOMAIN pgs[p] = 1 .. Len(pgs[p])
  BY DEF PageSeq
<1> QED
  BY <1>1, <1>2 DEF SlotsOf

\* A nonempty set of naturals has a least element.
LEMMA LeastElement ==
    ASSUME NEW S \in SUBSET Nat, S # {}
    PROVE  \E x \in S : \A y \in S : x <= y
<1>1. PICK x \in S : \A y \in S : ~(<<y, x>> \in OpToRel(<, Nat))
  BY WFMin, NatLessThanWellFounded
<1>2. \A y \in S : ~(y < x)
  BY <1>1 DEF OpToRel
<1> QED
  BY <1>2

\* find_enough_free_page gives a page of the file or the one after the last.
LEMMA PageForInRange ==
    ASSUME NEW pgs \in PageSeq, NEW prefer
    PROVE  PageFor(pgs, prefer) \in 1 .. Len(pgs) + 1
<1>1. PagesThatFit(pgs) \subseteq 1 .. Len(pgs) /\ Len(pgs) \in Nat
  BY DEF PageSeq, PagesThatFit
<1>2. CASE prefer \in PagesThatFit(pgs)
  BY <1>1, <1>2 DEF PageFor
<1>3. CASE prefer \notin PagesThatFit(pgs) /\ PagesThatFit(pgs) = {}
  BY <1>1, <1>3 DEF PageFor
<1>4. CASE prefer \notin PagesThatFit(pgs) /\ PagesThatFit(pgs) # {}
  <2>1. \E p \in PagesThatFit(pgs) : \A q \in PagesThatFit(pgs) : p <= q
    BY <1>1, <1>4, LeastElement
  <2>2. PageFor(pgs, prefer) \in PagesThatFit(pgs)
    BY <1>4, <2>1 DEF PageFor
  <2> QED
    BY <1>1, <2>2
<1> QED
  BY <1>2, <1>3, <1>4

\* Writing a record adds one slot and leaves every other cell as it was.
LEMMA WriteCellEffect ==
    ASSUME NEW pgs \in PageSeq, NEW prefer, NEW cell \in Cell,
           NEW p, p = PageFor(pgs, prefer),
           NEW new, new = WriteCell(pgs, p, cell),
           NEW slot, slot = NextSlot(pgs, p)
    PROVE  /\ new \in PageSeq
           /\ slot \in Nat \X Nat
           /\ slot \notin SlotsOf(pgs)
           /\ SlotsOf(new) = SlotsOf(pgs) \union {slot}
           /\ CellAt(new, slot) = cell
           /\ \A a \in SlotsOf(pgs) : CellAt(new, a) = CellAt(pgs, a)
<1>1. p \in 1 .. Len(pgs) + 1 /\ Len(pgs) \in Nat
  BY PageForInRange DEF PageSeq
<1>2. DOMAIN pgs = 1 .. Len(pgs)
  BY DEF PageSeq
<1>3. CASE p \in 1 .. Len(pgs)
  <2>1. pgs[p] \in Seq(Cell) /\ Len(pgs[p]) \in Nat
    BY <1>3 DEF PageSeq
  <2>2. new = [pgs EXCEPT ![p] = Append(@, cell)] /\ slot = <<p, Len(pgs[p]) + 1>>
    BY <1>2, <1>3 DEF WriteCell, NextSlot
  <2>3. Append(pgs[p], cell) \in Seq(Cell)
        /\ Len(Append(pgs[p], cell)) = Len(pgs[p]) + 1
        /\ Append(pgs[p], cell)[Len(pgs[p]) + 1] = cell
        /\ \A s \in 1 .. Len(pgs[p]) : Append(pgs[p], cell)[s] = pgs[p][s]
    BY <2>1, AppendProperties
  <2>4. new \in PageSeq /\ Len(new) = Len(pgs)
    BY <1>2, <1>3, <2>2, <2>3, ExceptSeq DEF PageSeq
  <2>5. /\ new[p] = Append(pgs[p], cell)
        /\ \A q \in 1 .. Len(pgs) : q # p => new[q] = pgs[q]
    BY <1>2, <1>3, <2>2
  <2>6. slot \notin SlotsOf(pgs)
    BY <2>1, <2>2, SlotsMembership
  <2>7. SlotsOf(new) = SlotsOf(pgs) \union {slot}
    <3>1. ASSUME NEW a PROVE a \in SlotsOf(new) <=> a \in SlotsOf(pgs) \union {slot}
      <4>1. a \in SlotsOf(new) <=>
              \E q \in 1 .. Len(pgs) : \E s \in 1 .. Len(new[q]) : a = <<q, s>>
        BY <2>4, SlotsMembership
      <4>2. a \in SlotsOf(pgs) <=>
              \E q \in 1 .. Len(pgs) : \E s \in 1 .. Len(pgs[q]) : a = <<q, s>>
        BY SlotsMembership
      <4>3. 1 .. Len(new[p]) = (1 .. Len(pgs[p])) \union {Len(pgs[p]) + 1}
        BY <2>1, <2>3, <2>5
      <4> QED
        BY <1>3, <2>2, <2>5, <4>1, <4>2, <4>3
    <3> QED
      BY <3>1
  <2>8. CellAt(new, slot) = cell
    BY <2>2, <2>3, <2>5 DEF CellAt
  <2>9. ASSUME NEW a \in SlotsOf(pgs) PROVE CellAt(new, a) = CellAt(pgs, a)
    <3>1. PICK q \in 1 .. Len(pgs), s \in Nat : s \in 1 .. Len(pgs[q]) /\ a = <<q, s>>
      BY <2>9, SlotsMembership
    <3> QED
      BY <2>3, <2>5, <3>1 DEF CellAt
  <2>10. slot \in Nat \X Nat
    BY <1>1, <2>1, <2>2
  <2> QED
    BY <2>4, <2>6, <2>7, <2>8, <2>9, <2>10
<1>4. CASE p = Len(pgs) + 1
  <2>1. new = Append(pgs, <<cell>>) /\ slot = <<p, 1>>
    BY <1>1, <1>2, <1>4 DEF WriteCell, NextSlot
  <2>2. <<cell>> \in Seq(Cell) /\ Len(<<cell>>) = 1 /\ <<cell>>[1] = cell
    OBVIOUS
  <2>3. /\ new \in PageSeq /\ Len(new) = Len(pgs) + 1
        /\ new[p] = <<cell>>
        /\ \A q \in 1 .. Len(pgs) : new[q] = pgs[q]
    <3>1. /\ Append(pgs, <<cell>>) \in PageSeq
          /\ Len(Append(pgs, <<cell>>)) = Len(pgs) + 1
          /\ \A q \in 1 .. Len(pgs) : Append(pgs, <<cell>>)[q] = pgs[q]
          /\ Append(pgs, <<cell>>)[Len(pgs) + 1] = <<cell>>
      BY <2>2, AppendProperties DEF PageSeq
    <3> QED
      BY <1>4, <2>1, <3>1
  <2>4. slot \notin SlotsOf(pgs)
    BY <1>1, <1>4, <2>1, SlotsMembership
  <2>5. SlotsOf(new) = SlotsOf(pgs) \union {slot}
    <3>1. ASSUME NEW a PROVE a \in SlotsOf(new) <=> a \in SlotsOf(pgs) \union {slot}
      <4>1. a \in SlotsOf(new) <=>
              \E q \in 1 .. Len(pgs) + 1 : \E s \in 1 .. Len(new[q]) : a = <<q, s>>
        BY <2>3, SlotsMembership
      <4>2. a \in SlotsOf(pgs) <=>
              \E q \in 1 .. Len(pgs) : \E s \in 1 .. Len(pgs[q]) : a = <<q, s>>
        BY SlotsMembership
      <4>3. \A q \in 1 .. Len(pgs) + 1 : q \in 1 .. Len(pgs) \/ q = p
        BY <1>1, <1>4
      <4>4. \A s : s \in 1 .. Len(new[p]) <=> s = 1
        BY <2>2, <2>3
      <4>5. p \in 1 .. Len(pgs) + 1 /\ \A q \in 1 .. Len(pgs) : q \in 1 .. Len(pgs) + 1
        BY <1>1
      <4> QED
        BY <2>1, <2>3, <4>1, <4>2, <4>3, <4>4, <4>5
    <3> QED
      BY <3>1
  <2>6. CellAt(new, slot) = cell
    <3>1. slot[1] = p /\ slot[2] = 1
      BY <2>1
    <3>2. new[p][1] = cell
      BY <2>3
    <3> QED
      BY <3>1, <3>2 DEF CellAt
  <2>7. ASSUME NEW a \in SlotsOf(pgs) PROVE CellAt(new, a) = CellAt(pgs, a)
    <3>1. PICK q \in 1 .. Len(pgs), s \in Nat : s \in 1 .. Len(pgs[q]) /\ a = <<q, s>>
      BY <2>7, SlotsMembership
    <3> QED
      BY <2>3, <3>1 DEF CellAt
  <2>8. slot \in Nat \X Nat
    BY <1>1, <2>1
  <2> QED
    BY <2>3, <2>4, <2>5, <2>6, <2>7, <2>8
<1> QED
  BY <1>1, <1>3, <1>4

\* Deleting a record changes nothing but the mark of its cell.
LEMMA MarkDeletedEffect ==
    ASSUME NEW pgs \in PageSeq, NEW addr \in SlotsOf(pgs),
           NEW new, new = MarkDeleted(pgs, addr)
    PROVE  /\ new \in PageSeq
           /\ SlotsOf(new) = SlotsOf(pgs)
           /\ CellAt(new, addr) = [CellAt(pgs, addr) EXCEPT !.deleted = TRUE]
           /\ \A a \in SlotsOf(pgs) \ {addr} : CellAt(new, a) = CellAt(pgs, a)
<1>1. PICK p \in 1 .. Len(pgs), s \in Nat : s \in 1 .. Len(pgs[p]) /\ addr = <<p, s>>
  BY SlotsMembership
<1>2. /\ pgs[p] \in Seq(Cell) /\ DOMAIN pgs = 1 .. Len(pgs)
      /\ DOMAIN pgs[p] = 1 .. Len(pgs[p])
  BY DEF PageSeq
<1> DEFINE page == [pgs[p] EXCEPT ![s] = [@ EXCEPT !.deleted = TRUE]]
<1>3. new = [pgs EXCEPT ![p] = page]
  BY <1>1 DEF MarkDeleted
<1>4. pgs[p][s] \in Cell /\ [pgs[p][s] EXCEPT !.deleted = TRUE] \in Cell
  <2>1. pgs[p][s] \in Cell
    BY <1>1, <1>2, ElementOfSeq
  <2> QED
    BY <2>1 DEF Cell
<1>5. page \in Seq(Cell) /\ Len(page) = Len(pgs[p])
  <2> DEFINE marked == [pgs[p][s] EXCEPT !.deleted = TRUE]
  <2>1. page = [pgs[p] EXCEPT ![s] = marked]
    BY <1>1, <1>2
  <2> HIDE DEF marked
  <2>2. marked \in Cell
    BY <1>4 DEF marked
  <2>3. [pgs[p] EXCEPT ![s] = marked] \in Seq(Cell)
        /\ Len([pgs[p] EXCEPT ![s] = marked]) = Len(pgs[p])
    BY <1>1, <1>2, <2>2, ExceptSeq
  <2> QED
    BY <2>1, <2>3
<1> HIDE DEF page
<1>6. new \in PageSeq /\ Len(new) = Len(pgs)
  BY <1>2, <1>3, <1>5, ExceptSeq DEF PageSeq
<1>7. new[p] = page /\ \A q \in 1 .. Len(pgs) : q # p => new[q] = pgs[q]
  BY <1>2, <1>3
<1>8. /\ page[s] = [pgs[p][s] EXCEPT !.deleted = TRUE]
      /\ \A r \in 1 .. Len(pgs[p]) : r # s => page[r] = pgs[p][r]
  BY <1>1, <1>2 DEF page
<1>9. SlotsOf(new) = SlotsOf(pgs)
  <2>1. \A q \in 1 .. Len(pgs) : Len(new[q]) = Len(pgs[q])
    BY <1>5, <1>7
  <2>2. ASSUME NEW a PROVE a \in SlotsOf(new) <=> a \in SlotsOf(pgs)
    <3>1. a \in SlotsOf(new) <=>
            \E q \in 1 .. Len(pgs) : \E r \in 1 .. Len(new[q]) : a = <<q, r>>
      BY <1>6, SlotsMembership
    <3>2. a \in SlotsOf(pgs) <=>
            \E q \in 1 .. Len(pgs) : \E r \in 1 .. Len(pgs[q]) : a = <<q, r>>
      BY SlotsMembership
    <3> QED
      BY <2>1, <3>1, <3>2
  <2> QED
    BY <2>2
<1>10. CellAt(new, addr) = [CellAt(pgs, addr) EXCEPT !.deleted = TRUE]
  BY <1>1, <1>7, <1>8 DEF CellAt
<1>11. ASSUME NEW a \in SlotsOf(pgs) \ {addr} PROVE CellAt(new, a) = CellAt(pgs, a)
  <2>1. PICK q \in 1 .. Len(pgs), r \in Nat : r \in 1 .. Len(pgs[q]) /\ a = <<q, r>>
    BY <1>11, SlotsMembership
  <2> QED
    BY <1>1, <1>7, <1>8, <1>11, <2>1 DEF CellAt
<1> QED
  BY <1>6, <1>9, <1>10, <1>11
-----------------------------------------------------------------------------
(* Trees in which a key has at most one address *)

Addr == Nat \X Nat

\* On a key with no address insert gives it one; on a key with one address
\* remove and update act on it.
LEMMA TreeSteps ==
    ASSUME NEW K, NEW tree \in [K -> Seq(Addr)], NEW key \in K, NEW new \in Addr
    PROVE  /\ tree[key] = <<>> =>
                TreeInsert(tree, key, new) = [tree EXCEPT ![key] = <<new>>]
           /\ \A old : tree[key] = <<old>> =>
                /\ TreeRemove(tree, key) = [tree EXCEPT ![key] = <<>>]
                /\ TreeUpdate(tree, key, new) = [tree EXCEPT ![key] = <<new>>]
<1>1. <<new>> \o <<>> = <<new>>
  OBVIOUS
<1>2. \A old : Tail(<<old>>) = <<>> /\ <<old>> # <<>>
  OBVIOUS
<1> QED
  BY <1>1, <1>2 DEF TreeInsert, TreeRemove, TreeUpdate
-----------------------------------------------------------------------------
(* The stored rows *)

StoreTypes ==
    /\ pages \in PageSeq
    /\ idToAddr \in [Ids -> Seq(Addr)]
    /\ indexes \in [Indexed -> [Values -> Seq(Addr)]]
    /\ count \in Nat

KeysNotNull ==
    \A id \in Ids, c \in Indexed : StoredRows[id] # Absent => StoredRows[id][c] # Null

StoreInv == StoreTypes /\ IdsCoherent /\ IndexesCoherent /\ KeysNotNull

\* A slot holds a cell.
LEMMA CellTyped ==
    ASSUME NEW pgs \in PageSeq, NEW addr \in SlotsOf(pgs)
    PROVE  CellAt(pgs, addr) \in Cell /\ addr \in Addr
<1>1. PICK p \in 1 .. Len(pgs), s \in Nat : s \in 1 .. Len(pgs[p]) /\ addr = <<p, s>>
  BY SlotsMembership
<1>2. pgs[p] \in Seq(Cell)
  BY ElementOfSeq DEF PageSeq
<1>3. pgs[p][s] \in Cell
  BY <1>1, <1>2, ElementOfSeq
<1>4. Len(pgs) \in Nat
  BY DEF PageSeq
<1> QED
  BY <1>1, <1>3, <1>4 DEF CellAt, Addr

\* A row of the table is in an indexed column a value, never NULL.
LEMMA KeyTyped ==
    ASSUME NEW row \in Rows, NEW c \in Indexed, row[c] # Null
    PROVE  row[c] \in Values
BY RowsAssumption, IndexedAssumption

\* The cell of a live address holds the row stored under its id.
LEMMA LiveCell ==
    ASSUME StoreTypes, IdsCoherent, NEW a \in SlotsOf(pages), Exists(pages, a)
    PROVE  LET id == CellAt(pages, a).id IN
           /\ CellAt(pages, a) \in Cell /\ a \in Addr /\ id \in Ids
           /\ idToAddr[id] = <<a>> /\ AddrOf(id) = a
           /\ StoredRows[id] = CellAt(pages, a).row
           /\ StoredRows[id] \in Rows /\ StoredRows[id] # Absent
<1>1. CellAt(pages, a) \in Cell /\ a \in Addr
  BY CellTyped DEF StoreTypes
<1>2. idToAddr[CellAt(pages, a).id] = <<a>>
  BY DEF IdsCoherent
<1>3. Last(<<a>>) = a
  BY DEF Last
<1> QED
  BY <1>1, <1>2, <1>3, RowsAssumption DEF Cell, AddrOf, StoredRows

\* A stored row is in the live cell its id leads to.
LEMMA StoredRow ==
    ASSUME StoreTypes, IdsCoherent, NEW id \in Ids
    PROVE  /\ (StoredRows[id] = Absent) = (idToAddr[id] = <<>>)
           /\ StoredRows[id] # Absent =>
                /\ AddrOf(id) \in SlotsOf(pages) /\ Exists(pages, AddrOf(id))
                /\ idToAddr[id] = <<AddrOf(id)>>
                /\ CellAt(pages, AddrOf(id)).id = id
                /\ CellAt(pages, AddrOf(id)).row = StoredRows[id]
                /\ StoredRows[id] \in Rows
                /\ id < count
<1>1. CASE idToAddr[id] = <<>>
  BY <1>1 DEF StoredRows
<1>2. CASE idToAddr[id] # <<>>
  <2>1. PICK a \in SlotsOf(pages) :
          Exists(pages, a) /\ CellAt(pages, a).id = id /\ idToAddr[id] = <<a>>
    BY <1>2 DEF IdsCoherent
  <2>2. id < count
    BY <1>2 DEF IdsCoherent
  <2> QED
    BY <1>2, <2>1, <2>2, LiveCell
<1> QED
  BY <1>1, <1>2

\* An index entry belongs to the one row that has its value.
LEMMA IndexEntry ==
    ASSUME StoreInv, NEW id \in Ids, NEW row \in Rows, KeysFree(StoredRows, id, row),
           NEW c \in Indexed, row[c] # Null
    PROVE  \/ indexes[c][row[c]] = <<>>
           \/ /\ StoredRows[id] # Absent /\ StoredRows[id][c] = row[c]
              /\ indexes[c][row[c]] = <<AddrOf(id)>>
<1>1. row[c] \in Values
  BY KeyTyped
<1>2. CASE indexes[c][row[c]] # <<>>
  <2>1. PICK a \in SlotsOf(pages) : /\ Exists(pages, a) /\ CellAt(pages, a).row[c] = row[c]
                                   /\ indexes[c][row[c]] = <<a>>
    BY <1>1, <1>2 DEF StoreInv, IndexesCoherent
  <2> DEFINE other == CellAt(pages, a).id
  <2>2. /\ other \in Ids /\ StoredRows[other] # Absent /\ StoredRows[other][c] = row[c]
        /\ AddrOf(other) = a
    BY <2>1, LiveCell DEF StoreInv
  <2>3. other = id
    BY <2>2 DEF KeysFree
  <2> QED
    BY <2>1, <2>2, <2>3
<1> QED
  BY <1>2
-----------------------------------------------------------------------------
(* The three physical changes *)

\* What writing a record does to the files: the new address is live, the old
\* one of the id is not, and the trees follow.
RecordWritten(id, row, new) ==
    /\ pages' \in PageSeq
    /\ idToAddr' \in [Ids -> Seq(Addr)]
    /\ indexes' \in [Indexed -> [Values -> Seq(Addr)]]
    /\ ~Exists(pages, new) /\ Exists(pages', new)
    /\ CellAt(pages', new).id = id /\ CellAt(pages', new).row = row
    /\ \A a : a # new =>
         (Exists(pages', a) <=> Exists(pages, a) /\ CellAt(pages, a).id # id)
    /\ \A a : a # new /\ Exists(pages', a) => CellAt(pages', a) = CellAt(pages, a)
    /\ \A i \in Ids : idToAddr'[i] = IF i = id THEN <<new>> ELSE idToAddr[i]
    /\ \A c \in Indexed : \A v \in Values :
         indexes'[c][v] = IF v = row[c] THEN <<new>>
                          ELSE IF StoredRows[id] # Absent /\ StoredRows[id][c] = v
                          THEN <<>> ELSE indexes[c][v]

\* The same when a record is erased.
RecordErased(id) ==
    /\ pages' \in PageSeq
    /\ idToAddr' \in [Ids -> Seq(Addr)]
    /\ indexes' \in [Indexed -> [Values -> Seq(Addr)]]
    /\ \A a : Exists(pages', a) <=> Exists(pages, a) /\ CellAt(pages, a).id # id
    /\ \A a : Exists(pages', a) => CellAt(pages', a) = CellAt(pages, a)
    /\ \A i \in Ids : idToAddr'[i] = IF i = id THEN <<>> ELSE idToAddr[i]
    /\ \A c \in Indexed : \A v \in Values :
         indexes'[c][v] = IF StoredRows[id] # Absent /\ StoredRows[id][c] = v
                          THEN <<>> ELSE indexes[c][v]

\* A live address is in the tree of each indexed column under its value.
LEMMA LiveIndexed ==
    ASSUME StoreInv, NEW a, Exists(pages, a), NEW c \in Indexed
    PROVE  /\ CellAt(pages, a).row[c] \in Values
           /\ indexes[c][CellAt(pages, a).row[c]] = <<a>>
<1>1. a \in SlotsOf(pages)
  BY DEF Exists
<1>2. /\ CellAt(pages, a).id \in Ids
      /\ StoredRows[CellAt(pages, a).id] = CellAt(pages, a).row
      /\ CellAt(pages, a).row \in Rows /\ CellAt(pages, a).row # Absent
  BY <1>1, LiveCell DEF StoreInv
<1>3. CellAt(pages, a).row[c] # Null
  BY <1>2 DEF StoreInv, KeysNotNull
<1>4. CellAt(pages, a).row[c] \in Values
  BY <1>2, <1>3, KeyTyped
<1>5. indexes[c][CellAt(pages, a).row[c]] = <<a>>
  BY <1>1 DEF StoreInv, IndexesCoherent
<1> QED
  BY <1>4, <1>5

\* Writing a record keeps the files coherent and stores its row under its id.
LEMMA WrittenCoherent ==
    ASSUME StoreInv, NEW id \in Ids, NEW row \in Rows, NEW new,
           KeysFree(StoredRows, id, row), \A c \in Indexed : row[c] # Null,
           count' \in Nat, count <= count', id < count',
           RecordWritten(id, row, new)
    PROVE  /\ IdsCoherent' /\ IndexesCoherent'
           /\ StoredRows' = [StoredRows EXCEPT ![id] = row]
<1>1. \A a : Exists(pages', a) /\ a # new =>
        /\ Exists(pages, a) /\ a \in SlotsOf(pages)
        /\ CellAt(pages', a) = CellAt(pages, a)
        /\ CellAt(pages, a).id # id
  <2>1. \A a : Exists(pages, a) => a \in SlotsOf(pages)
    BY DEF Exists
  <2> QED
    BY <2>1 DEF RecordWritten
<1>2. \A a : Exists(pages', a) => a \in SlotsOf(pages')
  BY DEF Exists
<1>3. /\ Exists(pages', new) /\ CellAt(pages', new).id = id
      /\ CellAt(pages', new).row = row /\ ~Exists(pages, new)
  BY DEF RecordWritten
<1>4. \A a : Exists(pages, a) /\ CellAt(pages, a).id # id =>
        Exists(pages', a) /\ CellAt(pages', a) = CellAt(pages, a)
  BY <1>3 DEF RecordWritten
<1>5. \A i \in Ids : idToAddr'[i] = IF i = id THEN <<new>> ELSE idToAddr[i]
  BY DEF RecordWritten
<1>6. IdsCoherent'
  <2>1. ASSUME NEW a \in SlotsOf(pages'), Exists(pages', a)
        PROVE  idToAddr'[CellAt(pages', a).id] = <<a>>
    <3>1. CASE a = new
      BY <1>3, <1>5, <3>1
    <3>2. CASE a # new
      <4>1. /\ CellAt(pages', a) = CellAt(pages, a) /\ CellAt(pages, a).id # id
            /\ CellAt(pages, a).id \in Ids
            /\ idToAddr[CellAt(pages, a).id] = <<a>>
        BY <1>1, <2>1, <3>2, LiveCell DEF StoreInv
      <4> QED
        BY <1>5, <4>1
    <3> QED
      BY <3>1, <3>2
  <2>2. ASSUME NEW i \in Ids, idToAddr'[i] # <<>>
        PROVE  /\ i < count'
               /\ \E a \in SlotsOf(pages') :
                    Exists(pages', a) /\ CellAt(pages', a).id = i /\ idToAddr'[i] = <<a>>
    <3>1. CASE i = id
      BY <1>2, <1>3, <1>5, <3>1
    <3>2. CASE i # id
      <4>1. idToAddr'[i] = idToAddr[i]
        BY <1>5, <3>2
      <4>2. PICK a \in SlotsOf(pages) :
              Exists(pages, a) /\ CellAt(pages, a).id = i /\ idToAddr[i] = <<a>>
        BY <2>2, <4>1 DEF StoreInv, IdsCoherent
      <4>3. i < count
        BY <2>2, <4>1 DEF StoreInv, IdsCoherent
      <4>4. i < count'
        BY <4>3 DEF StoreInv, StoreTypes, Ids
      <4> QED
        BY <1>2, <1>4, <3>2, <4>1, <4>2, <4>4
    <3> QED
      BY <3>1, <3>2
  <2> QED
    BY <2>1, <2>2 DEF IdsCoherent
<1>7. IndexesCoherent'
  <2>1. \A c \in Indexed : \A v \in Values :
          indexes'[c][v] = IF v = row[c] THEN <<new>>
                           ELSE IF StoredRows[id] # Absent /\ StoredRows[id][c] = v
                           THEN <<>> ELSE indexes[c][v]
    BY DEF RecordWritten
  <2>2. ASSUME NEW c \in Indexed, NEW a \in SlotsOf(pages'), Exists(pages', a)
        PROVE  indexes'[c][CellAt(pages', a).row[c]] = <<a>>
    <3>1. CASE a = new
      BY <1>3, <2>1, <3>1, KeyTyped
    <3>2. CASE a # new
      <4> DEFINE v == CellAt(pages, a).row[c]
                 other == CellAt(pages, a).id
      <4>1. /\ CellAt(pages', a) = CellAt(pages, a) /\ other # id
            /\ Exists(pages, a) /\ a \in SlotsOf(pages)
        BY <1>1, <2>2, <3>2
      <4>2. v \in Values /\ indexes[c][v] = <<a>>
        BY <4>1, LiveIndexed
      <4>3. /\ other \in Ids /\ StoredRows[other] # Absent
            /\ StoredRows[other] = CellAt(pages, a).row
        BY <4>1, LiveCell DEF StoreInv
      <4>4. v # row[c]
        BY <4>1, <4>3 DEF KeysFree
      <4>5. ~(StoredRows[id] # Absent /\ StoredRows[id][c] = v)
        <5>1. SUFFICES ASSUME StoredRows[id] # Absent, StoredRows[id][c] = v PROVE FALSE
          OBVIOUS
        <5>2. /\ Exists(pages, AddrOf(id)) /\ CellAt(pages, AddrOf(id)).id = id
              /\ CellAt(pages, AddrOf(id)).row[c] = v
          BY <5>1, StoredRow DEF StoreInv
        <5>3. indexes[c][v] = <<AddrOf(id)>>
          BY <5>2, LiveIndexed
        <5>4. AddrOf(id) = a
          BY <4>2, <5>3
        <5> QED
          BY <4>1, <5>2, <5>4
      <4> QED
        BY <2>1, <4>1, <4>2, <4>4, <4>5
    <3> QED
      BY <3>1, <3>2
  <2>3. ASSUME NEW c \in Indexed, NEW v \in Values, indexes'[c][v] # <<>>
        PROVE  \E a \in SlotsOf(pages') :
                 Exists(pages', a) /\ CellAt(pages', a).row[c] = v /\ indexes'[c][v] = <<a>>
    <3>1. CASE v = row[c]
      BY <1>2, <1>3, <2>1, <3>1
    <3>2. CASE v # row[c]
      <4>1. /\ indexes'[c][v] = indexes[c][v]
            /\ ~(StoredRows[id] # Absent /\ StoredRows[id][c] = v)
        BY <2>1, <2>3, <3>2
      <4>2. PICK a \in SlotsOf(pages) :
              Exists(pages, a) /\ CellAt(pages, a).row[c] = v /\ indexes[c][v] = <<a>>
        BY <2>3, <4>1 DEF StoreInv, IndexesCoherent
      <4>3. CellAt(pages, a).id # id
        BY <4>1, <4>2, LiveCell DEF StoreInv
      <4> QED
        BY <1>2, <1>4, <4>1, <4>2, <4>3
    <3> QED
      BY <3>1, <3>2
  <2> QED
    BY <2>2, <2>3 DEF IndexesCoherent
<1>8. StoredRows' = [StoredRows EXCEPT ![id] = row]
  <2>1. StoredRows'[id] = row
    <3>1. idToAddr'[id] = <<new>> /\ Last(<<new>>) = new /\ <<new>> # <<>>
      BY <1>5 DEF Last
    <3> QED
      BY <1>3, <3>1 DEF StoredRows, AddrOf
  <2>2. ASSUME NEW i \in Ids, i # id PROVE StoredRows'[i] = StoredRows[i]
    <3>1. idToAddr'[i] = idToAddr[i]
      BY <1>5, <2>2
    <3>2. CASE idToAddr[i] = <<>>
      BY <3>1, <3>2 DEF StoredRows
    <3>3. CASE idToAddr[i] # <<>>
      <4>1. Exists(pages, AddrOf(i)) /\ CellAt(pages, AddrOf(i)).id = i
        BY <3>3, StoredRow DEF StoreInv
      <4>2. CellAt(pages', AddrOf(i)) = CellAt(pages, AddrOf(i)) /\ AddrOf(i)' = AddrOf(i)
        BY <1>4, <2>2, <3>1, <4>1 DEF AddrOf
      <4> QED
        BY <3>1, <3>3, <4>2 DEF StoredRows
    <3> QED
      BY <3>2, <3>3
  <2> QED
    BY <2>1, <2>2 DEF StoredRows
<1> QED
  BY <1>6, <1>7, <1>8

\* Erasing a record keeps the files coherent and takes its row away.
LEMMA ErasedCoherent ==
    ASSUME StoreInv, NEW id \in Ids, RecordErased(id), count' \in Nat,
           \A i \in Ids \ {id} : StoredRows[i] # Absent => i < count'
    PROVE  /\ IdsCoherent' /\ IndexesCoherent'
           /\ StoredRows' = [StoredRows EXCEPT ![id] = Absent]
<1>1. \A a : Exists(pages', a) => /\ Exists(pages, a) /\ a \in SlotsOf(pages)
                                  /\ CellAt(pages', a) = CellAt(pages, a)
                                  /\ CellAt(pages, a).id # id
  <2>1. \A a : Exists(pages, a) => a \in SlotsOf(pages)
    BY DEF Exists
  <2> QED
    BY <2>1 DEF RecordErased
<1>2. \A a : Exists(pages', a) => a \in SlotsOf(pages')
  BY DEF Exists
<1>3. \A a : Exists(pages, a) /\ CellAt(pages, a).id # id =>
        Exists(pages', a) /\ CellAt(pages', a) = CellAt(pages, a)
  BY DEF RecordErased
<1>4. \A i \in Ids : idToAddr'[i] = IF i = id THEN <<>> ELSE idToAddr[i]
  BY DEF RecordErased
<1>5. \A c \in Indexed : \A v \in Values :
        indexes'[c][v] = IF StoredRows[id] # Absent /\ StoredRows[id][c] = v
                         THEN <<>> ELSE indexes[c][v]
  BY DEF RecordErased
<1>6. IdsCoherent'
  <2>1. ASSUME NEW a \in SlotsOf(pages'), Exists(pages', a)
        PROVE  idToAddr'[CellAt(pages', a).id] = <<a>>
    <3>1. /\ CellAt(pages', a) = CellAt(pages, a) /\ CellAt(pages, a).id # id
          /\ CellAt(pages, a).id \in Ids
          /\ idToAddr[CellAt(pages, a).id] = <<a>>
      BY <1>1, <2>1, LiveCell DEF StoreInv
    <3> QED
      BY <1>4, <3>1
  <2>2. ASSUME NEW i \in Ids, idToAddr'[i] # <<>>
        PROVE  /\ i < count'
               /\ \E a \in SlotsOf(pages') :
                    Exists(pages', a) /\ CellAt(pages', a).id = i /\ idToAddr'[i] = <<a>>
    <3>1. i # id /\ idToAddr'[i] = idToAddr[i]
      BY <1>4, <2>2
    <3>2. PICK a \in SlotsOf(pages) :
            Exists(pages, a) /\ CellAt(pages, a).id = i /\ idToAddr[i] = <<a>>
      BY <2>2, <3>1 DEF StoreInv, IdsCoherent
    <3>3. StoredRows[i] # Absent
      BY <2>2, <3>1, StoredRow DEF StoreInv
    <3> QED
      BY <1>2, <1>3, <3>1, <3>2, <3>3
  <2> QED
    BY <2>1, <2>2 DEF IdsCoherent
<1>7. IndexesCoherent'
  <2>1. ASSUME NEW c \in Indexed, NEW a \in SlotsOf(pages'), Exists(pages', a)
        PROVE  indexes'[c][CellAt(pages', a).row[c]] = <<a>>
    <3> DEFINE v == CellAt(pages, a).row[c]
    <3>1. /\ CellAt(pages', a) = CellAt(pages, a) /\ CellAt(pages, a).id # id
          /\ Exists(pages, a)
      BY <1>1, <2>1
    <3>2. v \in Values /\ indexes[c][v] = <<a>>
      BY <3>1, LiveIndexed
    <3>3. ~(StoredRows[id] # Absent /\ StoredRows[id][c] = v)
      <4>1. SUFFICES ASSUME StoredRows[id] # Absent, StoredRows[id][c] = v PROVE FALSE
        OBVIOUS
      <4>2. /\ Exists(pages, AddrOf(id)) /\ CellAt(pages, AddrOf(id)).id = id
            /\ CellAt(pages, AddrOf(id)).row[c] = v
        BY <4>1, StoredRow DEF StoreInv
      <4>3. indexes[c][v] = <<AddrOf(id)>>
        BY <4>2, LiveIndexed
      <4>4. AddrOf(id) = a
        BY <3>2, <4>3
      <4> QED
        BY <3>1, <4>2, <4>4
    <3> QED
      BY <1>5, <3>1, <3>2, <3>3
  <2>2. ASSUME NEW c \in Indexed, NEW v \in Values, indexes'[c][v] # <<>>
        PROVE  \E a \in SlotsOf(pages') :
                 Exists(pages', a) /\ CellAt(pages', a).row[c] = v /\ indexes'[c][v] = <<a>>
    <3>1. /\ indexes'[c][v] = indexes[c][v]
          /\ ~(StoredRows[id] # Absent /\ StoredRows[id][c] = v)
      BY <1>5, <2>2
    <3>2. PICK a \in SlotsOf(pages) :
            Exists(pages, a) /\ CellAt(pages, a).row[c] = v /\ indexes[c][v] = <<a>>
      BY <2>2, <3>1 DEF StoreInv, IndexesCoherent
    <3>3. CellAt(pages, a).id # id
      BY <3>1, <3>2, LiveCell DEF StoreInv
    <3> QED
      BY <1>2, <1>3, <3>1, <3>2, <3>3
  <2> QED
    BY <2>1, <2>2 DEF IndexesCoherent
<1>8. StoredRows' = [StoredRows EXCEPT ![id] = Absent]
  <2>1. StoredRows'[id] = Absent
    BY <1>4 DEF StoredRows
  <2>2. ASSUME NEW i \in Ids, i # id PROVE StoredRows'[i] = StoredRows[i]
    <3>1. idToAddr'[i] = idToAddr[i]
      BY <1>4, <2>2
    <3>2. CASE idToAddr[i] = <<>>
      BY <3>1, <3>2 DEF StoredRows
    <3>3. CASE idToAddr[i] # <<>>
      <4>1. Exists(pages, AddrOf(i)) /\ CellAt(pages, AddrOf(i)).id = i
        BY <3>3, StoredRow DEF StoreInv
      <4>2. CellAt(pages', AddrOf(i)) = CellAt(pages, AddrOf(i)) /\ AddrOf(i)' = AddrOf(i)
        BY <1>3, <2>2, <3>1, <4>1 DEF AddrOf
      <4> QED
        BY <3>1, <3>3, <4>2 DEF StoredRows
    <3> QED
      BY <3>2, <3>3
  <2> QED
    BY <2>1, <2>2 DEF StoredRows
<1> QED
  BY <1>6, <1>7, <1>8

\* PutRecord writes a record under an id that had none.
LEMMA PutRecordWrites ==
    ASSUME StoreInv, NEW id \in Ids, NEW row \in Rows, PutRecord(id, row),
           StoredRows[id] = Absent, KeysFree(StoredRows, id, row),
           \A c \in Indexed : row[c] # Null
    PROVE  \E new : RecordWritten(id, row, new)
<1> DEFINE p == PageFor(pages, 0)
           new == NextSlot(pages, p)
           cell == [id |-> id, row |-> row, deleted |-> FALSE]
<1>1. cell \in Cell
  BY DEF Cell
<1>2. /\ pages' = WriteCell(pages, p, cell)
      /\ indexes' = [c \in Indexed |-> IndexInsert(indexes[c], row[c], new)]
      /\ idToAddr' = TreeInsert(idToAddr, id, new)
  BY DEF PutRecord
<1>3. pages \in PageSeq
  BY DEF StoreInv, StoreTypes
<1> HIDE DEF p, new, cell
<1>4. /\ pages' \in PageSeq
      /\ new \in Nat \X Nat
      /\ new \notin SlotsOf(pages)
      /\ SlotsOf(pages') = SlotsOf(pages) \union {new}
      /\ CellAt(pages', new) = cell
      /\ \A a \in SlotsOf(pages) : CellAt(pages', a) = CellAt(pages, a)
  BY <1>1, <1>2, <1>3, WriteCellEffect DEF p, new
<1>5. cell.id = id /\ cell.row = row /\ cell.deleted = FALSE
  BY DEF cell
<1>6. new \in Addr /\ <<new>> \in Seq(Addr)
  BY <1>4 DEF Addr
<1>7. idToAddr' = [idToAddr EXCEPT ![id] = <<new>>]
  <2>1. idToAddr[id] = <<>>
    BY StoredRow DEF StoreInv
  <2>2. idToAddr \in [Ids -> Seq(Addr)]
    BY DEF StoreInv, StoreTypes
  <2> QED
    BY <1>2, <1>6, <2>1, <2>2, TreeSteps
<1>8. ASSUME NEW c \in Indexed
      PROVE  row[c] \in Values /\ indexes'[c] = [indexes[c] EXCEPT ![row[c]] = <<new>>]
  <2> DEFINE tree == indexes[c]
             key == row[c]
  <2>1. indexes'[c] = TreeInsert(tree, key, new)
    BY <1>2 DEF IndexInsert
  <2>2. key \in Values
    BY KeyTyped
  <2>3. tree \in [Values -> Seq(Addr)]
    BY DEF StoreInv, StoreTypes
  <2>4. tree[key] = <<>>
    BY IndexEntry
  <2>5. TreeInsert(tree, key, new) = [tree EXCEPT ![key] = <<new>>]
    <3> HIDE DEF tree, key
    <3> QED
      BY <1>6, <2>2, <2>3, <2>4, TreeSteps
  <2> QED
    BY <2>1, <2>2, <2>5
<1>9. idToAddr' \in [Ids -> Seq(Addr)]
  BY <1>6, <1>7 DEF StoreInv, StoreTypes
<1>10. indexes' \in [Indexed -> [Values -> Seq(Addr)]]
  <2>1. ASSUME NEW c \in Indexed PROVE indexes'[c] \in [Values -> Seq(Addr)]
    <3>1. indexes[c] \in [Values -> Seq(Addr)]
      BY DEF StoreInv, StoreTypes
    <3> QED
      BY <1>6, <1>8, <3>1
  <2>2. indexes' = [c \in Indexed |-> indexes'[c]]
    BY <1>2
  <2> HIDE DEF StoreInv
  <2> QED
    BY <2>1, <2>2
<1>11. \A i \in Ids : idToAddr'[i] = IF i = id THEN <<new>> ELSE idToAddr[i]
  BY <1>7 DEF StoreInv, StoreTypes
<1>12. \A c \in Indexed : \A v \in Values :
         indexes'[c][v] = IF v = row[c] THEN <<new>> ELSE indexes[c][v]
  <2>1. ASSUME NEW c \in Indexed, NEW v \in Values
        PROVE  indexes'[c][v] = IF v = row[c] THEN <<new>> ELSE indexes[c][v]
    <3>1. indexes[c] \in [Values -> Seq(Addr)]
      BY DEF StoreInv, StoreTypes
    <3> QED
      BY <1>8, <3>1
  <2> QED
    BY <2>1
<1>13. ~Exists(pages, new) /\ Exists(pages', new)
  BY <1>4, <1>5 DEF Exists
<1>14. \A a : a # new =>
         (Exists(pages', a) <=> Exists(pages, a) /\ CellAt(pages, a).id # id)
  <2>1. \A a : Exists(pages, a) => CellAt(pages, a).id # id
    BY LiveCell DEF StoreInv, Exists
  <2> QED
    BY <1>4, <2>1 DEF Exists
<1>15. \A a : a # new /\ Exists(pages', a) => CellAt(pages', a) = CellAt(pages, a)
  BY <1>4 DEF Exists
<1>16. CellAt(pages', new).id = id /\ CellAt(pages', new).row = row
  BY <1>4, <1>5
<1>17. RecordWritten(id, row, new)
  BY <1>4, <1>9, <1>10, <1>11, <1>12, <1>13, <1>14, <1>15, <1>16 DEF RecordWritten
<1> QED
  BY <1>17

\* ReplaceRecord writes a new version of a record that is there.
LEMMA ReplaceRecordWrites ==
    ASSUME StoreInv, NEW id \in Ids, StoredRows[id] # Absent, NEW row \in Rows,
           ReplaceRecord(AddrOf(id), id, row), KeysFree(StoredRows, id, row),
           \A c \in Indexed : row[c] # Null
    PROVE  \E new : RecordWritten(id, row, new)
<1> DEFINE addr == AddrOf(id)
           erased == MarkDeleted(pages, addr)
           p == PageFor(erased, addr[1])
           new == NextSlot(erased, p)
           old == CellAt(pages, addr).row
           cell == [id |-> id, row |-> row, deleted |-> FALSE]
<1>1. cell \in Cell
  BY DEF Cell
<1>2. /\ pages' = WriteCell(erased, p, cell)
      /\ indexes' = [c \in Indexed |-> IndexUpdate(indexes[c], old[c], addr, row[c], new)]
      /\ idToAddr' = TreeUpdate(idToAddr, id, new)
  BY DEF ReplaceRecord
<1>3. pages \in PageSeq
  BY DEF StoreInv, StoreTypes
<1>4. /\ addr \in SlotsOf(pages) /\ Exists(pages, addr) /\ idToAddr[id] = <<addr>>
      /\ CellAt(pages, addr).id = id /\ old = StoredRows[id] /\ old \in Rows
  BY StoredRow DEF StoreInv
<1> HIDE DEF addr, erased, p, new, old, cell
<1>5. /\ erased \in PageSeq
      /\ SlotsOf(erased) = SlotsOf(pages)
      /\ CellAt(erased, addr) = [CellAt(pages, addr) EXCEPT !.deleted = TRUE]
      /\ \A a \in SlotsOf(pages) \ {addr} : CellAt(erased, a) = CellAt(pages, a)
  BY <1>3, <1>4, MarkDeletedEffect DEF erased
<1>6. /\ pages' \in PageSeq
      /\ new \in Nat \X Nat
      /\ new \notin SlotsOf(erased)
      /\ SlotsOf(pages') = SlotsOf(erased) \union {new}
      /\ CellAt(pages', new) = cell
      /\ \A a \in SlotsOf(erased) : CellAt(pages', a) = CellAt(erased, a)
  BY <1>1, <1>2, <1>5, WriteCellEffect DEF p, new
<1>7. cell.id = id /\ cell.row = row /\ cell.deleted = FALSE
  BY DEF cell
<1>8. new \in Addr /\ <<new>> \in Seq(Addr)
  BY <1>6 DEF Addr
<1>9. new # addr /\ new \notin SlotsOf(pages)
  BY <1>4, <1>5, <1>6
<1>10. idToAddr' = [idToAddr EXCEPT ![id] = <<new>>]
  <2>1. idToAddr \in [Ids -> Seq(Addr)]
    BY DEF StoreInv, StoreTypes
  <2>2. \A oldAddr : idToAddr[id] = <<oldAddr>> =>
          TreeUpdate(idToAddr, id, new) = [idToAddr EXCEPT ![id] = <<new>>]
    BY <1>8, <2>1, TreeSteps
  <2>3. TreeUpdate(idToAddr, id, new) = [idToAddr EXCEPT ![id] = <<new>>]
    BY <1>4, <2>2
  <2> QED
    BY <1>2, <2>3
<1>11. ASSUME NEW c \in Indexed
       PROVE  /\ indexes'[c] \in [Values -> Seq(Addr)]
              /\ \A v \in Values :
                   indexes'[c][v] = IF v = row[c] THEN <<new>>
                                    ELSE IF v = old[c] THEN <<>> ELSE indexes[c][v]
  <2> DEFINE tree == indexes[c]
             key == row[c]
             oldKey == old[c]
             rest == TreeRemove(tree, oldKey)
  <2>1. key # Null /\ key \in Values
    BY KeyTyped
  <2>2. oldKey # Null /\ oldKey \in Values
    BY <1>4, KeyTyped DEF StoreInv, KeysNotNull
  <2>3. indexes'[c] = TreeInsert(rest, key, new)
    <3>1. indexes'[c] = IndexUpdate(tree, oldKey, addr, key, new)
      BY <1>2
    <3> HIDE DEF tree, key, oldKey, rest
    <3> QED
      BY <1>9, <2>1, <2>2, <3>1 DEF IndexUpdate, IndexInsert, IndexRemove, rest
  <2>4. tree \in [Values -> Seq(Addr)]
    BY DEF StoreInv, StoreTypes
  <2>5. tree[oldKey] = <<addr>>
    BY <1>4, LiveIndexed DEF old
  <2>6. key # oldKey => tree[key] = <<>>
    <3>1. \/ indexes[c][row[c]] = <<>>
          \/ /\ StoredRows[id] # Absent /\ StoredRows[id][c] = row[c]
             /\ indexes[c][row[c]] = <<AddrOf(id)>>
      BY IndexEntry
    <3> QED
      BY <1>4, <3>1
  <2> HIDE DEF tree, key, oldKey
  <2>7. rest = [tree EXCEPT ![oldKey] = <<>>]
    BY <1>8, <2>2, <2>4, <2>5, TreeSteps
  <2>8. <<>> \in Seq(Addr)
    OBVIOUS
  <2> HIDE DEF rest
  <2>9. rest \in [Values -> Seq(Addr)] /\ rest[key] = <<>>
    BY <2>1, <2>4, <2>6, <2>7, <2>8
  <2>10. TreeInsert(rest, key, new) = [rest EXCEPT ![key] = <<new>>]
    BY <1>8, <2>1, <2>9, TreeSteps
  <2>11. /\ TreeInsert(rest, key, new) \in [Values -> Seq(Addr)]
         /\ \A v \in Values : TreeInsert(rest, key, new)[v] =
              IF v = key THEN <<new>> ELSE IF v = oldKey THEN <<>> ELSE tree[v]
    BY <1>8, <2>4, <2>7, <2>9, <2>10
  <2> QED
    BY <2>3, <2>11 DEF tree, key, oldKey
<1>12. idToAddr' \in [Ids -> Seq(Addr)]
  BY <1>8, <1>10 DEF StoreInv, StoreTypes
<1>13. indexes' \in [Indexed -> [Values -> Seq(Addr)]]
  <2>1. indexes' = [c \in Indexed |-> indexes'[c]]
    BY <1>2
  <2> QED
    BY <1>11, <2>1
<1>14. \A i \in Ids : idToAddr'[i] = IF i = id THEN <<new>> ELSE idToAddr[i]
  BY <1>10 DEF StoreInv, StoreTypes
<1>15. \A c \in Indexed : \A v \in Values :
         indexes'[c][v] = IF v = row[c] THEN <<new>>
                          ELSE IF StoredRows[id] # Absent /\ StoredRows[id][c] = v
                          THEN <<>> ELSE indexes[c][v]
  BY <1>4, <1>11
<1>16. ~Exists(pages, new) /\ Exists(pages', new)
  BY <1>6, <1>7, <1>9 DEF Exists
<1>17. CellAt(erased, addr).deleted = TRUE
  <2>1. CellAt(pages, addr) \in Cell
    BY <1>3, <1>4, CellTyped
  <2> QED
    BY <1>5, <2>1 DEF Cell
<1>18. \A a : Exists(pages, a) /\ CellAt(pages, a).id = id => a = addr
  <2>1. ASSUME NEW a, Exists(pages, a), CellAt(pages, a).id = id PROVE a = addr
    <3>1. a \in SlotsOf(pages)
      BY <2>1 DEF Exists
    <3> QED
      BY <2>1, <3>1, LiveCell DEF StoreInv, addr
  <2> QED
    BY <2>1
<1>19. \A a : a # new =>
         (Exists(pages', a) <=> Exists(pages, a) /\ CellAt(pages, a).id # id)
  <2>1. ASSUME NEW a, a # new
        PROVE  Exists(pages', a) <=> Exists(pages, a) /\ CellAt(pages, a).id # id
    <3>1. a \in SlotsOf(pages') <=> a \in SlotsOf(pages)
      BY <1>5, <1>6, <2>1
    <3>2. CASE a = addr
      <4>1. CellAt(pages', a).deleted = TRUE
        BY <1>4, <1>5, <1>6, <1>17, <3>2
      <4> QED
        BY <1>4, <3>2, <4>1 DEF Exists
    <3>3. CASE a # addr
      <4>1. Exists(pages', a) <=> Exists(pages, a)
        BY <1>5, <1>6, <3>1, <3>3 DEF Exists
      <4> QED
        BY <1>18, <3>3, <4>1
    <3> QED
      BY <3>2, <3>3
  <2> QED
    BY <2>1
<1>20. \A a : a # new /\ Exists(pages', a) => CellAt(pages', a) = CellAt(pages, a)
  <2>1. ASSUME NEW a, a # new, Exists(pages', a) PROVE CellAt(pages', a) = CellAt(pages, a)
    <3>1. Exists(pages, a) /\ CellAt(pages, a).id # id
      BY <1>19, <2>1
    <3>2. a \in SlotsOf(pages) \ {addr}
      BY <1>4, <3>1 DEF Exists
    <3> QED
      BY <1>5, <1>6, <3>2
  <2> QED
    BY <2>1
<1>21. CellAt(pages', new).id = id /\ CellAt(pages', new).row = row
  BY <1>6, <1>7
<1>22. RecordWritten(id, row, new)
  BY <1>6, <1>12, <1>13, <1>14, <1>15, <1>16, <1>19, <1>20, <1>21 DEF RecordWritten
<1> QED
  BY <1>22

\* EraseRecord takes a record that is there away.
LEMMA EraseRecordErases ==
    ASSUME StoreInv, NEW id \in Ids, StoredRows[id] # Absent, EraseRecord(AddrOf(id), id)
    PROVE  RecordErased(id)
<1> DEFINE addr == AddrOf(id)
           old == CellAt(pages, addr).row
<1>1. /\ pages' = MarkDeleted(pages, addr)
      /\ indexes' = [c \in Indexed |-> IndexRemove(indexes[c], old[c])]
      /\ idToAddr' = TreeRemove(idToAddr, id)
  BY DEF EraseRecord
<1>2. pages \in PageSeq
  BY DEF StoreInv, StoreTypes
<1>3. /\ addr \in SlotsOf(pages) /\ Exists(pages, addr) /\ idToAddr[id] = <<addr>>
      /\ CellAt(pages, addr).id = id /\ old = StoredRows[id] /\ old \in Rows
  BY StoredRow DEF StoreInv
<1> HIDE DEF addr, old
<1>4. /\ pages' \in PageSeq
      /\ SlotsOf(pages') = SlotsOf(pages)
      /\ CellAt(pages', addr) = [CellAt(pages, addr) EXCEPT !.deleted = TRUE]
      /\ \A a \in SlotsOf(pages) \ {addr} : CellAt(pages', a) = CellAt(pages, a)
  BY <1>1, <1>2, <1>3, MarkDeletedEffect
<1>5. CellAt(pages, addr) \in Cell /\ addr \in Addr
  BY <1>2, <1>3, CellTyped
<1>6. <<>> \in Seq(Addr)
  OBVIOUS
<1>7. idToAddr' = [idToAddr EXCEPT ![id] = <<>>]
  <2>1. idToAddr \in [Ids -> Seq(Addr)]
    BY DEF StoreInv, StoreTypes
  <2>2. TreeRemove(idToAddr, id) = [idToAddr EXCEPT ![id] = <<>>]
    BY <1>3, <1>5, <2>1, TreeSteps
  <2> QED
    BY <1>1, <2>2
<1>8. ASSUME NEW c \in Indexed
      PROVE  /\ indexes'[c] \in [Values -> Seq(Addr)]
             /\ \A v \in Values :
                  indexes'[c][v] = IF v = old[c] THEN <<>> ELSE indexes[c][v]
  <2> DEFINE tree == indexes[c]
             oldKey == old[c]
  <2>1. oldKey # Null /\ oldKey \in Values
    BY <1>3, KeyTyped DEF StoreInv, KeysNotNull
  <2>2. indexes'[c] = TreeRemove(tree, oldKey)
    BY <1>1, <2>1 DEF IndexRemove
  <2>3. tree \in [Values -> Seq(Addr)]
    BY DEF StoreInv, StoreTypes
  <2>4. tree[oldKey] = <<addr>>
    BY <1>3, LiveIndexed DEF old
  <2> HIDE DEF tree, oldKey
  <2>5. TreeRemove(tree, oldKey) = [tree EXCEPT ![oldKey] = <<>>]
    BY <1>5, <2>1, <2>3, <2>4, TreeSteps
  <2>6. /\ TreeRemove(tree, oldKey) \in [Values -> Seq(Addr)]
        /\ \A v \in Values : TreeRemove(tree, oldKey)[v] =
             IF v = oldKey THEN <<>> ELSE tree[v]
    BY <1>6, <2>3, <2>5
  <2> QED
    BY <2>2, <2>6 DEF tree, oldKey
<1>9. idToAddr' \in [Ids -> Seq(Addr)]
  BY <1>6, <1>7 DEF StoreInv, StoreTypes
<1>10. indexes' \in [Indexed -> [Values -> Seq(Addr)]]
  <2>1. indexes' = [c \in Indexed |-> indexes'[c]]
    BY <1>1
  <2> QED
    BY <1>8, <2>1
<1>11. \A i \in Ids : idToAddr'[i] = IF i = id THEN <<>> ELSE idToAddr[i]
  BY <1>7 DEF StoreInv, StoreTypes
<1>12. \A c \in Indexed : \A v \in Values :
         indexes'[c][v] = IF StoredRows[id] # Absent /\ StoredRows[id][c] = v
                          THEN <<>> ELSE indexes[c][v]
  BY <1>3, <1>8
<1>13. ~Exists(pages', addr)
  BY <1>4, <1>5 DEF Cell, Exists
<1>14. \A a : Exists(pages, a) /\ CellAt(pages, a).id = id => a = addr
  <2>1. ASSUME NEW a, Exists(pages, a), CellAt(pages, a).id = id PROVE a = addr
    <3>1. a \in SlotsOf(pages)
      BY <2>1 DEF Exists
    <3> QED
      BY <2>1, <3>1, LiveCell DEF StoreInv, addr
  <2> QED
    BY <2>1
<1>15. \A a : a # addr => (Exists(pages', a) <=> Exists(pages, a))
  BY <1>4 DEF Exists
<1>16. \A a : Exists(pages', a) <=> Exists(pages, a) /\ CellAt(pages, a).id # id
  BY <1>3, <1>13, <1>14, <1>15
<1>17. \A a : Exists(pages', a) => CellAt(pages', a) = CellAt(pages, a)
  <2>1. \A a : Exists(pages', a) => a \in SlotsOf(pages) \ {addr}
    BY <1>4, <1>13 DEF Exists
  <2> QED
    BY <1>4, <2>1
<1> QED
  BY <1>4, <1>9, <1>10, <1>11, <1>12, <1>16, <1>17 DEF RecordErased
-----------------------------------------------------------------------------
\* The parts of TypeOK that the change of a record moves.
JournalTypes ==
    /\ journal \in Seq(Track)
    /\ hist \in Seq(Version)
    /\ pos \in 0 .. Len(journal)
-----------------------------------------------------------------------------
(* Versions and tracks *)

\* The fields of a journal track (Journal::Track) have their types.
LEMMA TrackTyped ==
    ASSUME NEW tr \in Track
    PROVE  /\ tr.time \in Times /\ tr.id \in Ids
           /\ tr.type \in {"DELETE", "UPDATE", "INSERT"}
           /\ tr.type \in {"UPDATE", "INSERT"} => tr.row \in Rows
BY DEF Track

\* What the pages and the id tree hold is a version of the table: each id
\* leads to a row or to nothing.
LEMMA CurrentTyped ==
    ASSUME StoreTypes, IdsCoherent, count \in 0 .. MaxId
    PROVE  Current \in Version
<1>1. \A id \in Ids : StoredRows[id] \in Rows \union {Absent}
  BY StoredRow
<1>2. StoredRows = [id \in Ids |-> StoredRows[id]]
  BY DEF StoredRows
<1>3. StoredRows \in [Ids -> Rows \union {Absent}]
  BY <1>1, <1>2
<1> QED
  BY <1>3 DEF Current, Version

\* The logical part of the invariant makes the keys of the stored rows usable.
LEMMA StoreInvHolds ==
    ASSUME IInv
    PROVE  StoreInv /\ Current \in Version /\ WellFormed(Current) /\ JournalTypes
<1>1. StoreTypes /\ count \in 0 .. MaxId
  BY DEF IInv, TypeOK, StoreTypes, PageSeq, Addr
<1>2. IdsCoherent /\ IndexesCoherent /\ WellFormed(Current) /\ JournalTypes
  BY DEF IInv, HistoryUndoable, TypeOK, JournalTypes
<1>3. Current \in Version
  BY <1>1, <1>2, CurrentTyped
<1>4. KeysNotNull
  BY <1>2 DEF WellFormed, Current, KeysNotNull
<1> QED
  BY <1>1, <1>2, <1>3, <1>4 DEF StoreInv

\* A version with one row put in under a free key is well formed.
LEMMA PutWellFormed ==
    ASSUME NEW version \in Version, WellFormed(version),
           NEW id \in Ids, NEW row \in Rows, NEW n \in Nat,
           version.nextId <= n, id < n,
           KeysFree(version.rows, id, row), \A c \in Indexed : row[c] # Null
    PROVE  WellFormed([rows |-> [version.rows EXCEPT ![id] = row], nextId |-> n])
<1> DEFINE rows == version.rows
           new == [rows EXCEPT ![id] = row]
<1>1. rows \in [Ids -> Rows \union {Absent}] /\ version.nextId \in Nat
  BY DEF Version
<1> HIDE DEF rows
<1>2. new[id] = row /\ \A i \in Ids \ {id} : new[i] = rows[i]
  BY <1>1
<1>3. \A i \in Ids : rows[i] # Absent => i < version.nextId
  BY DEF WellFormed, rows
<1>4. \A i \in Ids : rows[i] # Absent =>
        \A c \in Indexed : rows[i][c] # Null
  BY DEF WellFormed, rows
<1>5. \A i \in Ids, c \in Indexed : \A other \in Ids \ {i} :
        rows[i] # Absent /\ rows[other] # Absent => rows[other][c] # rows[i][c]
  BY DEF WellFormed, KeysFree, rows
<1>6. \A c \in Indexed, other \in Ids \ {id} : rows[other] # Absent => rows[other][c] # row[c]
  BY DEF KeysFree, rows
<1> HIDE DEF new
<1>7. ASSUME NEW i \in Ids, new[i] # Absent
      PROVE  i < n /\ (\A c \in Indexed : new[i][c] # Null) /\ KeysFree(new, i, new[i])
  <2>1. CASE i = id
    BY <1>2, <1>6, <2>1 DEF KeysFree
  <2>2. CASE i # id
    <3>1. new[i] = rows[i]
      BY <1>2, <2>2
    <3>2. i < n
      BY <1>1, <1>3, <1>7, <3>1 DEF Ids
    <3>3. \A c \in Indexed : new[i][c] # Null
      BY <1>4, <1>7, <3>1
    <3>4. ASSUME NEW c \in Indexed, NEW other \in Ids \ {i}, new[other] # Absent
          PROVE  new[other][c] # new[i][c]
      BY <1>2, <1>5, <1>6, <1>7, <2>2, <3>1, <3>4
    <3> QED
      BY <3>2, <3>3, <3>4 DEF KeysFree
  <2> QED
    BY <2>1, <2>2
<1>8. [rows |-> new, nextId |-> n].rows = new /\ [rows |-> new, nextId |-> n].nextId = n
  OBVIOUS
<1> QED
  BY <1>7, <1>8 DEF WellFormed, new, rows

\* A version with one row taken away is well formed.
LEMMA TakeWellFormed ==
    ASSUME NEW version \in Version, WellFormed(version),
           NEW id \in Ids, NEW n \in Nat,
           \A i \in Ids \ {id} : version.rows[i] # Absent => i < n
    PROVE  WellFormed([rows |-> [version.rows EXCEPT ![id] = Absent], nextId |-> n])
<1> DEFINE rows == version.rows
           new == [rows EXCEPT ![id] = Absent]
<1>1. rows \in [Ids -> Rows \union {Absent}]
  BY DEF Version
<1> HIDE DEF rows
<1>2. new[id] = Absent /\ \A i \in Ids \ {id} : new[i] = rows[i]
  BY <1>1
<1>3. \A i \in Ids : rows[i] # Absent => \A c \in Indexed : rows[i][c] # Null
  BY DEF WellFormed, rows
<1>4. \A i \in Ids, c \in Indexed : \A other \in Ids \ {i} :
        rows[i] # Absent /\ rows[other] # Absent => rows[other][c] # rows[i][c]
  BY DEF WellFormed, KeysFree, rows
<1>5. \A i \in Ids \ {id} : rows[i] # Absent => i < n
  BY DEF rows
<1> HIDE DEF new
<1>6. ASSUME NEW i \in Ids, new[i] # Absent
      PROVE  i < n /\ (\A c \in Indexed : new[i][c] # Null) /\ KeysFree(new, i, new[i])
  <2>1. i # id /\ new[i] = rows[i]
    BY <1>2, <1>6
  <2>2. ASSUME NEW c \in Indexed, NEW other \in Ids \ {i}, new[other] # Absent
        PROVE  new[other][c] # new[i][c]
    BY <1>2, <1>4, <1>6, <2>1, <2>2
  <2> QED
    BY <1>3, <1>5, <1>6, <2>1, <2>2 DEF KeysFree
<1>7. [rows |-> new, nextId |-> n].rows = new /\ [rows |-> new, nextId |-> n].nextId = n
  OBVIOUS
<1> QED
  BY <1>6, <1>7 DEF WellFormed, new, rows

\* validate_record lets a row through only if its keys are free.
LEMMA ValidKeysFree ==
    ASSUME StoreInv, NEW id \in Ids, NEW row \in Rows, NEW self, Valid(row, self),
           \A other \in Ids \ {id} : StoredRows[other] # Absent => AddrOf(other) # self
    PROVE  KeysFree(StoredRows, id, row) /\ \A c \in Indexed : row[c] # Null
<1>1. \A c \in Indexed : row[c] # Null
  BY IndexedAssumption DEF Valid
<1>2. ASSUME NEW c \in Indexed, NEW other \in Ids \ {id}, StoredRows[other] # Absent,
             StoredRows[other][c] = row[c]
      PROVE  FALSE
  <2> DEFINE a == AddrOf(other)
  <2>1. Exists(pages, a) /\ CellAt(pages, a).row[c] = row[c] /\ a # self
    BY <1>2, StoredRow DEF StoreInv
  <2>2. indexes[c][row[c]] = <<a>>
    BY <2>1, LiveIndexed
  <2>3. a \in Range(<<a>>)
    <3>1. <<a>>[1] = a /\ 1 \in DOMAIN <<a>>
      OBVIOUS
    <3> QED
      BY <3>1 DEF Range
  <2>4. HasDuplicate(c, row[c], self)
    BY <2>1, <2>2, <2>3 DEF HasDuplicate
  <2> QED
    BY <2>4 DEF Valid
<1> QED
  BY <1>1, <1>2 DEF KeysFree

\* A record a statement meets is live.
LEMMA MatchingLive ==
    ASSUME StoreInv, NEW addr \in MatchingAddrs
    PROVE  LET id == CellAt(pages, addr).id IN
           /\ id \in Ids /\ StoredRows[id] # Absent /\ AddrOf(id) = addr
           /\ StoredRows[id] = CellAt(pages, addr).row
<1>1. Exists(pages, addr)
  <2>1. CASE addr \in ScannedAddrs
    BY <2>1, StoredRow DEF ScannedAddrs, StoreInv
  <2>2. CASE addr \notin ScannedAddrs
    BY <2>2 DEF MatchingAddrs, FoundAddrs
  <2> QED
    BY <2>1, <2>2
<1>2. addr \in SlotsOf(pages)
  BY <1>1 DEF Exists
<1> QED
  BY <1>1, <1>2, LiveCell DEF StoreInv
-----------------------------------------------------------------------------
(* What a changed record does to the current version *)

StoreGood ==
    StoreTypes /\ IdsCoherent /\ IndexesCoherent /\ Current \in Version /\ WellFormed(Current)

\* A tree over K that has at most one address for each key.
OneAddressEach(K, tree) ==
    /\ tree \in [K -> Seq(Addr)]
    /\ \A key \in K : tree[key] # <<>> => \E a : tree[key] = <<a>>

\* What a search of such a tree finds.
LEMMA ContentsOfTree ==
    ASSUME NEW K, NEW tree, OneAddressEach(K, tree)
    PROVE  /\ DOMAIN Contents(tree) = {key \in K : tree[key] # <<>>}
           /\ \A key \in DOMAIN Contents(tree) : Contents(tree)[key] = tree[key]
           /\ Contents(tree) \in [DOMAIN Contents(tree) -> Found]
<1>1. /\ tree \in [K -> Seq(Addr)]
      /\ Contents(tree) = [key \in {k \in K : tree[k] # <<>>} |-> tree[key]]
  BY DEF Contents, OneAddressEach
<1>2. ASSUME NEW key \in K, tree[key] # <<>> PROVE tree[key] \in Found
  <2>1. PICK a : tree[key] = <<a>>
    BY <1>2 DEF OneAddressEach
  <2>2. tree[key] \in Seq(Addr) /\ Len(<<a>>) = 1 /\ <<a>>[1] = a
    BY <1>1
  <2>3. a \in Addr
    BY <2>1, <2>2, ElementOfSeq
  <2>4. <<a>> \in [1 .. 1 -> Addr]
    BY <2>3
  <2> QED BY <2>1, <2>4 DEF Found, Addr
<1> QED BY <1>1, <1>2

\* The id tree and the indexes of a coherent table are such trees.
LEMMA OneAddressStored ==
    ASSUME StoreInv
    PROVE  /\ OneAddressEach(Ids, idToAddr)
           /\ \A c \in Indexed : OneAddressEach(Values, indexes[c])
<1>1. OneAddressEach(Ids, idToAddr)
  BY DEF StoreInv, StoreTypes, IdsCoherent, OneAddressEach
<1>2. ASSUME NEW c \in Indexed PROVE OneAddressEach(Values, indexes[c])
  <2>1. indexes[c] \in [Values -> Seq(Addr)]
    BY DEF StoreInv, StoreTypes
  <2>2. \A v \in Values : indexes[c][v] # <<>> => \E a : indexes[c][v] = <<a>>
    BY DEF StoreInv, IndexesCoherent
  <2> QED BY <2>1, <2>2 DEF OneAddressEach
<1> QED BY <1>1, <1>2

\* So this is what their searches find.
LEMMA StoredContents ==
    ASSUME StoreInv
    PROVE  /\ DOMAIN Contents(idToAddr) = {id \in Ids : idToAddr[id] # <<>>}
           /\ \A id \in DOMAIN Contents(idToAddr) : Contents(idToAddr)[id] = idToAddr[id]
           /\ \A c \in Indexed :
                /\ DOMAIN Contents(indexes[c]) = {v \in Values : indexes[c][v] # <<>>}
                /\ \A v \in DOMAIN Contents(indexes[c]) :
                     Contents(indexes[c])[v] = indexes[c][v]
<1>1. /\ OneAddressEach(Ids, idToAddr)
      /\ \A c \in Indexed : OneAddressEach(Values, indexes[c])
  BY OneAddressStored
<1> QED BY <1>1, ContentsOfTree

\* Writing a record that is not there inserts its id and each of its keys; writing
\* one that is there updates its id, and each of its keys takes the place of the one
\* that the record had before, which may be the same.
LEMMA WrittenCalls ==
    ASSUME StoreInv, NEW id \in Ids, NEW row \in Rows, NEW new,
           KeysFree(StoredRows, id, row), \A c \in Indexed : row[c] # Null,
           RecordWritten(id, row, new)
    PROVE  /\ StoredRows[id] = Absent => CallsInsert(id, row)
           /\ StoredRows[id] # Absent => CallsUpdate(id, StoredRows[id], row)
<1>1. /\ idToAddr \in [Ids -> Seq(Addr)] /\ idToAddr' \in [Ids -> Seq(Addr)]
      /\ \A i \in Ids : idToAddr'[i] = IF i = id THEN <<new>> ELSE idToAddr[i]
  BY DEF StoreInv, StoreTypes, RecordWritten
<1>2. <<new>> # <<>>
  OBVIOUS
<1>3. /\ StoredRows[id] = Absent => IdTree!Insert(id)
      /\ StoredRows[id] # Absent => IdTree!Update(id)
  <2> DEFINE D == Contents(idToAddr)
             E == Contents(idToAddr')
  <2>1. /\ DOMAIN D = {i \in Ids : idToAddr[i] # <<>>}
        /\ \A i \in DOMAIN D : D[i] = idToAddr[i]
    BY StoredContents
  <2>2. OneAddressEach(Ids, idToAddr')
    BY <1>1, OneAddressStored DEF OneAddressEach
  <2>3. /\ DOMAIN E = {i \in Ids : idToAddr'[i] # <<>>}
        /\ \A i \in DOMAIN E : E[i] = idToAddr'[i]
        /\ E \in [DOMAIN E -> Found]
    BY <2>2, ContentsOfTree
  <2>8. StoredRows[id] = Absent <=> id \notin DOMAIN D
    BY <2>1, StoredRow DEF StoreInv
  <2> HIDE DEF D, E
  <2>4. DOMAIN E = DOMAIN D \union {id}
    BY <1>1, <1>2, <2>1, <2>3
  <2>5. \A i \in DOMAIN E \ {id} : E[i] = D[i]
    BY <1>1, <2>1, <2>3, <2>4
  <2>6. ASSUME id \in DOMAIN D PROVE IdTree!Update(id)
    <3>1. DOMAIN E = DOMAIN D
      BY <2>4, <2>6
    <3> QED BY <2>3, <2>5, <2>6, <3>1 DEF IdTree!Update, IdTree!Becomes, D, E
  <2>7. ASSUME id \notin DOMAIN D PROVE IdTree!Insert(id)
    BY <2>3, <2>4, <2>5, <2>7 DEF IdTree!Insert, IdTree!Becomes, D, E
  <2> QED BY <2>6, <2>7, <2>8
<1>4. ASSUME NEW c \in Indexed
      PROVE  /\ StoredRows[id] = Absent => Index(c)!Insert(row[c])
             /\ StoredRows[id] # Absent => Index(c)!Move(StoredRows[id][c], row[c])
  <2> DEFINE key == row[c]
             old == StoredRows[id][c]
             D == Contents(indexes[c])
             E == Contents(indexes'[c])
  <2>1. /\ indexes[c] \in [Values -> Seq(Addr)] /\ indexes'[c] \in [Values -> Seq(Addr)]
        /\ \A v \in Values : indexes'[c][v] = IF v = key THEN <<new>>
                                             ELSE IF StoredRows[id] # Absent /\ old = v
                                             THEN <<>> ELSE indexes[c][v]
    BY DEF StoreInv, StoreTypes, RecordWritten
  <2>2. key \in Values
    BY KeyTyped
  <2>3. /\ DOMAIN D = {v \in Values : indexes[c][v] # <<>>}
        /\ \A v \in DOMAIN D : D[v] = indexes[c][v]
    BY StoredContents
  <2>4. OneAddressEach(Values, indexes'[c])
    <3>1. \A v \in Values : indexes[c][v] # <<>> => \E a : indexes[c][v] = <<a>>
      BY OneAddressStored DEF OneAddressEach
    <3> QED BY <2>1, <3>1 DEF OneAddressEach
  <2>5. /\ DOMAIN E = {v \in Values : indexes'[c][v] # <<>>}
        /\ \A v \in DOMAIN E : E[v] = indexes'[c][v]
        /\ E \in [DOMAIN E -> Found]
    BY <2>4, ContentsOfTree
  <2>6. key \in DOMAIN D => StoredRows[id] # Absent /\ old = key
    BY <2>2, <2>3, IndexEntry
  <2>7. StoredRows[id] # Absent => old \in DOMAIN D
    <3> SUFFICES ASSUME StoredRows[id] # Absent PROVE old \in DOMAIN D
      OBVIOUS
    <3>1. Exists(pages, AddrOf(id)) /\ CellAt(pages, AddrOf(id)).row = StoredRows[id]
      BY StoredRow DEF StoreInv
    <3>2. old \in Values /\ indexes[c][old] = <<AddrOf(id)>>
      BY <3>1, LiveIndexed
    <3> QED BY <2>3, <3>2
  <2> HIDE DEF key, old, D, E
  <2>8. ASSUME StoredRows[id] = Absent PROVE Index(c)!Insert(key)
    <3>1. key \notin DOMAIN D /\ DOMAIN E = DOMAIN D \union {key}
      BY <1>2, <2>1, <2>2, <2>3, <2>5, <2>6, <2>8
    <3>2. \A v \in DOMAIN E \ {key} : E[v] = D[v]
      BY <2>1, <2>3, <2>5, <2>8, <3>1
    <3> QED BY <2>5, <3>1, <3>2 DEF Index!Insert, Index!Becomes, D, E
  <2>9. ASSUME StoredRows[id] # Absent, old = key PROVE Index(c)!Move(old, key)
    <3>1. /\ old \in DOMAIN D /\ key \notin DOMAIN D \ {old}
          /\ DOMAIN E = (DOMAIN D \ {old}) \union {key}
      BY <1>2, <2>1, <2>2, <2>3, <2>5, <2>7, <2>9
    <3>2. \A v \in DOMAIN E \ {key} : E[v] = D[v]
      BY <2>1, <2>3, <2>5, <2>9, <3>1
    <3> QED BY <2>5, <3>1, <3>2 DEF Index!Move, Index!Becomes, D, E
  <2>10. ASSUME StoredRows[id] # Absent, old # key PROVE Index(c)!Move(old, key)
    <3>1. /\ old \in DOMAIN D /\ key \notin DOMAIN D \ {old}
          /\ DOMAIN E = (DOMAIN D \ {old}) \union {key}
      BY <1>2, <2>1, <2>2, <2>3, <2>5, <2>6, <2>7, <2>10
    <3>2. \A v \in DOMAIN E \ {key} : E[v] = D[v]
      BY <2>1, <2>3, <2>5, <2>10, <3>1
    <3> QED BY <2>5, <3>1, <3>2 DEF Index!Move, Index!Becomes, D, E
  <2> QED BY <2>8, <2>9, <2>10 DEF key, old
<1> QED BY <1>3, <1>4 DEF CallsInsert, CallsUpdate

\* Erasing a record removes its id and each of its keys, which are there.
LEMMA ErasedCalls ==
    ASSUME StoreInv, NEW id \in Ids, StoredRows[id] # Absent, RecordErased(id)
    PROVE  CallsRemove(id, StoredRows[id])
<1>1. Exists(pages, AddrOf(id)) /\ CellAt(pages, AddrOf(id)).row = StoredRows[id]
  BY StoredRow DEF StoreInv
<1>2. IdTree!Remove(id)
  <2> DEFINE D == Contents(idToAddr)
             E == Contents(idToAddr')
  <2>1. /\ idToAddr \in [Ids -> Seq(Addr)] /\ idToAddr' \in [Ids -> Seq(Addr)]
        /\ \A i \in Ids : idToAddr'[i] = IF i = id THEN <<>> ELSE idToAddr[i]
    BY DEF StoreInv, StoreTypes, RecordErased
  <2>2. /\ DOMAIN D = {i \in Ids : idToAddr[i] # <<>>}
        /\ \A i \in DOMAIN D : D[i] = idToAddr[i]
    BY StoredContents
  <2>3. OneAddressEach(Ids, idToAddr')
    BY <2>1, OneAddressStored DEF OneAddressEach
  <2>4. /\ DOMAIN E = {i \in Ids : idToAddr'[i] # <<>>}
        /\ \A i \in DOMAIN E : E[i] = idToAddr'[i]
        /\ E \in [DOMAIN E -> Found]
    BY <2>3, ContentsOfTree
  <2>5. idToAddr[id] # <<>>
    BY StoredRow DEF StoreInv
  <2> HIDE DEF D, E
  <2>6. id \in DOMAIN D /\ DOMAIN E = DOMAIN D \ {id}
    BY <2>1, <2>2, <2>4, <2>5
  <2>7. \A i \in DOMAIN E \ {} : E[i] = D[i]
    BY <2>1, <2>2, <2>4, <2>6
  <2> QED BY <2>4, <2>6, <2>7 DEF IdTree!Remove, IdTree!Becomes, D, E
<1>3. ASSUME NEW c \in Indexed PROVE Index(c)!Remove(StoredRows[id][c])
  <2> DEFINE key == StoredRows[id][c]
             D == Contents(indexes[c])
             E == Contents(indexes'[c])
  <2>1. /\ indexes[c] \in [Values -> Seq(Addr)] /\ indexes'[c] \in [Values -> Seq(Addr)]
        /\ \A v \in Values : indexes'[c][v] = IF key = v THEN <<>> ELSE indexes[c][v]
    BY DEF StoreInv, StoreTypes, RecordErased
  <2>2. key \in Values /\ indexes[c][key] = <<AddrOf(id)>>
    BY <1>1, LiveIndexed
  <2>3. /\ DOMAIN D = {v \in Values : indexes[c][v] # <<>>}
        /\ \A v \in DOMAIN D : D[v] = indexes[c][v]
    BY StoredContents
  <2>4. OneAddressEach(Values, indexes'[c])
    BY <2>1, OneAddressStored DEF OneAddressEach
  <2>5. /\ DOMAIN E = {v \in Values : indexes'[c][v] # <<>>}
        /\ \A v \in DOMAIN E : E[v] = indexes'[c][v]
        /\ E \in [DOMAIN E -> Found]
    BY <2>4, ContentsOfTree
  <2> HIDE DEF key, D, E
  <2>6. key \in DOMAIN D /\ DOMAIN E = DOMAIN D \ {key}
    <3>1. indexes[c][key] # <<>>
      <4>1. <<AddrOf(id)>> # <<>>
        OBVIOUS
      <4> QED BY <2>2, <4>1
    <3> QED BY <2>1, <2>2, <2>3, <2>5, <3>1
  <2>7. \A v \in DOMAIN E \ {} : E[v] = D[v]
    BY <2>1, <2>3, <2>5, <2>6
  <2>8. Index(c)!Remove(key)
    BY <2>5, <2>6, <2>7 DEF Index!Remove, Index!Becomes, D, E
  <2> QED BY <2>8 DEF key
<1> QED BY <1>2, <1>3 DEF CallsRemove

\* insert_record's physical part (write the cell, IndexSet::Insert, id tree
\* insert) keeps the trees in step with the pages and adds just that row.
LEMMA PutRecordCurrent ==
    ASSUME StoreInv, Current \in Version, WellFormed(Current),
           NEW id \in Ids, NEW row \in Rows, PutRecord(id, row),
           StoredRows[id] = Absent, KeysFree(StoredRows, id, row),
           \A c \in Indexed : row[c] # Null,
           count' \in 0 .. MaxId, count <= count', id < count'
    PROVE  /\ StoreGood' /\ CallsInsert(id, row)
           /\ Current' = [rows |-> [StoredRows EXCEPT ![id] = row], nextId |-> count']
<1>1. PICK new : RecordWritten(id, row, new)
  BY PutRecordWrites
<1>2. count' \in Nat
  BY BoundsAssumption
<1>3. /\ IdsCoherent' /\ IndexesCoherent'
      /\ StoredRows' = [StoredRows EXCEPT ![id] = row]
  BY <1>1, <1>2, WrittenCoherent
<1>4. StoreTypes'
  BY <1>1, <1>2 DEF RecordWritten, StoreTypes
<1>5. Current' = [rows |-> [StoredRows EXCEPT ![id] = row], nextId |-> count']
  BY <1>3 DEF Current
<1>6. Current.rows = StoredRows /\ Current.nextId = count
  BY DEF Current
<1>7. WellFormed([rows |-> [Current.rows EXCEPT ![id] = row], nextId |-> count'])
  BY <1>2, <1>6, PutWellFormed
<1>8. WellFormed(Current')
  BY <1>5, <1>6, <1>7
<1>9. Current' \in Version
  BY <1>5, <1>6 DEF Version
<1>10. CallsInsert(id, row)
  BY <1>1, WrittenCalls
<1> QED
  BY <1>3, <1>4, <1>5, <1>8, <1>9, <1>10 DEF StoreGood

\* update_record's physical part (delete the old cell, write the new one,
\* IndexSet::Update, id tree update) keeps the trees in step with the pages
\* and changes just that row.
LEMMA ReplaceRecordCurrent ==
    ASSUME StoreInv, Current \in Version, WellFormed(Current),
           NEW id \in Ids, NEW row \in Rows, ReplaceRecord(AddrOf(id), id, row),
           StoredRows[id] # Absent, KeysFree(StoredRows, id, row),
           \A c \in Indexed : row[c] # Null, count' = count
    PROVE  /\ StoreGood' /\ CallsUpdate(id, StoredRows[id], row)
           /\ Current' = [rows |-> [StoredRows EXCEPT ![id] = row], nextId |-> count]
<1>1. PICK new : RecordWritten(id, row, new)
  BY ReplaceRecordWrites
<1>2. count \in Nat /\ count' \in Nat /\ count <= count'
  BY DEF StoreInv, StoreTypes
<1>3. id < count'
  BY StoredRow DEF StoreInv
<1>4. /\ IdsCoherent' /\ IndexesCoherent'
      /\ StoredRows' = [StoredRows EXCEPT ![id] = row]
  BY <1>1, <1>2, <1>3, WrittenCoherent
<1>5. StoreTypes'
  BY <1>1, <1>2 DEF RecordWritten, StoreTypes
<1>6. Current' = [rows |-> [StoredRows EXCEPT ![id] = row], nextId |-> count]
  BY <1>4 DEF Current
<1>7. Current.rows = StoredRows /\ Current.nextId = count
  BY DEF Current
<1>8. WellFormed([rows |-> [Current.rows EXCEPT ![id] = row], nextId |-> count])
  BY <1>2, <1>3, <1>7, PutWellFormed
<1>9. WellFormed(Current')
  BY <1>6, <1>7, <1>8
<1>10. Current' \in Version
  BY <1>6, <1>7 DEF Version
<1>11. CallsUpdate(id, StoredRows[id], row)
  BY <1>1, WrittenCalls
<1> QED
  BY <1>4, <1>5, <1>6, <1>9, <1>10, <1>11 DEF StoreGood

\* delete_record's physical part (mark the cell, IndexSet::Remove, id tree
\* remove) keeps the trees in step with the pages and takes just that row away.
LEMMA EraseRecordCurrent ==
    ASSUME StoreInv, Current \in Version, WellFormed(Current),
           NEW id \in Ids, EraseRecord(AddrOf(id), id), StoredRows[id] # Absent,
           count' \in 0 .. MaxId,
           \A i \in Ids \ {id} : StoredRows[i] # Absent => i < count'
    PROVE  /\ StoreGood' /\ CallsRemove(id, StoredRows[id])
           /\ Current' = [rows |-> [StoredRows EXCEPT ![id] = Absent], nextId |-> count']
<1>1. RecordErased(id)
  BY EraseRecordErases
<1>2. count' \in Nat
  BY BoundsAssumption
<1>3. /\ IdsCoherent' /\ IndexesCoherent'
      /\ StoredRows' = [StoredRows EXCEPT ![id] = Absent]
  BY <1>1, <1>2, ErasedCoherent
<1>4. StoreTypes'
  BY <1>1, <1>2 DEF RecordErased, StoreTypes
<1>5. Current' = [rows |-> [StoredRows EXCEPT ![id] = Absent], nextId |-> count']
  BY <1>3 DEF Current
<1>6. Current.rows = StoredRows
  BY DEF Current
<1>7. WellFormed([rows |-> [Current.rows EXCEPT ![id] = Absent], nextId |-> count'])
  BY <1>2, <1>6, TakeWellFormed
<1>8. WellFormed(Current')
  BY <1>5, <1>6, <1>7
<1>9. Current' \in Version
  BY <1>5, <1>6 DEF Version
<1>10. CallsRemove(id, StoredRows[id])
  BY <1>1, ErasedCalls
<1> QED
  BY <1>3, <1>4, <1>5, <1>8, <1>9, <1>10 DEF StoreGood

\* A step that leaves the pages, the trees and the count alone leaves the
\* version and both coherence invariants alone.
LEMMA UnchangedFiles ==
    ASSUME UNCHANGED <<files, count>>
    PROVE  /\ StoredRows' = StoredRows /\ Current' = Current
           /\ IdsCoherent' = IdsCoherent /\ IndexesCoherent' = IndexesCoherent
<1>1. pages' = pages /\ idToAddr' = idToAddr /\ indexes' = indexes /\ count' = count
  BY DEF files
<1>2. StoredRows' = StoredRows
  BY <1>1 DEF StoredRows, AddrOf
<1>3. Current' = Current
  BY <1>1, <1>2 DEF Current
<1>4. IdsCoherent' = IdsCoherent
  BY <1>1, Zenon DEF IdsCoherent
<1>5. IndexesCoherent' = IndexesCoherent
  BY <1>1 DEF IndexesCoherent
<1> QED
  BY <1>2, <1>3, <1>4, <1>5
-----------------------------------------------------------------------------
(* What a written track and an undone track do to the journal *)

\* Journal::write_track keeps the journal undoable, in time order and true to
\* the history when its track undoes what the statement has just done.
LEMMA TrackWritten ==
    ASSUME JournalTypes, Current \in Version, JournalReplaysHistory, HistoryUndoable,
           TimesOrdered, clock' = clock, clock \in Times,
           NEW tr \in Track, tr.time = clock, WriteTrack(tr),
           WellFormed(Current'), Undo(tr, Current') = Current, Undoable(tr, Current')
    PROVE  /\ JournalTypes' /\ JournalReplaysHistory' /\ HistoryUndoable' /\ TimesOrdered'
<1>1. /\ journal' = Append(SubSeq(journal, 1, pos), tr)
      /\ hist' = Append(SubSeq(hist, 1, pos), Current)
      /\ pos' = pos + 1
  BY DEF WriteTrack
<1>2. /\ journal \in Seq(Track) /\ hist \in Seq(Version) /\ pos \in Nat
      /\ pos <= Len(journal) /\ Len(hist) = Len(journal) /\ Len(journal) \in Nat
  BY DEF JournalTypes, JournalReplaysHistory
<1> DEFINE oldTracks == SubSeq(journal, 1, pos)
           oldHist == SubSeq(hist, 1, pos)
<1>3. /\ oldTracks \in Seq(Track) /\ Len(oldTracks) = pos
      /\ \A i \in 1 .. pos : oldTracks[i] = journal[i]
  BY <1>2, SubSeqProperties
<1>4. /\ oldHist \in Seq(Version) /\ Len(oldHist) = pos
      /\ \A i \in 1 .. pos : oldHist[i] = hist[i]
  BY <1>2, SubSeqProperties
<1> HIDE DEF oldTracks, oldHist
<1>5. /\ journal' \in Seq(Track) /\ Len(journal') = pos' /\ journal'[pos'] = tr
      /\ \A i \in 1 .. pos : journal'[i] = journal[i]
  BY <1>1, <1>2, <1>3, AppendProperties DEF oldTracks
<1>6. /\ hist' \in Seq(Version) /\ Len(hist') = pos' /\ hist'[pos'] = Current
      /\ \A i \in 1 .. pos : hist'[i] = hist[i]
  BY <1>1, <1>2, <1>4, AppendProperties DEF oldHist
<1>7. JournalTypes'
  BY <1>1, <1>2, <1>5, <1>6 DEF JournalTypes
<1>8. ASSUME NEW i \in 1 .. pos PROVE After(i)' = After(i)
  <2>1. i # pos' /\ i + 1 \in 1 .. pos'
    BY <1>1, <1>2
  <2>2. After(i)' = hist'[i + 1]
    BY <2>1 DEF After
  <2>3. CASE i = pos
    BY <1>1, <1>6, <2>2, <2>3 DEF After
  <2>4. CASE i # pos
    <3>1. i + 1 \in 1 .. pos
      BY <1>2, <2>4
    <3> QED
      BY <1>6, <2>2, <2>4, <3>1 DEF After
  <2> QED
    BY <2>3, <2>4
<1>9. \A i : i = pos + 1 => After(i)' = Current'
  BY <1>1 DEF After
<1>10. \A i \in 1 .. pos' : i \in 1 .. pos \/ i = pos + 1
  BY <1>1, <1>2
<1>11. JournalReplaysHistory'
  <2>1. \A i \in 1 .. pos : hist[i] = Undo(journal[i], After(i))
    BY DEF JournalReplaysHistory
  <2>2. ASSUME NEW i \in 1 .. pos' PROVE hist'[i] = Undo(journal'[i], After(i)')
    <3>1. CASE i \in 1 .. pos
      BY <1>5, <1>6, <1>8, <2>1, <3>1
    <3>2. CASE i = pos + 1
      BY <1>1, <1>5, <1>6, <1>9, <3>2
    <3> QED
      BY <1>10, <3>1, <3>2
  <2>3. Len(hist') = Len(journal')
    BY <1>5, <1>6
  <2> QED
    BY <2>2, <2>3 DEF JournalReplaysHistory
<1>12. HistoryUndoable'
  <2>1. \A i \in 1 .. pos : WellFormed(hist[i]) /\ Undoable(journal[i], After(i))
    BY DEF HistoryUndoable
  <2>2. WellFormed(Current)
    BY DEF HistoryUndoable
  <2>3. ASSUME NEW i \in 1 .. pos'
        PROVE  WellFormed(hist'[i]) /\ Undoable(journal'[i], After(i)')
    <3>1. CASE i \in 1 .. pos
      BY <1>5, <1>6, <1>8, <2>1, <3>1
    <3>2. CASE i = pos + 1
      BY <1>1, <1>5, <1>6, <1>9, <2>2, <3>2
    <3> QED
      BY <1>10, <3>1, <3>2
  <2> QED
    BY <2>3 DEF HistoryUndoable
<1>13. TimesOrdered'
  <2>1. \A i \in 1 .. pos : journal[i] \in Track /\ journal[i].time \in Nat
    BY <1>2, TrackTyped, ElementOfSeq, BoundsAssumption DEF Times
  <2>2. \A i \in 1 .. pos : /\ journal[i].time <= clock
                            /\ \A j \in 1 .. i : journal[j].time <= journal[i].time
    BY <1>2 DEF TimesOrdered
  <2>3. ASSUME NEW i \in 1 .. pos'
        PROVE  /\ journal'[i].time <= clock'
               /\ \A j \in 1 .. i : journal'[j].time <= journal'[i].time
    <3>1. CASE i \in 1 .. pos
      <4>1. \A j \in 1 .. i : j \in 1 .. pos
        BY <1>2, <3>1
      <4> QED
        BY <1>5, <2>2, <3>1, <4>1
    <3>2. CASE i = pos + 1
      <4>1. journal'[i].time = clock /\ clock \in Nat
        BY <1>1, <1>5, <3>2 DEF Times
      <4>2. \A j \in 1 .. i : j \in 1 .. pos \/ j = i
        BY <1>2, <3>2
      <4> QED
        BY <1>5, <2>2, <4>1, <4>2
    <3> QED
      BY <1>10, <3>1, <3>2
  <2>4. DOMAIN journal' = 1 .. pos'
    BY <1>5
  <2> QED
    BY <2>3, <2>4 DEF TimesOrdered
<1> QED
  BY <1>7, <1>11, <1>12, <1>13

\* Journal::revert_last, which moves only the position, keeps the journal
\* before it undoable and true to the history.
LEMMA TrackUndone ==
    ASSUME JournalTypes, JournalReplaysHistory, HistoryUndoable, pos > 0,
           pos' = pos - 1, UNCHANGED <<journal, hist>>, Current' = hist[pos]
    PROVE  JournalTypes' /\ JournalReplaysHistory' /\ HistoryUndoable'
<1>1. pos \in Nat /\ pos <= Len(journal) /\ Len(journal) \in Nat /\ pos \in 1 .. pos
  BY DEF JournalTypes
<1>2. JournalTypes'
  BY <1>1 DEF JournalTypes
<1>3. ASSUME NEW i \in 1 .. pos' PROVE i \in 1 .. pos /\ After(i)' = After(i)
  <2>1. i \in 1 .. pos /\ i # pos
    BY <1>1
  <2>2. CASE i = pos'
    BY <1>1, <2>1, <2>2 DEF After
  <2>3. CASE i # pos'
    BY <2>1, <2>3 DEF After
  <2> QED
    BY <2>1, <2>2, <2>3
<1>4. JournalReplaysHistory'
  BY <1>3 DEF JournalReplaysHistory
<1>5. HistoryUndoable'
  BY <1>1, <1>3 DEF HistoryUndoable
<1> QED
  BY <1>2, <1>4, <1>5
-----------------------------------------------------------------------------
(* The statements *)

\* Putting a row back where it was gives the rows there were.
LEMMA PutBack ==
    ASSUME NEW S, NEW rows \in [Ids -> S], NEW id \in Ids, NEW row
    PROVE  [[rows EXCEPT ![id] = row] EXCEPT ![id] = rows[id]] = rows
OBVIOUS

\* A statement that changes one record keeps the invariant.
LEMMA RecordChanged ==
    ASSUME IInv, StoreGood', mode = "open", UNCHANGED <<mode, clock, target, frozen>>,
           count' \in 0 .. MaxId, schemaCount' = count',
           NEW tr \in Track, tr.time = clock, WriteTrack(tr),
           Undo(tr, Current') = Current, Undoable(tr, Current')
    PROVE  IInv'
<1>1. /\ StoreInv /\ JournalTypes /\ Current \in Version /\ JournalReplaysHistory
      /\ HistoryUndoable /\ TimesOrdered /\ clock \in Times
  BY StoreInvHolds DEF IInv, TypeOK
<1>2. WellFormed(Current')
  BY DEF StoreGood
<1>3. JournalTypes' /\ JournalReplaysHistory' /\ HistoryUndoable' /\ TimesOrdered'
  BY <1>1, <1>2, TrackWritten
<1>4. TypeOK'
  <2>1. /\ pages' \in Seq(Seq(Cell))
        /\ idToAddr' \in [Ids -> Seq(Nat \X Nat)]
        /\ indexes' \in [Indexed -> [Values -> Seq(Nat \X Nat)]]
    BY DEF StoreGood, StoreTypes, PageSeq, Addr
  <2>2. /\ mode' \in {"none", "open", "reverting", "down"}
        /\ clock' \in Times /\ target' \in Times
        /\ frozen' \in [version : Version, pos : Nat]
        /\ schemaCount' \in 0 .. MaxId
    BY DEF IInv, TypeOK
  <2> QED
    BY <1>3, <2>1, <2>2 DEF TypeOK, JournalTypes
<1>5. RevertUnderWay' /\ FilesSettled'
  BY DEF RevertUnderWay, FilesSettled
<1> QED
  BY <1>3, <1>4, <1>5 DEF IInv, StoreGood

\* The stored rows, without the primed state.
LEMMA StoredRowsTyped ==
    ASSUME StoreInv, Current \in Version
    PROVE  StoredRows \in [Ids -> Rows \union {Absent}]
BY DEF Current, Version

\* Table::insert_record keeps the invariant; it adds one row, under an id that
\* is not in use and with keys that are free.
LEMMA InsertRecordStep ==
    ASSUME IInv, NEW row \in Rows, InsertRecord(row)
    PROVE  /\ IInv' /\ CallsInsert(count, row)
           /\ StoredRows[count] = Absent /\ count \in Ids
           /\ KeysFree(StoredRows, count, row) /\ \A c \in Indexed : row[c] # Null
           /\ Current' = [rows |-> [StoredRows EXCEPT ![count] = row], nextId |-> count + 1]
<1>1. StoreInv /\ Current \in Version /\ WellFormed(Current)
  BY StoreInvHolds
<1>2. count \in 0 .. MaxId /\ count \in Ids /\ clock \in Times
  BY BoundsAssumption DEF IInv, TypeOK, InsertRecord, Ids
<1>3. StoredRows[count] = Absent
  BY <1>1, <1>2, StoredRow DEF StoreInv
<1>4. \A other \in Ids \ {count} : StoredRows[other] # Absent => AddrOf(other) # NoAddress
  <2>1. \A other \in Ids : StoredRows[other] # Absent => AddrOf(other) \in SlotsOf(pages)
    BY <1>1, StoredRow DEF StoreInv
  <2>2. \A a \in SlotsOf(pages) : a # NoAddress
    BY <1>1, SlotsMembership DEF NoAddress, StoreInv, StoreTypes
  <2> QED
    BY <2>1, <2>2
<1>5. KeysFree(StoredRows, count, row) /\ \A c \in Indexed : row[c] # Null
  BY <1>1, <1>2, <1>4, ValidKeysFree DEF InsertRecord
<1>6. PutRecord(count, row) /\ count' = count + 1 /\ schemaCount' = count'
  BY DEF InsertRecord
<1>7. count' \in 0 .. MaxId /\ count <= count' /\ count < count'
  BY <1>2, <1>6, BoundsAssumption DEF Ids
<1>8. /\ StoreGood' /\ CallsInsert(count, row)
      /\ Current' = [rows |-> [StoredRows EXCEPT ![count] = row], nextId |-> count']
  BY <1>1, <1>2, <1>3, <1>5, <1>6, <1>7, PutRecordCurrent
<1> DEFINE tr == [time |-> clock, type |-> "DELETE", id |-> count]
<1>9. tr \in Track /\ tr.time = clock /\ tr.type = "DELETE" /\ tr.id = count
  BY <1>2 DEF Track
<1>10. WriteTrack(tr)
  BY DEF InsertRecord
<1> HIDE DEF tr
<1>11. Undo(tr, Current') = Current
  <2>1. Undo(tr, Current') = [rows |-> [Current'.rows EXCEPT ![count] = Absent],
                              nextId |-> Current'.nextId - 1]
    BY <1>9 DEF Undo
  <2>2. Current'.rows = [StoredRows EXCEPT ![count] = row] /\ Current'.nextId - 1 = count
    BY <1>2, <1>6, <1>8
  <2>3. [[StoredRows EXCEPT ![count] = row] EXCEPT ![count] = Absent] = StoredRows
    BY <1>1, <1>2, <1>3, StoredRowsTyped, PutBack
  <2> QED
    BY <2>1, <2>2, <2>3 DEF Current
<1>12. Undoable(tr, Current')
  <2>1. Current'.rows[count] = row /\ row # Absent
    BY <1>1, <1>2, <1>8, StoredRowsTyped, RowsAssumption
  <2>2. Current'.nextId = count + 1
    BY <1>6, <1>8
  <2> QED
    BY <1>9, <2>1, <2>2 DEF Undoable
<1>13. mode = "open" /\ UNCHANGED <<mode, clock, target, frozen>>
  BY DEF InsertRecord
<1>14. IInv'
  BY <1>6, <1>7, <1>8, <1>9, <1>10, <1>11, <1>12, <1>13, RecordChanged
<1> QED
  BY <1>2, <1>3, <1>5, <1>6, <1>8, <1>14

\* Table::update_record keeps the invariant; it changes one row, to keys that
\* are free.
LEMMA UpdateRecordStep ==
    ASSUME IInv, NEW addr \in MatchingAddrs, NEW row \in Rows, UpdateRecord(addr, row),
           NEW id, id = CellAt(pages, addr).id
    PROVE  /\ IInv' /\ CallsUpdate(id, StoredRows[id], row)
           /\ StoredRows[id] = CellAt(pages, addr).row
           /\ id \in Ids /\ StoredRows[id] # Absent
           /\ KeysFree(StoredRows, id, row) /\ \A c \in Indexed : row[c] # Null
           /\ Current' = [rows |-> [StoredRows EXCEPT ![id] = row], nextId |-> count]
<1>1. StoreInv /\ Current \in Version /\ WellFormed(Current)
  BY StoreInvHolds
<1>2. count \in 0 .. MaxId /\ clock \in Times /\ schemaCount = count
  BY DEF IInv, TypeOK, UpdateRecord, FilesSettled
<1>3. /\ id \in Ids /\ StoredRows[id] # Absent /\ AddrOf(id) = addr
      /\ StoredRows[id] = CellAt(pages, addr).row
  BY <1>1, MatchingLive
<1>4. \A other \in Ids \ {id} : StoredRows[other] # Absent => AddrOf(other) # addr
  BY <1>1, StoredRow DEF StoreInv
<1>5. KeysFree(StoredRows, id, row) /\ \A c \in Indexed : row[c] # Null
  BY <1>1, <1>3, <1>4, ValidKeysFree DEF UpdateRecord
<1>6. ReplaceRecord(AddrOf(id), id, row) /\ count' = count /\ schemaCount' = count'
  BY <1>2, <1>3 DEF UpdateRecord
<1>7. /\ StoreGood' /\ CallsUpdate(id, StoredRows[id], row)
      /\ Current' = [rows |-> [StoredRows EXCEPT ![id] = row], nextId |-> count]
  BY <1>1, <1>3, <1>5, <1>6, ReplaceRecordCurrent
<1>8. StoredRows[id] \in Rows
  BY <1>1, <1>3, StoredRowsTyped
<1> DEFINE tr == [time |-> clock, type |-> "UPDATE", id |-> id, row |-> StoredRows[id]]
<1>9. /\ tr \in Track /\ tr.time = clock /\ tr.type = "UPDATE" /\ tr.id = id
      /\ tr.row = StoredRows[id]
  BY <1>2, <1>3, <1>8 DEF Track
<1>10. WriteTrack(tr)
  BY <1>3 DEF UpdateRecord
<1> HIDE DEF tr
<1>11. Undo(tr, Current') = Current
  <2>1. Undo(tr, Current') = [Current' EXCEPT !.rows[id] = StoredRows[id]]
    BY <1>9 DEF Undo
  <2>2. Undo(tr, Current') =
          [rows |-> [[StoredRows EXCEPT ![id] = row] EXCEPT ![id] = StoredRows[id]],
           nextId |-> count]
    BY <1>7, <2>1
  <2>3. [[StoredRows EXCEPT ![id] = row] EXCEPT ![id] = StoredRows[id]] = StoredRows
    BY <1>1, <1>3, StoredRowsTyped, PutBack
  <2> QED
    BY <2>2, <2>3 DEF Current
<1>12. Undoable(tr, Current')
  <2>1. Current'.rows[id] = row /\ row # Absent
    BY <1>1, <1>3, <1>7, StoredRowsTyped, RowsAssumption
  <2> QED
    BY <1>9, <2>1 DEF Undoable
<1>13. mode = "open" /\ UNCHANGED <<mode, clock, target, frozen>>
  BY DEF UpdateRecord
<1>14. IInv'
  BY <1>2, <1>6, <1>7, <1>9, <1>10, <1>11, <1>12, <1>13, RecordChanged
<1> QED
  BY <1>3, <1>5, <1>7, <1>14

\* Table::delete_record keeps the invariant and takes one row away.
LEMMA DeleteRecordStep ==
    ASSUME IInv, NEW addr \in MatchingAddrs, DeleteRecord(addr),
           NEW id, id = CellAt(pages, addr).id
    PROVE  /\ IInv' /\ CallsRemove(id, StoredRows[id])
           /\ StoredRows[id] = CellAt(pages, addr).row
           /\ id \in Ids /\ StoredRows[id] # Absent
           /\ Current' = [rows |-> [StoredRows EXCEPT ![id] = Absent], nextId |-> count]
<1>1. StoreInv /\ Current \in Version /\ WellFormed(Current)
  BY StoreInvHolds
<1>2. count \in 0 .. MaxId /\ clock \in Times /\ schemaCount = count
  BY DEF IInv, TypeOK, DeleteRecord, FilesSettled
<1>3. /\ id \in Ids /\ StoredRows[id] # Absent /\ AddrOf(id) = addr
      /\ StoredRows[id] = CellAt(pages, addr).row
  BY <1>1, MatchingLive
<1>4. EraseRecord(AddrOf(id), id) /\ count' = count /\ schemaCount' = count'
  BY <1>2, <1>3 DEF DeleteRecord
<1>5. \A i \in Ids : StoredRows[i] # Absent => i < count
  BY <1>1, StoredRow DEF StoreInv
<1>6. /\ StoreGood' /\ CallsRemove(id, StoredRows[id])
      /\ Current' = [rows |-> [StoredRows EXCEPT ![id] = Absent], nextId |-> count]
  BY <1>1, <1>2, <1>3, <1>4, <1>5, EraseRecordCurrent
<1>7. StoredRows[id] \in Rows
  BY <1>1, <1>3, StoredRowsTyped
<1> DEFINE tr == [time |-> clock, type |-> "INSERT", id |-> id, row |-> StoredRows[id]]
<1>8. /\ tr \in Track /\ tr.time = clock /\ tr.type = "INSERT" /\ tr.id = id
      /\ tr.row = StoredRows[id]
  BY <1>2, <1>3, <1>7 DEF Track
<1>9. WriteTrack(tr)
  BY <1>3 DEF DeleteRecord
<1> HIDE DEF tr
<1>10. Undo(tr, Current') = Current
  <2>1. Undo(tr, Current') = [Current' EXCEPT !.rows[id] = StoredRows[id]]
    BY <1>8 DEF Undo
  <2>2. Undo(tr, Current') =
          [rows |-> [[StoredRows EXCEPT ![id] = Absent] EXCEPT ![id] = StoredRows[id]],
           nextId |-> count]
    BY <1>6, <2>1
  <2>3. [[StoredRows EXCEPT ![id] = Absent] EXCEPT ![id] = StoredRows[id]] = StoredRows
    BY <1>1, <1>3, StoredRowsTyped, PutBack
  <2> QED
    BY <2>2, <2>3 DEF Current
<1>11. Undoable(tr, Current')
  <2>1. Current'.rows[id] = Absent /\ Current'.nextId = count /\ id < count
    BY <1>1, <1>3, <1>5, <1>6, StoredRowsTyped
  <2> QED
    BY <1>8, <2>1 DEF Undoable
<1>12. mode = "open" /\ UNCHANGED <<mode, clock, target, frozen>>
  BY DEF DeleteRecord
<1>13. IInv'
  BY <1>2, <1>4, <1>6, <1>8, <1>9, <1>10, <1>11, <1>12, RecordChanged
<1> QED
  BY <1>3, <1>6, <1>13
-----------------------------------------------------------------------------
(* The turns of the REVERT loop *)

\* The track about to be undone can be, and undoing it gives the version before.
LEMMA LastTrackUndoable ==
    ASSUME IInv, pos > 0
    PROVE  /\ pos \in 1 .. Len(journal) /\ LastTrack \in Track
           /\ hist[pos] = Undo(LastTrack, Current) /\ Undoable(LastTrack, Current)
           /\ WellFormed(hist[pos])
<1>1. pos \in 1 .. Len(journal) /\ pos \in 1 .. pos /\ journal \in Seq(Track)
  BY DEF IInv, TypeOK
<1>2. After(pos) = Current
  BY DEF After
<1>3. LastTrack \in Track
  BY <1>1, ElementOfSeq DEF LastTrack
<1> QED
  BY <1>1, <1>2, <1>3 DEF IInv, JournalReplaysHistory, HistoryUndoable, LastTrack

\* A turn of the loop that gives the version before the track keeps the invariant.
LEMMA RecordReverted ==
    ASSUME IInv, NEW type, UndoTrack(type), StoreGood', Current' = hist[pos],
           count' \in 0 .. MaxId
    PROVE  IInv'
<1>1. /\ mode = "reverting" /\ pos > 0 /\ LastTrack.time >= target /\ pos' = pos - 1
      /\ UNCHANGED <<mode, clock, journal, schemaCount, target, hist, frozen>>
  BY DEF UndoTrack, HasTrackToUndo
<1>2. JournalTypes /\ JournalReplaysHistory /\ HistoryUndoable /\ TimesOrdered
  BY StoreInvHolds DEF IInv
<1>3. JournalTypes' /\ JournalReplaysHistory' /\ HistoryUndoable'
  BY <1>1, <1>2, TrackUndone
<1>4. TimesOrdered'
  BY <1>1, <1>2 DEF TimesOrdered
<1>5. TypeOK'
  <2>1. /\ pages' \in Seq(Seq(Cell))
        /\ idToAddr' \in [Ids -> Seq(Nat \X Nat)]
        /\ indexes' \in [Indexed -> [Values -> Seq(Nat \X Nat)]]
    BY DEF StoreGood, StoreTypes, PageSeq, Addr
  <2>2. /\ mode' \in {"none", "open", "reverting", "down"}
        /\ clock' \in Times /\ target' \in Times
        /\ frozen' \in [version : Version, pos : Nat]
        /\ schemaCount' \in 0 .. MaxId
    BY <1>1 DEF IInv, TypeOK
  <2> QED
    BY <1>3, <2>1, <2>2 DEF TypeOK, JournalTypes
<1>6. RevertUnderWay'
  <2>1. /\ pos <= frozen.pos /\ frozen.pos <= Len(journal)
        /\ \A i \in pos + 1 .. frozen.pos : journal[i].time >= target
    BY <1>1 DEF IInv, RevertUnderWay
  <2>2. pos \in Nat /\ frozen.pos \in Nat
    BY <1>2 DEF JournalTypes, IInv, TypeOK
  <2>3. pos' <= frozen.pos /\ pos' # frozen.pos /\ pos' + 1 = pos
    BY <1>1, <2>1, <2>2
  <2>4. ASSUME NEW i \in pos' + 1 .. frozen.pos PROVE journal[i].time >= target
    <3>1. i = pos \/ i \in pos + 1 .. frozen.pos
      BY <2>2, <2>3
    <3> QED
      BY <1>1, <2>1, <3>1 DEF LastTrack
  <2> QED
    BY <1>1, <2>1, <2>3, <2>4 DEF RevertUnderWay
<1>7. FilesSettled'
  BY <1>1 DEF FilesSettled
<1> QED
  BY <1>3, <1>4, <1>5, <1>6, <1>7 DEF IInv, StoreGood

\* Undoing a DELETE (the INSERT branch of Table::revert) keeps the invariant.
LEMMA RevertDeletionStep ==
    ASSUME IInv, RevertDeletion
    PROVE  IInv' /\ CallsInsert(LastTrack.id, LastTrack.row)
<1> DEFINE tr == LastTrack
<1>1. UndoTrack("INSERT") /\ PutRecord(tr.id, tr.row) /\ count' = count
  BY DEF RevertDeletion
<1>2. pos > 0 /\ tr.type = "INSERT"
  BY <1>1 DEF UndoTrack, HasTrackToUndo
<1>3. /\ tr \in Track /\ hist[pos] = Undo(tr, Current) /\ Undoable(tr, Current)
      /\ WellFormed(hist[pos])
  BY <1>2, LastTrackUndoable
<1> HIDE DEF tr
<1>4. tr.id \in Ids /\ tr.row \in Rows
  BY <1>2, <1>3, TrackTyped
<1>5. StoreInv /\ Current \in Version /\ WellFormed(Current) /\ count \in 0 .. MaxId
  BY StoreInvHolds DEF IInv, TypeOK
<1>6. hist[pos] = [rows |-> [StoredRows EXCEPT ![tr.id] = tr.row], nextId |-> count]
  BY <1>2, <1>3 DEF Undo, Current
<1>7. StoredRows[tr.id] = Absent /\ tr.id < count
  BY <1>2, <1>3 DEF Undoable, Current
<1>8. KeysFree(StoredRows, tr.id, tr.row) /\ \A c \in Indexed : tr.row[c] # Null
  <2> DEFINE rows == [StoredRows EXCEPT ![tr.id] = tr.row]
  <2>1. rows[tr.id] = tr.row /\ tr.row # Absent
        /\ \A i \in Ids \ {tr.id} : rows[i] = StoredRows[i]
    BY <1>4, <1>5, StoredRowsTyped, RowsAssumption
  <2>2. hist[pos].rows = rows
    BY <1>6
  <2> HIDE DEF rows
  <2>3. KeysFree(rows, tr.id, rows[tr.id]) /\ \A c \in Indexed : rows[tr.id][c] # Null
    BY <1>3, <1>4, <2>1, <2>2 DEF WellFormed
  <2> QED
    BY <2>1, <2>3 DEF KeysFree
<1>9. count <= count' /\ tr.id < count'
  BY <1>1, <1>5, <1>7, BoundsAssumption
<1>10. StoreGood' /\ CallsInsert(tr.id, tr.row) /\ Current' = hist[pos]
  BY <1>1, <1>4, <1>5, <1>6, <1>7, <1>8, <1>9, PutRecordCurrent
<1> QED
  BY <1>1, <1>5, <1>10, RecordReverted DEF tr

\* Undoing an UPDATE (the UPDATE branch of Table::revert) keeps the invariant.
LEMMA RevertUpdateStep ==
    ASSUME IInv, RevertUpdate
    PROVE  IInv' /\ CallsUpdate(LastTrack.id, StoredRows[LastTrack.id], LastTrack.row)
<1> DEFINE tr == LastTrack
<1>1. UndoTrack("UPDATE") /\ ReplaceRecord(AddrOf(tr.id), tr.id, tr.row) /\ count' = count
  BY DEF RevertUpdate
<1>2. pos > 0 /\ tr.type = "UPDATE"
  BY <1>1 DEF UndoTrack, HasTrackToUndo
<1>3. /\ tr \in Track /\ hist[pos] = Undo(tr, Current) /\ Undoable(tr, Current)
      /\ WellFormed(hist[pos])
  BY <1>2, LastTrackUndoable
<1> HIDE DEF tr
<1>4. tr.id \in Ids /\ tr.row \in Rows
  BY <1>2, <1>3, TrackTyped
<1>5. StoreInv /\ Current \in Version /\ WellFormed(Current) /\ count \in 0 .. MaxId
  BY StoreInvHolds DEF IInv, TypeOK
<1>6. hist[pos] = [rows |-> [StoredRows EXCEPT ![tr.id] = tr.row], nextId |-> count]
  BY <1>2, <1>3 DEF Undo, Current
<1>7. StoredRows[tr.id] # Absent
  BY <1>2, <1>3 DEF Undoable, Current
<1>8. KeysFree(StoredRows, tr.id, tr.row) /\ \A c \in Indexed : tr.row[c] # Null
  <2> DEFINE rows == [StoredRows EXCEPT ![tr.id] = tr.row]
  <2>1. rows[tr.id] = tr.row /\ tr.row # Absent
        /\ \A i \in Ids \ {tr.id} : rows[i] = StoredRows[i]
    BY <1>4, <1>5, StoredRowsTyped, RowsAssumption
  <2>2. hist[pos].rows = rows
    BY <1>6
  <2> HIDE DEF rows
  <2>3. KeysFree(rows, tr.id, rows[tr.id]) /\ \A c \in Indexed : rows[tr.id][c] # Null
    BY <1>3, <1>4, <2>1, <2>2 DEF WellFormed
  <2> QED
    BY <2>1, <2>3 DEF KeysFree
<1>9. StoreGood' /\ CallsUpdate(tr.id, StoredRows[tr.id], tr.row) /\ Current' = hist[pos]
  BY <1>1, <1>4, <1>5, <1>6, <1>7, <1>8, ReplaceRecordCurrent
<1> QED
  BY <1>1, <1>5, <1>9, RecordReverted DEF tr

\* Undoing an INSERT (the DELETE branch of Table::revert) keeps the invariant.
LEMMA RevertInsertionStep ==
    ASSUME IInv, RevertInsertion
    PROVE  IInv' /\ CallsRemove(LastTrack.id, StoredRows[LastTrack.id])
<1> DEFINE tr == LastTrack
<1>1. UndoTrack("DELETE") /\ EraseRecord(AddrOf(tr.id), tr.id) /\ count' = count - 1
  BY DEF RevertInsertion
<1>2. pos > 0 /\ tr.type = "DELETE"
  BY <1>1 DEF UndoTrack, HasTrackToUndo
<1>3. tr \in Track /\ hist[pos] = Undo(tr, Current) /\ Undoable(tr, Current)
  BY <1>2, LastTrackUndoable
<1> HIDE DEF tr
<1>4. tr.id \in Ids
  BY <1>3, TrackTyped
<1>5. StoreInv /\ Current \in Version /\ WellFormed(Current) /\ count \in 0 .. MaxId
  BY StoreInvHolds DEF IInv, TypeOK
<1>6. hist[pos] = [rows |-> [StoredRows EXCEPT ![tr.id] = Absent], nextId |-> count']
  BY <1>1, <1>2, <1>3 DEF Undo, Current
<1>7. StoredRows[tr.id] # Absent /\ tr.id + 1 = count
  BY <1>2, <1>3 DEF Undoable, Current
<1>8. count' = tr.id /\ count' \in 0 .. MaxId
  BY <1>1, <1>4, <1>5, <1>7, BoundsAssumption DEF Ids
<1>9. \A i \in Ids \ {tr.id} : StoredRows[i] # Absent => i < count'
  <2>1. \A i \in Ids : StoredRows[i] # Absent => i < count
    BY <1>5, StoredRow DEF StoreInv
  <2> QED
    BY <1>4, <1>7, <1>8, <2>1 DEF Ids
<1>10. StoreGood' /\ CallsRemove(tr.id, StoredRows[tr.id]) /\ Current' = hist[pos]
  BY <1>1, <1>4, <1>5, <1>6, <1>7, <1>8, <1>9, EraseRecordCurrent
<1> QED
  BY <1>1, <1>8, <1>10, RecordReverted DEF tr
-----------------------------------------------------------------------------
(* The life of the table *)

EmptyVersion == [rows |-> [id \in Ids |-> Absent], nextId |-> 0]

\* With empty files and an empty journal the invariant holds, whatever is left
\* of it about the clock.
LEMMA EmptyTable ==
    ASSUME pages' = <<>>, idToAddr' = [id \in Ids |-> <<>>],
           indexes' = [c \in Indexed |-> [v \in Values |-> <<>>]],
           count' = 0, schemaCount' = 0, journal' = <<>>, pos' = 0, hist' = <<>>,
           mode' = "none", clock' \in Times, target' \in Times,
           frozen' \in [version : Version, pos : Nat]
    PROVE  IInv' /\ Current' = EmptyVersion
<1>1. SlotsOf(pages') = {}
  BY DEF SlotsOf
<1>2. IdsCoherent'
  BY <1>1 DEF IdsCoherent
<1>3. IndexesCoherent'
  BY <1>1 DEF IndexesCoherent
<1>4. StoredRows' = [id \in Ids |-> Absent]
  BY DEF StoredRows
<1>5. Current' = EmptyVersion
  BY <1>4 DEF Current, EmptyVersion
<1>6. JournalReplaysHistory' /\ TimesOrdered'
  BY DEF JournalReplaysHistory, TimesOrdered
<1>7. HistoryUndoable'
  BY <1>5 DEF HistoryUndoable, WellFormed, EmptyVersion
<1>8. RevertUnderWay' /\ FilesSettled'
  BY DEF RevertUnderWay, FilesSettled
<1>9. TypeOK'
  BY BoundsAssumption DEF TypeOK
<1> QED
  BY <1>2, <1>3, <1>5, <1>6, <1>7, <1>8, <1>9 DEF IInv

\* The frozen version of a table without a REVERT under way has its type.
LEMMA NothingFrozenTyped == NothingFrozen \in [version : Version, pos : Nat]
<1>1. [id \in Ids |-> Absent] \in [Ids -> Rows \union {Absent}] /\ 0 \in 0 .. MaxId
  BY BoundsAssumption
<1> QED
  BY <1>1 DEF NothingFrozen, Version

\* A process that has no table yet satisfies the invariant.
LEMMA InitIInv == Init => IInv /\ Current = EmptyVersion
<1> SUFFICES ASSUME Init PROVE IInv /\ Current = EmptyVersion
  OBVIOUS
<1> USE DEF Init
<1>1. SlotsOf(pages) = {}
  BY DEF SlotsOf
<1>2. IdsCoherent
  BY <1>1 DEF IdsCoherent
<1>3. IndexesCoherent
  BY <1>1 DEF IndexesCoherent
<1>4. Current = EmptyVersion
  <2>1. StoredRows = [id \in Ids |-> Absent]
    BY DEF StoredRows
  <2> QED
    BY <2>1 DEF Current, EmptyVersion
<1>5. JournalReplaysHistory /\ TimesOrdered
  BY DEF JournalReplaysHistory, TimesOrdered
<1>6. HistoryUndoable
  BY <1>4 DEF HistoryUndoable, WellFormed, EmptyVersion
<1>7. RevertUnderWay /\ FilesSettled
  BY DEF RevertUnderWay, FilesSettled
<1>8. TypeOK
  BY BoundsAssumption, NothingFrozenTyped DEF TypeOK, Times
<1> QED
  BY <1>2, <1>3, <1>4, <1>5, <1>6, <1>7, <1>8 DEF IInv

\* Application::DropTable, which removes every file, keeps the invariant.
LEMMA DropTableStep ==
    ASSUME IInv, DropTable
    PROVE  IInv' /\ Current' = EmptyVersion
BY EmptyTable DEF DropTable, NoFiles, IInv, TypeOK

\* A step that leaves the files, the journal up to pos and the count alone.
LEMMA Untouched ==
    ASSUME IInv, UNCHANGED <<files, count, journal, pos, hist>>
    PROVE  /\ Current' = Current
           /\ IdsCoherent' /\ IndexesCoherent' /\ JournalReplaysHistory' /\ HistoryUndoable'
<1>1. /\ Current' = Current
      /\ IdsCoherent' = IdsCoherent /\ IndexesCoherent' = IndexesCoherent
  BY UnchangedFiles
<1>2. IdsCoherent /\ IndexesCoherent /\ JournalReplaysHistory /\ HistoryUndoable
  BY DEF IInv
<1>3. \A i : After(i)' = After(i)
  BY <1>1 DEF After
<1>4. JournalReplaysHistory'
  BY <1>2, <1>3 DEF JournalReplaysHistory
<1>5. HistoryUndoable'
  BY <1>1, <1>2, <1>3 DEF HistoryUndoable
<1> QED
  BY <1>1, <1>2, <1>4, <1>5

\* Entering Table::revert keeps the invariant.
LEMMA BeginRevertStep ==
    ASSUME IInv, NEW t \in Times, BeginRevert(t)
    PROVE  IInv'
<1> USE DEF BeginRevert
<1>1. /\ Current' = Current
      /\ IdsCoherent' /\ IndexesCoherent' /\ JournalReplaysHistory' /\ HistoryUndoable'
  BY Untouched
<1>2. TypeOK'
  <2>1. Current \in Version
    BY StoreInvHolds
  <2>2. pos \in Nat
    BY DEF IInv, TypeOK
  <2>3. frozen' \in [version : Version, pos : Nat]
    BY <2>1, <2>2
  <2> QED
    BY <2>3 DEF IInv, TypeOK, files
<1>3. TimesOrdered'
  BY DEF IInv, TimesOrdered
<1>4. RevertUnderWay'
  BY <1>1 DEF RevertUnderWay, IInv, TypeOK
<1>5. FilesSettled'
  BY DEF FilesSettled
<1> QED
  BY <1>1, <1>2, <1>3, <1>4, <1>5 DEF IInv

\* Leaving the loop of Table::revert and saving the schema keeps the invariant
\* and the version.
LEMMA EndRevertStep ==
    ASSUME IInv, EndRevert
    PROVE  IInv' /\ Current' = Current
<1> USE DEF EndRevert
<1>1. /\ Current' = Current
      /\ IdsCoherent' /\ IndexesCoherent' /\ JournalReplaysHistory' /\ HistoryUndoable'
  BY Untouched
<1>2. TypeOK'
  BY NothingFrozenTyped, BoundsAssumption DEF IInv, TypeOK, files, Times
<1>3. TimesOrdered'
  BY DEF IInv, TimesOrdered
<1>4. RevertUnderWay' /\ FilesSettled'
  BY DEF RevertUnderWay, FilesSettled
<1> QED
  BY <1>1, <1>2, <1>3, <1>4 DEF IInv

\* Closing cuts off tracks that no REVERT will undo any more.
LEMMA CloseStep ==
    ASSUME IInv, Close
    PROVE  /\ IInv' /\ Current' = Current
           /\ \A i \in 1 .. pos : journal'[i] = journal[i] /\ hist'[i] = hist[i]
<1>1. /\ mode = "open" /\ mode' = "down" /\ pos' = pos
      /\ journal' = SubSeq(journal, 1, pos) /\ hist' = SubSeq(hist, 1, pos)
      /\ UNCHANGED <<clock, files, count, schemaCount, target, frozen>>
  BY DEF Close
<1>2. /\ journal \in Seq(Track) /\ hist \in Seq(Version) /\ pos \in Nat
      /\ pos <= Len(journal) /\ Len(hist) = Len(journal)
  BY DEF IInv, TypeOK, JournalReplaysHistory
<1>3. /\ journal' \in Seq(Track) /\ Len(journal') = pos
      /\ \A i \in 1 .. pos : journal'[i] = journal[i]
  BY <1>1, <1>2, SubSeqProperties
<1>4. /\ hist' \in Seq(Version) /\ Len(hist') = pos
      /\ \A i \in 1 .. pos : hist'[i] = hist[i]
  BY <1>1, <1>2, SubSeqProperties
<1>5. Current' = Current /\ IdsCoherent' /\ IndexesCoherent'
  BY <1>1, UnchangedFiles DEF IInv
<1>6. ASSUME NEW i \in 1 .. pos PROVE After(i)' = After(i)
  <2>1. CASE i = pos
    BY <1>1, <1>5, <2>1 DEF After
  <2>2. CASE i # pos
    <3>1. i + 1 \in 1 .. pos
      BY <1>2, <2>2
    <3> QED
      BY <1>1, <1>4, <2>2, <3>1 DEF After
  <2> QED
    BY <2>1, <2>2
<1>7. JournalReplaysHistory'
  BY <1>1, <1>3, <1>4, <1>6 DEF IInv, JournalReplaysHistory
<1>8. HistoryUndoable'
  BY <1>1, <1>3, <1>4, <1>5, <1>6 DEF IInv, HistoryUndoable
<1>9. TimesOrdered'
  <2>1. \A i \in 1 .. pos : /\ journal[i].time <= clock
                            /\ \A j \in 1 .. i : journal[j].time <= journal[i].time
    BY <1>2 DEF IInv, TimesOrdered
  <2>2. DOMAIN journal' = 1 .. pos
    BY <1>3
  <2>3. \A i \in 1 .. pos : \A j \in 1 .. i : j \in 1 .. pos
    BY <1>2
  <2> QED
    BY <1>1, <1>3, <2>1, <2>2, <2>3 DEF TimesOrdered
<1>10. TypeOK'
  BY <1>1, <1>2, <1>3, <1>4 DEF IInv, TypeOK, files
<1>11. RevertUnderWay' /\ FilesSettled'
  BY <1>1, <1>3 DEF RevertUnderWay, FilesSettled, IInv
<1> QED
  BY <1>3, <1>4, <1>5, <1>7, <1>8, <1>9, <1>10, <1>11 DEF IInv

\* The steps that change only the mode or the clock, or read back what the
\* files hold.
LEMMA QuietStep ==
    ASSUME IInv, CreateTable \/ KillSettled \/ Reopen \/ Tick \/ UNCHANGED vars
    PROVE  IInv' /\ Current' = Current /\ UNCHANGED <<journal, hist, pos, frozen>>
<1>1. /\ UNCHANGED <<files, count, schemaCount, journal, pos, hist, target, frozen>>
      /\ mode' \in {"none", "open", "reverting", "down"}
  BY DEF CreateTable, KillSettled, Kill, Reopen, Tick, vars, IInv, TypeOK, FilesSettled, files
<1>2. /\ Current' = Current
      /\ IdsCoherent' /\ IndexesCoherent' /\ JournalReplaysHistory' /\ HistoryUndoable'
  BY <1>1, Untouched
<1>3. clock' \in Times /\ clock <= clock' /\ clock \in Nat /\ clock' \in Nat
  BY BoundsAssumption DEF CreateTable, KillSettled, Kill, Reopen, Tick, vars, IInv, TypeOK, Times
<1>4. TypeOK'
  BY <1>1, <1>3 DEF IInv, TypeOK, files
<1>5. TimesOrdered'
  <2>1. \A i \in DOMAIN journal : journal[i] \in Track
    BY ElementOfSeq DEF IInv, TypeOK
  <2>2. \A i \in DOMAIN journal : journal[i].time \in Nat
    BY <2>1, TrackTyped, BoundsAssumption DEF Times
  <2> QED
    BY <1>1, <1>3, <2>2 DEF IInv, TimesOrdered
<1>6. RevertUnderWay'
  <2>1. mode' = "reverting" => mode = "reverting"
    BY DEF CreateTable, KillSettled, Kill, Reopen, Tick, vars
  <2> QED
    BY <1>1, <1>2, <2>1 DEF IInv, RevertUnderWay
<1>7. FilesSettled'
  BY <1>1 DEF CreateTable, KillSettled, Kill, Reopen, Tick, vars, IInv, FilesSettled
<1> QED
  BY <1>1, <1>2, <1>4, <1>5, <1>6, <1>7 DEF IInv
-----------------------------------------------------------------------------
(* The invariant and what follows from it *)

\* Every step of the table keeps the inductive invariant.
LEMMA NextIInv == IInv /\ [Next]_vars => IInv'
<1> SUFFICES ASSUME IInv, [Next]_vars PROVE IInv'
  OBVIOUS
<1>1. CASE CreateTable \/ KillSettled \/ Reopen \/ Tick \/ UNCHANGED vars
  BY <1>1, QuietStep
<1>2. CASE DropTable
  BY <1>2, DropTableStep
<1>3. ASSUME NEW row \in Rows, InsertRecord(row) PROVE IInv'
  BY <1>3, InsertRecordStep
<1>4. ASSUME NEW addr \in MatchingAddrs, NEW row \in Rows, UpdateRecord(addr, row) PROVE IInv'
  BY <1>4, UpdateRecordStep
<1>5. ASSUME NEW addr \in MatchingAddrs, DeleteRecord(addr) PROVE IInv'
  BY <1>5, DeleteRecordStep
<1>6. ASSUME NEW t \in Times, BeginRevert(t) PROVE IInv'
  BY <1>6, BeginRevertStep
<1>7. CASE RevertDeletion
  BY <1>7, RevertDeletionStep
<1>8. CASE RevertUpdate
  BY <1>8, RevertUpdateStep
<1>9. CASE RevertInsertion
  BY <1>9, RevertInsertionStep
<1>10. CASE EndRevert
  BY <1>10, EndRevertStep
<1>11. CASE Close
  BY <1>11, CloseStep
<1> QED
  BY <1>1, <1>2, <1>3, <1>4, <1>5, <1>6, <1>7, <1>8, <1>9, <1>10, <1>11
     DEF Next, Statement, RevertLoop

\* The inductive invariant holds in every state of the table: files, journal
\* and the history of versions agree, whatever was changed and undone before.
THEOREM Invariant == Spec => []IInv
<1>1. Init => IInv
  BY InitIInv
<1> QED
  BY <1>1, NextIInv, PTL DEF Spec

\* Every variable keeps its type.
THEOREM TypeCorrect == Spec => []TypeOK
<1>1. IInv => TypeOK
  BY DEF IInv
<1> QED
  BY <1>1, Invariant, PTL

\* The id tree always leads to exactly the cells that are not deleted, so that
\* Table::records never meets an empty optional.
THEOREM IdsAlwaysCoherent == Spec => []IdsCoherent
<1>1. IInv => IdsCoherent
  BY DEF IInv
<1> QED
  BY <1>1, Invariant, PTL

\* The column indexes always hold exactly the cells that are not deleted.
THEOREM IndexesAlwaysCoherent == Spec => []IndexesCoherent
<1>1. IInv => IndexesCoherent
  BY DEF IInv
<1> QED
  BY <1>1, Invariant, PTL

\* Undoing the journal from its end gives back the versions of the table.
THEOREM JournalAlwaysReplaysHistory == Spec => []JournalReplaysHistory
<1>1. IInv => JournalReplaysHistory
  BY DEF IInv
<1> QED
  BY <1>1, Invariant, PTL

\* No assertion of Table::revert fails.
THEOREM RevertNeverAborts == Spec => []RevertAssertionsHold
<1>1. ASSUME IInv PROVE RevertAssertionsHold
  <2> SUFFICES ASSUME mode = "reverting", HasTrackToUndo PROVE AssertionsHold
    BY DEF RevertAssertionsHold
  <2> DEFINE tr == LastTrack
  <2>1. tr \in Track /\ Undoable(tr, Current)
    BY <1>1, LastTrackUndoable DEF HasTrackToUndo
  <2>2. tr.id \in Ids
    BY <2>1, TrackTyped
  <2>3. tr.type # "INSERT" => StoredRows[tr.id] # Absent
    BY <2>1 DEF Undoable, Current
  <2>4. tr.type # "INSERT" => Len(idToAddr[tr.id]) = 1
    <3>1. StoredRows[tr.id] # Absent => idToAddr[tr.id] = <<AddrOf(tr.id)>>
      BY <1>1, <2>2, StoreInvHolds, StoredRow DEF StoreInv
    <3>2. Len(<<AddrOf(tr.id)>>) = 1
      OBVIOUS
    <3> QED
      BY <2>3, <3>1, <3>2
  <2>5. tr.type = "DELETE" => tr.id + 1 = count
    BY <2>1 DEF Undoable, Current
  <2> HIDE DEF tr
  <2> QED
    BY <2>4, <2>5 DEF AssertionsHold, tr
<1> QED
  BY <1>1, Invariant, PTL

\* An indexed lookup and a filtered scan of the table give the same records.
THEOREM LookupIsScan == Spec => []IndexAgreesWithScan
<1>1. ASSUME IInv PROVE IndexAgreesWithScan
  <2>1. StoreInv
    BY <1>1, StoreInvHolds
  <2>2. \A a : a \in ScannedAddrs <=> Exists(pages, a)
    <3>1. ASSUME NEW a \in ScannedAddrs PROVE Exists(pages, a)
      BY <2>1, StoredRow DEF ScannedAddrs, StoreInv
    <3>2. ASSUME NEW a, Exists(pages, a) PROVE a \in ScannedAddrs
      <4> DEFINE id == CellAt(pages, a).id
      <4>1. a \in SlotsOf(pages)
        BY <3>2 DEF Exists
      <4>2. id \in Ids /\ AddrOf(id) = a /\ StoredRows[id] # Absent
        BY <2>1, <3>2, <4>1, LiveCell DEF StoreInv
      <4>3. idToAddr[id] # <<>> /\ id < count
        BY <2>1, <4>2, StoredRow DEF StoreInv
      <4> HIDE DEF id
      <4> QED
        BY <4>2, <4>3 DEF ScannedAddrs
    <3> QED
      BY <3>1, <3>2
  <2>3. ASSUME NEW c \in Indexed, NEW v \in Values
        PROVE  FoundAddrs(c, v) = {a \in ScannedAddrs : CellAt(pages, a).row[c] = v}
    <3>1. ASSUME NEW a, Exists(pages, a), CellAt(pages, a).row[c] = v
          PROVE  a \in Range(indexes[c][v])
      <4>1. indexes[c][v] = <<a>>
        BY <2>1, <3>1, LiveIndexed
      <4>2. <<a>>[1] = a /\ 1 \in DOMAIN <<a>>
        OBVIOUS
      <4> QED
        BY <4>1, <4>2 DEF Range
    <3> QED
      BY <2>2, <3>1 DEF FoundAddrs
  <2> QED
    BY <2>3 DEF IndexAgreesWithScan
<1> QED
  BY <1>1, Invariant, PTL
-----------------------------------------------------------------------------
(* REVERT and the refinement *)

\* When no track is left to undo, every applied change is older than the target.
LEMMA RevertDone ==
    ASSUME IInv, ~HasTrackToUndo
    PROVE  \A i \in 1 .. pos : journal[i].time < target
<1>1. /\ pos \in 0 .. Len(journal) /\ Len(journal) \in Nat /\ target \in Nat
      /\ \A i \in 1 .. Len(journal) : journal[i].time \in Nat
  <2>1. journal \in Seq(Track)
    BY DEF IInv, TypeOK
  <2>2. \A i \in 1 .. Len(journal) : journal[i] \in Track
    BY <2>1, ElementOfSeq
  <2> QED
    BY <2>1, <2>2, TrackTyped, BoundsAssumption DEF IInv, TypeOK, Times
<1>2. \A i \in 1 .. pos : journal[i].time <= journal[pos].time
  BY <1>1 DEF IInv, TimesOrdered
<1>3. pos > 0 => journal[pos].time < target
  BY <1>1 DEF HasTrackToUndo, LastTrack
<1> QED
  BY <1>1, <1>2, <1>3

\* A REVERT always ends with only changes older than its timestamp applied.
THEOREM RevertAlwaysReachesItsTime == Spec => RevertReachesItsTime
<1> DEFINE Reached == EndRevert => \A i \in 1 .. pos : journal[i].time < target
<1>1. IInv /\ [Next]_vars => Reached
  BY RevertDone DEF EndRevert
<1>2. IInv => [Reached]_vars
  BY RevertDone DEF EndRevert
<1> QED
  BY <1>2, Invariant, PTL DEF RevertReachesItsTime

\* The trees of a table without records find nothing.
LEMMA EmptyTrees ==
    /\ Contents([id \in Ids |-> <<>>]) = <<>>
    /\ Contents([v \in Values |-> <<>>]) = <<>>
<1>1. \A K : Contents([key \in K |-> <<>>]) = [key \in {} |-> <<>>]
  BY DEF Contents
<1>2. [key \in {} |-> <<>>] = <<>>
  OBVIOUS
<1> QED BY <1>1, <1>2

\* DROP TABLE takes the trees away with their files.
LEMMA DropTableCalls ==
    ASSUME DropTable
    PROVE  IdTree!Discard /\ \A c \in Indexed : Index(c)!Discard
<1>1. idToAddr' = [id \in Ids |-> <<>>] /\ \A c \in Indexed : indexes'[c] = [v \in Values |-> <<>>]
  BY DEF DropTable, NoFiles
<1>2. IdTree!Discard
  BY <1>1, EmptyTrees DEF IdTree!Discard
<1>3. ASSUME NEW c \in Indexed PROVE Index(c)!Discard
  BY <1>1, EmptyTrees DEF Index!Discard
<1> QED BY <1>2, <1>3

\* No other step touches the trees.
LEMMA NotCalled ==
    ASSUME [Next]_vars
    PROVE  \/ DropTable \/ RevertDeletion \/ RevertUpdate \/ RevertInsertion
           \/ Statement /\ mode' = "open"
           \/ UNCHANGED <<idToAddr, indexes>>
<1>1. ASSUME NEW row \in Rows, InsertRecord(row) PROVE Statement /\ mode' = "open"
  BY <1>1 DEF Statement, InsertRecord
<1>2. ASSUME NEW addr \in MatchingAddrs, NEW row \in Rows, UpdateRecord(addr, row)
      PROVE  Statement /\ mode' = "open"
  BY <1>2 DEF Statement, UpdateRecord
<1>3. ASSUME NEW addr \in MatchingAddrs, DeleteRecord(addr) PROVE Statement /\ mode' = "open"
  BY <1>3 DEF Statement, DeleteRecord
<1>4. ASSUME NEW t \in Times, BeginRevert(t) PROVE UNCHANGED <<idToAddr, indexes>>
  BY <1>4 DEF BeginRevert, files
<1>5. CASE EndRevert \/ Close
  BY <1>5 DEF EndRevert, Close, files
<1>6. CASE CreateTable \/ KillSettled \/ Reopen \/ Tick \/ UNCHANGED vars
  BY <1>6 DEF CreateTable, KillSettled, Kill, Reopen, Tick, vars, files
<1>7. CASE Statement
  BY <1>1, <1>2, <1>3, <1>4, <1>7 DEF Statement
<1>8. CASE RevertLoop \/ DropTable
  BY <1>5, <1>8 DEF RevertLoop
<1> QED BY <1>5, <1>6, <1>7, <1>8 DEF Next

\* Whatever statements are run and undone, every row that is added is inserted in
\* every tree under a key that the tree does not have, every row that is replaced
\* or taken away is updated, moved or removed under the key that the tree has for
\* it, and no step changes what a search for another key finds.
THEOREM TreesAreAlwaysDictionaries == Spec => TreesAreDictionaries
<1>1. Init => IdTree!Init /\ \A c \in Indexed : Index(c)!Init
  <2> SUFFICES ASSUME Init PROVE IdTree!Init /\ \A c \in Indexed : Index(c)!Init
    OBVIOUS
  <2>1. idToAddr = [id \in Ids |-> <<>>] /\ \A c \in Indexed : indexes[c] = [v \in Values |-> <<>>]
    BY DEF Init
  <2> QED BY <2>1, EmptyTrees DEF IdTree!Init, Index!Init
<1>2. IInv /\ [Next]_vars => TreesCalled
  <2> SUFFICES ASSUME IInv, [Next]_vars PROVE TreesCalled
    OBVIOUS
  <2>1. ASSUME NEW row \in Rows, InsertRecord(row) PROVE CallsInsert(count, row)
    BY <2>1, InsertRecordStep
  <2>2. ASSUME NEW addr \in MatchingAddrs, NEW row \in Rows, UpdateRecord(addr, row)
        PROVE  CallsUpdate(CellAt(pages, addr).id, CellAt(pages, addr).row, row)
    <3>1. PICK id : id = CellAt(pages, addr).id
      OBVIOUS
    <3>2. CallsUpdate(id, StoredRows[id], row) /\ StoredRows[id] = CellAt(pages, addr).row
      BY <2>2, <3>1, UpdateRecordStep
    <3> QED BY <3>1, <3>2
  <2>3. ASSUME NEW addr \in MatchingAddrs, DeleteRecord(addr)
        PROVE  CallsRemove(CellAt(pages, addr).id, CellAt(pages, addr).row)
    <3>1. PICK id : id = CellAt(pages, addr).id
      OBVIOUS
    <3>2. CallsRemove(id, StoredRows[id]) /\ StoredRows[id] = CellAt(pages, addr).row
      BY <2>3, <3>1, DeleteRecordStep
    <3> QED BY <3>1, <3>2
  <2>4. RevertDeletion => CallsInsert(LastTrack.id, LastTrack.row)
    BY RevertDeletionStep
  <2>5. RevertUpdate => CallsUpdate(LastTrack.id, StoredRows[LastTrack.id], LastTrack.row)
    BY RevertUpdateStep
  <2>6. RevertInsertion => CallsRemove(LastTrack.id, StoredRows[LastTrack.id])
    BY RevertInsertionStep
  <2>7. DropTable => IdTree!Discard /\ \A c \in Indexed : Index(c)!Discard
    BY DropTableCalls
  <2> QED
    BY <2>1, <2>2, <2>3, <2>4, <2>5, <2>6, <2>7, NotCalled DEF TreesCalled
<1> QED
  BY <1>1, <1>2, Invariant, PTL DEF Spec, TreesAreDictionaries

\* The abstract log grows by one entry when a statement writes a track.
LEMMA LogGrows ==
    ASSUME IInv, mode = "open", mode' = "open", NEW tr, tr.time = clock, WriteTrack(tr)
    PROVE  AppliedLog' = Append(AppliedLog, [time |-> clock, before |-> AppliedVersion])
<1>1. /\ journal \in Seq(Track) /\ hist \in Seq(Version) /\ pos \in Nat
      /\ pos <= Len(journal) /\ Len(hist) = Len(journal)
  BY DEF IInv, TypeOK, JournalReplaysHistory
<1>2. /\ pos' = pos + 1
      /\ journal' = Append(SubSeq(journal, 1, pos), tr)
      /\ hist' = Append(SubSeq(hist, 1, pos), Current)
  BY DEF WriteTrack
<1>3. /\ \A i \in 1 .. pos : journal'[i] = journal[i] /\ hist'[i] = hist[i]
      /\ journal'[pos'].time = clock /\ hist'[pos'] = Current
  BY <1>1, <1>2, SubSeqProperties, AppendProperties
<1> DEFINE Entry(i) == [time |-> journal[i].time, before |-> hist[i]]
           last == [time |-> clock, before |-> Current]
<1>4. AppliedLog = [i \in 1 .. pos |-> Entry(i)] /\ AppliedVersion = Current
  BY DEF AppliedLog, AppliedVersion, Reverting
<1>5. AppliedLog' = [i \in 1 .. pos + 1 |-> IF i = pos + 1 THEN last ELSE Entry(i)]
  BY <1>1, <1>2, <1>3 DEF AppliedLog, Reverting
<1> HIDE DEF Entry, last
<1>6. Append([i \in 1 .. pos |-> Entry(i)], last)
        = [i \in 1 .. pos + 1 |-> IF i = pos + 1 THEN last ELSE Entry(i)]
  BY <1>1
<1> QED
  BY <1>4, <1>5, <1>6 DEF last

\* A free key is what the abstract table calls a row that fits.
LEMMA FreeFits ==
    ASSUME NEW rows, NEW id, NEW row, KeysFree(rows, id, row), \A c \in Indexed : row[c] # Null
    PROVE  Abstract!Fits(rows, id, row)
BY DEF Abstract!Fits, KeysFree, Abstract!Ids, Ids

\* A statement is the abstract change that it stands for.
LEMMA StatementChanges ==
    ASSUME IInv, mode = "open", mode' = "open", clock' = clock,
           NEW tr, tr.time = clock, WriteTrack(tr)
    PROVE  Abstract!Change(Current')
<1>1. AppliedLog' = Append(AppliedLog, [time |-> clock, before |-> AppliedVersion])
  BY LogGrows
<1>2. AppliedVersion' = Current'
  BY DEF AppliedVersion, Reverting
<1> QED
  BY <1>1, <1>2 DEF Abstract!Change

\* Table::insert_record is the abstract Insert.
LEMMA InsertImplements ==
    ASSUME IInv, NEW row \in Rows, InsertRecord(row)
    PROVE  Abstract!Insert(row)
<1> DEFINE tr == [time |-> clock, type |-> "DELETE", id |-> count]
<1>1. /\ mode = "open" /\ mode' = "open" /\ clock' = clock
      /\ tr.time = clock /\ WriteTrack(tr)
  BY DEF InsertRecord
<1> HIDE DEF tr
<1>2. /\ count \in Ids /\ KeysFree(StoredRows, count, row) /\ \A c \in Indexed : row[c] # Null
      /\ Current' = [rows |-> [StoredRows EXCEPT ![count] = row], nextId |-> count + 1]
  BY InsertRecordStep
<1>3. Abstract!Change(Current')
  BY <1>1, StatementChanges
<1>4. AppliedVersion.rows = StoredRows /\ AppliedVersion.nextId = count
  BY <1>1 DEF AppliedVersion, Reverting, Current
<1>5. Abstract!Fits(StoredRows, count, row)
  BY <1>2, FreeFits
<1> QED
  BY <1>2, <1>3, <1>4, <1>5 DEF Abstract!Insert, Abstract!Ids, Ids

\* Table::update_record is the abstract Update of the record's id.
LEMMA UpdateImplements ==
    ASSUME IInv, NEW addr \in MatchingAddrs, NEW row \in Rows, UpdateRecord(addr, row)
    PROVE  \E id \in Ids : Abstract!Update(id, row)
<1> DEFINE id == CellAt(pages, addr).id
           tr == [time |-> clock, type |-> "UPDATE", id |-> id, row |-> CellAt(pages, addr).row]
<1>1. /\ mode = "open" /\ mode' = "open" /\ clock' = clock
      /\ tr.time = clock /\ WriteTrack(tr)
  BY DEF UpdateRecord
<1> HIDE DEF tr, id
<1>2. /\ id \in Ids /\ StoredRows[id] # Absent
      /\ KeysFree(StoredRows, id, row) /\ \A c \in Indexed : row[c] # Null
      /\ Current' = [rows |-> [StoredRows EXCEPT ![id] = row], nextId |-> count]
  BY UpdateRecordStep DEF id
<1>3. Abstract!Change(Current')
  BY <1>1, StatementChanges
<1>4. AppliedVersion = [rows |-> StoredRows, nextId |-> count]
  BY <1>1 DEF AppliedVersion, Reverting, Current
<1>5. Abstract!Fits(StoredRows, id, row)
  BY <1>2, FreeFits
<1>6. Current' = [AppliedVersion EXCEPT !.rows[id] = row]
  BY <1>2, <1>4
<1>7. Abstract!Update(id, row)
  BY <1>2, <1>3, <1>4, <1>5, <1>6 DEF Abstract!Update
<1> QED
  BY <1>2, <1>7

\* Table::delete_record is the abstract Delete of the record's id.
LEMMA DeleteImplements ==
    ASSUME IInv, NEW addr \in MatchingAddrs, DeleteRecord(addr)
    PROVE  \E id \in Ids : Abstract!Delete(id)
<1> DEFINE id == CellAt(pages, addr).id
           tr == [time |-> clock, type |-> "INSERT", id |-> id, row |-> CellAt(pages, addr).row]
<1>1. /\ mode = "open" /\ mode' = "open" /\ clock' = clock
      /\ tr.time = clock /\ WriteTrack(tr)
  BY DEF DeleteRecord
<1> HIDE DEF tr, id
<1>2. /\ id \in Ids /\ StoredRows[id] # Absent
      /\ Current' = [rows |-> [StoredRows EXCEPT ![id] = Absent], nextId |-> count]
  BY DeleteRecordStep DEF id
<1>3. Abstract!Change(Current')
  BY <1>1, StatementChanges
<1>4. AppliedVersion = [rows |-> StoredRows, nextId |-> count]
  BY <1>1 DEF AppliedVersion, Reverting, Current
<1>5. Current' = [AppliedVersion EXCEPT !.rows[id] = Absent]
  BY <1>2, <1>4
<1>6. Abstract!Delete(id)
  BY <1>2, <1>3, <1>4, <1>5 DEF Abstract!Delete
<1> QED
  BY <1>2, <1>6

\* The end of a REVERT is the whole abstract REVERT.
LEMMA EndRevertImplements ==
    ASSUME IInv, EndRevert
    PROVE  Abstract!Revert(target)
<1>1. /\ mode = "reverting" /\ mode' = "open" /\ clock' = clock
      /\ ~HasTrackToUndo /\ pos' = pos /\ journal' = journal /\ hist' = hist
  BY DEF EndRevert
<1>2. /\ pos <= frozen.pos /\ frozen.pos <= Len(journal)
      /\ \A i \in pos + 1 .. frozen.pos : journal[i].time >= target
      /\ Current = IF pos = frozen.pos THEN frozen.version ELSE hist[pos + 1]
  BY <1>1 DEF IInv, RevertUnderWay
<1>3. pos \in Nat /\ frozen.pos \in Nat
  BY DEF IInv, TypeOK
<1> DEFINE Entry(i) == [time |-> journal[i].time, before |-> hist[i]]
<1>4. /\ AppliedLog = [i \in 1 .. frozen.pos |-> Entry(i)]
      /\ AppliedLog' = [i \in 1 .. pos |-> Entry(i)]
      /\ AppliedVersion = frozen.version /\ AppliedVersion' = Current
  <2>1. Current' = Current
    BY EndRevertStep
  <2> QED
    BY <1>1, <2>1 DEF AppliedLog, AppliedVersion, Reverting
<1>5. \A i \in 1 .. pos : journal[i].time < target
  BY <1>1, RevertDone
<1>6. Len(AppliedLog) = frozen.pos
  BY <1>3, <1>4
<1>7. pos \in 0 .. Len(AppliedLog)
  BY <1>2, <1>3, <1>6
<1>8. \A i \in 1 .. pos : AppliedLog[i].time < target
  BY <1>2, <1>3, <1>4, <1>5
<1>9. \A i \in pos + 1 .. Len(AppliedLog) : AppliedLog[i].time >= target
  BY <1>2, <1>3, <1>4, <1>6
<1>10. AppliedVersion' = IF pos = Len(AppliedLog) THEN AppliedVersion
                         ELSE AppliedLog[pos + 1].before
  BY <1>2, <1>3, <1>4, <1>6
<1>11. AppliedLog' = SubSeq(AppliedLog, 1, pos)
  <2> HIDE DEF Entry
  <2>1. SubSeq([i \in 1 .. frozen.pos |-> Entry(i)], 1, pos) = [i \in 1 .. pos |-> Entry(i)]
    BY <1>2, <1>3
  <2> QED
    BY <1>4, <2>1
<1>12. (mode # "none") /\ (mode' # "none")
  BY <1>1
<1> QED
  BY <1>1, <1>7, <1>8, <1>9, <1>10, <1>11, <1>12 DEF Abstract!Revert

\* The turns of the loop before the last are invisible.
LEMMA TurnStutters ==
    ASSUME NEW type, UndoTrack(type)
    PROVE  UNCHANGED Abstract!vars
<1>1. /\ mode = "reverting"
      /\ UNCHANGED <<mode, clock, journal, hist, frozen>>
  BY DEF UndoTrack
<1>2. AppliedVersion' = AppliedVersion
  BY <1>1 DEF AppliedVersion, Reverting
<1>3. AppliedLog' = AppliedLog
  BY <1>1 DEF AppliedLog, Reverting
<1> QED
  BY <1>1, <1>2, <1>3 DEF Abstract!vars

\* Entering Table::revert is invisible to the abstract table.
LEMMA BeginRevertStutters ==
    ASSUME NEW t, BeginRevert(t)
    PROVE  UNCHANGED Abstract!vars
<1>1. /\ mode = "open" /\ mode' = "reverting"
      /\ frozen' = [version |-> Current, pos |-> pos]
      /\ UNCHANGED <<clock, journal, pos, hist>>
  BY DEF BeginRevert
<1>2. AppliedVersion' = AppliedVersion
  BY <1>1 DEF AppliedVersion, Reverting
<1>3. AppliedLog' = AppliedLog
  BY <1>1 DEF AppliedLog, Reverting
<1> QED
  BY <1>1, <1>2, <1>3 DEF Abstract!vars

\* Closing the files, which cuts undone tracks off the journal, is invisible
\* to the abstract table.
LEMMA CloseStutters ==
    ASSUME IInv, Close
    PROVE  UNCHANGED Abstract!vars
<1>1. /\ mode = "open" /\ mode' = "down" /\ pos' = pos /\ clock' = clock
  BY DEF Close
<1>2. /\ Current' = Current
      /\ \A i \in 1 .. pos : journal'[i] = journal[i] /\ hist'[i] = hist[i]
  BY CloseStep
<1>3. AppliedVersion' = AppliedVersion
  BY <1>1, <1>2 DEF AppliedVersion, Reverting
<1>4. AppliedLog' = AppliedLog
  BY <1>1, <1>2 DEF AppliedLog, Reverting
<1> QED
  BY <1>1, <1>3, <1>4 DEF Abstract!vars

\* The steps that leave version and log alone, whatever they do to the mode.
LEMMA QuietImplements ==
    ASSUME IInv, CreateTable \/ KillSettled \/ Reopen \/ Tick \/ UNCHANGED vars
    PROVE  [Abstract!Next]_(Abstract!vars)
<1>1. Current' = Current /\ UNCHANGED <<journal, hist, pos, frozen>>
  BY QuietStep
<1>2. Reverting' = Reverting
  BY DEF CreateTable, KillSettled, Kill, Reopen, Tick, vars, Reverting
<1>3. AppliedVersion' = AppliedVersion
  BY <1>1, <1>2 DEF AppliedVersion
<1>4. AppliedLog' = AppliedLog
  BY <1>1, <1>2 DEF AppliedLog
<1>5. CASE CreateTable
  <2>1. Abstract!Create
    BY <1>3, <1>4, <1>5 DEF CreateTable, Abstract!Create
  <2> QED
    BY <2>1 DEF Abstract!Next
<1>6. CASE Tick
  <2>1. Abstract!Tick
    BY <1>3, <1>4, <1>6 DEF Tick, Abstract!Tick
  <2> QED
    BY <2>1 DEF Abstract!Next
<1>7. CASE KillSettled \/ Reopen \/ UNCHANGED vars
  <2>1. clock' = clock /\ (mode' # "none") = (mode # "none")
    BY <1>7 DEF KillSettled, Kill, Reopen, vars
  <2> QED
    BY <1>3, <1>4, <2>1 DEF Abstract!vars
<1> QED
  BY <1>5, <1>6, <1>7

\* Application::DropTable is the abstract Drop.
LEMMA DropImplements ==
    ASSUME IInv, DropTable
    PROVE  Abstract!Drop
<1>1. mode = "open" /\ mode' = "none" /\ clock' = clock /\ pos' = 0
  BY DEF DropTable
<1>2. AppliedVersion' = Abstract!Empty
  <2>1. Current' = EmptyVersion
    BY DropTableStep
  <2> QED
    BY <1>1, <2>1 DEF AppliedVersion, Reverting, EmptyVersion, Abstract!Empty, Abstract!Ids, Ids
<1>3. AppliedLog' = <<>>
  BY <1>1 DEF AppliedLog, Reverting
<1> QED
  BY <1>1, <1>2, <1>3 DEF Abstract!Drop

\* The initial state of the process is an initial state of the abstract table.
LEMMA InitImplements == Init => Abstract!Init
<1> SUFFICES ASSUME Init PROVE Abstract!Init
  OBVIOUS
<1>1. Current = EmptyVersion
  BY InitIInv
<1>2. AppliedVersion = Abstract!Empty
  BY <1>1 DEF Init, AppliedVersion, Reverting, EmptyVersion, Abstract!Empty, Abstract!Ids, Ids
<1>3. AppliedLog = <<>>
  BY DEF Init, AppliedLog, Reverting
<1> QED
  BY <1>2, <1>3 DEF Init, Abstract!Init

\* Every step of the table is a step of the abstract table or a stutter.
LEMMA NextImplements == IInv /\ [Next]_vars => [Abstract!Next]_(Abstract!vars)
<1> SUFFICES ASSUME IInv, [Next]_vars PROVE [Abstract!Next]_(Abstract!vars)
  OBVIOUS
<1>1. CASE CreateTable \/ KillSettled \/ Reopen \/ Tick \/ UNCHANGED vars
  BY <1>1, QuietImplements
<1>2. CASE DropTable
  BY <1>2, DropImplements DEF Abstract!Next
<1>3. ASSUME NEW row \in Rows, InsertRecord(row) PROVE Abstract!Next
  BY <1>3, InsertImplements DEF Abstract!Next
<1>4. ASSUME NEW addr \in MatchingAddrs, NEW row \in Rows, UpdateRecord(addr, row)
      PROVE  Abstract!Next
  BY <1>4, UpdateImplements DEF Abstract!Next, Abstract!Ids, Ids
<1>5. ASSUME NEW addr \in MatchingAddrs, DeleteRecord(addr) PROVE Abstract!Next
  BY <1>5, DeleteImplements DEF Abstract!Next, Abstract!Ids, Ids
<1>6. ASSUME NEW t \in Times, BeginRevert(t) PROVE UNCHANGED Abstract!vars
  BY <1>6, BeginRevertStutters
<1>7. CASE RevertDeletion \/ RevertUpdate \/ RevertInsertion
  BY <1>7, TurnStutters DEF RevertDeletion, RevertUpdate, RevertInsertion
<1>8. CASE EndRevert
  <2>1. target \in Abstract!Times
    BY DEF IInv, TypeOK, Abstract!Times, Times
  <2> QED
    BY <1>8, <2>1, EndRevertImplements DEF Abstract!Next
<1>9. CASE Close
  BY <1>9, CloseStutters
<1> QED
  BY <1>1, <1>2, <1>3, <1>4, <1>5, <1>6, <1>7, <1>8, <1>9 DEF Next, Statement, RevertLoop

\* The table implements VersionedTable: clients see whole versions, and a
\* REVERT gives the version before the first change at or after its timestamp.
THEOREM Implementation == Spec => ImplementsVersionedTable
<1>1. Init => Abstract!Init
  BY InitImplements
<1>2. IInv /\ [Next]_vars => [Abstract!Next]_(Abstract!vars)
  BY NextImplements
<1> QED
  BY <1>1, <1>2, Invariant, PTL DEF Spec, ImplementsVersionedTable, Abstract!Spec
=============================================================================
