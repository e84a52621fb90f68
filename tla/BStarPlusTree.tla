--------------------------- MODULE BStarPlusTree ---------------------------
(***************************************************************************)
(* The B*+ tree of qdb-storage, one file of which keeps each index and the *)
(* map from record ids to addresses.                                       *)
(*                                                                         *)
(* Page 0 of the file holds root_id and first_leaf_id, every other page a  *)
(* node.  An operation of the tree goes through the whole of its handler,  *)
(* with the rebalancing it starts, before another one can be called, so    *)
(* each is one action.  The operators below take the file and give it back *)
(* as their namesakes in the code leave it; ok turns FALSE where one of    *)
(* them throws or fails an assertion.                                      *)
(*                                                                         *)
(* Internal nodes are modelled up to the first split of an internal root,  *)
(* which makes a tree of height 3; no operation is modelled on a tree as   *)
(* high as that.                                                           *)
(***************************************************************************)
EXTENDS Integers, Sequences, FiniteSets, SequencesExt

CONSTANTS Keys,               \* the keys
          Values,
          PHYS_KEYS_INTERNAL, \* the keys an internal page has room for
          PHYS_SIZE_LEAF,     \* the entries a leaf page has room for
          MaxKeys             \* bound: keys that are in the tree at once

\* A page of the code has 4096 bytes, room for far more entries than this.
ASSUME TreeAssumption ==
    /\ Keys \subseteq Int
    /\ PHYS_KEYS_INTERNAL \in Nat /\ PHYS_KEYS_INTERNAL >= 3
    /\ PHYS_SIZE_LEAF \in Nat /\ PHYS_SIZE_LEAF >= 4
    /\ MaxKeys \in Nat

VARIABLES
    file,    \* the pages, root_id, first_leaf_id; and ok
    contents \* auxiliary: the entries that were inserted and not removed

vars == <<file, contents>>

MAX_KEYS_LEAF == PHYS_SIZE_LEAF - 1
MIN_KEYS_LEAF == (2 * PHYS_SIZE_LEAF - 1) \div 3
MAX_KEYS_INTERNAL == PHYS_KEYS_INTERNAL - 1
MIN_KEYS_INTERNAL == (2 * PHYS_KEYS_INTERNAL - 1) \div 3

None == -1       \* no page
DefaultKey == 0  \* K_t()
Unset == 0       \* a child that was never set

\* A leaf keeps entries and the next leaf, an internal node the children and
\* the keys between them.
NewLeaf == [isLeaf |-> TRUE, deleted |-> FALSE, entries |-> <<>>, next |-> None,
            keys |-> <<>>, children |-> <<>>]
NewInternal == [NewLeaf EXCEPT !.isLeaf = FALSE, !.children = <<Unset>>]

Init ==
    /\ file = [pages |-> <<>>, root |-> None, first |-> None, ok |-> TRUE]
    /\ contents = <<>>
-----------------------------------------------------------------------------
(* Nodes *)

Size(node) == IF node.isLeaf THEN Len(node.entries) ELSE Len(node.keys)
MaxSize(node) == IF node.isLeaf THEN MAX_KEYS_LEAF ELSE MAX_KEYS_INTERNAL
MinSize(node) == IF node.isLeaf THEN MIN_KEYS_LEAF ELSE MIN_KEYS_INTERNAL
Overflow(node) == Size(node) > MaxSize(node)
Underflow(node) == Size(node) < MinSize(node)
CanTake(node) == Size(node) < MaxSize(node)
CanLend(node, oneOfTwo) ==
    Size(node) > IF oneOfTwo THEN MaxSize(node) \div 2 ELSE MinSize(node)

FirstKey(node) == node.entries[1][1]
LeafKeys(node) == [i \in DOMAIN node.entries |-> node.entries[i][1]]

\* std::lower_bound: how many keys are below this one.
Below(keys, key) == Cardinality({i \in DOMAIN keys : keys[i] < key})

FindChild(node, key) == Cardinality({i \in DOMAIN node.keys : node.keys[i] <= key}) + 1

InsertInLeaf(node, key, value) ==
    [node EXCEPT !.entries = InsertAt(@, Below(LeafKeys(node), key) + 1, <<key, value>>)]

RemoveFromLeaf(node, key) ==
    [node EXCEPT !.entries = RemoveAt(@, Below(LeafKeys(node), key) + 1)]

\* Mutant: forgets the child.
InsertKeyInInternal(node, key, child) ==
    [node EXCEPT !.keys = InsertAt(@, Below(@, key) + 1, key)]

InsertInInternal(node, key, child) ==
    [node EXCEPT !.keys = InsertAt(@, Below(@, key) + 1, key),
                 !.children = InsertAt(@, Below(node.keys, key) + 2, child)]

\* The key i and the child to the right of it.
RemoveFromInternal(node, i) ==
    [node EXCEPT !.keys = RemoveAt(@, i), !.children = RemoveAt(@, i + 1)]

(* Pages *)

\* The page of a new node: the first that is deleted, or one appended.
NewPage(f) ==
    IF \E i \in DOMAIN f.pages : f.pages[i].deleted
    THEN CHOOSE i \in DOMAIN f.pages :
            f.pages[i].deleted /\ \A j \in 1 .. i - 1 : ~f.pages[j].deleted
    ELSE Len(f.pages) + 1

Write(f, id, node) ==
    [f EXCEPT !.pages =
        [i \in DOMAIN f.pages \union {id} |-> IF i = id THEN node ELSE f.pages[i]]]

\* Mutant: does not mark the page.
KeepMark(f, id) == f

MarkDeleted(f, id) == Write(f, id, [f.pages[id] EXCEPT !.deleted = TRUE])

SetNext(f, id, next) == Write(f, id, [f.pages[id] EXCEPT !.next = next])
SetKey(f, id, i, key) == Write(f, id, [f.pages[id] EXCEPT !.keys[i] = key])

\* Three parts of a number of entries, as equal as can be.
Thirds(total) ==
    LET first == total \div 3
        second == (total - first) \div 2
    IN  <<first, second, total - first - second>>

Expect(f, condition) == IF condition THEN f ELSE [f EXCEPT !.ok = FALSE]

\* The entries of two neighbour leaves, the first n in the left one.
Share(f, l, r, n) ==
    LET entries == f.pages[l].entries \o f.pages[r].entries
    IN  Write(Write(f, l, [f.pages[l] EXCEPT !.entries = SubSeq(entries, 1, n)]),
              r, [f.pages[r] EXCEPT !.entries = SubSeq(entries, n + 1, Len(entries))])

SendToRightLeaf(f, l, r, count) ==
    IF count \in 0 .. Size(f.pages[l]) /\ Size(f.pages[r]) + count <= MAX_KEYS_LEAF
    THEN Share(f, l, r, Size(f.pages[l]) - count)
    ELSE Expect(f, FALSE)

TakeFromRightLeaf(f, l, r, count) ==
    IF count \in 0 .. Size(f.pages[r]) /\ Size(f.pages[l]) + count <= MAX_KEYS_LEAF
    THEN Share(f, l, r, Size(f.pages[l]) + count)
    ELSE Expect(f, FALSE)

\* send_to_right_internal: count children and the keys between them go to the
\* right, the separator of both goes in between, the last key sent becomes the
\* separator.
SendToRightInternal(f, l, r, count, parent, i) ==
    LET left == f.pages[l]
        right == f.pages[r]
        kept == Size(left) - (count - 1)
        f1 == Write(f, r, [right EXCEPT
                !.keys = SubSeq(left.keys, kept + 1, Size(left))
                         \o <<f.pages[parent].keys[i]>> \o @,
                !.children = SubSeq(left.children, Len(left.children) - count + 1,
                                    Len(left.children)) \o @])
        f2 == Write(f1, l, [left EXCEPT !.keys = SubSeq(@, 1, kept),
                                        !.children = SubSeq(@, 1, kept + 1)])
    IN  SetKey(f2, parent, i, left.keys[kept + 1])
-----------------------------------------------------------------------------
(* Rebalancing.  parent is the page of the parent, i the place of a child or *)
(* of the separator to the right of it.                                      *)

\* Half of the entries of two leaves in each.
Halve(f, l, r) ==
    LET size == Size(f.pages[l])
        half == (size + Size(f.pages[r])) \div 2
    IN  IF size > half THEN SendToRightLeaf(f, l, r, size - half)
        ELSE TakeFromRightLeaf(f, l, r, half - size)

\* Mutant: forgets the separator.
RedistributeKeepsKey(f, l, r, parent, i) == Halve(f, l, r)

Redistribute2to2(f, l, r, parent, i) ==
    LET halved == Halve(f, l, r)
    IN  IF Size(f.pages[l]) = (Size(f.pages[l]) + Size(f.pages[r])) \div 2 THEN f
        ELSE SetKey(halved, parent, i, FirstKey(halved.pages[r]))

Redistribute3to3(f, l, m, r, parent, i) ==
    LET size(g, id) == Size(g.pages[id])
        s == Thirds(size(f, l) + size(f, m) + size(f, r))
        fromRight == TakeFromRightLeaf(f, l, m, s[1] - size(f, l))
        fromLeft == SendToRightLeaf(f, m, r, s[3] - size(f, r))
        shared ==
            IF Underflow(f.pages[l])
            THEN TakeFromRightLeaf(fromRight, m, r, s[2] - size(fromRight, m))
            ELSE SendToRightLeaf(fromLeft, l, m, s[2] - size(fromLeft, m))
        short == IF Underflow(f.pages[l]) THEN l ELSE r
        lender == IF Underflow(f.pages[l]) THEN r ELSE l
    IN  Expect(SetKey(SetKey(shared, parent, i, FirstKey(shared.pages[m])),
                      parent, i + 1, FirstKey(shared.pages[r])),
               /\ Underflow(f.pages[short]) /\ CanLend(f.pages[lender], FALSE)
               /\ size(f, m) = MIN_KEYS_LEAF)

\* A root with one child, and a second child for it.
GrowRoot(f, id, node) ==
    LET root == NewPage(f)
        f1 == [Write(f, root, [NewInternal EXCEPT !.children = <<id>>]) EXCEPT !.root = root]
        right == NewPage(f1)
        f2 == Write(f1, right, node)
    IN  [file |-> Write(f2, root, InsertInInternal(f2.pages[root], DefaultKey, right)),
         root |-> root, right |-> right]

\* Only when the root overflows.
SplitInternal1to2(f, id) ==
    LET grown == GrowRoot(f, id, NewInternal)
        half == Size(f.pages[id]) \div 2
    IN  SendToRightInternal(grown.file, id, grown.right, Size(f.pages[id]) - half, grown.root, 1)

SplitLeaf1to2(f, id) ==
    LET grown == GrowRoot(f, id, NewLeaf)
    IN  SetNext(Redistribute2to2(grown.file, id, grown.right, grown.root, 1), id, grown.right)

\* Mutant: leaves the new leaf out of the chain.
SplitWithoutChain(f, l, r, parent, i) ==
    LET s == Thirds(Size(f.pages[l]) + Size(f.pages[r]))
        new == NewPage(f)
        f1 == SendToRightLeaf(Write(f, new, NewLeaf), r, new, s[3])
        f2 == SendToRightLeaf(f1, l, r, s[2] - Size(f1.pages[r]))
        f4 == SetKey(f2, parent, i, FirstKey(f2.pages[r]))
    IN  Write(f4, parent, InsertInInternal(f4.pages[parent], FirstKey(f4.pages[new]), new))

SplitLeaves2to3(f, l, r, parent, i) ==
    LET s == Thirds(Size(f.pages[l]) + Size(f.pages[r]))
        new == NewPage(f)
        f1 == SendToRightLeaf(Write(f, new, NewLeaf), r, new, s[3])
        f2 == SendToRightLeaf(f1, l, r, s[2] - Size(f1.pages[r]))
        f3 == SetNext(SetNext(f2, new, f2.pages[r].next), r, new)
        f4 == SetKey(f3, parent, i, FirstKey(f3.pages[r]))
        f5 == Write(f4, parent, InsertInInternal(f4.pages[parent], FirstKey(f4.pages[new]), new))
    IN  IF Overflow(f5.pages[parent]) THEN SplitInternal1to2(f5, parent) ELSE f5

MergeLeaves3to2(f, l, m, r, parent, i) ==
    LET total == Size(f.pages[l]) + Size(f.pages[m]) + Size(f.pages[r])
        s1 == total \div 2
        f1 == TakeFromRightLeaf(f, l, m, s1 - Size(f.pages[l]))
        f2 == TakeFromRightLeaf(f1, m, r, total - s1 - Size(f1.pages[m]))
        f3 == MarkDeleted(SetNext(f2, m, f2.pages[r].next), r)
        f4 == SetKey(f3, parent, i, FirstKey(f1.pages[m]))
        f5 == Write(f4, parent, RemoveFromInternal(f4.pages[parent], i + 1))
    IN  Expect(f5, Size(f2.pages[l]) = s1 /\ Size(f2.pages[r]) = 0)

\* The assertions of handleLeafUnderflow and mergeLeaves2to1 come before any
\* change.
MergeLeaves2to1(f, l, r, parent) ==
    LET merged == TakeFromRightLeaf(f, l, r, Size(f.pages[r]))
        f1 == MarkDeleted(MarkDeleted(SetNext(merged, l, None), r), parent)
    IN  IF /\ Size(f.pages[l]) + Size(f.pages[r]) <= MAX_KEYS_LEAF
           /\ parent = f.root /\ f.pages[r].next = None
        THEN [f1 EXCEPT !.root = l]
        ELSE Expect(f, FALSE)

HandleLeafOverflow(f, id, parent, i) ==
    LET children == f.pages[parent].children
        hasLeft == i > 1
        hasRight == i < Len(children)
    IN  IF id = f.root THEN SplitLeaf1to2(f, id)
        ELSE IF hasLeft /\ CanTake(f.pages[children[i - 1]])
        THEN Redistribute2to2(f, children[i - 1], id, parent, i - 1)
        ELSE IF hasRight /\ CanTake(f.pages[children[i + 1]])
        THEN Redistribute2to2(f, id, children[i + 1], parent, i)
        ELSE IF hasLeft THEN SplitLeaves2to3(f, children[i - 1], id, parent, i - 1)
        ELSE SplitLeaves2to3(f, id, children[i + 1], parent, i)

\* Mutant: asks children of a root of two for as much as all others.
HandleLeafUnderflowStrictly(f, id, parent, i) ==
    LET children == f.pages[parent].children
        other == children[IF i > 1 THEN i - 1 ELSE i + 1]
    IN  IF CanLend(f.pages[other], FALSE)
        THEN IF i > 1 THEN Redistribute2to2(f, other, id, parent, i - 1)
             ELSE Redistribute2to2(f, id, other, parent, i)
        ELSE IF i > 1 THEN MergeLeaves2to1(f, other, id, parent)
        ELSE MergeLeaves2to1(f, id, other, parent)

HandleLeafUnderflow(f, id, parent, i) ==
    LET children == f.pages[parent].children
        n == Len(children)
        lends(j) == j \in 1 .. n /\ CanLend(f.pages[children[j]], n = 2)
        \* the three neighbours that are rebalanced together begin here
        j == IF i = 1 THEN 1 ELSE IF i = n THEN n - 2 ELSE i - 1
        outer == IF i = 1 THEN 3 ELSE n - 2
    IN  IF lends(i - 1) THEN Redistribute2to2(f, children[i - 1], id, parent, i - 1)
        ELSE IF lends(i + 1) THEN Redistribute2to2(f, id, children[i + 1], parent, i)
        ELSE IF n = 2 THEN MergeLeaves2to1(f, children[1], children[2], parent)
        ELSE IF i \in {1, n} /\ lends(outer)
        THEN Redistribute3to3(f, children[j], children[j + 1], children[j + 2], parent, j)
        ELSE MergeLeaves3to2(f, children[j], children[j + 1], children[j + 2], parent, j)
-----------------------------------------------------------------------------
(* The operations *)

\* findLeaf, in a tree of height 2 or less: where the search for a key ends,
\* with the last entry of the stack of parents.
FindLeaf(f, key) ==
    LET root == f.pages[f.root]
        i == FindChild(root, key)
    IN  IF root.isLeaf THEN [id |-> f.root, parent |-> None, place |-> 0]
        ELSE [id |-> root.children[i], parent |-> f.root, place |-> i]

CreateRoot(f) ==
    LET id == NewPage(f) IN [Write(f, id, NewLeaf) EXCEPT !.root = id, !.first = id]

Inserted(f, key, value) ==
    LET g == IF f.root = None THEN CreateRoot(f) ELSE f
        at == FindLeaf(g, key)
        h == Write(g, at.id, InsertInLeaf(g.pages[at.id], key, value))
    IN  IF Overflow(h.pages[at.id]) THEN HandleLeafOverflow(h, at.id, at.parent, at.place) ELSE h

Removed(f, key) ==
    LET at == FindLeaf(f, key)
        g == Write(f, at.id, RemoveFromLeaf(f.pages[at.id], key))
    IN  IF at.id = f.root
        THEN IF g.pages[at.id].entries # <<>> THEN g
             ELSE [MarkDeleted(g, at.id) EXCEPT !.root = None, !.first = None]
        ELSE IF Underflow(g.pages[at.id]) THEN HandleLeafUnderflow(g, at.id, at.parent, at.place)
        ELSE g

Updated(f, key, value) ==
    LET id == FindLeaf(f, key).id
        i == Below(LeafKeys(f.pages[id]), key) + 1
    IN  Write(f, id, [f.pages[id] EXCEPT !.entries[i] = <<key, value>>])

\* The entries of a key: from the place where the search ends, as long as the
\* key is the same.
Search(f, key) ==
    IF f.root = None THEN {}
    ELSE LET entries == f.pages[FindLeaf(f, key).id].entries
             start == Below(LeafKeys(f.pages[FindLeaf(f, key).id]), key) + 1
         IN  {entries[i] : i \in {j \in start .. Len(entries) :
                                     \A k \in start .. j : entries[k][1] = key}}

Height(f) ==
    IF f.root = None THEN 0
    ELSE IF f.pages[f.root].isLeaf THEN 1
    ELSE IF f.pages[f.pages[f.root].children[1]].isLeaf THEN 2
    ELSE 3

Modelled == Height(file) <= 2 /\ file.ok

\* A table inserts a key that is not there, removes and updates one that is.
InsertKey(key, value) ==
    /\ Modelled
    /\ key \notin DOMAIN contents /\ Cardinality(DOMAIN contents) < MaxKeys
    /\ file' = Inserted(file, key, value)
    /\ contents' = [k \in DOMAIN contents \union {key} |-> IF k = key THEN value ELSE contents[k]]

RemoveKey(key) ==
    /\ Modelled
    /\ key \in DOMAIN contents
    /\ file' = Removed(file, key)
    /\ contents' = [k \in DOMAIN contents \ {key} |-> contents[k]]

UpdateKey(key, value) ==
    /\ Modelled
    /\ key \in DOMAIN contents /\ contents[key] # value
    /\ file' = Updated(file, key, value)
    /\ contents' = [contents EXCEPT ![key] = value]

Next ==
    \/ \E key \in Keys, value \in Values : InsertKey(key, value)
    \/ \E key \in Keys, value \in Values : UpdateKey(key, value)
    \/ \E key \in Keys : RemoveKey(key)

Spec == Init /\ [][Next]_vars
-----------------------------------------------------------------------------
(* Properties *)

Live == {i \in DOMAIN file.pages : ~file.pages[i].deleted}

\* Every variable has its type.
TypeOK ==
    /\ file.root \in Live \union {None} /\ file.first \in Live \union {None}
    /\ file.ok \in BOOLEAN
    /\ \A i \in DOMAIN file.pages :
         LET node == file.pages[i] IN
         /\ node.isLeaf \in BOOLEAN /\ node.deleted \in BOOLEAN
         /\ node.entries \in Seq(Keys \X Values)
         /\ node.keys \in Seq(Keys \union {DefaultKey})
         /\ Len(node.children) = IF node.isLeaf THEN 0 ELSE Len(node.keys) + 1
         /\ node.next \in DOMAIN file.pages \union {None}
    /\ DOMAIN contents \subseteq Keys /\ \A key \in DOMAIN contents : contents[key] \in Values

\* The pages of a tree from left to right, below its root, or it alone.
LeavesBelow(id) ==
    IF id \notin Live \/ file.pages[id].isLeaf THEN <<id>> ELSE file.pages[id].children

Leaves == IF file.root = None THEN <<>> ELSE LeavesBelow(file.root)

\* check_integrity: every node but the root is filled well enough, its keys
\* ascend, and each separator is above what is to the left of it and not above
\* what is to the right.  b_star_plus_tree_test.cpp expects this after every
\* insert and remove.
CheckIntegrity ==
    \A id \in Live :
        LET node == file.pages[id]
            keys == IF node.isLeaf THEN LeafKeys(node) ELSE node.keys
            isRootChild == id \in Range(file.pages[file.root].children)
            least == IF id = file.root THEN 1
                     ELSE IF isRootChild THEN MaxSize(node) \div 2 ELSE MinSize(node)
        IN  /\ least <= Size(node) /\ ~Overflow(node)
            /\ \A i \in 1 .. Len(keys) - 1 : keys[i] < keys[i + 1]
            /\ \A i \in DOMAIN node.keys, j \in DOMAIN node.children :
                 ~node.isLeaf => \A leaf \in Range(LeavesBelow(node.children[j])) :
                    /\ leaf \in Live
                    /\ \A key \in Range(LeafKeys(file.pages[leaf])) : (key < node.keys[i]) = (j <= i)

\* No call throws and no assertion fails.
NeverFails == file.ok

\* No call throws and no assertion fails but the one of two leaves under a root
\* of two children, which do not always find room in one.
OnlyMergesFail ==
    file.ok \/ /\ Len(Leaves) = 2
               /\ Size(file.pages[Leaves[1]]) + Size(file.pages[Leaves[2]]) > MAX_KEYS_LEAF

\* Following next from the first leaf visits the leaves in the order of their
\* keys.
ChainIsInOrder ==
    LET n == Len(Leaves) IN
    /\ file.first = IF n = 0 THEN None ELSE Leaves[1]
    /\ \A i \in 1 .. n : file.pages[Leaves[i]].next = IF i = n THEN None ELSE Leaves[i + 1]

\* A search finds each entry that is in the tree, and no other; an iterator that
\* runs over the end of a leaf goes on in the right one, never in a deleted page.
SearchFindsAll ==
    /\ \A key \in Keys :
         Search(file, key) = IF key \in DOMAIN contents THEN {<<key, contents[key]>>} ELSE {}
    /\ ChainIsInOrder

\* What a search finds for each key.
SearchResults ==
    [key \in {k \in Keys : Search(file, k) # {}} |->
        (CHOOSE entry \in Search(file, key) : TRUE)[2]]

Dict == INSTANCE Dictionary WITH entries <- SearchResults

\* The pages keep a dictionary: whatever is redistributed, split and merged, an
\* insert, an update or a remove changes what is found for its own key alone.
ImplementsDictionary ==
    Dict!Init /\ [][Height(file') <= 2 => [Dict!Next]_SearchResults]_vars

\* Every page is a node of the tree, once, or is marked to be used again: the
\* file does not leak pages.
NoPageIsLost ==
    /\ IsInjective(Leaves)
    /\ Live = Range(Leaves) \union ({file.root} \ {None})
=============================================================================
