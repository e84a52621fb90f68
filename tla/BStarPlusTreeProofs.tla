------------------------ MODULE BStarPlusTreeProofs ------------------------
(***************************************************************************)
(* The properties of BStarPlusTree, proved for any keys and values, any    *)
(* room in the pages and any number of keys.                               *)
(*                                                                         *)
(* The invariant is TreeInv: a tree of height 1 or 2 is Whole.  Its leaves *)
(* L, from left to right, hold the entries of contents in ascending order; *)
(* each separator K of its root is above what is in the leaves before it   *)
(* and not above what is in the others; next leads along L; every leaf is  *)
(* as full as the number of leaves asks; and ok is FALSE only where two    *)
(* leaves that would have to be merged do not fit into one.  The calls of  *)
(* the code throw when a page runs over or under, so that they do not is   *)
(* what the sizes are in the invariant for.                                *)
(*                                                                         *)
(* From below upwards: sequences of entries, and what becomes of their     *)
(* order when neighbours share them; pages; leaves that share entries; the *)
(* splits, merges and redistributions, each of which keeps the tree; their *)
(* sizes; the three operations; and what the invariant says.               *)
(***************************************************************************)
EXTENDS BStarPlusTree, SequenceTheorems, FiniteSetTheorems, WellFoundedInduction, TLAPS

Entries == Seq(Keys \X Values)

\* Keys ascend within a leaf.
Ascending(e) == \A p, q \in 1 .. Len(e) : p < q => e[p][1] < e[q][1]

\* The keys of one leaf are below those of another.
Precedes(d, e) == \A x \in Range(d), y \in Range(e) : x[1] < y[1]

\* The entries of the leaves from left to right: they ascend over all leaves.
InOrder(E) ==
    /\ \A i \in 1 .. Len(E) : Ascending(E[i])
    /\ \A i, j \in 1 .. Len(E) : i < j => Precedes(E[i], E[j])

\* The key k separates the first i leaves from the others.
SeparatesAt(E, i, k) ==
    \A j \in 1 .. Len(E) : \A x \in Range(E[j]) : IF j <= i THEN x[1] < k ELSE k <= x[1]

Separated(E, K) == \A i \in 1 .. Len(K) : SeparatesAt(E, i, K[i])

Held(E) == UNION {Range(E[i]) : i \in 1 .. Len(E)}
-----------------------------------------------------------------------------
(* Entries *)

\* An entry of a leaf.
LEMMA EntryTyped ==
    ASSUME NEW e \in Entries, NEW p \in 1 .. Len(e)
    PROVE  e[p] \in Keys \X Values /\ e[p][1] \in Int /\ e[p][1] \in Keys /\ e[p] \in Range(e)
<1>1. e[p] \in Keys \X Values
  BY DEF Entries
<1>2. Keys \subseteq Int
  BY TreeAssumption
<1>3. DOMAIN e = 1 .. Len(e)
  BY DEF Entries
<1> QED
  BY <1>1, <1>2, <1>3 DEF Range

\* The entries of a leaf, as a set.
LEMMA RangeTyped ==
    ASSUME NEW e \in Entries, NEW x \in Range(e)
    PROVE  x \in Keys \X Values /\ x[1] \in Int /\ \E p \in 1 .. Len(e) : x = e[p]
<1>1. PICK p \in 1 .. Len(e) : x = e[p]
  BY DEF Entries, Range
<1> QED
  BY <1>1, EntryTyped

\* The two parts of the entries of two leaves, n in the left one.
LeftPart(d, e, n) == SubSeq(d \o e, 1, n)
RightPart(d, e, n) == SubSeq(d \o e, n + 1, Len(d \o e))

\* Two leaves that share their entries anew hold the same, in order.
LEMMA ShareParts ==
    ASSUME NEW d \in Entries, NEW e \in Entries, NEW n \in 0 .. Len(d) + Len(e),
           Ascending(d), Ascending(e),
           Precedes(d, e)
    PROVE  /\ LeftPart(d, e, n) \in Entries /\ RightPart(d, e, n) \in Entries
           /\ Len(LeftPart(d, e, n)) = n /\ Len(RightPart(d, e, n)) = Len(d) + Len(e) - n
           /\ Ascending(LeftPart(d, e, n)) /\ Ascending(RightPart(d, e, n))
           /\ Precedes(LeftPart(d, e, n), RightPart(d, e, n))
           /\ Range(LeftPart(d, e, n)) \union Range(RightPart(d, e, n)) = Range(d) \union Range(e)
<1> DEFINE c == d \o e
           s == LeftPart(d, e, n)
           t == RightPart(d, e, n)
<1>1. /\ c \in Entries /\ Len(c) = Len(d) + Len(e)
      /\ \A i \in 1 .. Len(c) : c[i] = IF i <= Len(d) THEN d[i] ELSE e[i - Len(d)]
  BY ConcatProperties DEF Entries
<1>2. Len(d) \in Nat /\ Len(e) \in Nat /\ Len(c) \in Nat
  BY <1>1 DEF Entries
<1>3. \A i \in 1 .. Len(c) : c[i] \in Keys \X Values /\ c[i][1] \in Int
  BY <1>1, EntryTyped
<1>4. Ascending(c)
  <2> SUFFICES ASSUME NEW p \in 1 .. Len(c), NEW q \in 1 .. Len(c), p < q
               PROVE  c[p][1] < c[q][1]
    BY DEF Ascending
  <2>1. CASE q <= Len(d)
    BY <1>1, <1>2, <2>1 DEF Ascending
  <2>2. CASE p > Len(d)
    <3>1. p - Len(d) \in 1 .. Len(e) /\ q - Len(d) \in 1 .. Len(e) /\ p - Len(d) < q - Len(d)
      BY <1>1, <1>2, <2>2
    <3>2. c[p] = e[p - Len(d)] /\ c[q] = e[q - Len(d)]
      BY <1>1, <1>2, <2>2
    <3> QED
      BY <3>1, <3>2 DEF Ascending
  <2>3. CASE p <= Len(d) /\ q > Len(d)
    <3>1. c[p] = d[p] /\ c[q] = e[q - Len(d)] /\ p \in 1 .. Len(d) /\ q - Len(d) \in 1 .. Len(e)
      BY <1>1, <1>2, <2>3
    <3>2. c[p] \in Range(d) /\ c[q] \in Range(e)
      BY <3>1, EntryTyped
    <3> QED
      BY <3>2 DEF Precedes
  <2> QED
    BY <1>2, <2>1, <2>2, <2>3
<1>5. Range(c) = Range(d) \union Range(e)
  BY RangeConcatenation DEF Entries
<1> HIDE DEF c
<1>6. s = SubSeq(c, 1, n) /\ t = SubSeq(c, n + 1, Len(c)) /\ n \in 0 .. Len(c) /\ n \in Int
  BY <1>1 DEF c, LeftPart, RightPart
<1> HIDE DEF s, t
<1>7. s \in Entries /\ Len(s) = n /\ \A i \in 1 .. n : s[i] = c[i]
  <2>1. \A i \in 1 .. n : c[i] \in Keys \X Values
    BY <1>2, <1>3, <1>6
  <2>2. /\ SubSeq(c, 1, n) \in Seq(Keys \X Values)
        /\ Len(SubSeq(c, 1, n)) = IF 1 <= n THEN n - 1 + 1 ELSE 0
        /\ \A i \in 1 .. n - 1 + 1 : SubSeq(c, 1, n)[i] = c[1 + i - 1]
    BY <2>1, <1>6, SubSeqProperties
  <2> QED
    BY <2>2, <1>2, <1>6 DEF Entries
<1>8. t \in Entries /\ Len(t) = Len(c) - n /\ \A i \in 1 .. Len(c) - n : t[i] = c[n + i]
  <2>1. \A i \in n + 1 .. Len(c) : c[i] \in Keys \X Values
    BY <1>2, <1>3, <1>6
  <2>2. /\ SubSeq(c, n + 1, Len(c)) \in Seq(Keys \X Values)
        /\ Len(SubSeq(c, n + 1, Len(c))) = IF n + 1 <= Len(c) THEN Len(c) - (n + 1) + 1 ELSE 0
        /\ \A i \in 1 .. Len(c) - (n + 1) + 1 : SubSeq(c, n + 1, Len(c))[i] = c[n + 1 + i - 1]
    BY <2>1, <1>2, <1>6, SubSeqProperties
  <2>3. \A i \in 1 .. Len(c) - n : i \in 1 .. Len(c) - (n + 1) + 1 /\ n + 1 + i - 1 = n + i
    BY <1>2, <1>6
  <2>4. \A i \in 1 .. Len(c) - n : t[i] = c[n + i]
    BY <2>2, <2>3, <1>6
  <2>5. Len(t) = Len(c) - n
    BY <2>2, <1>2, <1>6
  <2> QED
    BY <2>2, <2>4, <2>5, <1>6 DEF Entries
<1>9. Ascending(s)
  <2> SUFFICES ASSUME NEW p \in 1 .. n, NEW q \in 1 .. n, p < q
               PROVE  s[p][1] < s[q][1]
    BY <1>7 DEF Ascending
  <2>1. p \in 1 .. Len(c) /\ q \in 1 .. Len(c)
    BY <1>2, <1>6
  <2>2. s[p] = c[p] /\ s[q] = c[q]
    BY <1>7
  <2> QED
    BY <2>1, <2>2, <1>4 DEF Ascending
<1>12. Ascending(t)
  <2> SUFFICES ASSUME NEW p \in 1 .. Len(c) - n, NEW q \in 1 .. Len(c) - n, p < q
               PROVE  t[p][1] < t[q][1]
    BY <1>8 DEF Ascending
  <2>1. n + p \in 1 .. Len(c) /\ n + q \in 1 .. Len(c) /\ n + p < n + q
    BY <1>2, <1>6
  <2>2. t[p] = c[n + p] /\ t[q] = c[n + q]
    BY <1>8
  <2> QED
    BY <2>1, <2>2, <1>4 DEF Ascending
<1>10. Precedes(s, t)
  <2> SUFFICES ASSUME NEW x \in Range(s), NEW y \in Range(t)
               PROVE  x[1] < y[1]
    BY DEF Precedes
  <2>1. PICK p \in 1 .. n : x = c[p]
    <3>1. PICK p \in 1 .. n : x = s[p]
      BY <1>7, RangeTyped
    <3> QED
      BY <1>7, <3>1
  <2>2. PICK q \in 1 .. Len(c) - n : y = c[n + q]
    <3>1. PICK q \in 1 .. Len(c) - n : y = t[q]
      BY <1>8, RangeTyped
    <3> QED
      BY <1>8, <3>1
  <2>3. p \in 1 .. Len(c) /\ n + q \in 1 .. Len(c) /\ p < n + q
    BY <1>2, <1>6
  <2> QED
    BY <1>4, <2>1, <2>2, <2>3 DEF Ascending
<1>11. Range(s) \union Range(t) = Range(c)
  <2>1. \A x \in Range(s) : x \in Range(c)
    <3> TAKE x \in Range(s)
    <3>1. PICK p \in 1 .. n : x = c[p]
      <4>1. PICK p \in 1 .. n : x = s[p]
        BY <1>7, RangeTyped
      <4> QED
        BY <1>7, <4>1
    <3>2. p \in 1 .. Len(c)
      BY <1>2, <1>6
    <3> QED
      BY <1>1, <3>1, <3>2, EntryTyped
  <2>2. \A y \in Range(t) : y \in Range(c)
    <3> TAKE y \in Range(t)
    <3>1. PICK q \in 1 .. Len(c) - n : y = c[n + q]
      <4>1. PICK q \in 1 .. Len(c) - n : y = t[q]
        BY <1>8, RangeTyped
      <4> QED
        BY <1>8, <4>1
    <3>2. n + q \in 1 .. Len(c)
      BY <1>2, <1>6
    <3> QED
      BY <1>1, <3>1, <3>2, EntryTyped
  <2>3. \A z \in Range(c) : z \in Range(s) \/ z \in Range(t)
    <3> TAKE z \in Range(c)
    <3>1. PICK i \in 1 .. Len(c) : z = c[i]
      BY <1>1, RangeTyped
    <3>2. CASE i <= n
      <4>1. i \in 1 .. Len(s) /\ s[i] = z
        BY <1>7, <3>1, <3>2
      <4> QED
        BY <1>7, <4>1, EntryTyped
    <3>3. CASE i > n
      <4>1. i - n \in 1 .. Len(c) - n /\ n + (i - n) = i
        BY <1>2, <1>6, <3>1, <3>3
      <4>2. t[i - n] = z /\ i - n \in 1 .. Len(t)
        BY <1>8, <3>1, <4>1
      <4> QED
        BY <1>8, <4>2, EntryTyped
    <3> QED
      BY <1>2, <1>6, <3>2, <3>3
  <2> QED
    BY <2>1, <2>2, <2>3
<1> QED
  BY <1>1, <1>5, <1>7, <1>8, <1>9, <1>10, <1>11, <1>12 DEF s, t
-----------------------------------------------------------------------------
(* Entries of many leaves *)

\* What leaves hold together.
LEMMA HeldMembership ==
    ASSUME NEW E, NEW x
    PROVE  x \in Held(E) <=> \E i \in 1 .. Len(E) : x \in Range(E[i])
BY DEF Held

\* The entries of leaves.
LEMMA ListTyped ==
    ASSUME NEW E \in Seq(Entries)
    PROVE  /\ Len(E) \in Nat /\ DOMAIN E = 1 .. Len(E)
           /\ \A i \in 1 .. Len(E) : E[i] \in Entries /\ Len(E[i]) \in Nat
           /\ \A i \in 1 .. Len(E) : \A x \in Range(E[i]) : x[1] \in Int /\ x \in Keys \X Values
<1>1. \A i \in 1 .. Len(E) : E[i] \in Entries /\ Len(E[i]) \in Nat
  BY DEF Entries
<1> QED
  BY <1>1, RangeTyped

\* Moving entries between two neighbours keeps the order of all, and what they
\* hold together, and disturbs no separator but theirs.
LEMMA ShareInOrder ==
    ASSUME NEW E \in Seq(Entries), NEW F \in Seq(Entries), Len(F) = Len(E), InOrder(E),
           NEW a \in 1 .. Len(E), a + 1 \in 1 .. Len(E),
           NEW n \in 0 .. Len(E[a]) + Len(E[a + 1]),
           F[a] = LeftPart(E[a], E[a + 1], n), F[a + 1] = RightPart(E[a], E[a + 1], n),
           \A j \in 1 .. Len(E) : j \notin {a, a + 1} => F[j] = E[j]
    PROVE  /\ InOrder(F) /\ Held(F) = Held(E)
           /\ Len(F[a]) = n /\ Len(F[a + 1]) = Len(E[a]) + Len(E[a + 1]) - n
           /\ \A i \in Int : \A k : i # a /\ SeparatesAt(E, i, k) => SeparatesAt(F, i, k)
<1>1. E[a] \in Entries /\ E[a + 1] \in Entries /\ a < a + 1 /\ a \in Int
  BY DEF Entries
<1>2. Ascending(E[a]) /\ Ascending(E[a + 1]) /\ Precedes(E[a], E[a + 1])
  BY <1>1 DEF InOrder
<1>3. /\ F[a] \in Entries /\ F[a + 1] \in Entries
      /\ Len(F[a]) = n /\ Len(F[a + 1]) = Len(E[a]) + Len(E[a + 1]) - n
      /\ Ascending(F[a]) /\ Ascending(F[a + 1])
      /\ Precedes(F[a], F[a + 1])
      /\ Range(F[a]) \union Range(F[a + 1]) = Range(E[a]) \union Range(E[a + 1])
  <2>1. /\ LeftPart(E[a], E[a + 1], n) \in Entries /\ RightPart(E[a], E[a + 1], n) \in Entries
        /\ Len(LeftPart(E[a], E[a + 1], n)) = n
        /\ Len(RightPart(E[a], E[a + 1], n)) = Len(E[a]) + Len(E[a + 1]) - n
    BY <1>1, <1>2, ShareParts
  <2>2. Ascending(LeftPart(E[a], E[a + 1], n)) /\ Ascending(RightPart(E[a], E[a + 1], n))
    BY <1>1, <1>2, ShareParts
  <2>3. Precedes(LeftPart(E[a], E[a + 1], n), RightPart(E[a], E[a + 1], n))
    BY <1>1, <1>2, ShareParts
  <2>4. Range(LeftPart(E[a], E[a + 1], n)) \union Range(RightPart(E[a], E[a + 1], n))
          = Range(E[a]) \union Range(E[a + 1])
    BY <1>1, <1>2, ShareParts, ZenonT(40)
  <2> QED
    BY <2>1, <2>2, <2>3, <2>4
\* Each entry of F was in the same leaf of E or in the other one of the two.
<1>4. \A j \in 1 .. Len(E) : \A x \in Range(F[j]) :
        \E j0 \in 1 .. Len(E) : x \in Range(E[j0]) /\ (j0 = j \/ {j0, j} = {a, a + 1})
  BY <1>3
<1>5. \A j \in 1 .. Len(E) : \A x \in Range(E[j]) :
        \E j0 \in 1 .. Len(E) : x \in Range(F[j0])
  BY <1>3
<1>6. Held(F) = Held(E)
  <2>1. \A x \in Held(F) : x \in Held(E)
    <3> TAKE x \in Held(F)
    <3>1. PICK j \in 1 .. Len(E) : x \in Range(F[j])
      BY HeldMembership
    <3>2. PICK j0 \in 1 .. Len(E) : x \in Range(E[j0])
      BY <1>4, <3>1
    <3> QED
      BY <3>2, HeldMembership
  <2>2. \A x \in Held(E) : x \in Held(F)
    <3> TAKE x \in Held(E)
    <3>1. PICK j \in 1 .. Len(E) : x \in Range(E[j])
      BY HeldMembership
    <3>2. PICK j0 \in 1 .. Len(E) : x \in Range(F[j0])
      BY <1>5, <3>1
    <3> QED
      BY <3>2, HeldMembership
  <2> QED
    BY <2>1, <2>2
<1>7. InOrder(F)
  <2>1. \A i \in 1 .. Len(F) : Ascending(F[i])
    BY <1>3 DEF InOrder
  <2>2. ASSUME NEW i \in 1 .. Len(F), NEW j \in 1 .. Len(F), i < j,
               NEW x \in Range(F[i]), NEW y \in Range(F[j])
        PROVE  x[1] < y[1]
    <3>1. PICK i0 \in 1 .. Len(E) : x \in Range(E[i0]) /\ (i0 = i \/ {i0, i} = {a, a + 1})
      BY <1>4
    <3>2. PICK j0 \in 1 .. Len(E) : y \in Range(E[j0]) /\ (j0 = j \/ {j0, j} = {a, a + 1})
      BY <1>4
    <3>3. CASE i = a /\ j = a + 1
      BY <1>3, <3>3 DEF Precedes
    <3>4. CASE ~(i = a /\ j = a + 1)
      <4>1. /\ i0 = i \/ (i0 = a /\ i = a + 1) \/ (i0 = a + 1 /\ i = a)
            /\ (j0 = j \/ (j0 = a /\ j = a + 1) \/ (j0 = a + 1 /\ j = a))
        BY <3>1, <3>2
      <4>2. i0 < j0
        BY <2>2, <3>4, <4>1
      <4> QED
        BY <3>1, <3>2, <4>2 DEF InOrder, Precedes
    <3> QED
      BY <3>3, <3>4
  <2> QED
    BY <2>1, <2>2 DEF InOrder, Precedes
<1>8. ASSUME NEW i \in Int, NEW k, i # a, SeparatesAt(E, i, k)
      PROVE  SeparatesAt(F, i, k)
  <2> SUFFICES ASSUME NEW j \in 1 .. Len(F), NEW x \in Range(F[j])
               PROVE  IF j <= i THEN x[1] < k ELSE k <= x[1]
    BY DEF SeparatesAt
  <2>1. PICK j0 \in 1 .. Len(E) : x \in Range(E[j0]) /\ (j0 = j \/ {j0, j} = {a, a + 1})
    BY <1>4
  <2>2. j0 = j \/ (j0 = a /\ j = a + 1) \/ (j0 = a + 1 /\ j = a)
    BY <2>1
  <2>3. (j0 <= i) <=> (j <= i)
    BY <1>8, <2>2
  <2>4. IF j0 <= i THEN x[1] < k ELSE k <= x[1]
    BY <2>1, <1>8 DEF SeparatesAt
  <2> QED
    BY <2>3, <2>4
<1> QED
  BY <1>3, <1>6, <1>7, <1>8

\* The first key of a leaf separates it from those to the left of it.
LEMMA FirstKeySeparates ==
    ASSUME NEW E \in Seq(Entries), InOrder(E), NEW i \in 1 .. Len(E), i + 1 \in 1 .. Len(E),
           Len(E[i + 1]) # 0
    PROVE  SeparatesAt(E, i, E[i + 1][1][1]) /\ E[i + 1][1][1] \in Keys
<1>1. E[i + 1] \in Entries /\ 1 \in 1 .. Len(E[i + 1])
  BY ListTyped
<1> DEFINE e == E[i + 1]
           k == e[1][1]
<1>2. k \in Int /\ k \in Keys /\ e[1] \in Range(e)
  BY <1>1, EntryTyped
<1>3. ASSUME NEW j \in 1 .. Len(E), NEW x \in Range(E[j])
      PROVE  IF j <= i THEN x[1] < k ELSE k <= x[1]
  <2>1. CASE j <= i
    <3>1. j < i + 1
      BY <2>1
    <3> QED
      BY <1>2, <2>1, <3>1 DEF InOrder, Precedes
  <2>2. CASE j = i + 1
    <3>1. PICK q \in 1 .. Len(e) : x = e[q]
      BY <1>1, <2>2, RangeTyped
    <3>2. Ascending(e)
      BY <1>1 DEF InOrder
    <3>3. q = 1 \/ k < x[1]
      BY <1>1, <3>1, <3>2 DEF Ascending
    <3>4. x[1] \in Int
      BY ListTyped
    <3>5. k <= x[1]
      BY <1>2, <3>1, <3>3, <3>4
    <3> QED
      BY <2>2, <3>5
  <2>3. CASE j > i + 1
    <3>1. k < x[1]
      BY <1>2, <2>3 DEF InOrder, Precedes
    <3>2. x[1] \in Int
      BY ListTyped
    <3> QED
      BY <1>2, <2>3, <3>1, <3>2
  <2> QED
    BY <2>1, <2>2, <2>3
<1> QED
  BY <1>2, <1>3 DEF SeparatesAt

\* E with an empty leaf behind the first p.
Padded(E, F, p) ==
    /\ Len(F) = Len(E) + 1 /\ p \in 0 .. Len(E)
    /\ \A j \in 1 .. Len(E) : F[IF j <= p THEN j ELSE j + 1] = E[j]
    /\ F[p + 1] = <<>>

\* An empty leaf changes neither the order nor what is held, and its right
\* neighbours keep their separators, which move up by one.
LEMMA EmptyLeaf ==
    ASSUME NEW E \in Seq(Entries), NEW F \in Seq(Entries), NEW p, Padded(E, F, p)
    PROVE  /\ InOrder(E) <=> InOrder(F)
           /\ Held(F) = Held(E)
           /\ \A i \in Int : \A k :
                SeparatesAt(E, i, k) <=> SeparatesAt(F, IF i < p THEN i ELSE i + 1, k)
<1> DEFINE up(j) == IF j <= p THEN j ELSE j + 1
<1>1. /\ Len(E) \in Nat /\ Len(F) = Len(E) + 1 /\ p \in 0 .. Len(E) /\ p \in Int
      /\ F[p + 1] = <<>>
  BY ListTyped DEF Padded
<1>2. \A j \in 1 .. Len(E) : up(j) \in 1 .. Len(F) /\ F[up(j)] = E[j]
  BY <1>1 DEF Padded
<1>3. Range(F[p + 1]) = {} /\ Len(F[p + 1]) = 0
  BY <1>1 DEF Range
<1>4. \A m \in 1 .. Len(F) : m = p + 1 \/ \E j \in 1 .. Len(E) : m = up(j)
  <2> TAKE m \in 1 .. Len(F)
  <2>1. CASE m <= p
    BY <1>1, <2>1
  <2>2. CASE m > p + 1
    <3>1. m - 1 \in 1 .. Len(E) /\ up(m - 1) = m
      BY <1>1, <2>2
    <3> QED
      BY <3>1
  <2> QED
    BY <1>1, <2>1, <2>2
<1>5. \A i, j \in 1 .. Len(E) : (i < j) <=> (up(i) < up(j))
  BY <1>1
<1> HIDE DEF up
<1>6. Held(F) = Held(E)
  <2>1. \A x \in Held(F) : x \in Held(E)
    <3> TAKE x \in Held(F)
    <3>1. PICK m \in 1 .. Len(F) : x \in Range(F[m])
      BY HeldMembership
    <3>2. PICK j \in 1 .. Len(E) : m = up(j)
      BY <1>3, <1>4, <3>1
    <3> QED
      BY <1>2, <3>1, <3>2, HeldMembership
  <2>2. \A x \in Held(E) : x \in Held(F)
    BY <1>2, HeldMembership
  <2> QED
    BY <2>1, <2>2
<1>7. ASSUME InOrder(E) PROVE InOrder(F)
  <2>1. ASSUME NEW m \in 1 .. Len(F) PROVE Ascending(F[m])
    <3>1. CASE m = p + 1
      BY <1>3, <3>1 DEF Ascending
    <3>2. CASE m # p + 1
      <4>1. PICK j \in 1 .. Len(E) : m = up(j)
        BY <1>4, <3>2
      <4> QED
        BY <1>2, <1>7, <4>1 DEF InOrder
    <3> QED
      BY <3>1, <3>2
  <2>2. ASSUME NEW m \in 1 .. Len(F), NEW q \in 1 .. Len(F), m < q PROVE Precedes(F[m], F[q])
    <3>1. CASE m = p + 1 \/ q = p + 1
      BY <1>3, <3>1 DEF Precedes
    <3>2. CASE m # p + 1 /\ q # p + 1
      <4>1. PICK i \in 1 .. Len(E) : m = up(i)
        BY <1>4, <3>2
      <4>2. PICK j \in 1 .. Len(E) : q = up(j)
        BY <1>4, <3>2
      <4>3. i < j
        BY <1>5, <2>2, <4>1, <4>2
      <4> QED
        BY <1>2, <1>7, <4>1, <4>2, <4>3 DEF InOrder
    <3> QED
      BY <3>1, <3>2
  <2> QED
    BY <2>1, <2>2 DEF InOrder
<1>8. ASSUME InOrder(F) PROVE InOrder(E)
  BY <1>2, <1>5, <1>8 DEF InOrder
<1>9. ASSUME NEW i \in Int, NEW k
      PROVE  SeparatesAt(E, i, k) <=> SeparatesAt(F, IF i < p THEN i ELSE i + 1, k)
  <2> DEFINE i1 == IF i < p THEN i ELSE i + 1
  <2>1. \A j \in 1 .. Len(E) : (j <= i) <=> (up(j) <= i1)
    BY <1>1 DEF up
  <2> HIDE DEF i1
  <2>2. ASSUME SeparatesAt(E, i, k) PROVE SeparatesAt(F, i1, k)
    <3> SUFFICES ASSUME NEW m \in 1 .. Len(F), NEW x \in Range(F[m])
                 PROVE  IF m <= i1 THEN x[1] < k ELSE k <= x[1]
      BY DEF SeparatesAt
    <3>1. PICK j \in 1 .. Len(E) : m = up(j)
      BY <1>3, <1>4
    <3>2. IF j <= i THEN x[1] < k ELSE k <= x[1]
      BY <1>2, <2>2, <3>1 DEF SeparatesAt
    <3> QED
      BY <2>1, <3>1, <3>2
  <2>3. ASSUME SeparatesAt(F, i1, k) PROVE SeparatesAt(E, i, k)
    <3> SUFFICES ASSUME NEW j \in 1 .. Len(E), NEW x \in Range(E[j])
                 PROVE  IF j <= i THEN x[1] < k ELSE k <= x[1]
      BY DEF SeparatesAt
    <3>1. IF up(j) <= i1 THEN x[1] < k ELSE k <= x[1]
      BY <1>2, <2>3 DEF SeparatesAt
    <3> QED
      BY <2>1, <3>1
  <2> QED
    BY <2>2, <2>3 DEF i1
<1> QED
  BY <1>6, <1>7, <1>8, <1>9
-----------------------------------------------------------------------------
(* Sequences with an element more or less *)

\* InsertAt of the community modules.
LEMMA InsertAtProperties ==
    ASSUME NEW S, NEW s \in Seq(S), NEW x \in S, NEW i \in 1 .. Len(s) + 1
    PROVE  /\ InsertAt(s, i, x) \in Seq(S) /\ Len(InsertAt(s, i, x)) = Len(s) + 1
           /\ \A j \in 1 .. i - 1 : InsertAt(s, i, x)[j] = s[j]
           /\ InsertAt(s, i, x)[i] = x
           /\ \A j \in i .. Len(s) : InsertAt(s, i, x)[j + 1] = s[j]
<1> DEFINE a == SubSeq(s, 1, i - 1)
           b == SubSeq(s, i, Len(s))
           ax == a \o <<x>>
<1>1. Len(s) \in Nat /\ i \in Int /\ i - 1 \in Int /\ \A j \in 1 .. Len(s) : s[j] \in S
  OBVIOUS
<1>2. /\ a \in Seq(S) /\ Len(a) = IF 1 <= i - 1 THEN i - 1 - 1 + 1 ELSE 0
      /\ \A j \in 1 .. i - 1 - 1 + 1 : a[j] = s[1 + j - 1]
  <2>1. \A j \in 1 .. i - 1 : s[j] \in S
    BY <1>1
  <2> QED
    BY <1>1, <2>1, SubSeqProperties
<1>3. /\ b \in Seq(S) /\ Len(b) = IF i <= Len(s) THEN Len(s) - i + 1 ELSE 0
      /\ \A j \in 1 .. Len(s) - i + 1 : b[j] = s[i + j - 1]
  <2>1. \A j \in i .. Len(s) : s[j] \in S
    BY <1>1
  <2> QED
    BY <1>1, <2>1, SubSeqProperties
<1>4. Len(a) = i - 1 /\ Len(b) = Len(s) - i + 1
  BY <1>1, <1>2, <1>3
<1>5. <<x>> \in Seq(S) /\ Len(<<x>>) = 1 /\ <<x>>[1] = x
  OBVIOUS
<1> HIDE DEF a, b
<1>6. /\ ax \in Seq(S) /\ Len(ax) = Len(a) + 1
      /\ \A j \in 1 .. Len(a) + 1 : ax[j] = IF j <= Len(a) THEN a[j] ELSE <<x>>[j - Len(a)]
  BY <1>2, <1>5, ConcatProperties
<1> HIDE DEF ax
<1>7. /\ ax \o b \in Seq(S) /\ Len(ax \o b) = Len(ax) + Len(b)
      /\ \A j \in 1 .. Len(ax) + Len(b) : (ax \o b)[j] = IF j <= Len(ax) THEN ax[j] ELSE b[j - Len(ax)]
  <2>1. ax \in Seq(S) /\ b \in Seq(S)
    BY <1>3, <1>6
  <2> QED
    BY <2>1, ConcatProperties
<1>8. InsertAt(s, i, x) = ax \o b
  BY DEF InsertAt, ax, a, b
<1>9. ASSUME NEW j \in 1 .. i - 1 PROVE (ax \o b)[j] = s[j]
  <2>1. j \in 1 .. Len(ax) + Len(b) /\ j <= Len(ax) /\ j \in 1 .. Len(a) + 1 /\ j <= Len(a)
    BY <1>1, <1>4, <1>6
  <2>2. j \in 1 .. i - 1 - 1 + 1 /\ 1 + j - 1 = j
    BY <1>1
  <2> QED
    BY <1>2, <1>6, <1>7, <2>1, <2>2
<1>10. (ax \o b)[i] = x
  <2>1. i \in 1 .. Len(ax) + Len(b) /\ i <= Len(ax) /\ i \in 1 .. Len(a) + 1 /\ ~(i <= Len(a)) /\ i - Len(a) = 1
    BY <1>1, <1>4, <1>6
  <2> QED
    BY <1>5, <1>6, <1>7, <2>1
<1>11. ASSUME NEW j \in i .. Len(s) PROVE (ax \o b)[j + 1] = s[j]
  <2>1. j + 1 \in 1 .. Len(ax) + Len(b) /\ ~(j + 1 <= Len(ax)) /\ j + 1 - Len(ax) = j + 1 - i
    BY <1>1, <1>4, <1>6
  <2>2. j + 1 - i \in 1 .. Len(s) - i + 1 /\ i + (j + 1 - i) - 1 = j
    BY <1>1
  <2>3. (ax \o b)[j + 1] = b[j + 1 - i]
    BY <1>7, <2>1
  <2>4. b[j + 1 - i] = s[i + (j + 1 - i) - 1]
    BY <1>3, <2>2
  <2> QED
    BY <2>2, <2>3, <2>4
<1>12. Len(ax \o b) = Len(s) + 1
  BY <1>1, <1>4, <1>6, <1>7
<1> QED
  BY <1>7, <1>8, <1>9, <1>10, <1>11, <1>12

\* RemoveAt of the community modules.
LEMMA RemoveAtProperties ==
    ASSUME NEW S, NEW s \in Seq(S), NEW i \in 1 .. Len(s)
    PROVE  /\ RemoveAt(s, i) \in Seq(S) /\ Len(RemoveAt(s, i)) = Len(s) - 1
           /\ \A j \in 1 .. Len(s) - 1 : RemoveAt(s, i)[j] = IF j < i THEN s[j] ELSE s[j + 1]
<1> DEFINE a == SubSeq(s, 1, i - 1)
           b == SubSeq(s, i + 1, Len(s))
<1>1. Len(s) \in Nat /\ i \in Int /\ i - 1 \in Int /\ i + 1 \in Int /\ \A j \in 1 .. Len(s) : s[j] \in S
  OBVIOUS
<1>2. /\ a \in Seq(S) /\ Len(a) = IF 1 <= i - 1 THEN i - 1 - 1 + 1 ELSE 0
      /\ \A j \in 1 .. i - 1 - 1 + 1 : a[j] = s[1 + j - 1]
  <2>1. \A j \in 1 .. i - 1 : s[j] \in S
    BY <1>1
  <2> QED
    BY <1>1, <2>1, SubSeqProperties
<1>3. /\ b \in Seq(S) /\ Len(b) = IF i + 1 <= Len(s) THEN Len(s) - (i + 1) + 1 ELSE 0
      /\ \A j \in 1 .. Len(s) - (i + 1) + 1 : b[j] = s[i + 1 + j - 1]
  <2>1. \A j \in i + 1 .. Len(s) : s[j] \in S
    BY <1>1
  <2> QED
    BY <1>1, <2>1, SubSeqProperties
<1>4. Len(a) = i - 1 /\ Len(b) = Len(s) - i
  BY <1>1, <1>2, <1>3
<1> HIDE DEF a, b
<1>5. /\ a \o b \in Seq(S) /\ Len(a \o b) = Len(a) + Len(b)
      /\ \A j \in 1 .. Len(a) + Len(b) : (a \o b)[j] = IF j <= Len(a) THEN a[j] ELSE b[j - Len(a)]
  BY <1>2, <1>3, ConcatProperties
<1>6. RemoveAt(s, i) = a \o b
  BY DEF RemoveAt, a, b
<1>7. ASSUME NEW j \in 1 .. Len(s) - 1
      PROVE  (a \o b)[j] = IF j < i THEN s[j] ELSE s[j + 1]
  <2>1. CASE j < i
    <3>1. j \in 1 .. Len(a) + Len(b) /\ j <= Len(a) /\ j \in 1 .. i - 1 - 1 + 1 /\ 1 + j - 1 = j
      BY <1>1, <1>4, <2>1
    <3> QED
      BY <1>2, <1>5, <2>1, <3>1
  <2>2. CASE j >= i
    <3>1. j \in 1 .. Len(a) + Len(b) /\ ~(j <= Len(a))
      BY <1>1, <1>4, <2>2
    <3>2. j - Len(a) \in 1 .. Len(s) - (i + 1) + 1 /\ i + 1 + (j - Len(a)) - 1 = j + 1
      BY <1>1, <1>4, <2>2
    <3>3. (a \o b)[j] = s[j + 1]
      BY <1>3, <1>5, <3>1, <3>2
    <3> QED
      BY <1>1, <2>2, <3>3
  <2> QED
    <3>1. j < i \/ j >= i
      BY <1>1
    <3> QED
      BY <3>1, <2>1, <2>2
<1>8. Len(a \o b) = Len(s) - 1
  BY <1>1, <1>4, <1>5
<1> QED
  BY <1>5, <1>6, <1>7, <1>8
-----------------------------------------------------------------------------
(* Searching *)

\* A set of numbers has a least one.
LEMMA LeastElement ==
    ASSUME NEW S \in SUBSET Nat, S # {}
    PROVE  \E x \in S : \A y \in S : x <= y
<1>1. PICK x \in S : \A y \in S : ~(<<y, x>> \in OpToRel(<, Nat))
  BY WFMin, NatLessThanWellFounded
<1>2. \A y \in S : ~(y < x)
  BY <1>1 DEF OpToRel
<1> QED
  BY <1>2

\* A set of places that has every place to the left of one it has.
LEMMA LeftClosed ==
    ASSUME NEW n \in Nat, NEW D \in SUBSET (1 .. n),
           \A i, j \in 1 .. n : i < j /\ j \in D => i \in D
    PROVE  /\ Cardinality(D) \in 0 .. n
           /\ D = 1 .. Cardinality(D)
<1> DEFINE C == (1 .. n + 1) \ D
<1>1. PICK m \in C : \A j \in C : m <= j
  <2>1. C \in SUBSET Nat /\ n + 1 \in C
    OBVIOUS
  <2> HIDE DEF C
  <2> QED
    BY <2>1, LeastElement
<1>2. D = 1 .. m - 1
  <2>1. \A i \in 1 .. m - 1 : i \in D
    BY <1>1
  <2>2. \A i \in D : i < m
    <3> SUFFICES ASSUME NEW i \in D, i >= m PROVE FALSE
      BY <1>1
    <3>1. i # m /\ m \in 1 .. n /\ m \notin D
      BY <1>1
    <3> QED
      BY <1>1, <3>1
  <2>3. m \in 1 .. n + 1
    BY <1>1
  <2>4. \A i \in D : i \in 1 .. m - 1
    <3> TAKE i \in D
    <3>1. i \in 1 .. n /\ i < m
      BY <2>2
    <3> QED
      BY <2>3, <3>1
  <2> QED
    BY <2>1, <2>4
<1>3. Cardinality(1 .. m - 1) = m - 1 /\ m - 1 \in 0 .. n
  <2>1. 1 \in Int /\ m - 1 \in Int /\ m \in 1 .. n + 1
    BY <1>1
  <2>2. Cardinality(1 .. m - 1) = IF 1 > m - 1 THEN 0 ELSE m - 1 - 1 + 1
    BY <2>1, FS_Interval
  <2> QED
    BY <2>1, <2>2
<1> QED
  BY <1>2, <1>3

\* lower_bound in ascending keys: those below the key are the first ones.
LEMMA BelowPlace ==
    ASSUME NEW n \in Nat, NEW keys, DOMAIN keys = 1 .. n,
           \A i \in 1 .. n : keys[i] \in Int,
           \A i, j \in 1 .. n : i < j => keys[i] < keys[j],
           NEW key \in Int
    PROVE  /\ Below(keys, key) \in 0 .. n
           /\ \A i \in 1 .. n : keys[i] < key <=> i <= Below(keys, key)
<1> DEFINE D == {i \in DOMAIN keys : keys[i] < key}
<1>1. \A i, j \in 1 .. n : i < j /\ j \in D => i \in D
  OBVIOUS
<1>2. D \in SUBSET (1 .. n) /\ \A i \in 1 .. n : i \in D <=> keys[i] < key
  OBVIOUS
<1>3. Below(keys, key) = Cardinality(D)
  BY DEF Below
<1> HIDE DEF D
<1>4. Cardinality(D) \in 0 .. n /\ D = 1 .. Cardinality(D)
  BY <1>1, <1>2, LeftClosed
<1> QED
  BY <1>2, <1>3, <1>4

\* find_child_idx: the child to the right of the last key that is not above.
LEMMA ChildPlace ==
    ASSUME NEW n \in Nat, NEW node, DOMAIN node.keys = 1 .. n,
           \A i \in 1 .. n : node.keys[i] \in Int,
           \A i, j \in 1 .. n : i < j => node.keys[i] < node.keys[j],
           NEW key \in Int
    PROVE  /\ FindChild(node, key) \in 1 .. n + 1
           /\ \A i \in 1 .. n : node.keys[i] <= key <=> i < FindChild(node, key)
<1> DEFINE D == {i \in DOMAIN node.keys : node.keys[i] <= key}
<1>1. \A i, j \in 1 .. n : i < j /\ j \in D => i \in D
  OBVIOUS
<1>2. D \in SUBSET (1 .. n) /\ \A i \in 1 .. n : i \in D <=> node.keys[i] <= key
  OBVIOUS
<1>3. FindChild(node, key) = Cardinality(D) + 1
  BY DEF FindChild
<1> HIDE DEF D
<1>4. Cardinality(D) \in 0 .. n /\ D = 1 .. Cardinality(D)
  BY <1>1, <1>2, LeftClosed
<1> QED
  BY <1>2, <1>3, <1>4
-----------------------------------------------------------------------------
(* One entry more, less or with another value *)

\* The first entry that is not below the key.
LEMMA EntryPlace ==
    ASSUME NEW node, node.entries \in Entries, Ascending(node.entries), NEW key \in Int,
           NEW p, p = Below(LeafKeys(node), key)
    PROVE  /\ p \in 0 .. Len(node.entries)
           /\ \A i \in 1 .. Len(node.entries) : node.entries[i][1] < key <=> i <= p
<1> DEFINE e == node.entries
           keys == LeafKeys(node)
<1>1. Len(e) \in Nat /\ DOMAIN e = 1 .. Len(e) /\ \A i \in 1 .. Len(e) : e[i][1] \in Int
  BY EntryTyped DEF Entries
<1>2. DOMAIN keys = 1 .. Len(e) /\ \A i \in 1 .. Len(e) : keys[i] = e[i][1]
  BY <1>1 DEF LeafKeys
<1>3. \A i, j \in 1 .. Len(e) : i < j => keys[i] < keys[j]
  BY <1>2 DEF Ascending
<1> HIDE DEF keys, e
<1>4. /\ Below(keys, key) \in 0 .. Len(e)
      /\ \A i \in 1 .. Len(e) : keys[i] < key <=> i <= Below(keys, key)
  BY <1>1, <1>2, <1>3, BelowPlace
<1>5. p = Below(keys, key)
  BY DEF keys
<1> QED
  BY <1>2, <1>4, <1>5 DEF e

\* The place of an entry that is there.
LEMMA EntryFound ==
    ASSUME NEW node, node.entries \in Entries, Ascending(node.entries),
           NEW x \in Range(node.entries),
           NEW p, p = Below(LeafKeys(node), x[1])
    PROVE  p + 1 \in 1 .. Len(node.entries) /\ node.entries[p + 1] = x
<1> DEFINE e == node.entries
<1>1. x[1] \in Int
  BY RangeTyped
<1>2. p \in 0 .. Len(e) /\ \A i \in 1 .. Len(e) : e[i][1] < x[1] <=> i <= p
  BY <1>1, EntryPlace
<1>3. PICK q \in 1 .. Len(e) : x = e[q]
  BY RangeTyped
<1>4. Len(e) \in Nat /\ \A i \in 1 .. Len(e) : e[i][1] \in Int
  BY EntryTyped DEF Entries
<1>5. q > p
  BY <1>1, <1>2, <1>3
<1>6. p + 1 \in 1 .. Len(e)
  BY <1>2, <1>4, <1>5
<1>7. ~(e[p + 1][1] < x[1])
  BY <1>2, <1>6
<1>8. ~(p + 1 < q)
  BY <1>3, <1>6, <1>7 DEF Ascending
<1> QED
  BY <1>2, <1>3, <1>5, <1>6, <1>8

\* insert_in_leaf
LEMMA InsertEntry ==
    ASSUME NEW e \in Entries, Ascending(e), NEW key \in Keys, NEW value \in Values,
           \A x \in Range(e) : x[1] # key,
           NEW p \in 0 .. Len(e), \A i \in 1 .. Len(e) : e[i][1] < key <=> i <= p,
           NEW d, d = InsertAt(e, p + 1, <<key, value>>)
    PROVE  /\ d \in Entries /\ Len(d) = Len(e) + 1 /\ Ascending(d)
           /\ Range(d) = Range(e) \union {<<key, value>>}
<1> DEFINE x == <<key, value>>
<1>1. x \in Keys \X Values /\ x[1] = key /\ key \in Int /\ Len(e) \in Nat
  BY TreeAssumption DEF Entries
<1>2. \A i \in 1 .. Len(e) : e[i] \in Range(e) /\ e[i][1] \in Int
  BY EntryTyped
<1> HIDE DEF x
<1> DEFINE up(j) == IF j <= p THEN j ELSE j + 1
<1>3. /\ d \in Seq(Keys \X Values) /\ Len(d) = Len(e) + 1
      /\ d[p + 1] = x /\ \A j \in 1 .. Len(e) : d[up(j)] = e[j]
  <2> DEFINE S == Keys \X Values
             i == p + 1
  <2>1. x \in S /\ e \in Seq(S) /\ i \in 1 .. Len(e) + 1 /\ d = InsertAt(e, i, x)
    BY <1>1 DEF Entries, x
  <2>2. \A j \in 1 .. Len(e) : (j <= p => j \in 1 .. i - 1) /\ (~(j <= p) => j \in i .. Len(e))
    BY <1>1
  <2> HIDE DEF S, i
  <2>3. d \in Seq(S) /\ Len(d) = Len(e) + 1 /\ d[i] = x
    BY <2>1, InsertAtProperties
  <2>4. \A j \in 1 .. i - 1 : InsertAt(e, i, x)[j] = e[j]
    BY <2>1, InsertAtProperties, SMTT(40)
  <2>5. \A j \in i .. Len(e) : InsertAt(e, i, x)[j + 1] = e[j]
    BY <2>1, InsertAtProperties, SMTT(40)
  <2>6. \A j \in 1 .. Len(e) : d[up(j)] = e[j]
    BY <2>1, <2>2, <2>4, <2>5
  <2> QED
    BY <2>3, <2>6 DEF S, i
<1>4. \A j \in 1 .. Len(e) : up(j) \in 1 .. Len(e) + 1 /\ d[up(j)] = e[j]
  <2>1. \A j \in 1 .. Len(e) : up(j) \in 1 .. Len(e) + 1
    BY <1>1
  <2> QED
    BY <1>3, <2>1
<1>5. p + 1 \in 1 .. Len(e) + 1 /\ d[p + 1] = x
  BY <1>1, <1>3
<1>6. \A m \in 1 .. Len(e) + 1 : m = p + 1 \/ \E j \in 1 .. Len(e) : m = up(j)
  <2> TAKE m \in 1 .. Len(e) + 1
  <2>1. CASE m <= p
    BY <1>1, <2>1
  <2>2. CASE m > p + 1
    <3>1. m - 1 \in 1 .. Len(e) /\ up(m - 1) = m
      BY <1>1, <2>2
    <3> QED
      BY <3>1
  <2> QED
    BY <1>1, <2>1, <2>2
<1>7. /\ \A i, j \in 1 .. Len(e) : up(i) < up(j) => i < j
      /\ \A j \in 1 .. Len(e) : (up(j) < p + 1 => e[j][1] < key) /\ (p + 1 < up(j) => key < e[j][1])
  BY <1>1, <1>2
<1> HIDE DEF up
<1>8. Ascending(d)
  <2> SUFFICES ASSUME NEW m \in 1 .. Len(e) + 1, NEW q \in 1 .. Len(e) + 1, m < q
               PROVE  d[m][1] < d[q][1]
    BY <1>3 DEF Ascending
  <2>1. CASE m = p + 1
    <3>1. PICK j \in 1 .. Len(e) : q = up(j)
      BY <1>6, <2>1
    <3> QED
      BY <1>1, <1>4, <1>5, <1>7, <2>1, <3>1
  <2>2. CASE q = p + 1
    <3>1. PICK j \in 1 .. Len(e) : m = up(j)
      BY <1>6, <2>2
    <3> QED
      BY <1>1, <1>4, <1>5, <1>7, <2>2, <3>1
  <2>3. CASE m # p + 1 /\ q # p + 1
    <3>1. PICK i \in 1 .. Len(e) : m = up(i)
      BY <1>6, <2>3
    <3>2. PICK j \in 1 .. Len(e) : q = up(j)
      BY <1>6, <2>3
    <3>3. i < j /\ d[m] = e[i] /\ d[q] = e[j]
      BY <1>4, <1>7, <3>1, <3>2
    <3> QED
      BY <3>3 DEF Ascending
  <2> QED
    BY <2>1, <2>2, <2>3
<1>9. d \in Entries
  BY <1>3 DEF Entries
<1>10. Range(d) = Range(e) \union {x}
  <2>1. \A y \in Range(d) : y \in Range(e) \union {x}
    <3> TAKE y \in Range(d)
    <3>1. PICK m \in 1 .. Len(e) + 1 : y = d[m]
      BY <1>3, <1>9, RangeTyped
    <3> QED
      BY <1>2, <1>4, <1>5, <1>6, <3>1, ZenonT(40)
  <2>2. x \in Range(d)
    <3>1. d[p + 1] \in Range(d)
      BY <1>3, <1>5, <1>9, EntryTyped
    <3> QED
      BY <1>5, <3>1
  <2>3. \A y \in Range(e) : y \in Range(d)
    <3> TAKE y \in Range(e)
    <3>1. PICK j \in 1 .. Len(e) : y = e[j]
      BY RangeTyped
    <3>2. d[up(j)] \in Range(d)
      BY <1>3, <1>4, <1>9, EntryTyped
    <3> QED
      BY <1>4, <3>1, <3>2
  <2> QED
    BY <2>1, <2>2, <2>3
<1> QED
  BY <1>3, <1>8, <1>9, <1>10 DEF x

\* remove_from_leaf
LEMMA RemoveEntry ==
    ASSUME NEW e \in Entries, Ascending(e), NEW i \in 1 .. Len(e), NEW d, d = RemoveAt(e, i)
    PROVE  /\ d \in Entries /\ Len(d) = Len(e) - 1 /\ Ascending(d)
           /\ Range(d) = Range(e) \ {e[i]}
<1>1. Len(e) \in Nat /\ \A j \in 1 .. Len(e) : e[j] \in Range(e) /\ e[j][1] \in Int
  BY EntryTyped DEF Entries
<1>2. /\ d \in Entries /\ Len(d) = Len(e) - 1
      /\ \A j \in 1 .. Len(e) - 1 : d[j] = IF j < i THEN e[j] ELSE e[j + 1]
  BY RemoveAtProperties DEF Entries
<1> DEFINE up(j) == IF j < i THEN j ELSE j + 1
<1>3. \A j \in 1 .. Len(e) - 1 : up(j) \in 1 .. Len(e) /\ up(j) # i /\ d[j] = e[up(j)]
  BY <1>1, <1>2
<1>4. \A j, k \in 1 .. Len(e) - 1 : j < k => up(j) < up(k)
  BY <1>1
<1>5. \A k \in 1 .. Len(e) : k = i \/ \E j \in 1 .. Len(e) - 1 : k = up(j)
  <2> TAKE k \in 1 .. Len(e)
  <2>1. CASE k < i
    BY <1>1, <2>1
  <2>2. CASE k > i
    <3>1. k - 1 \in 1 .. Len(e) - 1 /\ up(k - 1) = k
      BY <1>1, <2>2
    <3> QED
      BY <3>1
  <2> QED
    BY <2>1, <2>2
<1> HIDE DEF up
<1>6. Ascending(d)
  <2> SUFFICES ASSUME NEW j \in 1 .. Len(e) - 1, NEW k \in 1 .. Len(e) - 1, j < k
               PROVE  d[j][1] < d[k][1]
    BY <1>2 DEF Ascending
  <2>1. up(j) < up(k) /\ d[j] = e[up(j)] /\ d[k] = e[up(k)] /\ up(j) \in 1 .. Len(e) /\ up(k) \in 1 .. Len(e)
    BY <1>3, <1>4
  <2> QED
    BY <2>1 DEF Ascending
<1>7. \A y \in Range(d) : y \in Range(e) /\ y # e[i]
  <2> TAKE y \in Range(d)
  <2>1. PICK j \in 1 .. Len(e) - 1 : y = d[j]
    BY <1>2, RangeTyped
  <2>2. y = e[up(j)] /\ up(j) \in 1 .. Len(e) /\ up(j) # i
    BY <1>3, <2>1
  <2>3. up(j) < i \/ i < up(j)
    BY <2>2
  <2>4. y[1] # e[i][1]
    BY <1>1, <2>2, <2>3 DEF Ascending
  <2> QED
    BY <1>1, <2>2, <2>4
<1>8. \A y \in Range(e) : y # e[i] => y \in Range(d)
  <2> TAKE y \in Range(e)
  <2> HAVE y # e[i]
  <2>1. PICK k \in 1 .. Len(e) : y = e[k]
    BY RangeTyped
  <2>2. PICK j \in 1 .. Len(e) - 1 : k = up(j)
    BY <1>5, <2>1
  <2>3. d[j] = y
    BY <1>3, <2>1, <2>2
  <2> QED
    BY <1>2, <2>3, EntryTyped
<1> QED
  BY <1>2, <1>6, <1>7, <1>8

\* S holds what R does, without A and with B.
Changed(R, S, A, B) == S = (R \ A) \union B

\* update_value
LEMMA UpdateEntry ==
    ASSUME NEW e \in Entries, Ascending(e), NEW i \in 1 .. Len(e), NEW value \in Values,
           NEW d, d = [e EXCEPT ![i] = <<e[i][1], value>>]
    PROVE  /\ d \in Entries /\ Len(d) = Len(e) /\ Ascending(d)
           /\ Changed(Range(e), Range(d), {e[i]}, {<<e[i][1], value>>})
<1> DEFINE x == <<e[i][1], value>>
<1>1. Len(e) \in Nat /\ \A j \in 1 .. Len(e) : e[j] \in Range(e) /\ e[j][1] \in Int /\ e[j][1] \in Keys
  BY EntryTyped DEF Entries
<1>2. x \in Keys \X Values /\ x[1] = e[i][1]
  BY <1>1
<1> HIDE DEF x
<1>3. /\ d \in Entries /\ Len(d) = Len(e)
      /\ \A j \in 1 .. Len(e) : d[j] = IF j = i THEN x ELSE e[j]
  BY <1>1, <1>2 DEF Entries, x
<1>4. \A j \in 1 .. Len(e) : d[j][1] = e[j][1]
  BY <1>2, <1>3
<1>5. Ascending(d)
  BY <1>3, <1>4 DEF Ascending
<1>6. \A y \in Range(d) : y = x \/ (y \in Range(e) /\ y # e[i])
  <2> TAKE y \in Range(d)
  <2>1. PICK j \in 1 .. Len(e) : y = d[j]
    BY <1>3, RangeTyped, ZenonT(40)
  <2>2. CASE j # i
    <3>1. y = e[j] /\ (j < i \/ i < j)
      BY <1>3, <2>1, <2>2
    <3>2. y[1] # e[i][1]
      BY <1>1, <3>1 DEF Ascending
    <3> QED
      BY <1>1, <3>1, <3>2
  <2> QED
    BY <1>3, <2>1, <2>2
<1>7. x \in Range(d)
  <2>1. d[i] = x
    BY <1>3
  <2> QED
    BY <1>3, <2>1, EntryTyped
<1>8. \A y \in Range(e) : y # e[i] => y \in Range(d)
  <2> TAKE y \in Range(e)
  <2> HAVE y # e[i]
  <2>1. PICK j \in 1 .. Len(e) : y = e[j]
    BY RangeTyped
  <2>2. d[j] = y
    BY <1>3, <2>1
  <2> QED
    BY <1>3, <2>2, EntryTyped
<1>9. Range(d) = (Range(e) \ {e[i]}) \union {x}
  BY <1>6, <1>7, <1>8
<1> QED
  BY <1>3, <1>5, <1>9 DEF x, Changed
\* y has the key of x.
SameKey(x, y) == \E value \in Values : y = <<x[1], value>>

Replaced(e, i, y) == [e EXCEPT ![i] = y]

\* The entries of a leaf after an update of one of them.
ValueSet(e, d, x, y) ==
    d \in Entries /\ Len(d) = Len(e) /\ Ascending(d) /\ Changed(Range(e), Range(d), {x}, {y})

\* An entry gets another value.
LEMMA EntryUpdated ==
    ASSUME NEW e \in Entries, Ascending(e), NEW i \in 1 .. Len(e), NEW x, x = e[i],
           NEW y, SameKey(x, y), NEW d, d = Replaced(e, i, y)
    PROVE  ValueSet(e, d, x, y)
<1>1. PICK value \in Values : y = <<e[i][1], value>>
  BY Zenon DEF SameKey
<1>2. d = [e EXCEPT ![i] = <<e[i][1], value>>]
  BY <1>1, Zenon DEF Replaced
<1>3. /\ d \in Entries /\ Len(d) = Len(e) /\ Ascending(d)
      /\ Changed(Range(e), Range(d), {e[i]}, {<<e[i][1], value>>})
  BY <1>2, UpdateEntry
<1> QED
  BY <1>1, <1>3, Zenon DEF ValueSet
-----------------------------------------------------------------------------
(* The leaf of a key *)

\* Only leaf c may have the key.
Placed(E, c, key) ==
    \A j \in 1 .. Len(E) : \A y \in Range(E[j]) :
        (j < c => y[1] < key) /\ (c < j => key < y[1])

\* Where the search ends.
LEMMA FoundPlace ==
    ASSUME NEW E \in Seq(Entries), NEW K, Len(K) \in Nat, Len(E) = Len(K) + 1, Separated(E, K),
           \A i \in 1 .. Len(K) : K[i] \in Int,
           NEW key \in Int, NEW c \in 1 .. Len(E),
           \A i \in 1 .. Len(K) : K[i] <= key <=> i < c
    PROVE  Placed(E, c, key)
<1> SUFFICES ASSUME NEW j \in 1 .. Len(E), NEW y \in Range(E[j])
             PROVE  (j < c => y[1] < key) /\ (c < j => key < y[1])
  BY DEF Placed
<1>1. y[1] \in Int
  BY ListTyped
<1>2. ASSUME j < c PROVE y[1] < key
  <2>1. c - 1 \in 1 .. Len(K) /\ j <= c - 1
    BY <1>2
  <2>2. y[1] < K[c - 1]
    BY <2>1 DEF Separated, SeparatesAt
  <2>3. K[c - 1] <= key /\ K[c - 1] \in Int
    BY <2>1
  <2> QED
    BY <1>1, <2>2, <2>3
<1>3. ASSUME c < j PROVE key < y[1]
  <2>1. c \in 1 .. Len(K) /\ ~(j <= c)
    BY <1>3
  <2>2. K[c] <= y[1]
    BY <2>1 DEF Separated, SeparatesAt
  <2>3. ~(K[c] <= key) /\ K[c] \in Int
    BY <2>1
  <2> QED
    BY <1>1, <2>2, <2>3
<1> QED
  BY <1>2, <1>3

\* The leaf of a key may get other entries, if only that key is new among them.
LEMMA ReplaceLeaf ==
    ASSUME NEW E \in Seq(Entries), NEW F \in Seq(Entries), Len(F) = Len(E), InOrder(E),
           NEW K, Len(K) \in Nat, Len(E) = Len(K) + 1, Separated(E, K),
           \A i \in 1 .. Len(K) : K[i] \in Int,
           NEW key \in Int, NEW c \in 1 .. Len(E),
           \A i \in 1 .. Len(K) : K[i] <= key <=> i < c,
           \A j \in 1 .. Len(E) : j # c => F[j] = E[j],
           Ascending(F[c]), \A x \in Range(F[c]) : x[1] = key \/ x \in Range(E[c])
    PROVE  InOrder(F) /\ Separated(F, K)
<1>1. Placed(E, c, key)
  BY FoundPlace
<1>2. \A j \in 1 .. Len(E) : \A x \in Range(F[j]) : (j = c /\ x[1] = key) \/ x \in Range(E[j])
  OBVIOUS
<1>3. InOrder(F)
  <2>1. \A j \in 1 .. Len(F) : Ascending(F[j])
    BY DEF InOrder
  <2>2. ASSUME NEW i \in 1 .. Len(E), NEW j \in 1 .. Len(E), i < j,
               NEW x \in Range(F[i]), NEW y \in Range(F[j])
        PROVE  x[1] < y[1]
    <3>1. CASE x \in Range(E[i]) /\ y \in Range(E[j])
      BY <2>2, <3>1 DEF InOrder, Precedes
    <3>2. CASE i = c /\ x[1] = key /\ y \in Range(E[j])
      BY <1>1, <2>2, <3>2 DEF Placed
    <3>3. CASE j = c /\ y[1] = key /\ x \in Range(E[i])
      BY <1>1, <2>2, <3>3 DEF Placed
    <3> QED
      BY <1>2, <2>2, <3>1, <3>2, <3>3
  <2> QED
    BY <2>1, <2>2 DEF InOrder, Precedes
<1>4. Separated(F, K)
  <2> SUFFICES ASSUME NEW i \in 1 .. Len(K), NEW j \in 1 .. Len(E), NEW x \in Range(F[j])
               PROVE  IF j <= i THEN x[1] < K[i] ELSE K[i] <= x[1]
    BY DEF Separated, SeparatesAt
  <2>1. CASE x \in Range(E[j])
    BY <2>1 DEF Separated, SeparatesAt
  <2>2. CASE j = c /\ x[1] = key
    <3>1. K[i] \in Int /\ (K[i] <= key <=> i < c)
      OBVIOUS
    <3>2. CASE j <= i
      <4>1. key < K[i]
        BY <2>2, <3>1, <3>2
      <4> QED
        BY <2>2, <3>2, <4>1
    <3>3. CASE ~(j <= i)
      <4>1. K[i] <= key
        BY <2>2, <3>1, <3>3
      <4> QED
        BY <2>2, <3>3, <4>1
    <3> QED
      BY <3>2, <3>3
  <2> QED
    BY <1>2, <2>1, <2>2
<1> QED
  BY <1>3, <1>4

\* What the leaves hold when the entries of a key's leaf have changed.
LEMMA HeldReplaced ==
    ASSUME NEW E \in Seq(Entries), NEW F \in Seq(Entries), Len(F) = Len(E),
           NEW c \in 1 .. Len(E), NEW key, Placed(E, c, key), key \in Int,
           \A j \in 1 .. Len(E) : j # c => F[j] = E[j],
           NEW A, NEW B, \A x \in A : x[1] = key,
           Changed(Range(E[c]), Range(F[c]), A, B)
    PROVE  Changed(Held(E), Held(F), A, B)
<1>0. Range(F[c]) = (Range(E[c]) \ A) \union B
  BY DEF Changed
<1>1. \A j \in 1 .. Len(E) : j # c => \A x \in Range(E[j]) : x \notin A
  <2> TAKE j \in 1 .. Len(E)
  <2> HAVE j # c
  <2> TAKE x \in Range(E[j])
  <2>1. x[1] \in Int
    BY ListTyped
  <2>2. x[1] < key \/ key < x[1]
    BY DEF Placed
  <2> QED
    BY <2>1, <2>2
<1>2. \A x : x \in Held(F) => x \in (Held(E) \ A) \union B
  <2> TAKE x
  <2> HAVE x \in Held(F)
  <2>1. PICK j \in 1 .. Len(E) : x \in Range(F[j])
    BY HeldMembership
  <2>2. CASE j = c
    BY <1>0, <2>1, <2>2, HeldMembership
  <2>3. CASE j # c
    BY <1>1, <2>1, <2>3, HeldMembership
  <2> QED
    BY <2>2, <2>3
<1>3. \A x : x \in (Held(E) \ A) \union B => x \in Held(F)
  <2> TAKE x
  <2> HAVE x \in (Held(E) \ A) \union B
  <2>1. CASE x \in B
    BY <1>0, <2>1, HeldMembership
  <2>2. CASE x \in Held(E) /\ x \notin A
    <3>1. PICK j \in 1 .. Len(E) : x \in Range(E[j])
      BY <2>2, HeldMembership
    <3>2. x \in Range(F[j])
      BY <1>0, <2>2, <3>1
    <3> QED
      BY <3>2, HeldMembership
  <2> QED
    BY <2>1, <2>2
<1>4. Held(F) = (Held(E) \ A) \union B
  BY <1>2, <1>3
<1> QED
  BY <1>4 DEF Changed
-----------------------------------------------------------------------------
(* Files *)

NodeKeys == Keys \union {DefaultKey}

Node == [isLeaf : BOOLEAN, deleted : BOOLEAN, entries : Entries, next : Int,
         keys : Seq(NodeKeys), children : Seq(Nat)]

Files == [pages : Seq(Node), root : Int, first : Int, ok : BOOLEAN]

\* The fields of a file.
LEMMA FileTyped ==
    ASSUME NEW f \in Files
    PROVE  /\ f.pages \in Seq(Node) /\ f.root \in Int /\ f.first \in Int /\ f.ok \in BOOLEAN
           /\ Len(f.pages) \in Nat /\ DOMAIN f.pages = 1 .. Len(f.pages)
           /\ \A i \in DOMAIN f.pages : f.pages[i] \in Node
BY DEF Files

\* The fields of a node.
LEMMA NodeTyped ==
    ASSUME NEW node \in Node
    PROVE  /\ node.isLeaf \in BOOLEAN /\ node.deleted \in BOOLEAN /\ node.entries \in Entries
           /\ node.next \in Int /\ node.keys \in Seq(NodeKeys) /\ node.children \in Seq(Nat)
BY DEF Node

\* save_to_disk
LEMMA WriteEffect ==
    ASSUME NEW f \in Files, NEW id \in 1 .. Len(f.pages) + 1, NEW node \in Node,
           NEW g, g = Write(f, id, node)
    PROVE  /\ g \in Files /\ g.root = f.root /\ g.first = f.first /\ g.ok = f.ok
           /\ DOMAIN g.pages = DOMAIN f.pages \union {id}
           /\ g.pages[id] = node
           /\ \A i \in DOMAIN f.pages : i # id => g.pages[i] = f.pages[i]
<1> DEFINE pages == [i \in DOMAIN f.pages \union {id} |-> IF i = id THEN node ELSE f.pages[i]]
<1>1. f.pages \in Seq(Node) /\ Len(f.pages) \in Nat /\ DOMAIN f.pages = 1 .. Len(f.pages)
      /\ \A i \in DOMAIN f.pages : f.pages[i] \in Node
  BY FileTyped
<1>2. g = [f EXCEPT !.pages = pages]
  BY DEF Write
<1>3. PICK n \in Nat : DOMAIN f.pages \union {id} = 1 .. n
  <2>1. CASE id = Len(f.pages) + 1
    <3>1. DOMAIN f.pages \union {id} = 1 .. Len(f.pages) + 1
      BY <1>1, <2>1
    <3> QED
      BY <1>1, <3>1
  <2>2. CASE id # Len(f.pages) + 1
    <3>1. DOMAIN f.pages \union {id} = 1 .. Len(f.pages)
      BY <1>1, <2>2
    <3> QED
      BY <1>1, <3>1
  <2> QED
    BY <2>1, <2>2
<1>4. \A i \in 1 .. n : (IF i = id THEN node ELSE f.pages[i]) \in Node
  BY <1>1, <1>3
<1>5. pages \in Seq(Node)
  <2> DEFINE e(i) == IF i = id THEN node ELSE f.pages[i]
  <2>1. pages = [i \in 1 .. n |-> e(i)] /\ \A i \in 1 .. n : e(i) \in Node
    BY <1>3, <1>4
  <2> HIDE DEF e, pages
  <2>2. [i \in 1 .. n |-> e(i)] \in Seq(Node)
    BY <2>1, IsASeq
  <2> QED
    BY <2>1, <2>2
<1> HIDE DEF pages
<1>6. g \in Files /\ g.pages = pages /\ g.root = f.root /\ g.first = f.first /\ g.ok = f.ok
  BY <1>2, <1>5 DEF Files
<1> QED
  BY <1>6 DEF pages

\* A new node gets a page that no node is in.
LEMMA NewPageFree ==
    ASSUME NEW f \in Files
    PROVE  /\ NewPage(f) \in 1 .. Len(f.pages) + 1
           /\ NewPage(f) \in DOMAIN f.pages => f.pages[NewPage(f)].deleted
<1>1. Len(f.pages) \in Nat /\ DOMAIN f.pages = 1 .. Len(f.pages)
  BY FileTyped
<1>2. CASE ~\E i \in DOMAIN f.pages : f.pages[i].deleted
  BY <1>1, <1>2 DEF NewPage
<1>3. CASE \E i \in DOMAIN f.pages : f.pages[i].deleted
  <2> DEFINE S == {i \in DOMAIN f.pages : f.pages[i].deleted}
  <2>1. PICK i \in S : \A j \in S : i <= j
    <3>1. S \in SUBSET Nat /\ S # {}
      BY <1>1, <1>3
    <3> HIDE DEF S
    <3> QED
      BY <3>1, LeastElement
  <2>2. i \in DOMAIN f.pages /\ f.pages[i].deleted
    BY <2>1
  <2>3. \A j \in 1 .. i - 1 : ~f.pages[j].deleted
    BY <1>1, <2>1
  <2>4. NewPage(f) \in DOMAIN f.pages /\ f.pages[NewPage(f)].deleted
    BY <1>3, <2>2, <2>3 DEF NewPage
  <2> QED
    BY <1>1, <2>4
<1> QED
  BY <1>2, <1>3
-----------------------------------------------------------------------------
(* The shape of a tree of one leaf, or of a root and its leaves *)

Lists(f, L) == [i \in 1 .. Len(L) |-> f.pages[L[i]].entries]

\* L is a sequence of different leaves.
LeafSeq(f, L) ==
    /\ L \in Seq(Nat)
    /\ \A i, j \in 1 .. Len(L) : L[i] = L[j] => i = j
    /\ \A i \in 1 .. Len(L) :
         L[i] \in DOMAIN f.pages /\ f.pages[L[i]].isLeaf /\ ~f.pages[L[i]].deleted

\* What TypeOK says of the pages, and does not follow from Files.
PagesTyped(f) ==
    \A i \in DOMAIN f.pages :
        /\ f.pages[i].next \in DOMAIN f.pages \union {None}
        /\ Len(f.pages[i].children) = IF f.pages[i].isLeaf THEN 0 ELSE Len(f.pages[i].keys) + 1

\* The root has the leaves L and between them the separators K, and no page is
\* lost.
Frame(f, L, K) ==
    /\ f \in Files /\ PagesTyped(f) /\ LeafSeq(f, L)
    /\ K \in Seq(NodeKeys) /\ Len(L) = Len(K) + 1
    /\ f.root \in DOMAIN f.pages
    /\ Len(L) = 1 => f.root = L[1]
    /\ Len(L) > 1 => /\ ~f.pages[f.root].isLeaf /\ ~f.pages[f.root].deleted
                     /\ f.pages[f.root].children = L /\ f.pages[f.root].keys = K
    /\ \A id \in DOMAIN f.pages : f.pages[id].deleted \/ id = f.root \/ \E i \in 1 .. Len(L) : id = L[i]

Chained(f, L) ==
    /\ f.first = L[1]
    /\ \A i \in 1 .. Len(L) : f.pages[L[i]].next = IF i = Len(L) THEN None ELSE L[i + 1]

\* Only entries of leaves are different.
SameButEntries(f, g) ==
    /\ g.root = f.root /\ g.first = f.first /\ g.ok = f.ok
    /\ DOMAIN g.pages = DOMAIN f.pages
    /\ \A i \in DOMAIN f.pages :
         /\ g.pages[i].isLeaf = f.pages[i].isLeaf /\ g.pages[i].deleted = f.pages[i].deleted
         /\ g.pages[i].next = f.pages[i].next
         /\ g.pages[i].keys = f.pages[i].keys /\ g.pages[i].children = f.pages[i].children

\* The entries of the leaves of a file.
LEMMA ListsTyped ==
    ASSUME NEW f \in Files, NEW L, LeafSeq(f, L)
    PROVE  /\ Lists(f, L) \in Seq(Entries) /\ Len(Lists(f, L)) = Len(L) /\ Len(L) \in Nat
           /\ \A i \in 1 .. Len(L) : Lists(f, L)[i] = f.pages[L[i]].entries
<1>1. Len(L) \in Nat
  BY DEF LeafSeq
<1>2. \A i \in 1 .. Len(L) : f.pages[L[i]].entries \in Entries
  BY FileTyped, NodeTyped DEF LeafSeq
<1>3. Lists(f, L) \in Seq(Entries)
  BY <1>1, <1>2, IsASeq DEF Lists
<1>4. DOMAIN Lists(f, L) = 1 .. Len(L)
  BY DEF Lists
<1>5. Len(Lists(f, L)) = Len(L)
  BY <1>1, <1>3, <1>4, LenProperties
<1> QED
  BY <1>1, <1>3, <1>5 DEF Lists

\* Changes of entries, one after the other.
LEMMA SameButEntriesTrans ==
    ASSUME NEW f, NEW g, NEW h, SameButEntries(f, g), SameButEntries(g, h)
    PROVE  SameButEntries(f, h)
BY DEF SameButEntries

\* Other entries do not change the shape of a tree.
LEMMA EntriesKeepShape ==
    ASSUME NEW f, NEW g \in Files, SameButEntries(f, g), NEW L
    PROVE  /\ LeafSeq(f, L) => LeafSeq(g, L)
           /\ LeafSeq(f, L) /\ Chained(f, L) => Chained(g, L)
           /\ \A K : Frame(f, L, K) => Frame(g, L, K)
<1>1. ASSUME LeafSeq(f, L) PROVE LeafSeq(g, L)
  BY <1>1 DEF LeafSeq, SameButEntries
<1>2. ASSUME LeafSeq(f, L), Chained(f, L) PROVE Chained(g, L)
  BY <1>2, SMTT(40) DEF Chained, LeafSeq, SameButEntries
<1>3. ASSUME NEW K, Frame(f, L, K) PROVE Frame(g, L, K)
  <2>1. PagesTyped(g)
    BY <1>3 DEF Frame, PagesTyped, SameButEntries
  <2>2. LeafSeq(g, L)
    BY <1>1, <1>3 DEF Frame
  <2> QED
    BY <1>3, <2>1, <2>2 DEF Frame, SameButEntries
<1> QED
  BY <1>1, <1>2, <1>3
-----------------------------------------------------------------------------
(* Moving entries between neighbour leaves *)

Filled(f, L, i) == Len(f.pages[L[i]].entries)

\* The leaves L are in the order of their keys.
Ordered(f, L) == f \in Files /\ LeafSeq(f, L) /\ InOrder(Lists(f, L))

\* The size of a leaf.
LEMMA FilledTyped ==
    ASSUME NEW f \in Files, NEW L, LeafSeq(f, L), NEW i \in 1 .. Len(L)
    PROVE  /\ Filled(f, L, i) \in Nat /\ Filled(f, L, i) = Len(Lists(f, L)[i])
           /\ Filled(f, L, i) = Size(f.pages[L[i]])
           /\ L[i] \in DOMAIN f.pages /\ L[i] \in 1 .. Len(f.pages) + 1
           /\ f.pages[L[i]] \in Node /\ f.pages[L[i]].isLeaf /\ ~f.pages[L[i]].deleted
<1>1. L[i] \in DOMAIN f.pages /\ f.pages[L[i]].isLeaf /\ ~f.pages[L[i]].deleted
  BY DEF LeafSeq
<1>2. f.pages[L[i]] \in Node /\ L[i] \in 1 .. Len(f.pages) + 1
  BY <1>1, FileTyped
<1>3. f.pages[L[i]].entries \in Entries
  BY <1>2, NodeTyped
<1> QED
  BY <1>1, <1>2, <1>3, ListsTyped DEF Filled, Size, Entries

\* The leaves a and a + 1 have shared their entries, n in the first of them.
Shared(f, g, L, a, n) ==
    /\ SameButEntries(f, g)
    /\ Ordered(g, L)
    /\ Held(Lists(g, L)) = Held(Lists(f, L))
    /\ Filled(g, L, a) = n
    /\ Filled(g, L, a + 1) = Filled(f, L, a) + Filled(f, L, a + 1) - n
    /\ \A i \in 1 .. Len(L) : i \notin {a, a + 1} => Filled(g, L, i) = Filled(f, L, i)
    /\ \A i \in Int : \A k : i # a /\ SeparatesAt(Lists(f, L), i, k) => SeparatesAt(Lists(g, L), i, k)

\* Two neighbour leaves share their entries, n in the left one.
LEMMA ShareLeaves ==
    ASSUME NEW f, NEW L, Ordered(f, L), NEW a \in 1 .. Len(L), a + 1 \in 1 .. Len(L),
           NEW n \in 0 .. Filled(f, L, a) + Filled(f, L, a + 1)
    PROVE  Shared(f, Share(f, L[a], L[a + 1], n), L, a, n)
<1> DEFINE l == L[a]
           r == L[a + 1]
           d == f.pages[l].entries
           e == f.pages[r].entries
           left == [f.pages[l] EXCEPT !.entries = LeftPart(d, e, n)]
           right == [f.pages[r] EXCEPT !.entries = RightPart(d, e, n)]
           f1 == Write(f, l, left)
           g == Write(f1, r, right)
           E == Lists(f, L)
           F == Lists(g, L)
<1>1. f \in Files /\ LeafSeq(f, L) /\ InOrder(E)
  BY DEF Ordered
<1>2. /\ l \in DOMAIN f.pages /\ r \in DOMAIN f.pages /\ l # r
      /\ l \in 1 .. Len(f.pages) + 1 /\ r \in 1 .. Len(f.pages) + 1
      /\ f.pages[l] \in Node /\ f.pages[r] \in Node
  <2>1. a # a + 1
    OBVIOUS
  <2> QED
    BY <1>1, <2>1, FilledTyped DEF LeafSeq
<1>3. d \in Entries /\ e \in Entries /\ n \in 0 .. Len(d) + Len(e)
  BY <1>2, NodeTyped DEF Filled
<1>4. E \in Seq(Entries) /\ Len(E) = Len(L) /\ Len(L) \in Nat
      /\ \A i \in 1 .. Len(L) : E[i] = f.pages[L[i]].entries
  BY <1>1, ListsTyped
<1>5. Ascending(d) /\ Ascending(e) /\ Precedes(d, e)
  BY <1>1, <1>4 DEF InOrder
<1>6. LeftPart(d, e, n) \in Entries /\ RightPart(d, e, n) \in Entries
  BY <1>3, <1>5, ShareParts
<1>7. left \in Node /\ left.entries = LeftPart(d, e, n) /\ left.isLeaf = f.pages[l].isLeaf
      /\ left.deleted = f.pages[l].deleted /\ left.next = f.pages[l].next
      /\ left.keys = f.pages[l].keys /\ left.children = f.pages[l].children
  BY <1>2, <1>6 DEF Node
<1>8. right \in Node /\ right.entries = RightPart(d, e, n) /\ right.isLeaf = f.pages[r].isLeaf
      /\ right.deleted = f.pages[r].deleted /\ right.next = f.pages[r].next
      /\ right.keys = f.pages[r].keys /\ right.children = f.pages[r].children
  BY <1>2, <1>6 DEF Node
<1>9. Share(f, l, r, n) = g
  BY DEF Share, LeftPart, RightPart
<1> HIDE DEF left, right
<1>10. /\ f1 \in Files /\ f1.root = f.root /\ f1.first = f.first /\ f1.ok = f.ok
       /\ DOMAIN f1.pages = DOMAIN f.pages /\ f1.pages[l] = left
       /\ \A i \in DOMAIN f.pages : i # l => f1.pages[i] = f.pages[i]
  <2>1. /\ f1 \in Files /\ f1.root = f.root /\ f1.first = f.first /\ f1.ok = f.ok
        /\ DOMAIN f1.pages = DOMAIN f.pages \union {l} /\ f1.pages[l] = left
        /\ \A i \in DOMAIN f.pages : i # l => f1.pages[i] = f.pages[i]
    BY <1>1, <1>2, <1>7, WriteEffect
  <2> QED
    BY <1>2, <2>1
<1> HIDE DEF f1
<1>11. /\ g \in Files /\ g.root = f.root /\ g.first = f.first /\ g.ok = f.ok
       /\ DOMAIN g.pages = DOMAIN f.pages /\ g.pages[l] = left /\ g.pages[r] = right
       /\ \A i \in DOMAIN f.pages : i \notin {l, r} => g.pages[i] = f.pages[i]
  <2>1. r \in 1 .. Len(f1.pages) + 1
    BY <1>2, <1>10, FileTyped
  <2>2. /\ g \in Files /\ g.root = f1.root /\ g.first = f1.first /\ g.ok = f1.ok
        /\ DOMAIN g.pages = DOMAIN f1.pages \union {r} /\ g.pages[r] = right
        /\ \A i \in DOMAIN f1.pages : i # r => g.pages[i] = f1.pages[i]
    BY <1>8, <1>10, <2>1, WriteEffect
  <2> QED
    BY <1>2, <1>10, <2>2
<1> HIDE DEF g
<1>12. SameButEntries(f, g)
  BY <1>7, <1>8, <1>11 DEF SameButEntries
<1>13. LeafSeq(g, L)
  BY <1>1, <1>11, <1>12, EntriesKeepShape
<1>14. F \in Seq(Entries) /\ Len(F) = Len(E) /\ \A i \in 1 .. Len(L) : F[i] = g.pages[L[i]].entries
  BY <1>4, <1>11, <1>13, ListsTyped
<1>15. E[a] = d /\ E[a + 1] = e /\ F[a] = LeftPart(d, e, n) /\ F[a + 1] = RightPart(d, e, n)
  BY <1>4, <1>7, <1>8, <1>11, <1>14
<1>16. \A j \in 1 .. Len(E) : j \notin {a, a + 1} => F[j] = E[j]
  <2> TAKE j \in 1 .. Len(E)
  <2> HAVE j \notin {a, a + 1}
  <2>1. L[j] # l /\ L[j] # r /\ L[j] \in DOMAIN f.pages
    BY <1>1, <1>4 DEF LeafSeq
  <2> QED
    BY <1>4, <1>11, <1>14, <2>1
<1> HIDE DEF d, e, E, F
<1>17. /\ a \in 1 .. Len(E) /\ a + 1 \in 1 .. Len(E) /\ n \in 0 .. Len(E[a]) + Len(E[a + 1])
       /\ F[a] = LeftPart(E[a], E[a + 1], n) /\ F[a + 1] = RightPart(E[a], E[a + 1], n)
  BY <1>3, <1>4, <1>15
<1>18. InOrder(F) /\ Held(F) = Held(E) /\ Len(F[a]) = n
  BY <1>1, <1>4, <1>14, <1>16, <1>17, ShareInOrder, ZenonT(40)
<1>19. Len(F[a + 1]) = Len(E[a]) + Len(E[a + 1]) - n
  BY <1>1, <1>4, <1>14, <1>16, <1>17, ShareInOrder, ZenonT(40)
<1>20. \A i \in Int : \A k : i # a /\ SeparatesAt(E, i, k) => SeparatesAt(F, i, k)
  BY <1>1, <1>4, <1>14, <1>16, <1>17, ShareInOrder, ZenonT(40)
<1>21. \A i \in 1 .. Len(L) : Filled(f, L, i) = Len(E[i]) /\ Filled(g, L, i) = Len(F[i])
  BY <1>4, <1>14 DEF Filled
<1>22. /\ Filled(g, L, a) = n
       /\ Filled(g, L, a + 1) = Filled(f, L, a) + Filled(f, L, a + 1) - n
       /\ \A i \in 1 .. Len(L) : i \notin {a, a + 1} => Filled(g, L, i) = Filled(f, L, i)
  BY <1>4, <1>16, <1>18, <1>19, <1>21
<1>23. Ordered(g, L)
  BY <1>11, <1>13, <1>18 DEF Ordered, F
<1>24. Shared(f, g, L, a, n)
  BY <1>12, <1>18, <1>20, <1>22, <1>23 DEF Shared, E, F
<1> QED
  BY <1>9, <1>24

\* send_to_right_leaf, when there is room.
LEMMA SendToRight ==
    ASSUME NEW f, NEW L, Ordered(f, L), NEW a \in 1 .. Len(L), a + 1 \in 1 .. Len(L),
           NEW count \in 0 .. Filled(f, L, a), Filled(f, L, a + 1) + count <= MAX_KEYS_LEAF
    PROVE  Shared(f, SendToRightLeaf(f, L[a], L[a + 1], count), L, a, Filled(f, L, a) - count)
<1>1. /\ Filled(f, L, a) = Size(f.pages[L[a]]) /\ Filled(f, L, a + 1) = Size(f.pages[L[a + 1]])
      /\ Filled(f, L, a) \in Nat /\ Filled(f, L, a + 1) \in Nat
  BY FilledTyped DEF Ordered
<1>2. SendToRightLeaf(f, L[a], L[a + 1], count) = Share(f, L[a], L[a + 1], Filled(f, L, a) - count)
  BY <1>1 DEF SendToRightLeaf
<1>3. Filled(f, L, a) - count \in 0 .. Filled(f, L, a) + Filled(f, L, a + 1)
  BY <1>1
<1> QED
  BY <1>2, <1>3, ShareLeaves

\* take_from_right_leaf, when there is room.
LEMMA TakeFromRight ==
    ASSUME NEW f, NEW L, Ordered(f, L), NEW a \in 1 .. Len(L), a + 1 \in 1 .. Len(L),
           NEW count \in 0 .. Filled(f, L, a + 1), Filled(f, L, a) + count <= MAX_KEYS_LEAF
    PROVE  Shared(f, TakeFromRightLeaf(f, L[a], L[a + 1], count), L, a, Filled(f, L, a) + count)
<1>1. /\ Filled(f, L, a) = Size(f.pages[L[a]]) /\ Filled(f, L, a + 1) = Size(f.pages[L[a + 1]])
      /\ Filled(f, L, a) \in Nat /\ Filled(f, L, a + 1) \in Nat
  BY FilledTyped DEF Ordered
<1>2. TakeFromRightLeaf(f, L[a], L[a + 1], count) = Share(f, L[a], L[a + 1], Filled(f, L, a) + count)
  BY <1>1 DEF TakeFromRightLeaf
<1>3. Filled(f, L, a) + count \in 0 .. Filled(f, L, a) + Filled(f, L, a + 1)
  BY <1>1
<1> QED
  BY <1>2, <1>3, ShareLeaves

\* Two neighbours get half of their entries each: neither runs over.
LEMMA HalveLeaves ==
    ASSUME NEW f, NEW L, Ordered(f, L), NEW a \in 1 .. Len(L), a + 1 \in 1 .. Len(L),
           Filled(f, L, a) + Filled(f, L, a + 1) <= 2 * MAX_KEYS_LEAF
    PROVE  Shared(f, Halve(f, L[a], L[a + 1]), L, a, (Filled(f, L, a) + Filled(f, L, a + 1)) \div 2)
<1> DEFINE x == Filled(f, L, a)
           y == Filled(f, L, a + 1)
           half == (x + y) \div 2
<1>1. /\ x = Size(f.pages[L[a]]) /\ y = Size(f.pages[L[a + 1]])
      /\ x \in Nat /\ y \in Nat
  BY FilledTyped DEF Ordered
<1>2. Halve(f, L[a], L[a + 1])
        = IF x > half THEN SendToRightLeaf(f, L[a], L[a + 1], x - half)
          ELSE TakeFromRightLeaf(f, L[a], L[a + 1], half - x)
  BY <1>1 DEF Halve
<1>3. MAX_KEYS_LEAF \in Int
  BY TreeAssumption DEF MAX_KEYS_LEAF
<1>4. half \in Nat /\ 2 * half <= x + y /\ x + y <= 2 * half + 1 /\ x + y <= 2 * MAX_KEYS_LEAF
  BY <1>1
<1> HIDE DEF half
<1>5. CASE x > half
  <2>1. x - half \in 0 .. x /\ y + (x - half) <= MAX_KEYS_LEAF
    <3>1. x \in Nat /\ y \in Nat
      BY <1>1
    <3> HIDE DEF x, y
    <3> QED
      BY <1>3, <1>4, <1>5, <3>1
  <2>2. Shared(f, SendToRightLeaf(f, L[a], L[a + 1], x - half), L, a, x - (x - half))
    BY <2>1, SendToRight
  <2>3. x - (x - half) = half
    BY <1>1, <1>4
  <2> QED
    BY <1>2, <1>5, <2>2, <2>3 DEF half
<1>6. CASE ~(x > half)
  <2>1. half - x \in 0 .. y /\ x + (half - x) <= MAX_KEYS_LEAF
    BY <1>1, <1>3, <1>4, <1>6, SMTT(40)
  <2>2. Shared(f, TakeFromRightLeaf(f, L[a], L[a + 1], half - x), L, a, x + (half - x))
    BY <2>1, TakeFromRight
  <2>3. x + (half - x) = half
    BY <1>1, <1>4
  <2> QED
    BY <1>2, <1>6, <2>2, <2>3 DEF half
<1> QED
  BY <1>5, <1>6
-----------------------------------------------------------------------------
(* Separators *)

\* The root is internal, with the children M and the keys J.
RootIs(f, M, J) ==
    /\ f.root \in DOMAIN f.pages
    /\ ~f.pages[f.root].isLeaf /\ ~f.pages[f.root].deleted
    /\ f.pages[f.root].children = M /\ f.pages[f.root].keys = J

\* Leaves keep their place in the chain.
SameLinks(f, g, L) ==
    /\ g.first = f.first /\ g.ok = f.ok
    /\ \A i \in 1 .. Len(L) : g.pages[L[i]].next = f.pages[L[i]].next

\* A write to another page leaves leaves as they are.
LEMMA OtherPages ==
    ASSUME NEW f \in Files, NEW g \in Files, NEW L, LeafSeq(f, L),
           \A i \in 1 .. Len(L) : L[i] \in DOMAIN g.pages /\ g.pages[L[i]] = f.pages[L[i]]
    PROVE  /\ LeafSeq(g, L) /\ Lists(g, L) = Lists(f, L)
           /\ \A i \in 1 .. Len(L) : Filled(g, L, i) = Filled(f, L, i)
BY DEF LeafSeq, Lists, Filled

\* The page of the root is written.
LEMMA RootWritten ==
    ASSUME NEW f \in Files, PagesTyped(f), f.root \in DOMAIN f.pages,
           NEW node \in Node, ~node.isLeaf, ~node.deleted,
           Len(node.children) = Len(node.keys) + 1,
           node.next = f.pages[f.root].next,
           NEW g, g = Write(f, f.root, node)
    PROVE  /\ g \in Files /\ PagesTyped(g) /\ RootIs(g, node.children, node.keys)
           /\ g.root = f.root /\ g.first = f.first /\ g.ok = f.ok
           /\ DOMAIN g.pages = DOMAIN f.pages
           /\ \A i \in DOMAIN f.pages : i # f.root => g.pages[i] = f.pages[i]
<1>1. f.root \in 1 .. Len(f.pages) + 1
  BY FileTyped
<1>2. /\ g \in Files /\ g.root = f.root /\ g.first = f.first /\ g.ok = f.ok
      /\ DOMAIN g.pages = DOMAIN f.pages \union {f.root} /\ g.pages[f.root] = node
      /\ \A i \in DOMAIN f.pages : i # f.root => g.pages[i] = f.pages[i]
  BY <1>1, WriteEffect
<1>3. DOMAIN g.pages = DOMAIN f.pages
  BY <1>2
<1>4. PagesTyped(g)
  <2> SUFFICES ASSUME NEW i \in DOMAIN f.pages
               PROVE  /\ g.pages[i].next \in DOMAIN f.pages \union {None}
                      /\ Len(g.pages[i].children)
                           = IF g.pages[i].isLeaf THEN 0 ELSE Len(g.pages[i].keys) + 1
    BY <1>3 DEF PagesTyped
  <2>1. CASE i = f.root
    BY <1>2, <2>1 DEF PagesTyped
  <2>2. CASE i # f.root
    BY <1>2, <2>2 DEF PagesTyped
  <2> QED
    BY <2>1, <2>2
<1> QED
  BY <1>2, <1>3, <1>4 DEF RootIs

\* set_key: one separator of the root is another.
LEMMA SetKeyEffect ==
    ASSUME NEW f \in Files, PagesTyped(f), NEW M, NEW J \in Seq(NodeKeys), RootIs(f, M, J),
           NEW a \in 1 .. Len(J), NEW k \in NodeKeys, NEW g, g = SetKey(f, f.root, a, k)
    PROVE  /\ g \in Files /\ PagesTyped(g) /\ RootIs(g, M, [J EXCEPT ![a] = k])
           /\ [J EXCEPT ![a] = k] \in Seq(NodeKeys) /\ Len([J EXCEPT ![a] = k]) = Len(J)
           /\ g.root = f.root /\ g.first = f.first /\ g.ok = f.ok
           /\ DOMAIN g.pages = DOMAIN f.pages
           /\ \A i \in DOMAIN f.pages : i # f.root => g.pages[i] = f.pages[i]
<1> DEFINE I == [J EXCEPT ![a] = k]
           node == [f.pages[f.root] EXCEPT !.keys[a] = k]
<1>1. I \in Seq(NodeKeys) /\ Len(I) = Len(J)
  BY ExceptSeq
<1>2. f.pages[f.root] \in Node /\ f.pages[f.root].keys = J /\ f.pages[f.root].children = M
      /\ ~f.pages[f.root].isLeaf /\ ~f.pages[f.root].deleted
  BY FileTyped DEF RootIs
<1>3. node = [f.pages[f.root] EXCEPT !.keys = I]
  BY <1>2
<1> HIDE DEF I
<1>4. node \in Node /\ node.keys = I /\ node.children = M /\ ~node.isLeaf /\ ~node.deleted
      /\ node.next = f.pages[f.root].next
  BY <1>1, <1>2, <1>3 DEF Node
<1>5. Len(node.children) = Len(node.keys) + 1
  BY <1>1, <1>2, <1>4 DEF PagesTyped, RootIs
<1>6. g = Write(f, f.root, node) /\ f.root \in DOMAIN f.pages
  BY DEF SetKey, RootIs
<1> HIDE DEF node
<1>7. /\ g \in Files /\ PagesTyped(g) /\ RootIs(g, node.children, node.keys)
      /\ g.root = f.root /\ g.first = f.first /\ g.ok = f.ok
      /\ DOMAIN g.pages = DOMAIN f.pages
      /\ \A i \in DOMAIN f.pages : i # f.root => g.pages[i] = f.pages[i]
  BY <1>4, <1>5, <1>6, RootWritten
<1> QED
  BY <1>1, <1>4, <1>7 DEF I

\* The root of leaves is none of them.
LEMMA RootIsNoLeaf ==
    ASSUME NEW f, NEW M, NEW J, RootIs(f, M, J), NEW L, LeafSeq(f, L), NEW i \in 1 .. Len(L)
    PROVE  L[i] # f.root /\ L[i] \in DOMAIN f.pages
BY SMTT(40) DEF RootIs, LeafSeq

\* The separator is set to the first key of the leaf on its right.
LEMMA SetSeparator ==
    ASSUME NEW f, PagesTyped(f), NEW L, Ordered(f, L),
           NEW M, NEW J \in Seq(NodeKeys), RootIs(f, M, J),
           NEW a \in 1 .. Len(J), a \in 1 .. Len(L), a + 1 \in 1 .. Len(L), Filled(f, L, a + 1) # 0,
           NEW k, k = FirstKey(f.pages[L[a + 1]]), NEW g, g = SetKey(f, f.root, a, k)
    PROVE  /\ Ordered(g, L) /\ Lists(g, L) = Lists(f, L) /\ SameLinks(f, g, L)
           /\ PagesTyped(g) /\ RootIs(g, M, [J EXCEPT ![a] = k])
           /\ [J EXCEPT ![a] = k] \in Seq(NodeKeys) /\ Len([J EXCEPT ![a] = k]) = Len(J)
           /\ k \in Keys /\ SeparatesAt(Lists(g, L), a, k)
           /\ g.root = f.root /\ DOMAIN g.pages = DOMAIN f.pages
           /\ \A i \in DOMAIN f.pages : i # f.root => g.pages[i] = f.pages[i]
<1> DEFINE E == Lists(f, L)
<1>1. f \in Files /\ LeafSeq(f, L) /\ InOrder(E)
  BY DEF Ordered
<1>2. E \in Seq(Entries) /\ Len(E) = Len(L) /\ E[a + 1] = f.pages[L[a + 1]].entries
  BY <1>1, ListsTyped
<1>3. Len(E[a + 1]) # 0 /\ k = E[a + 1][1][1]
  BY <1>2, SMTT(40) DEF Filled, FirstKey
<1> HIDE DEF E
<1>4. SeparatesAt(E, a, k) /\ k \in Keys
  BY <1>1, <1>2, <1>3, FirstKeySeparates
<1>5. k \in NodeKeys
  BY <1>4 DEF NodeKeys
<1>6. /\ g \in Files /\ PagesTyped(g) /\ RootIs(g, M, [J EXCEPT ![a] = k])
      /\ [J EXCEPT ![a] = k] \in Seq(NodeKeys) /\ Len([J EXCEPT ![a] = k]) = Len(J)
  BY <1>1, <1>5, SetKeyEffect, SMTT(40)
<1>7. /\ g.root = f.root /\ g.first = f.first /\ g.ok = f.ok
      /\ DOMAIN g.pages = DOMAIN f.pages
      /\ \A i \in DOMAIN f.pages : i # f.root => g.pages[i] = f.pages[i]
  <2>1. /\ RootIs(g, M, [J EXCEPT ![a] = k])
        /\ g.root = f.root /\ g.first = f.first /\ g.ok = f.ok
        /\ DOMAIN g.pages = DOMAIN f.pages
    BY <1>1, <1>5, SetKeyEffect
  <2>2. /\ RootIs(g, M, [J EXCEPT ![a] = k])
        /\ \A i \in DOMAIN f.pages : i # f.root => g.pages[i] = f.pages[i]
    BY <1>1, <1>5, SetKeyEffect
  <2> QED
    BY <2>1, <2>2
<1>8. \A i \in 1 .. Len(L) : L[i] # f.root /\ L[i] \in DOMAIN f.pages
  BY <1>1, RootIsNoLeaf, SMTT(40)
<1>9. LeafSeq(g, L) /\ Lists(g, L) = Lists(f, L)
  BY <1>1, <1>6, <1>7, <1>8, OtherPages, SMTT(40)
<1>10. SameLinks(f, g, L)
  BY <1>7, <1>8 DEF SameLinks
<1> QED
  BY <1>1, <1>4, <1>6, <1>7, <1>9, <1>10 DEF Ordered, E

\* A tree whose leaves are in order, between the right separators.
Tree(f, L, K) == Frame(f, L, K) /\ InOrder(Lists(f, L)) /\ Separated(Lists(f, L), K)

\* The root of two leaves or more.
LEMMA FrameRoot ==
    ASSUME NEW f, NEW L, NEW K, Frame(f, L, K), Len(L) > 1
    PROVE  /\ f \in Files /\ PagesTyped(f) /\ LeafSeq(f, L) /\ RootIs(f, L, K)
           /\ K \in Seq(NodeKeys) /\ Len(L) = Len(K) + 1 /\ Len(K) \in Nat /\ Len(L) \in Nat
BY DEF Frame, RootIs, LeafSeq

\* The frame of a tree whose root has other separators, or other children.
LEMMA RootFrame ==
    ASSUME NEW g \in Files, PagesTyped(g), NEW M, LeafSeq(g, M), NEW J \in Seq(NodeKeys),
           Len(M) = Len(J) + 1, Len(M) > 1, RootIs(g, M, J),
           \A id \in DOMAIN g.pages :
             g.pages[id].deleted \/ id = g.root \/ \E i \in 1 .. Len(M) : id = M[i]
    PROVE  Frame(g, M, J)
BY DEF Frame, RootIs

\* Two leaves were given half of their entries each.
Halved(f, g, L, a) ==
    /\ Filled(g, L, a) = (Filled(f, L, a) + Filled(f, L, a + 1)) \div 2
    /\ Filled(g, L, a + 1)
         = Filled(f, L, a) + Filled(f, L, a + 1) - (Filled(f, L, a) + Filled(f, L, a + 1)) \div 2
    /\ \A i \in 1 .. Len(L) : i \notin {a, a + 1} => Filled(g, L, i) = Filled(f, L, i)

\* redistributeLeaves2to2 keeps the tree, with the new separator.
LEMMA RedistributeTwo ==
    ASSUME NEW f, NEW L, NEW K, Frame(f, L, K), InOrder(Lists(f, L)), Len(L) > 1,
           NEW a \in 1 .. Len(K),
           \A i \in 1 .. Len(K) : i # a => SeparatesAt(Lists(f, L), i, K[i]),
           Filled(f, L, a) = (Filled(f, L, a) + Filled(f, L, a + 1)) \div 2
             => SeparatesAt(Lists(f, L), a, K[a]),
           2 <= Filled(f, L, a) + Filled(f, L, a + 1),
           Filled(f, L, a) + Filled(f, L, a + 1) <= 2 * MAX_KEYS_LEAF,
           NEW g, g = Redistribute2to2(f, L[a], L[a + 1], f.root, a)
    PROVE  /\ \E J : Tree(g, L, J)
           /\ SameLinks(f, g, L) /\ Held(Lists(g, L)) = Held(Lists(f, L)) /\ Halved(f, g, L, a)
<1> DEFINE x == Filled(f, L, a)
           y == Filled(f, L, a + 1)
           half == (x + y) \div 2
           h == Halve(f, L[a], L[a + 1])
           k == FirstKey(h.pages[L[a + 1]])
           J == [K EXCEPT ![a] = k]
<1>1. /\ f \in Files /\ PagesTyped(f) /\ LeafSeq(f, L) /\ RootIs(f, L, K)
      /\ K \in Seq(NodeKeys) /\ Len(L) = Len(K) + 1 /\ Len(K) \in Nat /\ Len(L) \in Nat
  BY FrameRoot
<1>2. a \in 1 .. Len(L) /\ a + 1 \in 1 .. Len(L)
  BY <1>1
<1>3. /\ x = Size(f.pages[L[a]]) /\ y = Size(f.pages[L[a + 1]])
      /\ x \in Nat /\ y \in Nat
  BY <1>1, <1>2, FilledTyped
<1>4. g = IF x = half THEN f ELSE SetKey(h, f.root, a, k)
  BY <1>3 DEF Redistribute2to2
<1>5. half \in Nat /\ 2 * half <= x + y /\ x + y <= 2 * half + 1
  BY <1>3
<1>6. CASE x = half
  <2>1. g = f
    BY <1>4, <1>6
  <2>2. Separated(Lists(f, L), K)
    BY <1>6 DEF Separated
  <2>3. Tree(f, L, K)
    BY <2>2 DEF Tree
  <2>4. Halved(f, f, L, a)
    <3>1. y = x + y - half
      BY <1>3, <1>6
    <3> QED
      BY <1>6, <3>1 DEF Halved
  <2>5. SameLinks(f, f, L)
    BY DEF SameLinks
  <2> QED
    BY <2>1, <2>3, <2>4, <2>5
<1>7. CASE x # half
  <2>1. Ordered(f, L)
    BY <1>1 DEF Ordered
  <2>2. Shared(f, h, L, a, half)
    BY <1>2, <2>1, HalveLeaves
  <2> HIDE DEF h, half
  <2>3. /\ SameButEntries(f, h) /\ Ordered(h, L) /\ Held(Lists(h, L)) = Held(Lists(f, L))
        /\ Filled(h, L, a) = half /\ Filled(h, L, a + 1) = x + y - half
        /\ \A i \in 1 .. Len(L) : i \notin {a, a + 1} => Filled(h, L, i) = Filled(f, L, i)
    BY <2>2 DEF Shared
  <2>4. \A i \in Int : \A c : i # a /\ SeparatesAt(Lists(f, L), i, c) => SeparatesAt(Lists(h, L), i, c)
    BY <2>2 DEF Shared
  <2>5. h \in Files /\ LeafSeq(h, L) /\ Frame(h, L, K)
    BY <1>1, <2>3, EntriesKeepShape DEF Ordered
  <2>6. PagesTyped(h) /\ RootIs(h, L, K)
    BY <2>5, FrameRoot
  <2>7. Filled(h, L, a + 1) # 0
    BY <1>3, <1>5, <2>3
  <2>8. g = SetKey(h, h.root, a, k)
    BY <1>4, <1>7, <2>3 DEF SameButEntries
  <2> HIDE DEF k, J
  <2>9. k = FirstKey(h.pages[L[a + 1]])
    BY DEF k
  <2>10. /\ Ordered(g, L) /\ Lists(g, L) = Lists(h, L) /\ SameLinks(h, g, L)
         /\ PagesTyped(g) /\ RootIs(g, L, J) /\ J \in Seq(NodeKeys) /\ Len(J) = Len(K)
    BY <1>1, <1>2, <2>3, <2>6, <2>7, <2>8, <2>9, SetSeparator DEF J
  <2>11. /\ k \in Keys /\ SeparatesAt(Lists(g, L), a, k)
         /\ g.root = h.root /\ DOMAIN g.pages = DOMAIN h.pages
         /\ \A i \in DOMAIN h.pages : i # h.root => g.pages[i] = h.pages[i]
    <3>1. k \in Keys /\ SeparatesAt(Lists(g, L), a, k)
      BY <1>1, <1>2, <2>3, <2>6, <2>7, <2>8, <2>9, SetSeparator, ZenonT(40)
    <3>2. RootIs(g, L, J) /\ g.root = h.root /\ DOMAIN g.pages = DOMAIN h.pages
      BY <1>1, <1>2, <2>3, <2>6, <2>7, <2>8, <2>9, SetSeparator DEF J
    <3>3. RootIs(g, L, J) /\ \A i \in DOMAIN h.pages : i # h.root => g.pages[i] = h.pages[i]
      BY <1>1, <1>2, <2>3, <2>6, <2>7, <2>8, <2>9, SetSeparator DEF J
    <3> QED
      BY <3>1, <3>2, <3>3
  <2>12. Separated(Lists(g, L), J)
    <3> SUFFICES ASSUME NEW i \in 1 .. Len(K) PROVE SeparatesAt(Lists(g, L), i, J[i])
      BY <2>10 DEF Separated
    <3>1. CASE i = a
      BY <1>1, <2>11, <3>1 DEF J
    <3>2. CASE i # a
      <4>1. SeparatesAt(Lists(h, L), i, K[i])
        BY <2>4, <3>2
      <4> QED
        BY <1>1, <2>10, <3>2, <4>1 DEF J
    <3> QED
      BY <3>1, <3>2
  <2>13. Frame(g, L, J)
    <3>1. \A id \in DOMAIN g.pages :
            g.pages[id].deleted \/ id = g.root \/ \E i \in 1 .. Len(L) : id = L[i]
      BY <2>5, <2>11 DEF Frame
    <3>2. g \in Files /\ LeafSeq(g, L)
      BY <2>10 DEF Ordered
    <3> QED
      BY <1>1, <2>10, <3>1, <3>2, RootFrame
  <2>14. Tree(g, L, J)
    BY <2>10, <2>12, <2>13 DEF Tree, Ordered
  <2>15. SameLinks(f, g, L)
    BY <1>1, <2>3, <2>10 DEF SameLinks, SameButEntries, LeafSeq
  <2>16. \A i \in 1 .. Len(L) : Filled(g, L, i) = Filled(h, L, i)
    <3>1. h \in Files /\ g \in Files /\ LeafSeq(h, L) /\ LeafSeq(g, L)
      BY <2>3, <2>10 DEF Ordered
    <3> TAKE i \in 1 .. Len(L)
    <3>2. Filled(g, L, i) = Len(Lists(g, L)[i])
      BY <3>1, FilledTyped
    <3>3. Filled(h, L, i) = Len(Lists(h, L)[i])
      BY <3>1, FilledTyped
    <3> QED
      BY <2>10, <3>2, <3>3
  <2>17. Halved(f, g, L, a)
    BY <1>2, <2>3, <2>16 DEF Halved, half
  <2> QED
    BY <2>3, <2>10, <2>14, <2>15, <2>17
<1> QED
  BY <1>6, <1>7

\* Three neighbours have shared their entries.
SharedByThree(f, g, L, a, first, second, third) ==
    /\ SameButEntries(f, g)
    /\ Ordered(g, L)
    /\ Held(Lists(g, L)) = Held(Lists(f, L))
    /\ Filled(g, L, a) = first /\ Filled(g, L, a + 1) = second /\ Filled(g, L, a + 2) = third
    /\ \A i \in 1 .. Len(L) : i \notin {a, a + 1, a + 2} => Filled(g, L, i) = Filled(f, L, i)
    /\ \A i \in Int : \A k :
         i \notin {a, a + 1} /\ SeparatesAt(Lists(f, L), i, k) => SeparatesAt(Lists(g, L), i, k)

\* Two neighbours share, then the right one of them with the next.
LEMMA SharedRightward ==
    ASSUME NEW f, NEW L, Ordered(f, L), NEW a \in 1 .. Len(L), a + 2 \in 1 .. Len(L),
           NEW h, NEW g, NEW m \in Int, NEW n \in Int,
           Shared(f, h, L, a, m), Shared(h, g, L, a + 1, n)
    PROVE  SharedByThree(f, g, L, a, m, n,
                         Filled(f, L, a) + Filled(f, L, a + 1) + Filled(f, L, a + 2) - m - n)
<1>1. a + 1 \in 1 .. Len(L) /\ (a + 1) + 1 = a + 2 /\ a # a + 1 /\ a # a + 2 /\ a + 1 # a + 2
  OBVIOUS
<1>2. \A i \in {a, a + 1, a + 2} : Filled(f, L, i) \in Nat
  BY <1>1, FilledTyped DEF Ordered
<1>3. /\ Filled(h, L, a) = m /\ Filled(h, L, a + 1) = Filled(f, L, a) + Filled(f, L, a + 1) - m
      /\ \A i \in 1 .. Len(L) : i \notin {a, a + 1} => Filled(h, L, i) = Filled(f, L, i)
  BY DEF Shared
<1>4. /\ Filled(g, L, a + 1) = n
      /\ Filled(g, L, a + 2) = Filled(h, L, a + 1) + Filled(h, L, a + 2) - n
      /\ \A i \in 1 .. Len(L) : i \notin {a + 1, a + 2} => Filled(g, L, i) = Filled(h, L, i)
  BY <1>1 DEF Shared
<1>5. Filled(g, L, a + 2) = Filled(f, L, a) + Filled(f, L, a + 1) + Filled(f, L, a + 2) - m - n
  BY <1>1, <1>2, <1>3, <1>4
<1>6. Filled(g, L, a) = m
  BY <1>1, <1>3, <1>4
<1>7. \A i \in 1 .. Len(L) : i \notin {a, a + 1, a + 2} => Filled(g, L, i) = Filled(f, L, i)
  BY <1>3, <1>4
<1>8. SameButEntries(f, g) /\ Ordered(g, L) /\ Held(Lists(g, L)) = Held(Lists(f, L))
  BY SameButEntriesTrans DEF Shared
<1>9. \A i \in Int : \A k :
        i \notin {a, a + 1} /\ SeparatesAt(Lists(f, L), i, k) => SeparatesAt(Lists(g, L), i, k)
  BY DEF Shared
<1> QED
  BY <1>4, <1>5, <1>6, <1>7, <1>8, <1>9 DEF SharedByThree

\* Two neighbours share, then the left one of them with the one before.
LEMMA SharedLeftward ==
    ASSUME NEW f, NEW L, Ordered(f, L), NEW a \in 1 .. Len(L), a + 2 \in 1 .. Len(L),
           NEW h, NEW g, NEW m \in Int, NEW n \in Int,
           Shared(f, h, L, a + 1, m), Shared(h, g, L, a, n)
    PROVE  SharedByThree(f, g, L, a, n, Filled(f, L, a) + m - n,
                         Filled(f, L, a + 1) + Filled(f, L, a + 2) - m)
<1>1. a + 1 \in 1 .. Len(L) /\ (a + 1) + 1 = a + 2 /\ a # a + 1 /\ a # a + 2 /\ a + 1 # a + 2
  OBVIOUS
<1>2. \A i \in {a, a + 1, a + 2} : Filled(f, L, i) \in Nat
  BY <1>1, FilledTyped DEF Ordered
<1>3. /\ Filled(h, L, a + 1) = m
      /\ Filled(h, L, a + 2) = Filled(f, L, a + 1) + Filled(f, L, a + 2) - m
      /\ \A i \in 1 .. Len(L) : i \notin {a + 1, a + 2} => Filled(h, L, i) = Filled(f, L, i)
  BY <1>1 DEF Shared
<1>4. /\ Filled(g, L, a) = n /\ Filled(g, L, a + 1) = Filled(h, L, a) + Filled(h, L, a + 1) - n
      /\ \A i \in 1 .. Len(L) : i \notin {a, a + 1} => Filled(g, L, i) = Filled(h, L, i)
  BY DEF Shared
<1>5. Filled(g, L, a + 1) = Filled(f, L, a) + m - n
  BY <1>1, <1>3, <1>4
<1>6. Filled(g, L, a + 2) = Filled(f, L, a + 1) + Filled(f, L, a + 2) - m
  BY <1>1, <1>3, <1>4
<1>7. \A i \in 1 .. Len(L) : i \notin {a, a + 1, a + 2} => Filled(g, L, i) = Filled(f, L, i)
  BY <1>3, <1>4
<1>8. SameButEntries(f, g) /\ Ordered(g, L) /\ Held(Lists(g, L)) = Held(Lists(f, L))
  BY SameButEntriesTrans DEF Shared
<1>9. \A i \in Int : \A k :
        i \notin {a, a + 1} /\ SeparatesAt(Lists(f, L), i, k) => SeparatesAt(Lists(g, L), i, k)
  BY DEF Shared
<1> QED
  BY <1>4, <1>5, <1>6, <1>7, <1>8, <1>9 DEF SharedByThree

\* Three parts that are as equal as can be.
LEMMA ThirdsOf ==
    ASSUME NEW total \in Nat, NEW s, s = Thirds(total)
    PROVE  /\ s[1] \in Nat /\ s[2] \in Nat /\ s[3] \in Nat /\ s[1] + s[2] + s[3] = total
           /\ s[1] <= s[2] /\ s[2] <= s[3] /\ s[3] <= s[1] + 1
<1> DEFINE u == total \div 3
           v == (total - u) \div 2
<1>1. u \in Nat /\ 3 * u <= total /\ total <= 3 * u + 2
  OBVIOUS
<1>2. v \in Int /\ 2 * v <= total - u /\ total - u <= 2 * v + 1
  BY <1>1
<1>3. s = <<u, v, total - u - v>>
  BY DEF Thirds
<1> HIDE DEF u, v
<1> QED
  BY <1>1, <1>2, <1>3

\* The least and the greatest size of a leaf.
LEMMA SizesTyped ==
    /\ MAX_KEYS_LEAF \in Nat /\ MIN_KEYS_LEAF \in Nat
    /\ MAX_KEYS_LEAF >= 3
    /\ 3 * MIN_KEYS_LEAF <= 2 * MAX_KEYS_LEAF + 1 /\ 2 * MAX_KEYS_LEAF + 1 <= 3 * MIN_KEYS_LEAF + 2
    /\ MAX_KEYS_LEAF \div 2 \in Nat
    /\ 2 * (MAX_KEYS_LEAF \div 2) <= MAX_KEYS_LEAF /\ MAX_KEYS_LEAF <= 2 * (MAX_KEYS_LEAF \div 2) + 1
<1>1. PHYS_SIZE_LEAF \in Nat /\ PHYS_SIZE_LEAF >= 4
  BY TreeAssumption
<1>2. MAX_KEYS_LEAF = PHYS_SIZE_LEAF - 1 /\ MIN_KEYS_LEAF = (2 * PHYS_SIZE_LEAF - 1) \div 3
  BY DEF MAX_KEYS_LEAF, MIN_KEYS_LEAF
<1> QED
  BY <1>1, <1>2

\* redistributeLeaves3to3 keeps the tree, and no assertion of it fails.
LEMMA RedistributeThree ==
    ASSUME NEW f, NEW L, NEW K, Tree(f, L, K), Len(L) > 2,
           NEW a \in 1 .. Len(K), a + 1 \in 1 .. Len(K), Filled(f, L, a + 1) = MIN_KEYS_LEAF,
           \/ /\ Filled(f, L, a) = MIN_KEYS_LEAF - 1
              /\ MIN_KEYS_LEAF < Filled(f, L, a + 2) /\ Filled(f, L, a + 2) <= MAX_KEYS_LEAF
           \/ /\ Filled(f, L, a + 2) = MIN_KEYS_LEAF - 1
              /\ MIN_KEYS_LEAF < Filled(f, L, a) /\ Filled(f, L, a) <= MAX_KEYS_LEAF,
           NEW g, g = Redistribute3to3(f, L[a], L[a + 1], L[a + 2], f.root, a)
    PROVE  /\ \E J : Tree(g, L, J)
           /\ SameLinks(f, g, L) /\ Held(Lists(g, L)) = Held(Lists(f, L))
           /\ \A i \in 1 .. Len(L) :
                \/ MIN_KEYS_LEAF <= Filled(g, L, i) /\ Filled(g, L, i) <= MAX_KEYS_LEAF
                \/ i \notin {a, a + 1, a + 2} /\ Filled(g, L, i) = Filled(f, L, i)
<1>1. /\ f \in Files /\ PagesTyped(f) /\ LeafSeq(f, L) /\ RootIs(f, L, K)
      /\ K \in Seq(NodeKeys) /\ Len(L) = Len(K) + 1 /\ Len(K) \in Nat /\ Len(L) \in Nat
  BY FrameRoot DEF Tree
<1>2. /\ a \in 1 .. Len(L) /\ a + 1 \in 1 .. Len(L) /\ a + 2 \in 1 .. Len(L)
      /\ (a + 1) + 1 = a + 2 /\ a # a + 1
  BY <1>1
<1>30. PICK x \in Nat, y \in Nat, z \in Nat :
         x = Filled(f, L, a) /\ y = Filled(f, L, a + 1) /\ z = Filled(f, L, a + 2)
  BY <1>1, <1>2, FilledTyped
<1>31. /\ y = MIN_KEYS_LEAF
       /\ \/ x = MIN_KEYS_LEAF - 1 /\ MIN_KEYS_LEAF < z /\ z <= MAX_KEYS_LEAF
          \/ z = MIN_KEYS_LEAF - 1 /\ MIN_KEYS_LEAF < x /\ x <= MAX_KEYS_LEAF
  BY <1>30
<1>3. /\ x = Size(f.pages[L[a]]) /\ y = Size(f.pages[L[a + 1]]) /\ z = Size(f.pages[L[a + 2]])
      /\ f.pages[L[a]].isLeaf /\ f.pages[L[a + 1]].isLeaf /\ f.pages[L[a + 2]].isLeaf
  BY <1>1, <1>2, <1>30, FilledTyped
<1>4. PICK s1 \in Nat, s2 \in Nat, s3 \in Nat :
        /\ Thirds(x + y + z)[1] = s1 /\ Thirds(x + y + z)[2] = s2 /\ Thirds(x + y + z)[3] = s3
        /\ s1 + s2 + s3 = x + y + z /\ s1 <= s2 /\ s2 <= s3 /\ s3 <= s1 + 1
  <2>1. x + y + z \in Nat
    OBVIOUS
  <2> DEFINE s == Thirds(x + y + z)
  <2>2. /\ s[1] \in Nat /\ s[2] \in Nat /\ s[3] \in Nat /\ s[1] + s[2] + s[3] = x + y + z
        /\ s[1] <= s[2] /\ s[2] <= s[3] /\ s[3] <= s[1] + 1
    BY <2>1, ThirdsOf
  <2> HIDE DEF s
  <2> QED
    BY <2>2 DEF s
<1> DEFINE total == x + y + z
           fromRight == TakeFromRightLeaf(f, L[a], L[a + 1], s1 - x)
           fromLeft == SendToRightLeaf(f, L[a + 1], L[a + 2], s3 - z)
           takes == TakeFromRightLeaf(fromRight, L[a + 1], L[a + 2],
                                      s2 - Size(fromRight.pages[L[a + 1]]))
           sends == SendToRightLeaf(fromLeft, L[a], L[a + 1],
                                    s2 - Size(fromLeft.pages[L[a + 1]]))
           h == IF x < MIN_KEYS_LEAF THEN takes ELSE sends
           k == FirstKey(h.pages[L[a + 1]])
           c == FirstKey(h.pages[L[a + 2]])
           f1 == SetKey(h, f.root, a, k)
           J == [[K EXCEPT ![a] = k] EXCEPT ![a + 1] = c]
<1>5. /\ Underflow(f.pages[L[a]]) = (x < MIN_KEYS_LEAF)
      /\ Underflow(f.pages[L[a + 2]]) = (z < MIN_KEYS_LEAF)
      /\ CanLend(f.pages[L[a]], FALSE) = (x > MIN_KEYS_LEAF)
      /\ CanLend(f.pages[L[a + 2]], FALSE) = (z > MIN_KEYS_LEAF)
  BY <1>3 DEF Underflow, CanLend, MinSize
<1>6. Ordered(f, L)
  BY <1>1, SMTT(40) DEF Ordered, Tree
<1>7. g = SetKey(f1, f.root, a + 1, c)
  <2>1. CASE x < MIN_KEYS_LEAF
    <3>1. z > MIN_KEYS_LEAF
      BY <1>31, <2>1, SizesTyped
    <3>2. h = takes
      BY <2>1
    <3> HIDE DEF h
    <3>3. Underflow(f.pages[L[a]]) /\ CanLend(f.pages[L[a + 2]], FALSE)
          /\ Size(f.pages[L[a + 1]]) = MIN_KEYS_LEAF
      BY <1>3, <1>5, <1>31, <2>1, <3>1
    <3>4. g = Expect(SetKey(SetKey(takes, f.root, a, FirstKey(takes.pages[L[a + 1]])),
                            f.root, a + 1, FirstKey(takes.pages[L[a + 2]])), TRUE)
      BY <1>3, <1>4, <3>3, ZenonT(40) DEF Redistribute3to3
    <3> QED
      BY <3>2, <3>4, Zenon DEF Expect
  <2>2. CASE ~(x < MIN_KEYS_LEAF)
    <3>1. x > MIN_KEYS_LEAF /\ z < MIN_KEYS_LEAF
      BY <1>31, <2>2, SizesTyped
    <3> QED
      BY <1>3, <1>4, <1>5, <1>31, <2>2, <3>1, ZenonT(40) DEF Redistribute3to3, Expect
  <2> QED
    BY <2>1, <2>2, SMTT(40)
<1> HIDE DEF f1
<1>8. SharedByThree(f, h, L, a, s1, s2, s3)
  <2>1. CASE x < MIN_KEYS_LEAF
    <3>1. x = MIN_KEYS_LEAF - 1 /\ y = MIN_KEYS_LEAF /\ MIN_KEYS_LEAF < z /\ z <= MAX_KEYS_LEAF
      BY <1>31, <2>1, SizesTyped
    <3>2. s1 - x \in 0 .. y /\ x + (s1 - x) <= MAX_KEYS_LEAF
      BY <1>4, <3>1, SizesTyped, SMTT(40)
    <3>3. Shared(f, fromRight, L, a, s1)
      <4>1. Shared(f, fromRight, L, a, x + (s1 - x))
        BY <1>30, <1>2, <1>6, <3>2, TakeFromRight
      <4>2. x + (s1 - x) = s1
        BY <1>4
      <4> QED
        BY <4>1, <4>2
    <3> HIDE DEF fromRight
    <3>4. Ordered(fromRight, L) /\ Filled(fromRight, L, a + 1) = x + y - s1
          /\ Filled(fromRight, L, a + 2) = z
      BY <1>30, <1>2, <3>3 DEF Shared
    <3>5. Size(fromRight.pages[L[a + 1]]) = x + y - s1
      BY <1>30, <1>2, <3>4, FilledTyped DEF Ordered
    <3>6. /\ s2 - (x + y - s1) \in 0 .. z
          /\ x + y - s1 + (s2 - (x + y - s1)) = s2 /\ s2 <= MAX_KEYS_LEAF
      BY <1>4, <3>1, SizesTyped, SMTT(40)
    <3>7. Shared(fromRight, takes, L, a + 1, x + y - s1 + (s2 - (x + y - s1)))
      <4> DEFINE count == s2 - (x + y - s1)
      <4>1. takes = TakeFromRightLeaf(fromRight, L[a + 1], L[(a + 1) + 1], count)
        BY <1>30, <1>2, <3>5
      <4>2. count \in 0 .. Filled(fromRight, L, (a + 1) + 1)
            /\ Filled(fromRight, L, a + 1) + count <= MAX_KEYS_LEAF
        BY <1>30, <1>2, <3>4, <3>6
      <4> HIDE DEF count, takes
      <4>3. Shared(fromRight, TakeFromRightLeaf(fromRight, L[a + 1], L[(a + 1) + 1], count), L,
                   a + 1, Filled(fromRight, L, a + 1) + count)
        BY <1>2, <3>4, <4>2, TakeFromRight
      <4> QED
        BY <3>4, <4>1, <4>3 DEF count
    <3> HIDE DEF takes
    <3>10. Shared(fromRight, takes, L, a + 1, s2)
      BY <3>6, <3>7
    <3>11. SharedByThree(f, takes, L, a, s1, s2,
             Filled(f, L, a) + Filled(f, L, a + 1) + Filled(f, L, a + 2) - s1 - s2)
      BY <1>2, <1>6, <3>3, <3>10, SharedRightward
    <3>12. Filled(f, L, a) + Filled(f, L, a + 1) + Filled(f, L, a + 2) - s1 - s2 = s3
      <4>1. x + y + z - s1 - s2 = s3
        BY <1>4
      <4> QED
        BY <1>30, <4>1, Zenon
    <3> QED
      BY <2>1, <3>11, <3>12
  <2>2. CASE ~(x < MIN_KEYS_LEAF)
    <3>1. z = MIN_KEYS_LEAF - 1 /\ y = MIN_KEYS_LEAF /\ MIN_KEYS_LEAF < x /\ x <= MAX_KEYS_LEAF
      BY <1>31, <2>2, SizesTyped
    <3>2. s3 - z \in 0 .. y /\ z + (s3 - z) <= MAX_KEYS_LEAF
      BY <1>4, <3>1, SizesTyped, SMTT(40)
    <3> DEFINE m == y - (s3 - z)
    <3>3. Shared(f, fromLeft, L, a + 1, m)
      <4>1. s3 - z \in 0 .. Filled(f, L, a + 1)
            /\ Filled(f, L, (a + 1) + 1) + (s3 - z) <= MAX_KEYS_LEAF
        BY <1>30, <1>2, <3>2
      <4>2. Shared(f, SendToRightLeaf(f, L[a + 1], L[(a + 1) + 1], s3 - z), L, a + 1,
                   Filled(f, L, a + 1) - (s3 - z))
        BY <1>30, <1>2, <1>6, <4>1, SendToRight
      <4> QED
        BY <1>30, <1>2, <4>2
    <3>10. m \in Int /\ m = y + z - s3
      BY <1>4
    <3> HIDE DEF fromLeft, m
    <3>4. Ordered(fromLeft, L) /\ Filled(fromLeft, L, a + 1) = m /\ Filled(fromLeft, L, a) = x
      BY <1>30, <1>2, <3>3 DEF Shared
    <3>5. Size(fromLeft.pages[L[a + 1]]) = m
      BY <1>30, <1>2, <3>4, FilledTyped DEF Ordered
    <3>6. /\ s2 - m \in 0 .. x /\ m + (s2 - m) <= MAX_KEYS_LEAF /\ x - (s2 - m) = s1
      BY <1>4, <3>1, <3>10, SizesTyped, SMTT(40)
    <3>7. Shared(fromLeft, sends, L, a, x - (s2 - m))
      <4> DEFINE count == s2 - m
      <4>1. sends = SendToRightLeaf(fromLeft, L[a], L[a + 1], count)
        BY <3>5
      <4>2. count \in 0 .. Filled(fromLeft, L, a)
            /\ Filled(fromLeft, L, a + 1) + count <= MAX_KEYS_LEAF
        BY <1>30, <3>4, <3>6
      <4> HIDE DEF count, sends
      <4>3. Shared(fromLeft, SendToRightLeaf(fromLeft, L[a], L[a + 1], count), L,
                   a, Filled(fromLeft, L, a) - count)
        BY <1>2, <3>4, <4>2, SendToRight
      <4> QED
        BY <3>4, <4>1, <4>3 DEF count
    <3> HIDE DEF sends
    <3>11. Shared(fromLeft, sends, L, a, s1)
      BY <3>6, <3>7
    <3>12. SharedByThree(f, sends, L, a, s1, Filled(f, L, a) + m - s1,
             Filled(f, L, a + 1) + Filled(f, L, a + 2) - m)
      BY <1>2, <1>6, <3>3, <3>10, <3>11, SharedLeftward
    <3>8. SharedByThree(f, sends, L, a, s1, x + m - s1, y + z - m)
      BY <1>30, <3>12
    <3>9. x + m - s1 = s2 /\ y + z - m = s3
      BY <1>4, <3>10
    <3> QED
      BY <2>2, <3>8, <3>9
  <2> QED
    BY <2>1, <2>2
<1> HIDE DEF h
<1>9. /\ SameButEntries(f, h) /\ Ordered(h, L) /\ Held(Lists(h, L)) = Held(Lists(f, L))
      /\ Filled(h, L, a) = s1 /\ Filled(h, L, a + 1) = s2 /\ Filled(h, L, a + 2) = s3
      /\ \A i \in 1 .. Len(L) : i \notin {a, a + 1, a + 2} => Filled(h, L, i) = Filled(f, L, i)
  BY <1>8 DEF SharedByThree
<1>10. \A i \in Int : \A q :
         i \notin {a, a + 1} /\ SeparatesAt(Lists(f, L), i, q) => SeparatesAt(Lists(h, L), i, q)
  BY <1>8 DEF SharedByThree
<1>11. /\ MIN_KEYS_LEAF <= s1 /\ s1 <= MAX_KEYS_LEAF
       /\ MIN_KEYS_LEAF <= s2 /\ s2 <= MAX_KEYS_LEAF
       /\ MIN_KEYS_LEAF <= s3 /\ s3 <= MAX_KEYS_LEAF
  BY <1>4, <1>31, SizesTyped, SMTT(40)
<1>12. h \in Files /\ LeafSeq(h, L) /\ PagesTyped(h) /\ RootIs(h, L, K) /\ h.root = f.root
  <2>1. h \in Files /\ Frame(h, L, K)
    BY <1>9, EntriesKeepShape DEF Ordered, Tree
  <2> QED
    BY <1>9, <2>1, FrameRoot DEF SameButEntries
<1>13. Filled(h, L, a + 1) # 0 /\ Filled(h, L, a + 2) # 0
  BY <1>9, <1>11, SizesTyped, SMTT(40)
<1> HIDE DEF k, c
<1>14. /\ Ordered(f1, L) /\ Lists(f1, L) = Lists(h, L) /\ SameLinks(h, f1, L)
       /\ PagesTyped(f1) /\ RootIs(f1, L, [K EXCEPT ![a] = k])
       /\ [K EXCEPT ![a] = k] \in Seq(NodeKeys) /\ Len([K EXCEPT ![a] = k]) = Len(K)
  BY <1>1, <1>2, <1>9, <1>12, <1>13, SetSeparator, SMTT(40) DEF f1, k
<1>15. RootIs(f1, L, [K EXCEPT ![a] = k]) /\ SeparatesAt(Lists(f1, L), a, k)
  BY <1>1, <1>2, <1>9, <1>12, <1>13, SetSeparator, SMTT(40) DEF f1, k
<1>16. /\ RootIs(f1, L, [K EXCEPT ![a] = k])
       /\ f1.root = f.root /\ DOMAIN f1.pages = DOMAIN h.pages
       /\ \A i \in DOMAIN h.pages : i # h.root => f1.pages[i] = h.pages[i]
  BY <1>1, <1>2, <1>9, <1>12, <1>13, SetSeparator, SMTT(40) DEF f1, k
<1>17. f1.pages[L[a + 2]] = h.pages[L[a + 2]]
  BY <1>2, <1>12, <1>16, RootIsNoLeaf
<1>18. Filled(f1, L, a + 2) # 0 /\ c = FirstKey(f1.pages[L[(a + 1) + 1]])
       /\ Filled(f1, L, (a + 1) + 1) # 0
  BY <1>2, <1>13, <1>17 DEF c, Filled
<1> DEFINE I == [K EXCEPT ![a] = k]
<1>32. PICK b \in 1 .. Len(L) : b = a + 1 /\ b + 1 = a + 2 /\ b + 1 \in 1 .. Len(L)
  BY <1>2
<1>19. g = SetKey(f1, f1.root, b, c) /\ J = [I EXCEPT ![b] = c]
  BY <1>7, <1>16, <1>32
<1> HIDE DEF I, J
<1>20. I \in Seq(NodeKeys) /\ Len(I) = Len(K) /\ RootIs(f1, L, I) /\ b \in 1 .. Len(I)
  BY <1>14, <1>32 DEF I
<1>33. c = FirstKey(f1.pages[L[b + 1]]) /\ Filled(f1, L, b + 1) # 0
  BY <1>2, <1>18, <1>32
<1>34. /\ PagesTyped(f1) /\ Ordered(f1, L) /\ g = SetKey(f1, f1.root, b, c)
       /\ b \in 1 .. Len(L) /\ b + 1 \in 1 .. Len(L)
       /\ I \in Seq(NodeKeys) /\ RootIs(f1, L, I) /\ b \in 1 .. Len(I)
  BY <1>14, <1>19, <1>20, <1>32
<1>21. /\ Ordered(g, L) /\ Lists(g, L) = Lists(f1, L) /\ SameLinks(f1, g, L)
       /\ PagesTyped(g) /\ RootIs(g, L, J) /\ J \in Seq(NodeKeys) /\ Len(J) = Len(K)
  <2>1. /\ Ordered(g, L) /\ Lists(g, L) = Lists(f1, L) /\ SameLinks(f1, g, L)
        /\ PagesTyped(g) /\ RootIs(g, L, [I EXCEPT ![b] = c])
    BY <1>33, <1>34, SetSeparator
  <2>2. /\ RootIs(g, L, [I EXCEPT ![b] = c])
        /\ [I EXCEPT ![b] = c] \in Seq(NodeKeys) /\ Len([I EXCEPT ![b] = c]) = Len(I)
    BY <1>33, <1>34, SetSeparator
  <2> QED
    BY <1>19, <1>20, <2>1, <2>2
<1>22. RootIs(g, L, J) /\ SeparatesAt(Lists(g, L), b, c)
  <2>1. RootIs(g, L, [I EXCEPT ![b] = c]) /\ SeparatesAt(Lists(g, L), b, c)
    BY <1>33, <1>34, SetSeparator
  <2> QED
    BY <1>19, <2>1
<1>23. /\ RootIs(g, L, J) /\ g.root = f1.root /\ DOMAIN g.pages = DOMAIN f1.pages
       /\ \A i \in DOMAIN f1.pages : i # f1.root => g.pages[i] = f1.pages[i]
  <2>1. /\ RootIs(g, L, [I EXCEPT ![b] = c])
        /\ g.root = f1.root /\ DOMAIN g.pages = DOMAIN f1.pages
    BY <1>33, <1>34, SetSeparator
  <2>2. /\ RootIs(g, L, [I EXCEPT ![b] = c])
        /\ \A i \in DOMAIN f1.pages : i # f1.root => g.pages[i] = f1.pages[i]
    BY <1>33, <1>34, SetSeparator
  <2> QED
    BY <1>19, <2>1, <2>2
<1>24. Separated(Lists(g, L), J)
  <2> SUFFICES ASSUME NEW i \in 1 .. Len(K) PROVE SeparatesAt(Lists(g, L), i, J[i])
    BY <1>21 DEF Separated
  <2>1. CASE i = a
    BY <1>1, <1>2, <1>15, <1>20, <1>21, <1>32, <2>1 DEF I, J
  <2>2. CASE i = a + 1
    BY <1>20, <1>22, <1>32, <2>2 DEF J
  <2>3. CASE i \notin {a, a + 1}
    <3>1. SeparatesAt(Lists(h, L), i, K[i])
      BY <1>10, <2>3 DEF Tree, Separated
    <3> QED
      BY <1>14, <1>20, <1>21, <1>32, <2>3, <3>1 DEF I, J
  <2> QED
    BY <2>1, <2>2, <2>3
<1>25. Frame(g, L, J)
  <2>1. \A id \in DOMAIN g.pages :
          g.pages[id].deleted \/ id = g.root \/ \E i \in 1 .. Len(L) : id = L[i]
    BY <1>9, <1>12, <1>16, <1>23, SMTT(40) DEF Frame, Tree, SameButEntries
  <2> QED
    BY <1>1, <1>21, <2>1, RootFrame DEF Ordered
<1>26. Tree(g, L, J)
  BY <1>21, <1>24, <1>25 DEF Tree, Ordered
<1>27. SameLinks(f, g, L)
  BY <1>1, <1>9, <1>14, <1>21, ZenonT(40) DEF SameLinks, SameButEntries, LeafSeq
<1>28. \A i \in 1 .. Len(L) : Filled(g, L, i) = Filled(h, L, i)
  <2> TAKE i \in 1 .. Len(L)
  <2>1. Filled(g, L, i) = Len(Lists(g, L)[i])
    BY <1>21, FilledTyped DEF Ordered
  <2>2. Filled(h, L, i) = Len(Lists(h, L)[i])
    BY <1>12, FilledTyped
  <2> QED
    BY <1>14, <1>21, <2>1, <2>2
<1>29. \A i \in 1 .. Len(L) :
         \/ MIN_KEYS_LEAF <= Filled(g, L, i) /\ Filled(g, L, i) <= MAX_KEYS_LEAF
         \/ i \notin {a, a + 1, a + 2} /\ Filled(g, L, i) = Filled(f, L, i)
  <2> TAKE i \in 1 .. Len(L)
  <2>1. CASE i \in {a, a + 1, a + 2}
    BY <1>9, <1>11, <1>28, <2>1
  <2>2. CASE i \notin {a, a + 1, a + 2}
    BY <1>9, <1>28, <2>2
  <2> QED
    BY <2>1, <2>2
<1> QED
  BY <1>9, <1>14, <1>21, <1>26, <1>27, <1>29
-----------------------------------------------------------------------------
(* A new root *)

\* The nodes a constructor makes.
LEMMA NewNodesTyped ==
    /\ NewLeaf \in Node /\ NewLeaf.isLeaf /\ ~NewLeaf.deleted /\ NewLeaf.entries = <<>>
    /\ NewLeaf.next = None /\ NewLeaf.children = <<>> /\ NewLeaf.keys = <<>>
    /\ NewInternal \in Node /\ ~NewInternal.isLeaf /\ ~NewInternal.deleted /\ NewInternal.next = None
<1>1. NewLeaf \in Node
  BY DEF NewLeaf, Node, Entries, None
<1>2. <<Unset>> \in Seq(Nat)
  BY DEF Unset
<1>3. NewInternal \in Node
  BY <1>1, <1>2 DEF NewInternal, Node
<1> QED
  BY <1>1, <1>3 DEF NewInternal, NewLeaf

\* The root node of two children.
RootOfTwo(l, r) ==
    [NewInternal EXCEPT !.keys = <<DefaultKey>>, !.children = <<l, r>>]

\* A root of two children.
LEMMA RootOfTwoTyped ==
    ASSUME NEW l \in Nat, NEW r \in Nat
    PROVE  /\ RootOfTwo(l, r) \in Node /\ ~RootOfTwo(l, r).isLeaf /\ ~RootOfTwo(l, r).deleted
           /\ RootOfTwo(l, r).keys = <<DefaultKey>> /\ RootOfTwo(l, r).children = <<l, r>>
           /\ RootOfTwo(l, r).next = None
<1>1. <<DefaultKey>> \in Seq(NodeKeys) /\ <<l, r>> \in Seq(Nat)
  BY DEF NodeKeys
<1>2. RootOfTwo(l, r) \in Node
  BY <1>1, NewNodesTyped DEF RootOfTwo, Node
<1> QED
  BY <1>2, NewNodesTyped DEF RootOfTwo, NewInternal, NewLeaf

\* The second child is inserted under the default key.
LEMMA SecondChild ==
    ASSUME NEW id \in Nat, NEW right \in Nat
    PROVE  InsertInInternal([NewInternal EXCEPT !.children = <<id>>], DefaultKey, right)
             = RootOfTwo(id, right)
<1> DEFINE node == [NewInternal EXCEPT !.children = <<id>>]
<1>1. node.keys = <<>> /\ node.children = <<id>>
  BY DEF NewInternal, NewLeaf
<1>2. Below(<<>>, DefaultKey) = 0
  <2>1. {i \in DOMAIN <<>> : <<>>[i] < DefaultKey} = {}
    OBVIOUS
  <2> QED
    BY <2>1, FS_EmptySet DEF Below
<1>3. InsertAt(<<>>, 1, DefaultKey) = <<DefaultKey>>
  <2> DEFINE S == Int
             s == <<>>
             p == 1
             t == InsertAt(s, p, DefaultKey)
  <2>1. s \in Seq(S) /\ DefaultKey \in S /\ Len(s) = 0 /\ p = 1
    BY DEF DefaultKey
  <2>0. s \in Seq(S) /\ DefaultKey \in S /\ p \in 1 .. Len(s) + 1
    BY DEF DefaultKey
  <2> HIDE DEF S, s, p
  <2>2. t \in Seq(S) /\ Len(t) = Len(s) + 1 /\ t[p] = DefaultKey
    BY <2>0, InsertAtProperties
  <2> HIDE DEF t
  <2>3. t = <<DefaultKey>>
    <3>1. <<DefaultKey>> \in Seq(S) /\ Len(<<DefaultKey>>) = 1 /\ <<DefaultKey>>[1] = DefaultKey
      BY <2>1
    <3>2. \A i \in 1 .. Len(t) : t[i] = <<DefaultKey>>[i]
      BY <2>1, <2>2
    <3> QED
      BY <2>1, <2>2, <3>1, <3>2, SeqEqual
  <2> QED
    BY <2>3 DEF s, p, t
<1>4. InsertAt(<<id>>, 2, right) = <<id, right>>
  <2> DEFINE S == Nat
             s == <<id>>
             p == 2
             t == InsertAt(s, p, right)
  <2>1. s \in Seq(S) /\ Len(s) = 1 /\ s[1] = id /\ p = 2 /\ id \in S /\ right \in S
    OBVIOUS
  <2>0. s \in Seq(S) /\ p \in 1 .. Len(s) + 1 /\ right \in S
    OBVIOUS
  <2> HIDE DEF S, s, p
  <2>2. t \in Seq(S) /\ Len(t) = Len(s) + 1 /\ t[p] = right
    BY <2>0, InsertAtProperties
  <2>3. \A j \in 1 .. p - 1 : t[j] = s[j]
    BY <2>0, InsertAtProperties
  <2>4. t[1] = id
    BY <2>1, <2>3
  <2> HIDE DEF t
  <2>5. t = <<id, right>>
    <3> DEFINE u == <<id, right>>
    <3>1. u \in Seq(S) /\ Len(u) = 2 /\ u[1] = id /\ u[2] = right
      BY <2>1
    <3> HIDE DEF u
    <3>2. \A i \in 1 .. Len(t) : t[i] = u[i]
      BY <2>1, <2>2, <2>4, <3>1
    <3>3. t = u
      BY <2>1, <2>2, <3>1, <3>2, SeqEqual
    <3> QED
      BY <3>3 DEF u
  <2> QED
    BY <2>5 DEF s, p, t
<1> HIDE DEF node
<1>5. InsertInInternal(node, DefaultKey, right)
        = [node EXCEPT !.keys = <<DefaultKey>>, !.children = <<id, right>>]
  <2>1. Below(<<>>, DefaultKey) + 1 = 1 /\ Below(<<>>, DefaultKey) + 2 = 2
    BY <1>2
  <2>2. InsertAt(node.keys, Below(node.keys, DefaultKey) + 1, DefaultKey) = <<DefaultKey>>
    BY <1>1, <1>3, <2>1
  <2>3. InsertAt(node.children, Below(node.keys, DefaultKey) + 2, right) = <<id, right>>
    BY <1>1, <1>4, <2>1
  <2> QED
    BY <2>2, <2>3, Zenon DEF InsertInInternal
<1> QED
  BY <1>5 DEF RootOfTwo, NewInternal, NewLeaf, node

\* A page of a new node is no page of the tree.
LEMMA NewPageElsewhere ==
    ASSUME NEW f \in Files
    PROVE  /\ NewPage(f) \in 1 .. Len(f.pages) + 1
           /\ \A i \in DOMAIN f.pages : ~f.pages[i].deleted => NewPage(f) # i
BY NewPageFree

\* A new root above the old one, and a second child of it.
LEMMA GrownRoot ==
    ASSUME NEW f \in Files, NEW id \in DOMAIN f.pages, ~f.pages[id].deleted,
           NEW node \in Node, ~node.deleted,
           NEW grown, grown = GrowRoot(f, id, node)
    PROVE  /\ grown.file \in Files /\ grown.file.root = grown.root
           /\ grown.file.first = f.first /\ grown.file.ok = f.ok
           /\ DOMAIN grown.file.pages = DOMAIN f.pages \union {grown.root, grown.right}
           /\ grown.file.pages[grown.root] = RootOfTwo(id, grown.right)
           /\ grown.file.pages[grown.right] = node
           /\ \A i \in DOMAIN f.pages :
                i \notin {grown.root, grown.right} => grown.file.pages[i] = f.pages[i]
           /\ \A i \in DOMAIN f.pages : ~f.pages[i].deleted => i \notin {grown.root, grown.right}
           /\ grown.root # grown.right /\ grown.root \in Nat /\ grown.right \in Nat
<1> DEFINE root == NewPage(f)
           one == [NewInternal EXCEPT !.children = <<id>>]
           f0 == Write(f, root, one)
           f1 == [f0 EXCEPT !.root = root]
           right == NewPage(f1)
           f2 == Write(f1, right, node)
           f3 == Write(f2, root, InsertInInternal(f2.pages[root], DefaultKey, right))
<1>1. grown = [file |-> f3, root |-> root, right |-> right]
  BY DEF GrowRoot
<1>2. Len(f.pages) \in Nat /\ DOMAIN f.pages = 1 .. Len(f.pages)
  BY FileTyped
<1>3. one \in Node /\ ~one.deleted
  <2>1. <<id>> \in Seq(Nat)
    BY <1>2
  <2> QED
    BY <2>1, NewNodesTyped DEF Node
<1>4. /\ root \in 1 .. Len(f.pages) + 1
      /\ \A i \in DOMAIN f.pages : ~f.pages[i].deleted => root # i
  BY NewPageElsewhere
<1> HIDE DEF one, root
<1>5. /\ f0 \in Files /\ f0.first = f.first /\ f0.ok = f.ok
      /\ DOMAIN f0.pages = DOMAIN f.pages \union {root} /\ f0.pages[root] = one
      /\ \A i \in DOMAIN f.pages : i # root => f0.pages[i] = f.pages[i]
  BY <1>3, <1>4, WriteEffect
<1> HIDE DEF f0
<1>6. /\ f1 \in Files /\ f1.root = root /\ f1.pages = f0.pages /\ f1.first = f.first /\ f1.ok = f.ok
  BY <1>4, <1>5, SMTT(40) DEF Files
<1> HIDE DEF f1
<1>7. /\ right \in 1 .. Len(f1.pages) + 1
      /\ \A i \in DOMAIN f1.pages : ~f1.pages[i].deleted => right # i
  BY <1>6, NewPageElsewhere
<1>8. right # root /\ \A i \in DOMAIN f.pages : ~f.pages[i].deleted => right # i
  <2>1. right # root
    BY <1>3, <1>5, <1>6, <1>7
  <2>2. ASSUME NEW i \in DOMAIN f.pages, ~f.pages[i].deleted PROVE right # i
    BY <1>4, <1>5, <1>6, <1>7, <2>2
  <2> QED
    BY <2>1, <2>2
<1> HIDE DEF right
<1>9. /\ f2 \in Files /\ f2.root = f1.root /\ f2.first = f1.first /\ f2.ok = f1.ok
      /\ DOMAIN f2.pages = DOMAIN f1.pages \union {right} /\ f2.pages[right] = node
      /\ \A i \in DOMAIN f1.pages : i # right => f2.pages[i] = f1.pages[i]
  BY <1>6, <1>7, WriteEffect
<1> HIDE DEF f2
<1>10. f2.pages[root] = one
  BY <1>5, <1>6, <1>8, <1>9
<1>11. right \in Nat /\ root \in Nat /\ id \in Nat
  BY <1>2, <1>4, <1>6, <1>7, FileTyped
<1>12. f3 = Write(f2, root, RootOfTwo(id, right))
  BY <1>10, <1>11, SecondChild DEF one
<1>13. RootOfTwo(id, right) \in Node
  BY <1>11, RootOfTwoTyped
<1>14. root \in 1 .. Len(f2.pages) + 1
  BY <1>5, <1>6, <1>9, FileTyped
<1> HIDE DEF f3
<1>15. /\ f3 \in Files /\ f3.root = f2.root /\ f3.first = f2.first /\ f3.ok = f2.ok
       /\ DOMAIN f3.pages = DOMAIN f2.pages \union {root} /\ f3.pages[root] = RootOfTwo(id, right)
       /\ \A i \in DOMAIN f2.pages : i # root => f3.pages[i] = f2.pages[i]
  BY <1>9, <1>12, <1>13, <1>14, WriteEffect
<1>16. grown.file = f3 /\ grown.root = root /\ grown.right = right
  BY <1>1
<1>17. DOMAIN f3.pages = DOMAIN f.pages \union {root, right}
  BY <1>5, <1>6, <1>9, <1>15
<1>18. \A i \in DOMAIN f.pages : i \notin {root, right} => f3.pages[i] = f.pages[i]
  BY <1>5, <1>6, <1>9, <1>15
<1>19. f3.pages[right] = node
  BY <1>8, <1>9, <1>15
<1>20. f3.root = root /\ f3.first = f.first /\ f3.ok = f.ok
  BY <1>6, <1>9, <1>15
<1> QED
  BY <1>4, <1>8, <1>11, <1>15, <1>16, <1>17, <1>18, <1>19, <1>20
-----------------------------------------------------------------------------
(* The chain of leaves *)

\* Only the next leaves are different.
SameButLinks(f, g) ==
    /\ g.root = f.root /\ g.first = f.first /\ g.ok = f.ok
    /\ DOMAIN g.pages = DOMAIN f.pages
    /\ \A i \in DOMAIN f.pages :
         /\ g.pages[i].isLeaf = f.pages[i].isLeaf /\ g.pages[i].deleted = f.pages[i].deleted
         /\ g.pages[i].entries = f.pages[i].entries
         /\ g.pages[i].keys = f.pages[i].keys /\ g.pages[i].children = f.pages[i].children

\* set_next
LEMMA SetNextEffect ==
    ASSUME NEW f \in Files, PagesTyped(f), NEW id \in DOMAIN f.pages,
           NEW n \in DOMAIN f.pages \union {None}, NEW g, g = SetNext(f, id, n)
    PROVE  /\ g \in Files /\ PagesTyped(g) /\ SameButLinks(f, g)
           /\ g.pages[id].next = n
           /\ \A i \in DOMAIN f.pages : i # id => g.pages[i] = f.pages[i]
<1> DEFINE node == [f.pages[id] EXCEPT !.next = n]
<1>1. f.pages[id] \in Node /\ id \in 1 .. Len(f.pages) + 1 /\ n \in Int
  BY FileTyped DEF None
<1>2. /\ node \in Node /\ node.next = n /\ node.isLeaf = f.pages[id].isLeaf
      /\ node.deleted = f.pages[id].deleted /\ node.entries = f.pages[id].entries
      /\ node.keys = f.pages[id].keys /\ node.children = f.pages[id].children
  BY <1>1 DEF Node
<1>3. g = Write(f, id, node)
  BY DEF SetNext
<1> HIDE DEF node
<1>4. /\ g \in Files /\ g.root = f.root /\ g.first = f.first /\ g.ok = f.ok
      /\ DOMAIN g.pages = DOMAIN f.pages \union {id} /\ g.pages[id] = node
      /\ \A i \in DOMAIN f.pages : i # id => g.pages[i] = f.pages[i]
  BY <1>1, <1>2, <1>3, WriteEffect
<1>5. DOMAIN g.pages = DOMAIN f.pages
  BY <1>4
<1>6. SameButLinks(f, g)
  BY <1>2, <1>4, <1>5 DEF SameButLinks
<1>7. PagesTyped(g)
  BY <1>2, <1>4, <1>5, SMTT(40) DEF PagesTyped
<1> QED
  BY <1>2, <1>4, <1>6, <1>7

\* Other links do not change the tree.
LEMMA LinksKeepShape ==
    ASSUME NEW f, NEW g \in Files, PagesTyped(g), SameButLinks(f, g)
    PROVE  /\ \A L : LeafSeq(f, L) => /\ LeafSeq(g, L) /\ Lists(g, L) = Lists(f, L)
                                      /\ \A i \in 1 .. Len(L) : Filled(g, L, i) = Filled(f, L, i)
           /\ \A M, J : RootIs(f, M, J) => RootIs(g, M, J)
           /\ \A L, K : Tree(f, L, K) => Tree(g, L, K)
<1>1. ASSUME NEW L, LeafSeq(f, L)
      PROVE  /\ LeafSeq(g, L) /\ Lists(g, L) = Lists(f, L)
             /\ \A i \in 1 .. Len(L) : Filled(g, L, i) = Filled(f, L, i)
  BY <1>1, SMTT(40) DEF LeafSeq, Lists, Filled, SameButLinks
<1>2. ASSUME NEW M, NEW J, RootIs(f, M, J) PROVE RootIs(g, M, J)
  BY <1>2 DEF RootIs, SameButLinks
<1>3. ASSUME NEW L, NEW K, Tree(f, L, K) PROVE Tree(g, L, K)
  <2>1. LeafSeq(g, L) /\ Lists(g, L) = Lists(f, L)
    BY <1>1, <1>3 DEF Tree, Frame
  <2>2. Frame(g, L, K)
    BY <1>3, <2>1 DEF Tree, Frame, SameButLinks
  <2> QED
    BY <1>3, <2>1, <2>2 DEF Tree
<1> QED
  BY <1>1, <1>2, <1>3
-----------------------------------------------------------------------------
(* A leaf that was the root is split. *)

\* A leaf and an empty one to the right of it.
LEMMA EmptyNeighbour ==
    ASSUME NEW e \in Entries, Ascending(e), NEW E \in Seq(Entries), Len(E) = 2,
           E[1] = e, E[2] = <<>>
    PROVE  InOrder(E) /\ Held(E) = Range(e)
<1>1. Range(<<>>) = {}
  BY DEF Range
<1>2. Ascending(<<>>) /\ Precedes(e, <<>>)
  BY <1>1 DEF Ascending, Precedes
<1>3. \A i, j \in 1 .. Len(E) : i < j => i = 1 /\ j = 2
  OBVIOUS
<1>4. \A i \in 1 .. Len(E) : i = 1 \/ i = 2
  OBVIOUS
<1>5. InOrder(E)
  BY <1>2, <1>3, <1>4 DEF InOrder
<1>6. \A x : x \in Held(E) <=> x \in Range(e)
  BY <1>1, <1>4, HeldMembership
<1> QED
  BY <1>5, <1>6

\* splitLeaf1to2 makes a tree of two leaves.
LEMMA SplitRootLeaf ==
    ASSUME NEW f, NEW id, Tree(f, <<id>>, <<>>), Chained(f, <<id>>),
           Filled(f, <<id>>, 1) = PHYS_SIZE_LEAF,
           NEW g, g = SplitLeaf1to2(f, id)
    PROVE  \E L, J :
             /\ Tree(g, L, J) /\ Chained(g, L) /\ Len(L) = 2 /\ g.ok = f.ok
             /\ Held(Lists(g, L)) = Held(Lists(f, <<id>>))
             /\ Filled(g, L, 1) = PHYS_SIZE_LEAF \div 2
             /\ Filled(g, L, 2) = PHYS_SIZE_LEAF - PHYS_SIZE_LEAF \div 2
<1> DEFINE grown == GrowRoot(f, id, NewLeaf)
           h == grown.file
           right == grown.right
           root == grown.root
           L == <<id, right>>
           K == <<DefaultKey>>
           f1 == Redistribute2to2(h, id, right, root, 1)
<1>1. f \in Files /\ PagesTyped(f) /\ LeafSeq(f, <<id>>) /\ f.root = id
      /\ Len(<<id>>) = 1 /\ <<id>>[1] = id
  <2>1. Len(<<id>>) = 1 /\ <<id>>[1] = id
    OBVIOUS
  <2> QED
    BY <2>1 DEF Tree, Frame
<1>2. /\ id \in DOMAIN f.pages /\ f.pages[id].isLeaf /\ ~f.pages[id].deleted
      /\ f.pages[id] \in Node /\ id \in Nat /\ f.pages[id].entries \in Entries
  <2>1. id \in DOMAIN f.pages /\ f.pages[id].isLeaf /\ ~f.pages[id].deleted /\ 1 \in 1 .. Len(<<id>>)
    BY <1>1 DEF LeafSeq
  <2> QED
    BY <1>1, <2>1, FileTyped, NodeTyped
<1>3. /\ h \in Files /\ h.root = root /\ h.first = f.first /\ h.ok = f.ok
      /\ DOMAIN h.pages = DOMAIN f.pages \union {root, right}
      /\ h.pages[root] = RootOfTwo(id, right) /\ h.pages[right] = NewLeaf
  BY <1>1, <1>2, NewNodesTyped, GrownRoot
<1>4. /\ \A i \in DOMAIN f.pages : i \notin {root, right} => h.pages[i] = f.pages[i]
      /\ \A i \in DOMAIN f.pages : ~f.pages[i].deleted => i \notin {root, right}
      /\ root # right /\ root \in Nat /\ right \in Nat
  BY <1>1, <1>2, NewNodesTyped, GrownRoot
<1>5. f1 = Redistribute2to2(h, L[1], L[2], h.root, 1) /\ g = SetNext(f1, id, right)
  BY <1>3 DEF SplitLeaf1to2
<1> HIDE DEF grown, h, right, root
<1>6. /\ L \in Seq(Nat) /\ Len(L) = 2 /\ L[1] = id /\ L[2] = right
      /\ K \in Seq(NodeKeys) /\ Len(K) = 1
  BY <1>2, <1>4 DEF NodeKeys
<1>7. id # right /\ id # root /\ h.pages[id] = f.pages[id] /\ id \in DOMAIN h.pages
  BY <1>2, <1>3, <1>4
<1> HIDE DEF L, K, f1
<1>8. LeafSeq(h, L)
  <2>1. \A i \in 1 .. Len(L) : i = 1 \/ i = 2
    BY <1>6
  <2>2. right \in DOMAIN h.pages
    BY <1>3
  <2> QED
    BY <1>2, <1>3, <1>6, <1>7, <2>1, <2>2, NewNodesTyped DEF LeafSeq
<1>9. PagesTyped(h)
  <2> SUFFICES ASSUME NEW i \in DOMAIN h.pages
               PROVE  /\ h.pages[i].next \in DOMAIN h.pages \union {None}
                      /\ Len(h.pages[i].children)
                           = IF h.pages[i].isLeaf THEN 0 ELSE Len(h.pages[i].keys) + 1
    BY DEF PagesTyped
  <2>1. CASE i = root
    <3>1. /\ ~h.pages[i].isLeaf /\ h.pages[i].next = None
          /\ h.pages[i].keys = <<DefaultKey>> /\ h.pages[i].children = <<id, right>>
      BY <1>2, <1>3, <1>4, <2>1, RootOfTwoTyped
    <3>2. Len(<<DefaultKey>>) = 1 /\ Len(<<id, right>>) = 2
      OBVIOUS
    <3> QED
      BY <3>1, <3>2
  <2>2. CASE i = right
    BY <1>3, <2>2, NewNodesTyped
  <2>3. CASE i \notin {root, right}
    BY <1>1, <1>3, <1>4, <2>3 DEF PagesTyped
  <2> QED
    BY <2>1, <2>2, <2>3
<1>10. RootIs(h, L, K)
  BY <1>2, <1>3, <1>4, RootOfTwoTyped DEF RootIs, L, K
<1>11. Frame(h, L, K)
  <2>1. \A i \in DOMAIN h.pages : h.pages[i].deleted \/ i = h.root \/ \E j \in 1 .. Len(L) : i = L[j]
    <3> TAKE i \in DOMAIN h.pages
    <3>1. CASE i \in {root, right}
      BY <1>3, <1>6, <3>1
    <3>2. CASE i \notin {root, right}
      <4>1. i \in DOMAIN f.pages /\ h.pages[i] = f.pages[i]
        BY <1>3, <1>4, <3>2
      <4>2. f.pages[i].deleted \/ i = id
        <5>1. f.pages[i].deleted \/ i = f.root \/ \E j \in 1 .. Len(<<id>>) : i = <<id>>[j]
          BY <4>1 DEF Tree, Frame
        <5> QED
          BY <1>1, <5>1
      <4> QED
        BY <1>6, <4>1, <4>2
    <3> QED
      BY <3>1, <3>2
  <2>2. K \in Seq(NodeKeys) /\ Len(L) = Len(K) + 1 /\ Len(L) > 1
    BY <1>6
  <2> QED
    BY <1>3, <1>8, <1>9, <1>10, <2>1, <2>2, RootFrame
<1> DEFINE e == f.pages[id].entries
<1>12. /\ Lists(h, L) \in Seq(Entries) /\ Len(Lists(h, L)) = 2
       /\ Lists(h, L)[1] = e /\ Lists(h, L)[2] = <<>>
  <2>1. /\ Lists(h, L) \in Seq(Entries) /\ Len(Lists(h, L)) = Len(L)
        /\ \A i \in 1 .. Len(L) : Lists(h, L)[i] = h.pages[L[i]].entries
    BY <1>3, <1>8, ListsTyped
  <2> QED
    BY <1>3, <1>6, <1>7, <2>1, NewNodesTyped
<1>13. Len(e) = PHYS_SIZE_LEAF /\ PHYS_SIZE_LEAF \in Nat /\ PHYS_SIZE_LEAF >= 4
  BY <1>1, TreeAssumption DEF Filled
<1>14. /\ Lists(f, <<id>>) \in Seq(Entries) /\ Len(Lists(f, <<id>>)) = 1
       /\ Lists(f, <<id>>)[1] = e
  BY <1>1, ListsTyped
<1>15. Ascending(e)
  BY <1>14 DEF Tree, InOrder
<1>16. Held(Lists(f, <<id>>)) = Range(e)
  BY <1>14 DEF Held
<1>17. InOrder(Lists(h, L)) /\ Held(Lists(h, L)) = Held(Lists(f, <<id>>))
  BY <1>2, <1>12, <1>15, <1>16, EmptyNeighbour
<1>18. Filled(h, L, 1) = PHYS_SIZE_LEAF /\ Filled(h, L, 1 + 1) = 0
  <2>1. Filled(h, L, 1) = Len(e)
    BY <1>6, <1>7 DEF Filled
  <2>2. Filled(h, L, 1 + 1) = Len(<<>>)
    BY <1>3, <1>6, NewNodesTyped DEF Filled
  <2>3. Len(<<>>) = 0
    OBVIOUS
  <2> QED
    BY <1>13, <2>1, <2>2, <2>3
<1>19. /\ \E J : Tree(f1, L, J)
       /\ SameLinks(h, f1, L) /\ Held(Lists(f1, L)) = Held(Lists(h, L)) /\ Halved(h, f1, L, 1)
  <2>1. /\ Filled(h, L, 1) # (Filled(h, L, 1) + Filled(h, L, 1 + 1)) \div 2
        /\ 2 <= Filled(h, L, 1) + Filled(h, L, 1 + 1)
        /\ Filled(h, L, 1) + Filled(h, L, 1 + 1) <= 2 * MAX_KEYS_LEAF
    BY <1>13, <1>18 DEF MAX_KEYS_LEAF
  <2>2. \A i \in 1 .. Len(K) : i # 1 => SeparatesAt(Lists(h, L), i, K[i])
    BY <1>6
  <2>3. 1 \in 1 .. Len(K) /\ Len(L) > 1 /\ f1 = Redistribute2to2(h, L[1], L[1 + 1], h.root, 1)
    BY <1>5, <1>6
  <2> QED
    BY <1>11, <1>17, <2>1, <2>2, <2>3, RedistributeTwo
<1>20. PICK J : Tree(f1, L, J)
  BY <1>19
<1>21. f1 \in Files /\ PagesTyped(f1) /\ LeafSeq(f1, L) /\ id \in DOMAIN f1.pages /\ right \in DOMAIN f1.pages
  <2>1. f1 \in Files /\ PagesTyped(f1) /\ LeafSeq(f1, L)
    BY <1>20 DEF Tree, Frame
  <2> QED
    BY <1>6, <2>1 DEF LeafSeq
<1>22. /\ g \in Files /\ PagesTyped(g) /\ SameButLinks(f1, g)
       /\ g.pages[id].next = right /\ g.pages[right] = f1.pages[right]
  BY <1>5, <1>7, <1>21, SetNextEffect
<1>23. Tree(g, L, J) /\ Lists(g, L) = Lists(f1, L)
       /\ \A i \in 1 .. Len(L) : Filled(g, L, i) = Filled(f1, L, i)
  BY <1>20, <1>21, <1>22, LinksKeepShape
<1>24. Chained(g, L)
  <2>1. g.first = id
    BY <1>1, <1>3, <1>19, <1>22 DEF SameButLinks, SameLinks, Chained
  <2>2. g.pages[right].next = None
    <3>1. f1.pages[L[2]].next = h.pages[L[2]].next
      BY <1>6, <1>19 DEF SameLinks
    <3> QED
      BY <1>3, <1>6, <1>22, <3>1, NewNodesTyped
  <2>3. \A i \in 1 .. Len(L) : i = 1 \/ i = 2
    BY <1>6
  <2> QED
    BY <1>6, <1>22, <2>1, <2>2, <2>3 DEF Chained
<1>25. g.ok = f.ok
  BY <1>3, <1>19, <1>22 DEF SameLinks, SameButLinks
<1>26. /\ Filled(f1, L, 1) = PHYS_SIZE_LEAF \div 2
       /\ Filled(f1, L, 2) = PHYS_SIZE_LEAF - PHYS_SIZE_LEAF \div 2
  <2>1. /\ Filled(f1, L, 1) = (Filled(h, L, 1) + Filled(h, L, 1 + 1)) \div 2
        /\ Filled(f1, L, 1 + 1)
             = Filled(h, L, 1) + Filled(h, L, 1 + 1) - (Filled(h, L, 1) + Filled(h, L, 1 + 1)) \div 2
    BY <1>19 DEF Halved
  <2> QED
    BY <1>13, <1>18, <2>1
<1>27. Held(Lists(g, L)) = Held(Lists(f, <<id>>))
  BY <1>17, <1>19, <1>23
<1>28. /\ Filled(g, L, 1) = PHYS_SIZE_LEAF \div 2
       /\ Filled(g, L, 2) = PHYS_SIZE_LEAF - PHYS_SIZE_LEAF \div 2
  BY <1>6, <1>23, <1>26
<1> QED
  BY <1>6, <1>23, <1>24, <1>25, <1>27, <1>28
-----------------------------------------------------------------------------
(* A leaf between two others *)

\* g has a new leaf, which is the one behind the first p in M.
NewLeafPut(f, g, L, K, p, new, M) ==
    /\ PagesTyped(g) /\ Ordered(g, M) /\ RootIs(g, L, K)
    /\ g.root = f.root /\ g.first = f.first /\ g.ok = f.ok
    /\ DOMAIN g.pages = DOMAIN f.pages \union {new} /\ g.pages[new] = NewLeaf
    /\ \A i \in DOMAIN f.pages : i # new => g.pages[i] = f.pages[i]
    /\ new # f.root /\ \A i \in 1 .. Len(L) : L[i] # new
    /\ Len(M) = Len(L) + 1 /\ M[p + 1] = new
    /\ \A i \in 1 .. p : M[i] = L[i]
    /\ \A i \in p + 1 .. Len(L) : M[i + 1] = L[i]
    /\ Padded(Lists(f, L), Lists(g, M), p)
    /\ Held(Lists(g, M)) = Held(Lists(f, L))

\* A new leaf behind the leaf p.
LEMMA NewLeafBetween ==
    ASSUME NEW f, PagesTyped(f), NEW L, Ordered(f, L), NEW K, RootIs(f, L, K),
           NEW p \in 1 .. Len(L)
    PROVE  NewLeafPut(f, Write(f, NewPage(f), NewLeaf), L, K, p, NewPage(f),
                      InsertAt(L, p + 1, NewPage(f)))
<1> DEFINE new == NewPage(f)
           g == Write(f, new, NewLeaf)
           M == InsertAt(L, p + 1, new)
<1>1. f \in Files /\ LeafSeq(f, L) /\ InOrder(Lists(f, L)) /\ L \in Seq(Nat) /\ Len(L) \in Nat
  BY DEF Ordered, LeafSeq
<1>2. /\ new \in 1 .. Len(f.pages) + 1
      /\ \A i \in DOMAIN f.pages : ~f.pages[i].deleted => new # i
  BY <1>1, NewPageElsewhere
<1>3. new # f.root /\ \A i \in 1 .. Len(L) : L[i] # new
  BY <1>1, <1>2 DEF RootIs, LeafSeq
<1> HIDE DEF new
<1>4. /\ g \in Files /\ g.root = f.root /\ g.first = f.first /\ g.ok = f.ok
      /\ DOMAIN g.pages = DOMAIN f.pages \union {new} /\ g.pages[new] = NewLeaf
      /\ \A i \in DOMAIN f.pages : i # new => g.pages[i] = f.pages[i]
  BY <1>1, <1>2, NewNodesTyped, WriteEffect
<1> HIDE DEF g
<1>5. RootIs(g, L, K)
  BY <1>3, <1>4 DEF RootIs
<1>6. PagesTyped(g)
  <2> SUFFICES ASSUME NEW i \in DOMAIN g.pages
               PROVE  /\ g.pages[i].next \in DOMAIN g.pages \union {None}
                      /\ Len(g.pages[i].children)
                           = IF g.pages[i].isLeaf THEN 0 ELSE Len(g.pages[i].keys) + 1
    BY DEF PagesTyped
  <2>1. CASE i = new
    BY <1>4, <2>1, NewNodesTyped
  <2>2. CASE i # new
    BY <1>4, <2>2 DEF PagesTyped
  <2> QED
    BY <2>1, <2>2
<1>7. new \in Nat
  <2>1. Len(f.pages) \in Nat
    BY <1>1, FileTyped
  <2> QED
    BY <1>2, <2>1
<1>8. /\ M \in Seq(Nat) /\ Len(M) = Len(L) + 1 /\ M[p + 1] = new
      /\ \A i \in 1 .. p : M[i] = L[i]
      /\ \A i \in p + 1 .. Len(L) : M[i + 1] = L[i]
  <2> DEFINE S == Nat
             q == p + 1
             s == L
  <2>1. s \in Seq(S) /\ new \in S /\ q \in 1 .. Len(s) + 1
    BY <1>1, <1>7
  <2>2. q - 1 = p
    OBVIOUS
  <2> HIDE DEF S, q, s
  <2>3. InsertAt(s, q, new) \in Seq(S) /\ Len(InsertAt(s, q, new)) = Len(s) + 1
        /\ InsertAt(s, q, new)[q] = new
    BY <2>1, InsertAtProperties
  <2>4. \A i \in 1 .. q - 1 : InsertAt(s, q, new)[i] = s[i]
    BY <2>1, InsertAtProperties
  <2>5. \A i \in q .. Len(s) : InsertAt(s, q, new)[i + 1] = s[i]
    BY <2>1, InsertAtProperties
  <2>6. \A i \in 1 .. p : InsertAt(s, q, new)[i] = s[i]
    BY <2>2, <2>4
  <2> QED
    BY <2>3, <2>5, <2>6 DEF S, q, s
<1> HIDE DEF M
<1>9. \A i \in 1 .. Len(M) : \/ i = p + 1 /\ M[i] = new
                             \/ i \in 1 .. p /\ i \in 1 .. Len(L) /\ M[i] = L[i]
                             \/ i > p + 1 /\ i - 1 \in 1 .. Len(L) /\ M[i] = L[i - 1]
  <2> TAKE i \in 1 .. Len(M)
  <2>1. CASE i > p + 1
    <3>1. i - 1 \in p + 1 .. Len(L) /\ (i - 1) + 1 = i
      BY <1>1, <1>8, <2>1
    <3>2. M[(i - 1) + 1] = L[i - 1]
      BY <1>8, <3>1
    <3> QED
      BY <2>1, <3>1, <3>2
  <2>2. CASE i <= p
    BY <1>1, <1>8, <2>2, SMTT(40)
  <2> QED
    BY <1>1, <1>8, <2>1, <2>2
<1>10. LeafSeq(g, M)
  <2>1. \A i, j \in 1 .. Len(M) : M[i] = M[j] => i = j
    <3> SUFFICES ASSUME NEW i \in 1 .. Len(M), NEW j \in 1 .. Len(M), M[i] = M[j], i < j
                 PROVE  FALSE
      <4>1. Len(M) \in Nat
        BY <1>1, <1>8
      <4> QED
        BY <4>1
    <3>4. \A h \in 1 .. Len(M) : h # p + 1 => M[h] # new
      BY <1>3, <1>9
    <3>1. CASE i = p + 1
      <4>1. j # p + 1 /\ M[i] = new
        BY <1>8, <3>1
      <4> QED
        BY <3>4, <4>1
    <3>2. CASE j = p + 1
      <4>1. i # p + 1 /\ M[j] = new
        BY <1>8, <3>2
      <4> QED
        BY <3>4, <4>1
    <3>3. CASE i # p + 1 /\ j # p + 1
      <4>0. \A h \in 1 .. Len(M) : h # p + 1 =>
              \E u \in 1 .. Len(L) : M[h] = L[u] /\ ((u = h /\ h <= p) \/ (u = h - 1 /\ h > p + 1))
        <5> TAKE h \in 1 .. Len(M)
        <5> HAVE h # p + 1
        <5>1. CASE h \in 1 .. p
          <6>1. h \in 1 .. Len(L) /\ M[h] = L[h] /\ h <= p
            BY <1>1, <1>8, <5>1, SMTT(40)
          <6> WITNESS h \in 1 .. Len(L)
          <6> QED
            BY <6>1
        <5>2. CASE h > p + 1
          BY <1>9, <5>2
        <5> QED
          BY <1>1, <1>8, <5>1, <5>2
      <4>1. PICK u \in 1 .. Len(L) : M[i] = L[u] /\ ((u = i /\ i <= p) \/ (u = i - 1 /\ i > p + 1))
        BY <3>3, <4>0
      <4>2. PICK v \in 1 .. Len(L) : M[j] = L[v] /\ ((v = j /\ j <= p) \/ (v = j - 1 /\ j > p + 1))
        BY <3>3, <4>0
      <4>3. u # v
        BY <4>1, <4>2
      <4> QED
        BY <1>1, <4>1, <4>2, <4>3 DEF LeafSeq
    <3> QED
      BY <3>1, <3>2, <3>3
  <2>2. \A i \in 1 .. Len(M) : M[i] \in DOMAIN g.pages /\ g.pages[M[i]].isLeaf /\ ~g.pages[M[i]].deleted
    <3> TAKE i \in 1 .. Len(M)
    <3>1. CASE M[i] = new
      BY <1>4, <3>1, NewNodesTyped
    <3>2. CASE \E j \in 1 .. Len(L) : M[i] = L[j]
      BY <1>1, <1>3, <1>4, <3>2 DEF LeafSeq
    <3> QED
      BY <1>9, <3>1, <3>2
  <2> QED
    BY <1>8, <2>1, <2>2 DEF LeafSeq
<1> DEFINE E == Lists(f, L)
           F == Lists(g, M)
<1>11. E \in Seq(Entries) /\ Len(E) = Len(L) /\ \A i \in 1 .. Len(L) : E[i] = f.pages[L[i]].entries
  BY <1>1, ListsTyped
<1>12. F \in Seq(Entries) /\ Len(F) = Len(M) /\ \A i \in 1 .. Len(M) : F[i] = g.pages[M[i]].entries
  BY <1>4, <1>10, ListsTyped
<1> HIDE DEF E, F
<1>13. Padded(E, F, p)
  <2>1. F[p + 1] = <<>>
    <3>1. p + 1 \in 1 .. Len(M)
      BY <1>1, <1>8
    <3> QED
      BY <1>4, <1>8, <1>12, <3>1, NewNodesTyped
  <2>2. \A j \in 1 .. Len(E) : F[IF j <= p THEN j ELSE j + 1] = E[j]
    <3> TAKE j \in 1 .. Len(E)
    <3>1. g.pages[L[j]] = f.pages[L[j]]
      BY <1>1, <1>3, <1>4, <1>11 DEF LeafSeq
    <3>2. CASE j <= p
      <4>1. M[j] = L[j] /\ j \in 1 .. Len(M) /\ j \in 1 .. Len(L)
        BY <1>1, <1>8, <1>11, <3>2
      <4> QED
        BY <1>11, <1>12, <3>1, <3>2, <4>1
    <3>3. CASE ~(j <= p)
      <4>1. M[j + 1] = L[j] /\ j + 1 \in 1 .. Len(M) /\ j \in 1 .. Len(L)
        BY <1>1, <1>8, <1>11, <3>3
      <4> QED
        BY <1>11, <1>12, <3>1, <3>3, <4>1
    <3> QED
      BY <3>2, <3>3
  <2>3. Len(F) = Len(E) + 1 /\ p \in 0 .. Len(E)
    BY <1>1, <1>8, <1>11, <1>12
  <2> QED
    BY <2>1, <2>2, <2>3 DEF Padded
<1>14. InOrder(F) /\ Held(F) = Held(E)
  <2>1. InOrder(E) <=> InOrder(F)
    BY <1>11, <1>12, <1>13, EmptyLeaf
  <2>2. Held(F) = Held(E)
    BY <1>11, <1>12, <1>13, EmptyLeaf
  <2> QED
    BY <1>1, <2>1, <2>2 DEF E
<1>15. Ordered(g, M)
  BY <1>4, <1>10, <1>14 DEF Ordered, F
<1>16. Padded(Lists(f, L), Lists(g, M), p) /\ Held(Lists(g, M)) = Held(Lists(f, L))
  BY <1>13, <1>14 DEF E, F
<1> HIDE DEF M
<1>17. NewLeafPut(f, g, L, K, p, new, M)
  BY <1>3, <1>4, <1>5, <1>6, <1>8, <1>15, <1>16 DEF NewLeafPut
<1> QED
  BY <1>17 DEF new, g, M

\* The separator of a leaf that is not empty is above the one before.
LEMMA SeparatorsAscend ==
    ASSUME NEW E \in Seq(Entries), NEW i \in 1 .. Len(E), NEW j \in 1 .. Len(E), i < j,
           Len(E[j]) # 0, NEW k \in Int, NEW c \in Int, SeparatesAt(E, i, k), SeparatesAt(E, j, c)
    PROVE  k < c
<1>1. E[j] \in Entries /\ Len(E[j]) \in Nat
  BY ListTyped
<1>2. 1 \in 1 .. Len(E[j])
  BY <1>1
<1>3. E[j][1] \in Range(E[j]) /\ E[j][1][1] \in Int
  BY <1>1, <1>2, EntryTyped
<1>4. ~(j <= i) /\ j <= j
  OBVIOUS
<1> QED
  BY <1>3, <1>4 DEF SeparatesAt
-----------------------------------------------------------------------------
(* Two full leaves are split in three. *)

\* A tree of height 3.
High(f) ==
    /\ f.root \in Nat /\ ~f.pages[f.root].isLeaf
    /\ ~f.pages[f.pages[f.root].children[1]].isLeaf

\* The separators of leaves that are not empty ascend, and a key that separates
\* the first a + 1 leaves has its place behind the first a of the others.
LEMMA SeparatorPlace ==
    ASSUME NEW E \in Seq(Entries), NEW I \in Seq(NodeKeys), Len(E) = Len(I) + 2,
           \A i \in 1 .. Len(E) : Len(E[i]) # 0,
           NEW a \in 1 .. Len(I), NEW c \in Keys, SeparatesAt(E, a + 1, c),
           \A i \in 1 .. Len(I) : SeparatesAt(E, IF i <= a THEN i ELSE i + 1, I[i])
    PROVE  Below(I, c) = a
<1> DEFINE up(i) == IF i <= a THEN i ELSE i + 1
<1>1. Len(I) \in Nat /\ Len(E) \in Nat /\ DOMAIN I = 1 .. Len(I) /\ c \in Int
  BY TreeAssumption
<1>2. \A i \in 1 .. Len(I) : I[i] \in Int
  <2>1. NodeKeys \subseteq Int
    BY TreeAssumption DEF NodeKeys, DefaultKey
  <2> DEFINE S == NodeKeys
  <2>2. I \in Seq(S) /\ S \subseteq Int
    BY <2>1
  <2> HIDE DEF S
  <2>3. \A i \in 1 .. Len(I) : I[i] \in S
    BY <2>2
  <2> QED
    BY <2>2, <2>3
<1>3. \A i \in 1 .. Len(I) : up(i) \in 1 .. Len(E) /\ SeparatesAt(E, up(i), I[i])
  <2> TAKE i \in 1 .. Len(I)
  <2>1. CASE i <= a
    BY <1>1, <2>1
  <2>2. CASE ~(i <= a)
    BY <1>1, <2>2
  <2> QED
    BY <2>1, <2>2
<1>4. \A i, j \in 1 .. Len(I) : i < j => up(i) < up(j)
  BY <1>1
<1>5. \A i \in 1 .. Len(I) : (i <= a => up(i) < a + 1) /\ (a < i => a + 1 < up(i))
  BY <1>1
<1> HIDE DEF up
<1>6. \A i, j \in 1 .. Len(I) : i < j => I[i] < I[j]
  <2> TAKE i, j \in 1 .. Len(I)
  <2> HAVE i < j
  <2> QED
    BY <1>2, <1>3, <1>4, SeparatorsAscend
<1>7. \A i \in 1 .. Len(I) : I[i] < c <=> i <= a
  <2> TAKE i \in 1 .. Len(I)
  <2>0. a + 1 \in 1 .. Len(E)
    BY <1>1
  <2>1. CASE i <= a
    <3>1. I[i] < c
      BY <1>1, <1>2, <1>3, <1>5, <2>0, <2>1, SeparatorsAscend
    <3> QED
      BY <2>1, <3>1
  <2>2. CASE a < i
    <3>1. c < I[i]
      BY <1>1, <1>2, <1>3, <1>5, <2>0, <2>2, SeparatorsAscend
    <3> QED
      BY <1>1, <1>2, <2>2, <3>1
  <2> QED
    BY <1>1, <2>1, <2>2
<1>8. /\ Below(I, c) \in 0 .. Len(I)
      /\ \A i \in 1 .. Len(I) : I[i] < c <=> i <= Below(I, c)
  BY <1>1, <1>2, <1>6, BelowPlace
<1>9. \A i \in 1 .. Len(I) : i <= a <=> i <= Below(I, c)
  BY <1>7, <1>8
<1> DEFINE b == Below(I, c)
<1> HIDE DEF b
<1>10. b \in 0 .. Len(I) /\ \A i \in 1 .. Len(I) : i <= a <=> i <= b
  BY <1>8, <1>9 DEF b
<1>11. CASE b < a
  BY <1>1, <1>10, <1>11
<1>12. CASE a < b
  <2>1. b \in 1 .. Len(I) /\ b <= b /\ ~(b <= a)
    BY <1>1, <1>10, <1>12
  <2> QED
    BY <1>10, <2>1
<1>13. b = a
  BY <1>1, <1>10, <1>11, <1>12
<1> QED
  BY <1>13 DEF b

\* The root of g has a new child behind the first a + 1, and c in front of it.
ChildPut(f, g, I, a, c, M, J) ==
    /\ g \in Files /\ PagesTyped(g) /\ RootIs(g, M, J)
    /\ g.root = f.root /\ g.first = f.first /\ g.ok = f.ok
    /\ DOMAIN g.pages = DOMAIN f.pages
    /\ \A i \in DOMAIN f.pages : i # f.root => g.pages[i] = f.pages[i]
    /\ J \in Seq(NodeKeys) /\ Len(J) = Len(I) + 1
    /\ J[a + 1] = c
    /\ \A i \in 1 .. a : J[i] = I[i]
    /\ \A i \in a + 1 .. Len(I) : J[i + 1] = I[i]

\* insert_in_internal, in the root.
LEMMA ChildInserted ==
    ASSUME NEW f \in Files, PagesTyped(f), NEW L \in Seq(Nat), NEW I \in Seq(NodeKeys),
           RootIs(f, L, I), Len(L) = Len(I) + 1,
           NEW a \in 1 .. Len(I), NEW c \in Keys, Below(I, c) = a, NEW new \in Nat
    PROVE  ChildPut(f, Write(f, f.root, InsertInInternal(f.pages[f.root], c, new)), I, a, c,
                    InsertAt(L, a + 2, new), InsertAt(I, a + 1, c))
<1> DEFINE M == InsertAt(L, a + 2, new)
           J == InsertAt(I, a + 1, c)
           old == f.pages[f.root]
           node == InsertInInternal(old, c, new)
           g == Write(f, f.root, InsertInInternal(f.pages[f.root], c, new))
<1>1. old \in Node /\ old.keys = I /\ old.children = L /\ ~old.isLeaf /\ ~old.deleted
      /\ f.root \in DOMAIN f.pages
  BY FileTyped DEF RootIs
<1>2. J \in Seq(NodeKeys) /\ Len(J) = Len(I) + 1 /\ J[a + 1] = c
      /\ (\A i \in 1 .. a : J[i] = I[i]) /\ \A i \in a + 1 .. Len(I) : J[i + 1] = I[i]
  <2> DEFINE q == a + 1
  <2>1. q \in 1 .. Len(I) + 1 /\ c \in NodeKeys
    BY DEF NodeKeys
  <2>2. q - 1 = a
    OBVIOUS
  <2> HIDE DEF q
  <2>3. InsertAt(I, q, c) \in Seq(NodeKeys) /\ Len(InsertAt(I, q, c)) = Len(I) + 1
        /\ InsertAt(I, q, c)[q] = c
    <3>1. InsertAt(I, q, c) \in Seq(NodeKeys)
      BY <2>1, InsertAtProperties
    <3>2. Len(InsertAt(I, q, c)) = Len(I) + 1
      BY <2>1, InsertAtProperties
    <3>3. InsertAt(I, q, c)[q] = c
      BY <2>1, InsertAtProperties
    <3> QED
      BY <3>1, <3>2, <3>3
  <2>4. \A i \in 1 .. q - 1 : InsertAt(I, q, c)[i] = I[i]
    BY <2>1, InsertAtProperties
  <2>5. \A i \in q .. Len(I) : InsertAt(I, q, c)[i + 1] = I[i]
    BY <2>1, InsertAtProperties
  <2>6. \A i \in 1 .. a : InsertAt(I, q, c)[i] = I[i]
    BY <2>2, <2>4
  <2> QED
    BY <2>3, <2>5, <2>6 DEF q
<1>3. M \in Seq(Nat) /\ Len(M) = Len(L) + 1
  <2> DEFINE S == Nat
             q == a + 2
             s == L
  <2>1. q \in 1 .. Len(s) + 1 /\ new \in S /\ s \in Seq(S)
    OBVIOUS
  <2> HIDE DEF q, S, s
  <2>2. InsertAt(s, q, new) \in Seq(S)
    BY <2>1, InsertAtProperties
  <2>3. Len(InsertAt(s, q, new)) = Len(s) + 1
    BY <2>1, InsertAtProperties
  <2> QED
    BY <2>2, <2>3 DEF q, S, s
<1>4. node = [old EXCEPT !.keys = J, !.children = M]
  <2>1. Below(old.keys, c) = a
    BY <1>1
  <2>2. InsertAt(old.keys, Below(old.keys, c) + 1, c) = J
    BY <1>1, <2>1
  <2>3. InsertAt(old.children, Below(old.keys, c) + 2, new) = M
    BY <1>1, <2>1
  <2> HIDE DEF J, M, old
  <2> QED
    BY <2>2, <2>3, Zenon DEF InsertInInternal
<1> HIDE DEF M, J, old
<1>5. /\ node \in Node /\ node.keys = J /\ node.children = M /\ ~node.isLeaf /\ ~node.deleted
      /\ node.next = old.next
  BY <1>1, <1>2, <1>3, <1>4 DEF Node
<1>6. g = Write(f, f.root, node)
  BY Zenon DEF old
<1> HIDE DEF node, g
<1>7. Len(node.children) = Len(node.keys) + 1 /\ node.next = f.pages[f.root].next
  BY <1>2, <1>3, <1>5 DEF old
<1>8. /\ g \in Files /\ PagesTyped(g) /\ RootIs(g, node.children, node.keys)
      /\ g.root = f.root /\ g.first = f.first /\ g.ok = f.ok
      /\ DOMAIN g.pages = DOMAIN f.pages
      /\ \A i \in DOMAIN f.pages : i # f.root => g.pages[i] = f.pages[i]
  BY <1>1, <1>5, <1>6, <1>7, RootWritten, SMTT(40)
<1>9. RootIs(g, M, J)
  BY <1>5, <1>8
<1>10. ChildPut(f, g, I, a, c, M, J)
  BY <1>2, <1>8, <1>9 DEF ChildPut
<1> QED
  BY <1>10, Zenon DEF M, J, g
-----------------------------------------------------------------------------
\* The entries of two leaves that are as full as can be, one of them by an entry
\* too many, among three.
LEMMA SplitInThree ==
    ASSUME NEW f, NEW L, Ordered(f, L), NEW a \in 1 .. Len(L), a + 2 \in 1 .. Len(L),
           Filled(f, L, a) + Filled(f, L, a + 1) = 2 * MAX_KEYS_LEAF + 1,
           MAX_KEYS_LEAF <= Filled(f, L, a), MAX_KEYS_LEAF <= Filled(f, L, a + 1),
           Filled(f, L, a + 2) = 0,
           NEW s, s = Thirds(Filled(f, L, a) + Filled(f, L, a + 1)),
           NEW h, h = SendToRightLeaf(f, L[a + 1], L[a + 2], s[3]),
           NEW g, g = SendToRightLeaf(h, L[a], L[a + 1], s[2] - Size(h.pages[L[a + 1]]))
    PROVE  /\ SharedByThree(f, g, L, a, s[1], s[2], s[3])
           /\ s[1] = MIN_KEYS_LEAF
           /\ s[2] \in MIN_KEYS_LEAF .. MAX_KEYS_LEAF /\ s[3] \in MIN_KEYS_LEAF .. MAX_KEYS_LEAF
           /\ MIN_KEYS_LEAF \in Nat /\ MIN_KEYS_LEAF > 0
<1>1. PICK b \in 1 .. Len(L) : b = a + 1 /\ b + 1 = a + 2 /\ b + 1 \in 1 .. Len(L)
  OBVIOUS
<1>2. f \in Files /\ LeafSeq(f, L)
  BY DEF Ordered
<1>3. PICK x \in Nat : x = Filled(f, L, a)
  BY <1>2, FilledTyped
<1>4. PICK y \in Nat : y = Filled(f, L, b)
  BY <1>1, <1>2, FilledTyped
<1>5. PICK max \in Nat, min \in Nat : /\ max = MAX_KEYS_LEAF /\ min = MIN_KEYS_LEAF
                                      /\ max >= 3 /\ 3 * min <= 2 * max + 1 /\ 2 * max + 1 <= 3 * min + 2
  BY SizesTyped
<1>6. x + y = 2 * max + 1 /\ max <= x /\ max <= y /\ x + y \in Nat
  <2>1. Filled(f, L, a + 1) = y
    BY <1>1, <1>4
  <2>2. x + y = 2 * MAX_KEYS_LEAF + 1 /\ MAX_KEYS_LEAF <= x /\ MAX_KEYS_LEAF <= y
    BY <1>3, <2>1
  <2> QED
    BY <1>5, <2>2
<1>7. s = Thirds(x + y)
  BY <1>1, <1>3, <1>4
<1>8. /\ s[1] \in Nat /\ s[2] \in Nat /\ s[3] \in Nat /\ s[1] + s[2] + s[3] = x + y
      /\ s[1] <= s[2] /\ s[2] <= s[3] /\ s[3] <= s[1] + 1
  BY <1>6, <1>7, ThirdsOf
<1>9. PICK s1 \in Nat, s2 \in Nat, s3 \in Nat : s1 = s[1] /\ s2 = s[2] /\ s3 = s[3]
  BY <1>8
<1>10. /\ s1 + s2 + s3 = x + y /\ s1 <= s2 /\ s2 <= s3 /\ s3 <= s1 + 1
  BY <1>8, <1>9
<1>11. s1 = min
  BY <1>5, <1>6, <1>10
<1>12. /\ s2 \in min .. max /\ s3 \in min .. max /\ min > 0
       /\ s3 \in 0 .. y /\ s2 - (y - s3) \in 0 .. x /\ y - s3 + (s2 - (y - s3)) <= max
       /\ x - (s2 - (y - s3)) = s1 /\ 0 + s3 <= max
  BY <1>5, <1>6, <1>10, <1>11
<1>13. Shared(f, h, L, b, y - s3)
  <2>1. /\ s3 \in 0 .. Filled(f, L, b) /\ Filled(f, L, b + 1) + s3 <= MAX_KEYS_LEAF
        /\ h = SendToRightLeaf(f, L[b], L[b + 1], s3)
    BY <1>1, <1>4, <1>5, <1>9, <1>12
  <2>2. Shared(f, h, L, b, Filled(f, L, b) - s3)
    BY <1>1, <2>1, SendToRight
  <2> QED
    BY <1>4, <2>2
<1>14. /\ Ordered(h, L) /\ Filled(h, L, b) = y - s3 /\ Filled(h, L, a) = x
       /\ Size(h.pages[L[b]]) = y - s3
  <2>1. Ordered(h, L) /\ Filled(h, L, b) = y - s3 /\ a \notin {b, b + 1}
        /\ \A i \in 1 .. Len(L) : i \notin {b, b + 1} => Filled(h, L, i) = Filled(f, L, i)
    BY <1>1, <1>13 DEF Shared
  <2>2. Size(h.pages[L[b]]) = Filled(h, L, b)
    BY <1>1, <2>1, FilledTyped, SMTT(40) DEF Ordered
  <2> QED
    BY <1>3, <2>1, <2>2
<1>15. Shared(h, g, L, a, s1)
  <2> DEFINE count == s2 - (y - s3)
  <2>1. /\ count \in 0 .. x /\ y - s3 + count <= max /\ x - count = s1
    BY <1>12
  <2>2. g = SendToRightLeaf(h, L[a], L[b], count)
    BY <1>1, <1>9, <1>14
  <2> HIDE DEF count
  <2>3. /\ count \in 0 .. Filled(h, L, a) /\ Filled(h, L, a + 1) + count <= MAX_KEYS_LEAF
        /\ g = SendToRightLeaf(h, L[a], L[a + 1], count) /\ a + 1 \in 1 .. Len(L)
    BY <1>1, <1>5, <1>14, <2>1, <2>2
  <2>4. Shared(h, g, L, a, Filled(h, L, a) - count)
    BY <1>14, <2>3, SendToRight
  <2> QED
    BY <1>14, <2>1, <2>4
<1>16. SharedByThree(f, g, L, a, s1, x + (y - s3) - s1, y + 0 - (y - s3))
  <2>1. Shared(f, h, L, a + 1, y - s3) /\ y - s3 \in Int /\ s1 \in Int
    BY <1>1, <1>13
  <2>2. SharedByThree(f, g, L, a, s1, Filled(f, L, a) + (y - s3) - s1,
                      Filled(f, L, a + 1) + Filled(f, L, a + 2) - (y - s3))
    BY <1>15, <2>1, SharedLeftward
  <2>3. Filled(f, L, a) = x /\ Filled(f, L, a + 1) = y /\ Filled(f, L, a + 2) = 0
    BY <1>1, <1>3, <1>4
  <2> QED
    BY <2>2, <2>3
<1>17. x + (y - s3) - s1 = s2 /\ y + 0 - (y - s3) = s3
  BY <1>10
<1>18. SharedByThree(f, g, L, a, s1, s2, s3)
  BY <1>16, <1>17
<1> QED
  BY <1>5, <1>9, <1>11, <1>12, <1>18

\* Changes of links, one after the other.
LEMMA SameButLinksTrans ==
    ASSUME NEW f, NEW g, NEW h, SameButLinks(f, g), SameButLinks(g, h)
    PROVE  SameButLinks(f, h)
BY DEF SameButLinks

\* The leaf b + 1 is the only one out of the chain, and gets its place in it.
LEMMA LeafLinked ==
    ASSUME NEW f \in Files, PagesTyped(f), NEW L, LeafSeq(f, L),
           NEW b \in 1 .. Len(L), b + 1 \in 1 .. Len(L), f.first = L[1],
           \A i \in 1 .. Len(L) : i \notin {b, b + 1} =>
             f.pages[L[i]].next = IF i = Len(L) THEN None ELSE L[i + 1],
           f.pages[L[b]].next = IF b + 1 = Len(L) THEN None ELSE L[b + 2],
           NEW h, h = SetNext(f, L[b + 1], f.pages[L[b]].next),
           NEW g, g = SetNext(h, L[b], L[b + 1])
    PROVE  g \in Files /\ PagesTyped(g) /\ SameButLinks(f, g) /\ Chained(g, L)
<1>1. PICK c \in 1 .. Len(L) : c = b + 1
  OBVIOUS
<1>2. L[b] \in DOMAIN f.pages /\ L[c] \in DOMAIN f.pages /\ L[b] # L[c]
  <2>1. b # c
    BY <1>1
  <2> QED
    BY <2>1 DEF LeafSeq
<1>3. f.pages[L[b]].next \in DOMAIN f.pages \union {None}
  BY <1>2 DEF PagesTyped
<1>4. h = SetNext(f, L[c], f.pages[L[b]].next) /\ g = SetNext(h, L[b], L[c])
  BY <1>1
<1>5. /\ h \in Files /\ PagesTyped(h) /\ SameButLinks(f, h)
      /\ h.pages[L[c]].next = f.pages[L[b]].next
      /\ \A i \in DOMAIN f.pages : i # L[c] => h.pages[i] = f.pages[i]
  BY <1>2, <1>3, <1>4, SetNextEffect, SMTT(40)
<1>6. DOMAIN h.pages = DOMAIN f.pages /\ L[b] \in DOMAIN h.pages /\ L[c] \in DOMAIN h.pages \union {None}
  BY <1>2, <1>5 DEF SameButLinks
<1>7. /\ g \in Files /\ PagesTyped(g) /\ SameButLinks(h, g)
      /\ g.pages[L[b]].next = L[c]
      /\ \A i \in DOMAIN h.pages : i # L[b] => g.pages[i] = h.pages[i]
  BY <1>4, <1>5, <1>6, SetNextEffect, SMTT(40)
<1>8. SameButLinks(f, g)
  BY <1>5, <1>7, SameButLinksTrans
<1>9. Chained(g, L)
  <2>1. g.first = L[1]
    BY <1>8 DEF SameButLinks
  <2>2. ASSUME NEW i \in 1 .. Len(L)
        PROVE  g.pages[L[i]].next = IF i = Len(L) THEN None ELSE L[i + 1]
    <3>1. CASE i = b
      BY <1>1, <1>7, <3>1
    <3>2. CASE i = c
      <4>1. g.pages[L[c]] = h.pages[L[c]]
        BY <1>2, <1>6, <1>7
      <4>2. g.pages[L[c]].next = IF b + 1 = Len(L) THEN None ELSE L[b + 2]
        BY <1>5, <4>1
      <4>3. c + 1 = b + 2
        BY <1>1
      <4> QED
        BY <1>1, <3>2, <4>2, <4>3
    <3>3. CASE i \notin {b, c}
      <4>1. L[i] # L[b] /\ L[i] # L[c] /\ L[i] \in DOMAIN f.pages
        BY <3>3 DEF LeafSeq
      <4>2. g.pages[L[i]] = f.pages[L[i]]
        BY <1>5, <1>6, <1>7, <4>1
      <4>3. f.pages[L[i]].next = IF i = Len(L) THEN None ELSE L[i + 1]
        BY <1>1, <3>3
      <4> QED
        BY <4>2, <4>3, SMTT(40)
    <3> QED
      BY <3>1, <3>2, <3>3
  <2> QED
    BY <2>1, <2>2, SMTT(40) DEF Chained
<1> QED
  BY <1>7, <1>8, <1>9

\* Other entries do not change the root.
LEMMA EntriesKeepRoot ==
    ASSUME NEW f, PagesTyped(f), NEW g, SameButEntries(f, g)
    PROVE  PagesTyped(g) /\ \A M, J : RootIs(f, M, J) => RootIs(g, M, J)
<1>1. PagesTyped(g)
  BY DEF PagesTyped, SameButEntries
<1>2. \A M, J : RootIs(f, M, J) => RootIs(g, M, J)
  BY DEF RootIs, SameButEntries
<1> QED
  BY <1>1, <1>2

\* Of two neighbours that have no room one has an entry too many.
FullPair(f, L, a) ==
    /\ Filled(f, L, a) + Filled(f, L, a + 1) = 2 * MAX_KEYS_LEAF + 1
    /\ MAX_KEYS_LEAF <= Filled(f, L, a) /\ MAX_KEYS_LEAF <= Filled(f, L, a + 1)

\* The first steps of SplitLeaves2to3.
SplitSteps(f, L, a, new, s, f1, f2, g, M) ==
    /\ new = NewPage(f) /\ M = InsertAt(L, a + 2, new)
    /\ s = Thirds(Size(f.pages[L[a]]) + Size(f.pages[L[a + 1]]))
    /\ f1 = SendToRightLeaf(Write(f, new, NewLeaf), L[a + 1], new, s[3])
    /\ f2 = SendToRightLeaf(f1, L[a], L[a + 1], s[2] - Size(f1.pages[L[a + 1]]))
    /\ g = SetNext(SetNext(f2, new, f2.pages[L[a + 1]].next), L[a + 1], new)

\* Each leaf is either as full as a split or a merge leaves one, or as full as
\* another one was that had no part in it.
Refilled(f, g, L, M, T) ==
    \A i \in 1 .. Len(M) :
        \/ MIN_KEYS_LEAF <= Filled(g, M, i) /\ Filled(g, M, i) <= MAX_KEYS_LEAF
        \/ \E j \in 1 .. Len(L) : j \notin T /\ Filled(g, M, i) = Filled(f, L, j)

\* M has a leaf more than L, behind the first a + 1 of them; its separator is
\* still missing.
Linked(f, g, L, K, a, new, M) ==
    /\ Ordered(g, M) /\ PagesTyped(g) /\ RootIs(g, L, K) /\ Chained(g, M)
    /\ g.ok = f.ok /\ g.root = f.root /\ Held(Lists(g, M)) = Held(Lists(f, L))
    /\ Len(M) = Len(L) + 1 /\ M[a] = L[a] /\ M[a + 1] = L[a + 1] /\ M[a + 2] = new
    /\ Refilled(f, g, L, M, {a, a + 1})
    /\ \A i \in 1 .. Len(K) :
         i # a => SeparatesAt(Lists(g, M), IF i <= a THEN i ELSE i + 1, K[i])
    /\ \A id \in DOMAIN g.pages :
         g.pages[id].deleted \/ id = g.root \/ \E i \in 1 .. Len(M) : id = M[i]

\* Two full leaves and a new one share their entries, and the new one has its
\* place in the chain.
LEMMA SplitLinked ==
    ASSUME NEW f, NEW L, NEW K, Tree(f, L, K), Chained(f, L), NEW a \in 1 .. Len(K),
           FullPair(f, L, a),
           NEW new, NEW s, NEW f1, NEW f2, NEW g, NEW M, SplitSteps(f, L, a, new, s, f1, f2, g, M)
    PROVE  Linked(f, g, L, K, a, new, M)
<1> DEFINE f0 == Write(f, new, NewLeaf)
           f3 == SetNext(f2, new, f2.pages[L[a + 1]].next)
<1>1. /\ f \in Files /\ PagesTyped(f) /\ LeafSeq(f, L) /\ Ordered(f, L) /\ RootIs(f, L, K)
      /\ K \in Seq(NodeKeys) /\ Len(L) = Len(K) + 1 /\ Len(K) \in Nat /\ Len(L) \in Nat
      /\ a \in 1 .. Len(L) /\ a + 1 \in 1 .. Len(L) /\ L \in Seq(Nat)
  <2>1. Frame(f, L, K) /\ Len(L) > 1
    BY DEF Tree, Frame
  <2>2. /\ f \in Files /\ PagesTyped(f) /\ LeafSeq(f, L) /\ RootIs(f, L, K)
        /\ K \in Seq(NodeKeys) /\ Len(L) = Len(K) + 1 /\ Len(K) \in Nat /\ Len(L) \in Nat
    BY <2>1, FrameRoot
  <2>3. Ordered(f, L) /\ L \in Seq(Nat)
    BY <2>2 DEF Tree, Ordered, LeafSeq
  <2>4. a \in 1 .. Len(L) /\ a + 1 \in 1 .. Len(L)
    BY <2>2
  <2> QED
    BY <2>2, <2>3, <2>4
<1>2. PICK p \in 1 .. Len(L) : p = a + 1 /\ p + 1 = a + 2 /\ a < p
  BY <1>1, SMTT(40)
<1>3. M = InsertAt(L, p + 1, NewPage(f)) /\ f0 = Write(f, NewPage(f), NewLeaf) /\ new = NewPage(f)
  BY <1>2, Zenon DEF SplitSteps
<1> HIDE DEF f0
<1>3a. PagesTyped(f) /\ Ordered(f, L) /\ RootIs(f, L, K)
  BY <1>1
<1>3b. NewLeafPut(f, f0, L, K, p, new, M)
  BY <1>3, <1>3a, NewLeafBetween
<1>4. /\ PagesTyped(f0) /\ Ordered(f0, M) /\ RootIs(f0, L, K)
      /\ f0.root = f.root /\ f0.first = f.first /\ f0.ok = f.ok
      /\ DOMAIN f0.pages = DOMAIN f.pages \union {new} /\ f0.pages[new] = NewLeaf
      /\ \A i \in DOMAIN f.pages : i # new => f0.pages[i] = f.pages[i]
  BY <1>3b DEF NewLeafPut
<1>5. /\ new # f.root /\ \A i \in 1 .. Len(L) : L[i] # new
      /\ Len(M) = Len(L) + 1 /\ M[p + 1] = new
  BY <1>3b DEF NewLeafPut
<1>6. /\ \A i \in 1 .. p : M[i] = L[i]
      /\ \A i \in p + 1 .. Len(L) : M[i + 1] = L[i]
  BY <1>3b DEF NewLeafPut
<1>7. /\ Padded(Lists(f, L), Lists(f0, M), p)
      /\ Held(Lists(f0, M)) = Held(Lists(f, L))
  BY <1>3b DEF NewLeafPut
<1>2a. Len(L) \in Nat /\ Len(M) = Len(L) + 1 /\ p \in 1 .. Len(L)
  BY <1>1, <1>5
<1>8. M[a] = L[a] /\ M[p] = L[p] /\ L[a + 1] = L[p] /\ a \in 1 .. Len(M) /\ a + 2 \in 1 .. Len(M)
      /\ p \in 1 .. Len(M) /\ p + 1 \in 1 .. Len(M)
  <2>1. a \in 1 .. p /\ p \in 1 .. p
    BY <1>2, <1>2a
  <2>2. M[a] = L[a] /\ M[p] = L[p]
    BY <1>6, <2>1
  <2>3. /\ a \in 1 .. Len(M) /\ a + 2 \in 1 .. Len(M) /\ p \in 1 .. Len(M) /\ p + 1 \in 1 .. Len(M)
    BY <1>2, <1>2a
  <2>4. L[a + 1] = L[p]
    BY <1>2
  <2> QED
    BY <2>2, <2>3, <2>4
<1>9. \A i \in 1 .. Len(L) : L[i] \in DOMAIN f.pages /\ f0.pages[L[i]] = f.pages[L[i]]
  BY <1>1, <1>4, <1>5 DEF LeafSeq
<1>10. /\ \A i \in 1 .. p : Filled(f0, M, i) = Filled(f, L, i)
       /\ \A i \in p + 1 .. Len(L) : Filled(f0, M, i + 1) = Filled(f, L, i)
       /\ Filled(f0, M, p + 1) = 0
  <2>1. Filled(f0, M, p + 1) = Len(<<>>)
    BY <1>4, <1>5, NewNodesTyped DEF Filled
  <2>2. Len(<<>>) = 0
    OBVIOUS
  <2>3. \A i \in 1 .. p : i \in 1 .. Len(L)
    BY <1>1
  <2>4. \A i \in 1 .. p : Filled(f0, M, i) = Filled(f, L, i)
    BY <1>6, <1>9, <2>3 DEF Filled
  <2>5. \A i \in p + 1 .. Len(L) : i \in 1 .. Len(L)
    BY <1>1
  <2>6. \A i \in p + 1 .. Len(L) : Filled(f0, M, i + 1) = Filled(f, L, i)
    BY <1>6, <1>9, <2>5 DEF Filled
  <2> QED
    BY <2>1, <2>2, <2>4, <2>6
<1>11. /\ Filled(f0, M, a) = Filled(f, L, a) /\ Filled(f0, M, a + 1) = Filled(f, L, a + 1)
       /\ Filled(f0, M, a + 2) = 0
  BY <1>2, <1>10
<1>12. /\ SharedByThree(f0, f2, M, a, s[1], s[2], s[3])
       /\ s[1] = MIN_KEYS_LEAF
       /\ s[2] \in MIN_KEYS_LEAF .. MAX_KEYS_LEAF /\ s[3] \in MIN_KEYS_LEAF .. MAX_KEYS_LEAF
       /\ MIN_KEYS_LEAF \in Nat /\ MIN_KEYS_LEAF > 0
  <2>1. /\ f1 = SendToRightLeaf(f0, M[a + 1], M[a + 2], s[3])
        /\ f2 = SendToRightLeaf(f1, M[a], M[a + 1], s[2] - Size(f1.pages[M[a + 1]]))
    BY <1>2, <1>5, <1>8, ZenonT(40) DEF f0, SplitSteps
  <2>2. s = Thirds(Filled(f0, M, a) + Filled(f0, M, a + 1))
    <3>1. Filled(f, L, a) = Size(f.pages[L[a]]) /\ Filled(f, L, a + 1) = Size(f.pages[L[a + 1]])
      BY <1>1, FilledTyped
    <3> QED
      BY <1>11, <3>1, Zenon DEF SplitSteps
  <2>3. /\ Filled(f0, M, a) + Filled(f0, M, a + 1) = 2 * MAX_KEYS_LEAF + 1
        /\ MAX_KEYS_LEAF <= Filled(f0, M, a) /\ MAX_KEYS_LEAF <= Filled(f0, M, a + 1)
    BY <1>11 DEF FullPair
  <2>4. Ordered(f0, M) /\ a \in 1 .. Len(M) /\ a + 2 \in 1 .. Len(M) /\ Filled(f0, M, a + 2) = 0
    BY <1>4, <1>8, <1>11
  <2>5. /\ SharedByThree(f0, f2, M, a, s[1], s[2], s[3])
        /\ s[1] = MIN_KEYS_LEAF
    BY <2>1, <2>2, <2>3, <2>4, SplitInThree
  <2>6. /\ s[1] = MIN_KEYS_LEAF
        /\ s[2] \in MIN_KEYS_LEAF .. MAX_KEYS_LEAF /\ s[3] \in MIN_KEYS_LEAF .. MAX_KEYS_LEAF
        /\ MIN_KEYS_LEAF \in Nat /\ MIN_KEYS_LEAF > 0
    BY <2>1, <2>2, <2>3, <2>4, SplitInThree, SMTT(40)
  <2> QED
    BY <2>5, <2>6, SMTT(40)
<1>13. /\ SameButEntries(f0, f2) /\ Ordered(f2, M) /\ Held(Lists(f2, M)) = Held(Lists(f, L))
       /\ PagesTyped(f2) /\ RootIs(f2, L, K)
  <2>1. SameButEntries(f0, f2) /\ Ordered(f2, M) /\ Held(Lists(f2, M)) = Held(Lists(f, L))
    BY <1>7, <1>12 DEF SharedByThree
  <2> QED
    BY <1>4, <2>1, EntriesKeepRoot
<1>14. /\ f2.root = f.root /\ f2.first = f.first /\ f2.ok = f.ok
       /\ DOMAIN f2.pages = DOMAIN f.pages \union {new}
       /\ \A i \in 1 .. Len(L) : f2.pages[L[i]].next = f.pages[L[i]].next
       /\ \A i \in DOMAIN f.pages : i # new => f2.pages[i].deleted = f.pages[i].deleted
  BY <1>4, <1>9, <1>13 DEF SameButEntries
<1>15. /\ g \in Files /\ PagesTyped(g) /\ SameButLinks(f2, g) /\ Chained(g, M)
  <2>1. \A i \in 1 .. Len(M) : i \notin {p, p + 1} =>
             f2.pages[M[i]].next = IF i = Len(M) THEN None ELSE M[i + 1]
    <3> TAKE i \in 1 .. Len(M)
    <3> HAVE i \notin {p, p + 1}
    <3>1. CASE i < p
      <4>1. i \in 1 .. Len(L) /\ i # Len(L) /\ i # Len(M) /\ M[i] = L[i] /\ M[i + 1] = L[i + 1]
        <5>1. i \in 1 .. Len(L) /\ i # Len(L) /\ i # Len(M) /\ i \in 1 .. p /\ i + 1 \in 1 .. p
          BY <1>2a, <3>1
        <5> QED
          BY <1>6, <5>1
      <4> QED
        BY <1>14, <4>1 DEF Chained
    <3>2. CASE i > p + 1
      <4>1. PICK j \in p + 1 .. Len(L) : i = j + 1
        <5>1. i - 1 \in p + 1 .. Len(L) /\ i = (i - 1) + 1
          BY <1>2a, <3>2
        <5> QED
          BY <5>1
      <4>2. /\ j \in 1 .. Len(L) /\ M[i] = L[j] /\ (i = Len(M) <=> j = Len(L))
            /\ (j # Len(L) => i \in p + 1 .. Len(L))
        <5>1. /\ j \in 1 .. Len(L) /\ (i = Len(M) <=> j = Len(L))
              /\ (j # Len(L) => i \in p + 1 .. Len(L))
          BY <1>2a, <4>1
        <5> QED
          BY <1>6, <4>1, <5>1
      <4>3. j # Len(L) => M[i + 1] = L[j + 1]
        BY <1>6, <4>1, <4>2
      <4>4. f.pages[L[j]].next = IF j = Len(L) THEN None ELSE L[j + 1]
        BY <4>2 DEF Chained
      <4> QED
        BY <1>14, <4>2, <4>3, <4>4
    <3> QED
      BY <3>1, <3>2
  <2>2. f2.pages[M[p]].next = IF p + 1 = Len(M) THEN None ELSE M[p + 2]
    <3>1. f2.pages[M[p]].next = IF p = Len(L) THEN None ELSE L[p + 1]
      BY <1>8, <1>14 DEF Chained
    <3>2. p + 1 = Len(M) <=> p = Len(L)
      BY <1>2a
    <3>3. p # Len(L) => M[p + 2] = L[p + 1]
      <4>1. p # Len(L) => p + 1 \in p + 1 .. Len(L) /\ (p + 1) + 1 = p + 2
        BY <1>1, SMTT(40)
      <4> QED
        BY <1>6, <4>1
    <3> QED
      BY <3>1, <3>2, <3>3
  <2>3. f2.first = M[1]
    <3>1. 1 \in 1 .. p
      BY <1>2
    <3> QED
      BY <1>6, <1>14, <3>1 DEF Chained
  <2>4. f3 = SetNext(f2, M[p + 1], f2.pages[M[p]].next) /\ g = SetNext(f3, M[p], M[p + 1])
    BY <1>5, <1>8, ZenonT(40) DEF SplitSteps
  <2> HIDE DEF f3
  <2>5. f2 \in Files /\ LeafSeq(f2, M)
    BY <1>13 DEF Ordered
  <2> QED
    BY <1>8, <1>13, <2>1, <2>2, <2>3, <2>4, <2>5, LeafLinked
<1>16. /\ Lists(g, M) = Lists(f2, M) /\ Ordered(g, M) /\ RootIs(g, L, K)
       /\ \A i \in 1 .. Len(M) : Filled(g, M, i) = Filled(f2, M, i)
  <2>1. /\ LeafSeq(g, M) /\ Lists(g, M) = Lists(f2, M)
        /\ \A i \in 1 .. Len(M) : Filled(g, M, i) = Filled(f2, M, i)
    BY <1>13, <1>15, LinksKeepShape DEF Ordered
  <2>2. RootIs(g, L, K)
    BY <1>13, <1>15, LinksKeepShape
  <2> QED
    BY <1>13, <1>15, <2>1, <2>2 DEF Ordered
<1>17. Refilled(f, g, L, M, {a, a + 1})
  <2> SUFFICES ASSUME NEW i \in 1 .. Len(M)
               PROVE  \/ MIN_KEYS_LEAF <= Filled(g, M, i) /\ Filled(g, M, i) <= MAX_KEYS_LEAF
                      \/ \E j \in 1 .. Len(L) : j \notin {a, a + 1} /\ Filled(g, M, i) = Filled(f, L, j)
    BY DEF Refilled
  <2>1. CASE i \in {a, a + 1, a + 2}
    <3>1. Filled(f2, M, a) = s[1] /\ Filled(f2, M, a + 1) = s[2] /\ Filled(f2, M, a + 2) = s[3]
      BY <1>12 DEF SharedByThree
    <3>2. \E n \in {s[1], s[2], s[3]} : Filled(g, M, i) = n
      BY <1>16, <2>1, <3>1
    <3>3. \A n \in {s[1], s[2], s[3]} : MIN_KEYS_LEAF <= n /\ n <= MAX_KEYS_LEAF
      BY <1>12, SizesTyped
    <3> QED
      BY <3>2, <3>3
  <2>2. CASE i \notin {a, a + 1, a + 2}
    <3>1. Filled(g, M, i) = Filled(f0, M, i)
      BY <1>12, <1>16, <2>2 DEF SharedByThree
    <3>2. CASE i < a
      <4>1. i \in 1 .. p /\ i \in 1 .. Len(L) /\ i \notin {a, a + 1}
        BY <1>1, <1>2, <3>2
      <4> QED
        BY <1>10, <3>1, <4>1
    <3>3. CASE i > a + 2
      <4>1. PICK j \in p + 1 .. Len(L) : i = j + 1
        BY <1>1, <1>2, <1>5, <3>3
      <4>2. j \in 1 .. Len(L) /\ j \notin {a, a + 1}
        BY <1>1, <1>2
      <4> QED
        BY <1>10, <3>1, <4>1, <4>2
    <3> QED
      BY <2>2, <3>2, <3>3
  <2> QED
    BY <2>1, <2>2
<1>18. \A i \in 1 .. Len(K) : i # a => SeparatesAt(Lists(g, M), IF i <= a THEN i ELSE i + 1, K[i])
  <2> TAKE i \in 1 .. Len(K)
  <2> HAVE i # a
  <2> DEFINE u == IF i <= a THEN i ELSE i + 1
  <2>1. u = (IF i < p THEN i ELSE i + 1) /\ u \notin {a, a + 1} /\ u \in Int /\ i \in Int
    BY <1>1, <1>2
  <2>2. SeparatesAt(Lists(f, L), i, K[i])
    BY DEF Tree, Separated
  <2>3. Lists(f, L) \in Seq(Entries) /\ Lists(f0, M) \in Seq(Entries)
    BY <1>1, <1>4, ListsTyped DEF Ordered
  <2>4. SeparatesAt(Lists(f0, M), IF i < p THEN i ELSE i + 1, K[i])
    BY <1>7, <2>1, <2>2, <2>3, EmptyLeaf
  <2>5. SeparatesAt(Lists(f0, M), u, K[i])
    BY <2>1, <2>4
  <2> HIDE DEF u
  <2>6. SeparatesAt(Lists(f2, M), u, K[i])
    BY <1>12, <2>1, <2>5 DEF SharedByThree
  <2>7. SeparatesAt(Lists(g, M), u, K[i])
    BY <1>16, <2>6
  <2> QED
    BY <2>7 DEF u
<1>19. \A id \in DOMAIN g.pages :
         g.pages[id].deleted \/ id = g.root \/ \E i \in 1 .. Len(M) : id = M[i]
  <2> TAKE id \in DOMAIN g.pages
  <2>1. id \in DOMAIN f2.pages /\ g.pages[id].deleted = f2.pages[id].deleted /\ g.root = f.root
    BY <1>14, <1>15 DEF SameButLinks
  <2>2. CASE id = new
    BY <1>5, <1>8, <2>2
  <2>3. CASE id # new
    <3>1. id \in DOMAIN f.pages /\ g.pages[id].deleted = f.pages[id].deleted
      BY <1>14, <2>1, <2>3
    <3>2. f.pages[id].deleted \/ id = f.root \/ \E i \in 1 .. Len(L) : id = L[i]
      BY <3>1 DEF Tree, Frame
    <3>3. \A i \in 1 .. Len(L) : \E j \in 1 .. Len(M) : L[i] = M[j]
      <4> TAKE i \in 1 .. Len(L)
      <4>1. CASE i <= p
        <5>1. i \in 1 .. p /\ i \in 1 .. Len(M)
          BY <1>1, <1>5, <4>1
        <5> QED
          BY <1>6, <5>1
      <4>2. CASE i > p
        <5>1. i \in p + 1 .. Len(L) /\ i + 1 \in 1 .. Len(M)
          BY <1>1, <1>5, <4>2
        <5> QED
          BY <1>6, <5>1
      <4> QED
        BY <1>1, <4>1, <4>2
    <3> QED
      BY <2>1, <3>1, <3>2, <3>3
  <2> QED
    BY <2>2, <2>3
<1>20. g.ok = f.ok /\ g.root = f.root /\ Held(Lists(g, M)) = Held(Lists(f, L))
  BY <1>13, <1>14, <1>15, <1>16 DEF SameButLinks
<1>21. Len(M) = Len(L) + 1 /\ M[a] = L[a] /\ M[a + 1] = L[a + 1] /\ M[a + 2] = new
  BY <1>2, <1>5, <1>8
<1> QED
  BY <1>15, <1>16, <1>17, <1>18, <1>19, <1>20, <1>21 DEF Linked
-----------------------------------------------------------------------------
(* The root overflows. *)

\* A file as far as a write is concerned, whatever the nodes are.
FileFields(f) == f = [x \in {"pages", "root", "first", "ok"} |-> f[x]]

\* A page is written, whatever is in the others.
LEMMA AnyWrite ==
    ASSUME NEW f, FileFields(f), NEW id, NEW node, NEW g, g = Write(f, id, node)
    PROVE  /\ FileFields(g) /\ g.root = f.root
           /\ DOMAIN g.pages = DOMAIN f.pages \union {id} /\ g.pages[id] = node
           /\ \A i \in DOMAIN f.pages : i # id => g.pages[i] = f.pages[i]
<1> DEFINE P == [i \in DOMAIN f.pages \union {id} |-> IF i = id THEN node ELSE f.pages[i]]
<1>1. g = [f EXCEPT !.pages = P]
  BY DEF Write
<1>2. /\ DOMAIN P = DOMAIN f.pages \union {id} /\ P[id] = node
      /\ \A i \in DOMAIN f.pages : i # id => P[i] = f.pages[i]
  OBVIOUS
<1> HIDE DEF P
<1>3. g.pages = P /\ g.root = f.root /\ FileFields(g)
  BY <1>1 DEF FileFields
<1> QED
  BY <1>2, <1>3

\* splitInternal1to2 makes a tree of height 3.
LEMMA SplitRootInternal ==
    ASSUME NEW f \in Files, NEW id \in DOMAIN f.pages, ~f.pages[id].deleted, ~f.pages[id].isLeaf,
           NEW g, g = SplitInternal1to2(f, id)
    PROVE  High(g)
<1> DEFINE grown == GrowRoot(f, id, NewInternal)
           h == grown.file
           r == grown.right
           p == grown.root
           count == Size(f.pages[id]) - Size(f.pages[id]) \div 2
           left == h.pages[id]
           kept == Size(left) - (count - 1)
           newRight == [h.pages[r] EXCEPT
                          !.keys = SubSeq(left.keys, kept + 1, Size(left)) \o <<h.pages[p].keys[1]>> \o @,
                          !.children = SubSeq(left.children, Len(left.children) - count + 1,
                                              Len(left.children)) \o @]
           newLeft == [left EXCEPT !.keys = SubSeq(@, 1, kept), !.children = SubSeq(@, 1, kept + 1)]
           f1 == Write(h, r, newRight)
           f2 == Write(f1, id, newLeft)
           newRoot == [f2.pages[p] EXCEPT !.keys[1] = left.keys[kept + 1]]
<1>1. /\ h \in Files /\ h.root = p /\ DOMAIN h.pages = DOMAIN f.pages \union {p, r}
      /\ h.pages[p] = RootOfTwo(id, r) /\ h.pages[r] = NewInternal
  BY NewNodesTyped, GrownRoot
<1>2. /\ \A i \in DOMAIN f.pages : i \notin {p, r} => h.pages[i] = f.pages[i]
      /\ \A i \in DOMAIN f.pages : ~f.pages[i].deleted => i \notin {p, r}
      /\ p # r /\ p \in Nat /\ r \in Nat
  BY NewNodesTyped, GrownRoot, SMTT(40)
<1>3. g = Write(f2, p, newRoot)
  BY Zenon DEF SplitInternal1to2, SendToRightInternal, SetKey
<1> HIDE DEF grown, h, r, p
<1>4. left = f.pages[id] /\ left \in Node /\ ~left.isLeaf /\ id # p /\ id # r
      /\ id \in DOMAIN h.pages /\ p \in DOMAIN h.pages
  BY <1>1, <1>2, FileTyped
<1> HIDE DEF count, kept, left
<1>5. ~newLeft.isLeaf
  BY <1>4 DEF Node
<1> HIDE DEF newRight, newLeft
<1>6. FileFields(h)
  BY <1>1 DEF Files, FileFields
<1>7. /\ FileFields(f1) /\ f1.root = p /\ DOMAIN f1.pages = DOMAIN h.pages \union {r}
      /\ f1.pages[p] = h.pages[p]
  BY <1>1, <1>2, <1>4, <1>6, AnyWrite
<1> HIDE DEF f1
<1>8. /\ FileFields(f2) /\ f2.root = p /\ DOMAIN f2.pages = DOMAIN f1.pages \union {id}
      /\ f2.pages[p] = h.pages[p] /\ f2.pages[id] = newLeft
  BY <1>4, <1>7, AnyWrite
<1> HIDE DEF f2
<1>9. ~newRoot.isLeaf /\ newRoot.children = <<id, r>>
  <2>1. id \in Nat
    BY FileTyped
  <2>2. RootOfTwo(id, r) \in Node /\ ~RootOfTwo(id, r).isLeaf /\ RootOfTwo(id, r).children = <<id, r>>
    BY <1>2, <2>1, RootOfTwoTyped
  <2> QED
    BY <1>1, <1>8, <2>2 DEF Node
<1> HIDE DEF newRoot
<1>10. g.root = p /\ g.pages[p] = newRoot /\ g.pages[id] = newLeft
  <2>1. p \in DOMAIN f2.pages /\ id \in DOMAIN f2.pages
    BY <1>4, <1>7, <1>8
  <2> QED
    BY <1>3, <1>4, <1>8, <2>1, AnyWrite
<1>11. newRoot.children[1] = id
  BY <1>9
<1> QED
  BY <1>2, <1>5, <1>9, <1>10, <1>11 DEF High
-----------------------------------------------------------------------------
(* Two full leaves become three. *)

\* splitLeaves2to3 makes three leaves of two, or splits the root too.
LEMMA SplitLeaves ==
    ASSUME NEW f, NEW L, NEW K, Tree(f, L, K), Chained(f, L), NEW a \in 1 .. Len(K),
           FullPair(f, L, a), \A i \in 1 .. Len(L) : Filled(f, L, i) # 0,
           NEW g, g = SplitLeaves2to3(f, L[a], L[a + 1], f.root, a)
    PROVE  \/ High(g)
           \/ \E M, J : /\ Tree(g, M, J) /\ Chained(g, M) /\ g.ok = f.ok
                        /\ Held(Lists(g, M)) = Held(Lists(f, L))
                        /\ Len(M) = Len(L) + 1 /\ Len(J) <= MAX_KEYS_INTERNAL
                        /\ Refilled(f, g, L, M, {a, a + 1})
<1> DEFINE new == NewPage(f)
           s == Thirds(Size(f.pages[L[a]]) + Size(f.pages[L[a + 1]]))
           f1 == SendToRightLeaf(Write(f, new, NewLeaf), L[a + 1], new, s[3])
           f2 == SendToRightLeaf(f1, L[a], L[a + 1], s[2] - Size(f1.pages[L[a + 1]]))
           f3 == SetNext(SetNext(f2, new, f2.pages[L[a + 1]].next), L[a + 1], new)
           k == FirstKey(f3.pages[L[a + 1]])
           f4 == SetKey(f3, f.root, a, k)
           c == FirstKey(f4.pages[new])
           f5 == Write(f4, f.root, InsertInInternal(f4.pages[f.root], c, new))
           M == InsertAt(L, a + 2, new)
           I == [K EXCEPT ![a] = k]
           J == InsertAt(I, a + 1, c)
<1>1. SplitSteps(f, L, a, new, s, f1, f2, f3, M)
  BY Zenon DEF SplitSteps
<1>2. g = IF Overflow(f5.pages[f.root]) THEN SplitInternal1to2(f5, f.root) ELSE f5
  BY Zenon DEF SplitLeaves2to3
<1>3. new \in Nat
  BY NewPageFree DEF Tree, Frame
<1> HIDE DEF new, s, f1, f2, f3
<1>4. /\ K \in Seq(NodeKeys) /\ Len(L) = Len(K) + 1 /\ Len(K) \in Nat /\ Len(L) \in Nat
      /\ L \in Seq(Nat) /\ f \in Files /\ LeafSeq(f, L)
  BY DEF Tree, Frame, LeafSeq
<1> HIDE DEF M
<1>5a. Linked(f, f3, L, K, a, new, M)
  BY <1>1, SplitLinked
<1>5. /\ Ordered(f3, M) /\ PagesTyped(f3) /\ RootIs(f3, L, K) /\ Chained(f3, M)
      /\ f3.ok = f.ok /\ f3.root = f.root /\ Held(Lists(f3, M)) = Held(Lists(f, L))
      /\ Len(M) = Len(L) + 1 /\ M[a] = L[a] /\ M[a + 1] = L[a + 1] /\ M[a + 2] = new
  BY <1>5a DEF Linked
<1>6. Refilled(f, f3, L, M, {a, a + 1})
  BY <1>5a DEF Linked
<1>7. \A i \in 1 .. Len(K) : i # a => SeparatesAt(Lists(f3, M), IF i <= a THEN i ELSE i + 1, K[i])
  BY <1>5a DEF Linked
<1>8. \A id \in DOMAIN f3.pages :
        f3.pages[id].deleted \/ id = f3.root \/ \E i \in 1 .. Len(M) : id = M[i]
  BY <1>5a DEF Linked
<1>9. \A i \in 1 .. Len(M) : Filled(f3, M, i) # 0
  <2>1. MIN_KEYS_LEAF \in Nat /\ MIN_KEYS_LEAF > 0
    BY SizesTyped
  <2>2. ~(MIN_KEYS_LEAF <= 0)
    BY <2>1
  <2> QED
    BY <1>6, <2>2 DEF Refilled
<1>10. PICK p \in 1 .. Len(M) : p = a + 1 /\ p + 1 = a + 2 /\ p + 1 \in 1 .. Len(M)
  BY <1>4, <1>5
<1>11. /\ a \in 1 .. Len(M) /\ a + 1 \in 1 .. Len(M) /\ Filled(f3, M, a + 1) # 0
       /\ k = FirstKey(f3.pages[M[a + 1]]) /\ f4 = SetKey(f3, f3.root, a, k)
  BY <1>5, <1>9, <1>10
<1> HIDE DEF k, f4
<1>12. /\ Ordered(f4, M) /\ Lists(f4, M) = Lists(f3, M) /\ SameLinks(f3, f4, M)
       /\ PagesTyped(f4) /\ RootIs(f4, L, I)
       /\ I \in Seq(NodeKeys) /\ Len(I) = Len(K)
       /\ k \in Keys /\ SeparatesAt(Lists(f4, M), a, k)
       /\ f4.root = f.root /\ DOMAIN f4.pages = DOMAIN f3.pages
       /\ \A i \in DOMAIN f3.pages : i # f.root => f4.pages[i] = f3.pages[i]
  <2>0. /\ PagesTyped(f3) /\ Ordered(f3, M) /\ K \in Seq(NodeKeys) /\ RootIs(f3, L, K)
        /\ a \in 1 .. Len(K) /\ a \in 1 .. Len(M) /\ a + 1 \in 1 .. Len(M) /\ Filled(f3, M, a + 1) # 0
        /\ k = FirstKey(f3.pages[M[a + 1]]) /\ f4 = SetKey(f3, f3.root, a, k)
    BY <1>4, <1>5, <1>11
  <2>1. /\ Ordered(f4, M) /\ Lists(f4, M) = Lists(f3, M) /\ SameLinks(f3, f4, M)
        /\ PagesTyped(f4) /\ RootIs(f4, L, I)
    BY <2>0, SetSeparator
  <2>2. /\ RootIs(f4, L, I) /\ SameLinks(f3, f4, M)
        /\ I \in Seq(NodeKeys) /\ Len(I) = Len(K)
        /\ k \in Keys /\ SeparatesAt(Lists(f4, M), a, k)
    BY <2>0, SetSeparator
  <2>3. /\ RootIs(f4, L, I) /\ SameLinks(f3, f4, M)
        /\ f4.root = f3.root /\ DOMAIN f4.pages = DOMAIN f3.pages
        /\ \A i \in DOMAIN f3.pages : i # f3.root => f4.pages[i] = f3.pages[i]
    BY <2>0, SetSeparator
  <2> QED
    BY <1>5, <2>1, <2>2, <2>3
<1>13. I[a] = k /\ \A i \in 1 .. Len(K) : i # a => I[i] = K[i]
  BY <1>4
<1> HIDE DEF I
<1> DEFINE E == Lists(f4, M)
<1>14. /\ E \in Seq(Entries) /\ Len(E) = Len(M)
       /\ \A i \in 1 .. Len(M) : E[i] = f4.pages[M[i]].entries
  BY <1>12, ListsTyped DEF Ordered
<1>15. \A i \in 1 .. Len(E) : Len(E[i]) # 0
  <2>1. \A i \in 1 .. Len(M) : Lists(f3, M)[i] = f3.pages[M[i]].entries
    BY <1>5, ListsTyped DEF Ordered
  <2> QED
    BY <1>9, <1>12, <1>14, <2>1, SMTT(40) DEF Filled
<1>16. /\ c = E[p + 1][1][1]
       /\ SeparatesAt(E, p, c) /\ c \in Keys
  <2>1. c = E[p + 1][1][1]
    BY <1>5, <1>10, <1>14 DEF FirstKey
  <2>2. /\ p \in 1 .. Len(E) /\ p + 1 \in 1 .. Len(E) /\ Len(E[p + 1]) # 0 /\ InOrder(E) /\ E \in Seq(Entries)
    BY <1>10, <1>12, <1>14, <1>15 DEF Ordered
  <2> HIDE DEF E
  <2>3. SeparatesAt(E, p, E[p + 1][1][1]) /\ E[p + 1][1][1] \in Keys
    BY <2>2, FirstKeySeparates
  <2> QED
    BY <2>1, <2>3
<1> HIDE DEF c
<1>17. \A i \in 1 .. Len(I) : SeparatesAt(E, IF i <= a THEN i ELSE i + 1, I[i])
  <2> TAKE i \in 1 .. Len(I)
  <2>1. CASE i = a
    <3>1. i <= a
      BY <2>1
    <3> QED
      BY <1>12, <1>13, <2>1, <3>1
  <2>2. CASE i # a
    BY <1>7, <1>12, <1>13, <2>2
  <2> QED
    BY <2>1, <2>2
<1> HIDE DEF E
<1>18. Below(I, c) = a
  <2>1. Len(E) = Len(I) + 2 /\ a \in 1 .. Len(I)
    BY <1>4, <1>5, <1>12, <1>14
  <2>2. SeparatesAt(E, a + 1, c)
    BY <1>10, <1>16
  <2> QED
    BY <1>12, <1>14, <1>15, <1>16, <1>17, <2>1, <2>2, SeparatorPlace
<1>19a. ChildPut(f4, f5, I, a, c, M, J)
  <2>1. /\ f4 \in Files /\ PagesTyped(f4) /\ L \in Seq(Nat) /\ I \in Seq(NodeKeys) /\ RootIs(f4, L, I)
        /\ Len(L) = Len(I) + 1 /\ a \in 1 .. Len(I)
    BY <1>4, <1>12 DEF Ordered
  <2>2. f5 = Write(f4, f4.root, InsertInInternal(f4.pages[f4.root], c, new))
    BY <1>12
  <2>3. M = InsertAt(L, a + 2, new)
    BY DEF M
  <2> HIDE DEF f5
  <2>4. ChildPut(f4, Write(f4, f4.root, InsertInInternal(f4.pages[f4.root], c, new)), I, a, c,
                 InsertAt(L, a + 2, new), InsertAt(I, a + 1, c))
    BY <1>3, <1>16, <1>18, <2>1, ChildInserted
  <2> QED
    BY <2>2, <2>3, <2>4, Zenon
<1> HIDE DEF f5, J
<1>19. /\ f5 \in Files /\ PagesTyped(f5) /\ RootIs(f5, M, J)
       /\ f5.root = f.root /\ f5.first = f4.first /\ f5.ok = f4.ok
       /\ DOMAIN f5.pages = DOMAIN f4.pages
       /\ \A i \in DOMAIN f4.pages : i # f.root => f5.pages[i] = f4.pages[i]
  BY <1>12, <1>19a DEF ChildPut
<1>20. /\ J \in Seq(NodeKeys) /\ Len(J) = Len(I) + 1
       /\ J[a + 1] = c
       /\ \A i \in 1 .. a : J[i] = I[i]
       /\ \A i \in a + 1 .. Len(I) : J[i + 1] = I[i]
  BY <1>19a DEF ChildPut
<1>21. \A i \in 1 .. Len(M) : M[i] \in DOMAIN f4.pages /\ M[i] \in DOMAIN f5.pages /\ M[i] # f.root
                              /\ f5.pages[M[i]] = f4.pages[M[i]]
  <2>1. LeafSeq(f4, M) /\ RootIs(f4, L, I)
    BY <1>12 DEF Ordered
  <2>2. \A i \in 1 .. Len(M) : M[i] # f4.root /\ M[i] \in DOMAIN f4.pages
    BY <2>1, RootIsNoLeaf
  <2> QED
    BY <1>12, <1>19, <2>2
<1>22. /\ LeafSeq(f5, M) /\ Lists(f5, M) = E
       /\ \A i \in 1 .. Len(M) : Filled(f5, M, i) = Filled(f3, M, i)
  <2>1. LeafSeq(f4, M) /\ f4 \in Files
    BY <1>12 DEF Ordered
  <2>2. /\ LeafSeq(f5, M) /\ Lists(f5, M) = Lists(f4, M)
        /\ \A i \in 1 .. Len(M) : Filled(f5, M, i) = Filled(f4, M, i)
    BY <1>19, <1>21, <2>1, OtherPages
  <2>3. \A i \in 1 .. Len(M) : f4.pages[M[i]] = f3.pages[M[i]]
    BY <1>12, <1>21
  <2> QED
    BY <2>2, <2>3 DEF E, Filled
<1>23. InOrder(E) /\ Held(E) = Held(Lists(f, L))
  BY <1>5, <1>12 DEF E, Ordered
<1>24. Separated(E, J)
  <2> SUFFICES ASSUME NEW i \in 1 .. Len(J)
               PROVE  SeparatesAt(E, i, J[i])
    BY DEF Separated
  <2>1. CASE i <= a
    <3>1. i \in 1 .. a /\ i \in 1 .. Len(I)
      BY <1>4, <1>12, <2>1
    <3> QED
      BY <1>17, <1>20, <2>1, <3>1
  <2>2. CASE i = a + 1
    BY <1>10, <1>16, <1>20, <2>2
  <2>3. CASE i > a + 1
    <3>1. PICK j \in a + 1 .. Len(I) : i = j + 1
      <4>1. Len(J) = Len(I) + 1 /\ Len(I) \in Nat
        BY <1>4, <1>12, <1>20
      <4>2. i - 1 \in a + 1 .. Len(I) /\ i = (i - 1) + 1
        BY <2>3, <4>1
      <4> QED
        BY <4>2
    <3>2. j \in 1 .. Len(I) /\ ~(j <= a)
      BY <1>4, <1>12
    <3>3. SeparatesAt(E, j + 1, I[j])
      BY <1>17, <3>2
    <3> QED
      BY <1>20, <3>1, <3>3
  <2> QED
    BY <2>1, <2>2, <2>3
<1>25. Frame(f5, M, J)
  <2>1. \A id \in DOMAIN f5.pages :
          f5.pages[id].deleted \/ id = f5.root \/ \E i \in 1 .. Len(M) : id = M[i]
    BY <1>5, <1>8, <1>12, <1>19
  <2>2. Len(M) = Len(J) + 1 /\ Len(M) > 1
    BY <1>4, <1>5, <1>12, <1>20
  <2> QED
    BY <1>19, <1>20, <1>22, <2>1, <2>2, RootFrame
<1>26. Tree(f5, M, J)
  BY <1>22, <1>23, <1>24, <1>25 DEF Tree
<1>27. Chained(f5, M) /\ f5.ok = f.ok
  <2>1. f5.first = f3.first /\ f5.ok = f.ok
    BY <1>5, <1>12, <1>19 DEF SameLinks
  <2>2. \A i \in 1 .. Len(M) : f5.pages[M[i]].next = f3.pages[M[i]].next
    BY <1>12, <1>21
  <2> QED
    BY <1>5, <2>1, <2>2 DEF Chained
<1>28. Refilled(f, f5, L, M, {a, a + 1})
  BY <1>6, <1>22 DEF Refilled
<1>29. CASE Overflow(f5.pages[f.root])
  <2>1. f.root \in DOMAIN f5.pages /\ ~f5.pages[f.root].deleted /\ ~f5.pages[f.root].isLeaf
    BY <1>19 DEF RootIs
  <2>2. g = SplitInternal1to2(f5, f.root)
    BY <1>2, <1>29
  <2>3. High(g)
    BY <1>19, <2>1, <2>2, SplitRootInternal
  <2> QED
    BY <2>3
<1>30. CASE ~Overflow(f5.pages[f.root])
  <2>1. g = f5
    BY <1>2, <1>30
  <2>2. Len(J) <= MAX_KEYS_INTERNAL
    <3>1. f5.pages[f.root].keys = J /\ ~f5.pages[f.root].isLeaf
      BY <1>19 DEF RootIs
    <3>2. ~(Len(J) > MAX_KEYS_INTERNAL)
      BY <1>30, <3>1 DEF Overflow, Size, MaxSize
    <3>3. Len(J) \in Nat /\ MAX_KEYS_INTERNAL \in Int
      BY <1>20, TreeAssumption DEF MAX_KEYS_INTERNAL
    <3> QED
      BY <3>2, <3>3
  <2>3. Held(Lists(g, M)) = Held(Lists(f, L))
    BY <1>22, <1>23, <2>1
  <2>4. /\ Tree(g, M, J) /\ Chained(g, M) /\ g.ok = f.ok
        /\ Len(M) = Len(L) + 1 /\ Refilled(f, g, L, M, {a, a + 1})
    BY <1>5, <1>26, <1>27, <1>28, <2>1
  <2> QED
    BY <2>2, <2>3, <2>4
<1> QED
  BY <1>29, <1>30, Zenon
-----------------------------------------------------------------------------
(* Three leaves become two. *)

\* One of three neighbours has an entry too few, the others can spare none.
ThreeToMerge(f, L, a) ==
    /\ Filled(f, L, a) + Filled(f, L, a + 1) + Filled(f, L, a + 2) = 3 * MIN_KEYS_LEAF - 1
    /\ \A i \in {a, a + 1, a + 2} : Filled(f, L, i) \in {MIN_KEYS_LEAF - 1, MIN_KEYS_LEAF}

\* The first steps of MergeLeaves3to2.
MergeSteps(f, L, a, total, f1, f2) ==
    /\ total = Size(f.pages[L[a]]) + Size(f.pages[L[a + 1]]) + Size(f.pages[L[a + 2]])
    /\ f1 = TakeFromRightLeaf(f, L[a], L[a + 1], total \div 2 - Size(f.pages[L[a]]))
    /\ f2 = TakeFromRightLeaf(f1, L[a + 1], L[a + 2], total - total \div 2 - Size(f1.pages[L[a + 1]]))

\* The third of the leaves is empty, and k separates the other two.
Merged(f, g, L, a, k) ==
    /\ SameButEntries(f, g) /\ Ordered(g, L) /\ Held(Lists(g, L)) = Held(Lists(f, L))
    /\ Filled(g, L, a) \in MIN_KEYS_LEAF .. MAX_KEYS_LEAF
    /\ Filled(g, L, a + 1) \in MIN_KEYS_LEAF .. MAX_KEYS_LEAF
    /\ Filled(g, L, a + 2) = 0
    /\ \A i \in 1 .. Len(L) : i \notin {a, a + 1, a + 2} => Filled(g, L, i) = Filled(f, L, i)
    /\ k \in Keys /\ SeparatesAt(Lists(g, L), a, k)
    /\ \A i \in Int : \A c :
         i \notin {a, a + 1} /\ SeparatesAt(Lists(f, L), i, c) => SeparatesAt(Lists(g, L), i, c)

\* The entries of three leaves move to the first two of them.
LEMMA MergeShared ==
    ASSUME NEW f, NEW L, Ordered(f, L), NEW a \in 1 .. Len(L), a + 2 \in 1 .. Len(L),
           ThreeToMerge(f, L, a),
           NEW total, NEW f1, NEW f2, MergeSteps(f, L, a, total, f1, f2)
    PROVE  /\ Merged(f, f2, L, a, FirstKey(f1.pages[L[a + 1]]))
           /\ Size(f2.pages[L[a]]) = total \div 2 /\ Size(f2.pages[L[a + 2]]) = 0
<1>1. PICK b \in 1 .. Len(L) : b = a + 1 /\ b + 1 = a + 2 /\ b + 1 \in 1 .. Len(L)
  OBVIOUS
<1>2. f \in Files /\ LeafSeq(f, L)
  BY DEF Ordered
<1>3. PICK x \in Nat, y \in Nat, z \in Nat :
        x = Filled(f, L, a) /\ y = Filled(f, L, b) /\ z = Filled(f, L, b + 1)
  BY <1>1, <1>2, FilledTyped
<1>4. PICK max \in Nat, min \in Nat : /\ max = MAX_KEYS_LEAF /\ min = MIN_KEYS_LEAF
                                      /\ max >= 3 /\ 3 * min <= 2 * max + 1 /\ 2 * max + 1 <= 3 * min + 2
  BY SizesTyped
<1>5. x + y + z = 3 * min - 1 /\ x \in {min - 1, min} /\ y \in {min - 1, min} /\ z \in {min - 1, min}
  <2>1. Filled(f, L, a + 1) = y /\ Filled(f, L, a + 2) = z
    BY <1>1, <1>3
  <2>2. /\ x + y + z = 3 * MIN_KEYS_LEAF - 1
        /\ x \in {MIN_KEYS_LEAF - 1, MIN_KEYS_LEAF} /\ y \in {MIN_KEYS_LEAF - 1, MIN_KEYS_LEAF}
        /\ z \in {MIN_KEYS_LEAF - 1, MIN_KEYS_LEAF}
    BY <1>3, <2>1 DEF ThreeToMerge
  <2> QED
    BY <1>4, <2>2
<1>6. PICK t \in Nat : t = x + y + z
  OBVIOUS
<1>7. t = total
  <2>1. /\ Size(f.pages[L[a]]) = x /\ Size(f.pages[L[b]]) = y /\ Size(f.pages[L[b + 1]]) = z
    BY <1>1, <1>2, <1>3, FilledTyped, SMTT(40)
  <2>2. total = Size(f.pages[L[a]]) + Size(f.pages[L[b]]) + Size(f.pages[L[b + 1]])
    BY <1>1, Zenon DEF MergeSteps
  <2> QED
    BY <1>6, <2>1, <2>2
<1>8. PICK s \in Nat : s = t \div 2 /\ 2 * s <= t /\ t <= 2 * s + 1
  OBVIOUS
<1>9. /\ s \in min .. max /\ t - s \in min .. max
      /\ s - x \in 0 .. y /\ x + (s - x) = s /\ x + y - s > 0 /\ x + y - s + z = t - s
      /\ t - s - (x + y - s) = z
  BY <1>4, <1>5, <1>6, <1>8
<1>10. Shared(f, f1, L, a, s)
  <2>1. Size(f.pages[L[a]]) = x
    BY <1>2, <1>3, FilledTyped, SMTT(40)
  <2>2. f1 = TakeFromRightLeaf(f, L[a], L[b], s - x)
    BY <1>1, <1>7, <1>8, <2>1 DEF MergeSteps
  <2> DEFINE count == s - x
  <2>3. count \in 0 .. y /\ x + count <= max /\ x + count = s /\ f1 = TakeFromRightLeaf(f, L[a], L[b], count)
    BY <1>9, <2>2
  <2> HIDE DEF count
  <2>4. /\ count \in 0 .. Filled(f, L, a + 1) /\ Filled(f, L, a) + count <= MAX_KEYS_LEAF
        /\ f1 = TakeFromRightLeaf(f, L[a], L[a + 1], count) /\ a + 1 \in 1 .. Len(L)
    BY <1>1, <1>3, <1>4, <2>3
  <2>5. Shared(f, f1, L, a, Filled(f, L, a) + count)
    BY <2>4, TakeFromRight
  <2> QED
    BY <1>3, <2>3, <2>5
<1>11. /\ Ordered(f1, L) /\ Filled(f1, L, b) = x + y - s /\ Filled(f1, L, b + 1) = z
       /\ Size(f1.pages[L[b]]) = x + y - s
  <2>1. /\ Ordered(f1, L) /\ Filled(f1, L, a + 1) = Filled(f, L, a) + Filled(f, L, a + 1) - s
        /\ b + 1 \notin {a, a + 1}
        /\ \A i \in 1 .. Len(L) : i \notin {a, a + 1} => Filled(f1, L, i) = Filled(f, L, i)
    BY <1>1, <1>10 DEF Shared
  <2>2. Size(f1.pages[L[b]]) = Filled(f1, L, b)
    BY <1>1, <2>1, FilledTyped DEF Ordered
  <2> QED
    BY <1>1, <1>3, <2>1, <2>2
<1>12. Shared(f1, f2, L, b, t - s)
  <2> DEFINE u == x + y - s
  <2>1. u + z = t - s /\ t - s <= max /\ f2 = TakeFromRightLeaf(f1, L[b], L[b + 1], z)
    <3>1. f2 = TakeFromRightLeaf(f1, L[b], L[b + 1], t - s - (x + y - s))
      BY <1>1, <1>7, <1>8, <1>11, Zenon DEF MergeSteps
    <3> QED
      BY <1>9, <3>1, SMTT(40)
  <2>2. Filled(f1, L, b) = u
    BY <1>11
  <2> HIDE DEF u
  <2>3. z \in 0 .. Filled(f1, L, b + 1) /\ Filled(f1, L, b) + z <= MAX_KEYS_LEAF
    BY <1>4, <1>11, <2>1, <2>2
  <2>4. Shared(f1, f2, L, b, Filled(f1, L, b) + z)
    BY <1>1, <1>11, <2>1, <2>3, TakeFromRight
  <2> QED
    BY <2>1, <2>2, <2>4
<1>13. SharedByThree(f, f2, L, a, s, t - s, 0)
  <2>1. Shared(f1, f2, L, a + 1, t - s) /\ t - s \in Int /\ s \in Int
    BY <1>1, <1>12
  <2>2. SharedByThree(f, f2, L, a, s, t - s,
                      Filled(f, L, a) + Filled(f, L, a + 1) + Filled(f, L, a + 2) - s - (t - s))
    BY <1>10, <2>1, SharedRightward
  <2>3. Filled(f, L, a) + Filled(f, L, a + 1) + Filled(f, L, a + 2) - s - (t - s) = 0
    <3>1. Filled(f, L, a) = x /\ Filled(f, L, a + 1) = y /\ Filled(f, L, a + 2) = z
      BY <1>1, <1>3
    <3> QED
      BY <1>6, <3>1
  <2> QED
    BY <2>2, <2>3
<1> DEFINE k == FirstKey(f1.pages[L[a + 1]])
           E == Lists(f1, L)
<1>14. k \in Keys /\ SeparatesAt(E, a, k)
  <2>1. E \in Seq(Entries) /\ Len(E) = Len(L) /\ E[b] = f1.pages[L[b]].entries /\ InOrder(E)
    BY <1>1, <1>11, ListsTyped DEF Ordered
  <2>2. Len(E[b]) = x + y - s
    BY <1>11, <2>1 DEF Filled
  <2>3. Len(E[b]) # 0
    BY <1>9, <2>2
  <2>4. k = E[b][1][1]
    BY <1>1, <2>1 DEF FirstKey
  <2> HIDE DEF E, k
  <2>5. a \in 1 .. Len(E) /\ a + 1 \in 1 .. Len(E) /\ Len(E[a + 1]) # 0 /\ k = E[a + 1][1][1]
    BY <1>1, <2>1, <2>3, <2>4
  <2> QED
    BY <2>1, <2>5, FirstKeySeparates
<1> HIDE DEF k
<1>15. SeparatesAt(Lists(f2, L), a, k)
  <2>1. a # b /\ a \in Int
    BY <1>1
  <2> QED
    BY <1>12, <1>14, <2>1 DEF Shared
<1>16. Merged(f, f2, L, a, k)
  <2>1. /\ SameButEntries(f, f2) /\ Ordered(f2, L) /\ Held(Lists(f2, L)) = Held(Lists(f, L))
        /\ Filled(f2, L, a) = s /\ Filled(f2, L, a + 1) = t - s /\ Filled(f2, L, a + 2) = 0
        /\ \A i \in 1 .. Len(L) : i \notin {a, a + 1, a + 2} => Filled(f2, L, i) = Filled(f, L, i)
    BY <1>13 DEF SharedByThree
  <2>2. \A i \in Int : \A c :
         i \notin {a, a + 1} /\ SeparatesAt(Lists(f, L), i, c) => SeparatesAt(Lists(f2, L), i, c)
    BY <1>13 DEF SharedByThree
  <2>3. Filled(f2, L, a) \in MIN_KEYS_LEAF .. MAX_KEYS_LEAF /\ Filled(f2, L, a + 1) \in MIN_KEYS_LEAF .. MAX_KEYS_LEAF
    BY <1>4, <1>9, <2>1
  <2> QED
    BY <1>14, <1>15, <2>1, <2>2, <2>3 DEF Merged
<1>17. Size(f2.pages[L[a]]) = total \div 2 /\ Size(f2.pages[L[a + 2]]) = 0
  <2>1. f2 \in Files /\ LeafSeq(f2, L) /\ Filled(f2, L, a) = s /\ Filled(f2, L, a + 2) = 0
    BY <1>13 DEF SharedByThree, Ordered
  <2>2. Size(f2.pages[L[a]]) = Filled(f2, L, a) /\ Size(f2.pages[L[a + 2]]) = Filled(f2, L, a + 2)
    BY <2>1, FilledTyped
  <2> QED
    BY <1>7, <1>8, <2>1, <2>2
<1> QED
  BY <1>16, <1>17 DEF k

\* mark_deleted
LEMMA MarkDeletedEffect ==
    ASSUME NEW f \in Files, PagesTyped(f), NEW id \in DOMAIN f.pages, NEW g, g = MarkDeleted(f, id)
    PROVE  /\ g \in Files /\ PagesTyped(g)
           /\ g.root = f.root /\ g.first = f.first /\ g.ok = f.ok
           /\ DOMAIN g.pages = DOMAIN f.pages /\ g.pages[id].deleted
           /\ \A i \in DOMAIN f.pages : i # id => g.pages[i] = f.pages[i]
<1> DEFINE node == [f.pages[id] EXCEPT !.deleted = TRUE]
<1>1. f.pages[id] \in Node /\ id \in 1 .. Len(f.pages) + 1
  <2>1. f.pages[id] \in Node /\ DOMAIN f.pages = 1 .. Len(f.pages) /\ Len(f.pages) \in Nat
    BY FileTyped
  <2> QED
    BY <2>1
<1>2. /\ node \in Node /\ node.deleted /\ node.isLeaf = f.pages[id].isLeaf
      /\ node.next = f.pages[id].next
      /\ node.keys = f.pages[id].keys /\ node.children = f.pages[id].children
  BY <1>1 DEF Node
<1>3. g = Write(f, id, node)
  BY DEF MarkDeleted
<1> HIDE DEF node
<1>4. /\ g \in Files /\ g.root = f.root /\ g.first = f.first /\ g.ok = f.ok
      /\ DOMAIN g.pages = DOMAIN f.pages \union {id} /\ g.pages[id] = node
      /\ \A i \in DOMAIN f.pages : i # id => g.pages[i] = f.pages[i]
  BY <1>1, <1>2, <1>3, WriteEffect
<1>5. DOMAIN g.pages = DOMAIN f.pages
  BY <1>4
<1>6. PagesTyped(g)
  <2> SUFFICES ASSUME NEW i \in DOMAIN f.pages
               PROVE  /\ g.pages[i].next \in DOMAIN f.pages \union {None}
                      /\ Len(g.pages[i].children)
                           = IF g.pages[i].isLeaf THEN 0 ELSE Len(g.pages[i].keys) + 1
    BY <1>5 DEF PagesTyped
  <2>1. CASE i = id
    BY <1>2, <1>4, <2>1 DEF PagesTyped
  <2>2. CASE i # id
    BY <1>4, <2>2 DEF PagesTyped
  <2> QED
    BY <2>1, <2>2
<1> QED
  BY <1>2, <1>4, <1>5, <1>6

\* The root of g is without the separator b and the child on its right.
ChildCut(f, g, I, b, M, J) ==
    /\ g \in Files /\ PagesTyped(g) /\ RootIs(g, M, J)
    /\ g.root = f.root /\ g.first = f.first /\ g.ok = f.ok
    /\ DOMAIN g.pages = DOMAIN f.pages
    /\ \A i \in DOMAIN f.pages : i # f.root => g.pages[i] = f.pages[i]
    /\ J \in Seq(NodeKeys) /\ Len(J) = Len(I) - 1
    /\ \A i \in 1 .. Len(I) - 1 : J[i] = IF i < b THEN I[i] ELSE I[i + 1]

\* remove_from_internal, in the root.
LEMMA ChildRemoved ==
    ASSUME NEW f \in Files, PagesTyped(f), NEW L \in Seq(Nat), NEW I \in Seq(NodeKeys),
           RootIs(f, L, I), Len(L) = Len(I) + 1, NEW b \in 1 .. Len(I)
    PROVE  ChildCut(f, Write(f, f.root, RemoveFromInternal(f.pages[f.root], b)), I, b,
                    RemoveAt(L, b + 1), RemoveAt(I, b))
<1> DEFINE M == RemoveAt(L, b + 1)
           J == RemoveAt(I, b)
           old == f.pages[f.root]
           node == RemoveFromInternal(old, b)
           g == Write(f, f.root, RemoveFromInternal(f.pages[f.root], b))
<1>1. /\ old \in Node /\ old.keys = I /\ old.children = L /\ ~old.isLeaf /\ ~old.deleted
      /\ f.root \in DOMAIN f.pages
  BY FileTyped DEF RootIs
<1>2. /\ J \in Seq(NodeKeys) /\ Len(J) = Len(I) - 1
      /\ \A i \in 1 .. Len(I) - 1 : J[i] = IF i < b THEN I[i] ELSE I[i + 1]
  <2> DEFINE S == NodeKeys
  <2>1. I \in Seq(S)
    OBVIOUS
  <2> HIDE DEF S
  <2>2. RemoveAt(I, b) \in Seq(S)
    BY <2>1, RemoveAtProperties
  <2>3. Len(RemoveAt(I, b)) = Len(I) - 1
    BY <2>1, RemoveAtProperties
  <2>4. \A i \in 1 .. Len(I) - 1 : RemoveAt(I, b)[i] = IF i < b THEN I[i] ELSE I[i + 1]
    BY <2>1, RemoveAtProperties
  <2> QED
    BY <2>2, <2>3, <2>4 DEF S
<1>3. M \in Seq(Nat) /\ Len(M) = Len(L) - 1
  <2> DEFINE S == Nat
             q == b + 1
             s == L
  <2>1. q \in 1 .. Len(s) /\ s \in Seq(S)
    OBVIOUS
  <2> HIDE DEF q, S, s
  <2>2. RemoveAt(s, q) \in Seq(S)
    BY <2>1, RemoveAtProperties
  <2>3. Len(RemoveAt(s, q)) = Len(s) - 1
    BY <2>1, RemoveAtProperties
  <2> QED
    BY <2>2, <2>3 DEF q, S, s
<1>4. node = [old EXCEPT !.keys = J, !.children = M]
  <2>1. RemoveAt(old.keys, b) = J /\ RemoveAt(old.children, b + 1) = M
    BY <1>1
  <2> HIDE DEF J, M, old
  <2> QED
    BY <2>1, Zenon DEF RemoveFromInternal
<1> HIDE DEF M, J, old
<1>5. /\ node \in Node /\ node.keys = J /\ node.children = M /\ ~node.isLeaf /\ ~node.deleted
      /\ node.next = old.next
  BY <1>1, <1>2, <1>3, <1>4 DEF Node
<1>6. g = Write(f, f.root, node)
  BY Zenon DEF old
<1> HIDE DEF node, g
<1>7. Len(node.children) = Len(node.keys) + 1 /\ node.next = f.pages[f.root].next
  BY <1>2, <1>3, <1>5 DEF old
<1>8. /\ g \in Files /\ PagesTyped(g) /\ RootIs(g, node.children, node.keys)
      /\ g.root = f.root /\ g.first = f.first /\ g.ok = f.ok
      /\ DOMAIN g.pages = DOMAIN f.pages
      /\ \A i \in DOMAIN f.pages : i # f.root => g.pages[i] = f.pages[i]
  BY <1>1, <1>5, <1>6, <1>7, RootWritten, ZenonT(40)
<1>9. RootIs(g, M, J)
  BY <1>5, <1>8
<1>10. ChildCut(f, g, I, b, M, J)
  BY <1>2, <1>8, <1>9 DEF ChildCut
<1> QED
  BY <1>10, Zenon DEF M, J, g

\* M is without the third of the leaves, and k separates the other two; the
\* separators of the root are still those of L.
Unlinked(f, g, L, K, a, k, M) ==
    /\ Ordered(g, M) /\ PagesTyped(g) /\ RootIs(g, L, K) /\ Chained(g, M)
    /\ g.ok = f.ok /\ g.root = f.root /\ Held(Lists(g, M)) = Held(Lists(f, L))
    /\ Len(M) = Len(L) - 1 /\ M[a] = L[a] /\ M[a + 1] = L[a + 1]
    /\ Refilled(f, g, L, M, {a, a + 1, a + 2})
    /\ k \in Keys /\ SeparatesAt(Lists(g, M), a, k)
    /\ \A i \in 1 .. Len(K) : i < a => SeparatesAt(Lists(g, M), i, K[i])
    /\ \A i \in 1 .. Len(K) : a + 1 < i => SeparatesAt(Lists(g, M), i - 1, K[i])
    /\ \A id \in DOMAIN g.pages :
         g.pages[id].deleted \/ id = g.root \/ \E i \in 1 .. Len(M) : id = M[i]

\* The third leaf leaves the chain and is marked as deleted.
LEMMA MergeLinked ==
    ASSUME NEW f, NEW L, NEW K, Tree(f, L, K), Chained(f, L),
           NEW a \in 1 .. Len(K), a + 1 \in 1 .. Len(K),
           NEW k, NEW f2, Merged(f, f2, L, a, k),
           NEW g, g = MarkDeleted(SetNext(f2, L[a + 1], f2.pages[L[a + 2]].next), L[a + 2])
    PROVE  Unlinked(f, g, L, K, a, k, RemoveAt(L, a + 2))
<1> DEFINE M == RemoveAt(L, a + 2)
           h == SetNext(f2, L[a + 1], f2.pages[L[a + 2]].next)
<1>1. /\ f \in Files /\ PagesTyped(f) /\ LeafSeq(f, L) /\ RootIs(f, L, K)
      /\ K \in Seq(NodeKeys) /\ Len(L) = Len(K) + 1 /\ Len(K) \in Nat /\ Len(L) \in Nat
      /\ L \in Seq(Nat)
  <2>1. Frame(f, L, K) /\ Len(L) > 1
    BY DEF Tree, Frame
  <2>2. /\ f \in Files /\ PagesTyped(f) /\ LeafSeq(f, L) /\ RootIs(f, L, K)
        /\ K \in Seq(NodeKeys) /\ Len(L) = Len(K) + 1 /\ Len(K) \in Nat /\ Len(L) \in Nat
    BY <2>1, FrameRoot
  <2> QED
    BY <2>2 DEF LeafSeq
<1>2. PICK b \in 1 .. Len(L) : b = a + 1 /\ b + 1 = a + 2 /\ b + 1 \in 1 .. Len(L)
  BY <1>1, SMTT(40)
<1>3. PICK c \in 1 .. Len(L) : c = b + 1
  BY <1>2
<1>4. PICK n \in Nat : n = Len(L) /\ n >= c /\ a >= 1 /\ Len(K) = n - 1
  BY <1>1, <1>2, <1>3
<1>5. /\ M \in Seq(Nat) /\ Len(M) = n - 1
      /\ \A j \in 1 .. n - 1 : M[j] = IF j < c THEN L[j] ELSE L[j + 1]
  <2> DEFINE S == Nat
  <2>1. L \in Seq(S)
    BY <1>1
  <2> HIDE DEF S
  <2>2. RemoveAt(L, c) \in Seq(S)
    BY <2>1, RemoveAtProperties
  <2>3. Len(RemoveAt(L, c)) = Len(L) - 1
    BY <2>1, RemoveAtProperties
  <2>4. \A j \in 1 .. Len(L) - 1 : RemoveAt(L, c)[j] = IF j < c THEN L[j] ELSE L[j + 1]
    BY <2>1, RemoveAtProperties
  <2>5. M = RemoveAt(L, c)
    BY <1>2, <1>3
  <2> QED
    BY <1>4, <2>2, <2>3, <2>4, <2>5 DEF S
<1> HIDE DEF M
<1>6. /\ \A j \in 1 .. b : j \in 1 .. Len(M) /\ j \in 1 .. Len(L) /\ M[j] = L[j]
      /\ \A j \in 1 .. Len(M) : b < j => j + 1 \in 1 .. Len(L) /\ M[j] = L[j + 1]
  <2>1. \A j \in 1 .. b : j \in 1 .. n - 1 /\ j \in 1 .. Len(L) /\ j < c
    BY <1>2, <1>3, <1>4
  <2>2. \A j \in 1 .. Len(M) : b < j => j + 1 \in 1 .. Len(L) /\ ~(j < c)
    BY <1>3, <1>4, <1>5, SMTT(40)
  <2> QED
    BY <1>5, <2>1, <2>2
<1>7. /\ SameButEntries(f, f2) /\ Ordered(f2, L) /\ Held(Lists(f2, L)) = Held(Lists(f, L))
      /\ Filled(f2, L, a) \in MIN_KEYS_LEAF .. MAX_KEYS_LEAF
      /\ Filled(f2, L, b) \in MIN_KEYS_LEAF .. MAX_KEYS_LEAF
      /\ Filled(f2, L, c) = 0
      /\ \A i \in 1 .. Len(L) : i \notin {a, b, c} => Filled(f2, L, i) = Filled(f, L, i)
      /\ k \in Keys /\ SeparatesAt(Lists(f2, L), a, k)
  BY <1>2, <1>3 DEF Merged
<1>8. \A i \in Int : \A d :
         i \notin {a, a + 1} /\ SeparatesAt(Lists(f, L), i, d) => SeparatesAt(Lists(f2, L), i, d)
  BY DEF Merged
<1>9. PagesTyped(f2) /\ RootIs(f2, L, K) /\ f2 \in Files /\ LeafSeq(f2, L)
  BY <1>1, <1>7, EntriesKeepRoot DEF Ordered
<1>10. /\ L[b] \in DOMAIN f2.pages /\ L[c] \in DOMAIN f2.pages /\ L[b] # L[c]
  <2>1. b # c
    BY <1>3
  <2> QED
    BY <1>9, <2>1 DEF LeafSeq
<1>11. h = SetNext(f2, L[b], f2.pages[L[c]].next) /\ g = MarkDeleted(h, L[c])
  BY <1>2, <1>3
<1> HIDE DEF h
<1>12. /\ h \in Files /\ PagesTyped(h) /\ SameButLinks(f2, h)
       /\ h.pages[L[b]].next = f2.pages[L[c]].next
       /\ \A i \in DOMAIN f2.pages : i # L[b] => h.pages[i] = f2.pages[i]
  <2>1. f2.pages[L[c]].next \in DOMAIN f2.pages \union {None}
    BY <1>9, <1>10, SMTT(40) DEF PagesTyped
  <2> QED
    BY <1>9, <1>10, <1>11, <2>1, SetNextEffect
<1>13. DOMAIN h.pages = DOMAIN f2.pages
  BY <1>12, SMTT(40) DEF SameButLinks
<1>14. /\ g \in Files /\ PagesTyped(g)
       /\ g.root = h.root /\ g.first = h.first /\ g.ok = h.ok
       /\ DOMAIN g.pages = DOMAIN f2.pages /\ g.pages[L[c]].deleted
       /\ \A i \in DOMAIN f2.pages : i # L[c] => g.pages[i] = h.pages[i]
  <2>1. h \in Files /\ PagesTyped(h) /\ L[c] \in DOMAIN h.pages /\ g = MarkDeleted(h, L[c])
    BY <1>10, <1>11, <1>12, <1>13
  <2>2. /\ g \in Files /\ PagesTyped(g)
        /\ g.root = h.root /\ g.first = h.first /\ g.ok = h.ok
        /\ DOMAIN g.pages = DOMAIN h.pages /\ g.pages[L[c]].deleted
        /\ \A i \in DOMAIN h.pages : i # L[c] => g.pages[i] = h.pages[i]
    BY <2>1, MarkDeletedEffect, SMTT(40)
  <2>3. DOMAIN h.pages = DOMAIN f2.pages
    BY <1>13
  <2> QED
    BY <2>2, <2>3, ZenonT(40)
<1>15. /\ g.root = f.root /\ g.first = f.first /\ g.ok = f.ok
       /\ DOMAIN g.pages = DOMAIN f.pages
  BY <1>7, <1>12, <1>14, SMTT(40) DEF SameButEntries, SameButLinks
\* The pages that are not deleted.
<1>16. \A i \in DOMAIN f2.pages : i # L[c] =>
         /\ g.pages[i].isLeaf = f2.pages[i].isLeaf /\ g.pages[i].deleted = f2.pages[i].deleted
         /\ g.pages[i].entries = f2.pages[i].entries
         /\ g.pages[i].keys = f2.pages[i].keys /\ g.pages[i].children = f2.pages[i].children
  BY <1>12, <1>14, ZenonT(40) DEF SameButLinks
<1>17. RootIs(g, L, K)
  <2>1. L[c] # f2.root
    BY <1>9, RootIsNoLeaf
  <2>2. g.root = f2.root
    BY <1>7, <1>15 DEF SameButEntries
  <2>3. /\ f2.root \in DOMAIN f2.pages /\ ~f2.pages[f2.root].isLeaf /\ ~f2.pages[f2.root].deleted
        /\ f2.pages[f2.root].children = L /\ f2.pages[f2.root].keys = K
    BY <1>9, SMTT(40) DEF RootIs
  <2>4. g.root \in DOMAIN g.pages
    BY <1>14, <2>2, <2>3
  <2> QED
    BY <1>16, <2>1, <2>2, <2>3, <2>4, ZenonT(40) DEF RootIs
<1> DEFINE up(j) == IF j <= b THEN j ELSE j + 1
<1>18. \A j \in 1 .. Len(M) :
         /\ up(j) \in 1 .. Len(L) /\ up(j) # c /\ M[j] = L[up(j)]
         /\ L[up(j)] # L[c] /\ L[up(j)] \in DOMAIN f2.pages
         /\ f2.pages[L[up(j)]].isLeaf /\ ~f2.pages[L[up(j)]].deleted
  <2> TAKE j \in 1 .. Len(M)
  <2>1. CASE j <= b
    <3>1. j \in 1 .. b /\ j # c
      BY <1>3, <1>4, <1>5, <2>1
    <3> QED
      BY <1>6, <1>9, <2>1, <3>1 DEF LeafSeq
  <2>2. CASE ~(j <= b)
    <3>1. b < j /\ j + 1 # c
      BY <1>3, <1>4, <1>5, <2>2, SMTT(40)
    <3> QED
      BY <1>6, <1>9, <2>2, <3>1 DEF LeafSeq
  <2> QED
    BY <2>1, <2>2
<1>19. LeafSeq(g, M)
  <2> HIDE DEF up
  <2>1. ASSUME NEW i \in 1 .. Len(M), NEW j \in 1 .. Len(M), M[i] = M[j]
        PROVE  i = j
    <3>1. /\ up(i) \in 1 .. Len(L) /\ M[i] = L[up(i)]
          /\ up(j) \in 1 .. Len(L) /\ M[j] = L[up(j)]
      BY <1>18
    <3>2. L[up(i)] = L[up(j)]
      BY <2>1, <3>1
    <3>3. up(i) = up(j)
      BY <1>9, <3>1, <3>2 DEF LeafSeq
    <3> QED
      BY <1>3, <1>4, <1>5, <3>3, SMTT(40) DEF up
  <2>2. \A i \in 1 .. Len(M) :
          M[i] \in DOMAIN g.pages /\ g.pages[M[i]].isLeaf /\ ~g.pages[M[i]].deleted
    <3> TAKE i \in 1 .. Len(M)
    <3> DEFINE j == up(i)
    <3>1. /\ M[i] = L[j] /\ L[j] # L[c] /\ L[j] \in DOMAIN f2.pages
          /\ f2.pages[L[j]].isLeaf /\ ~f2.pages[L[j]].deleted
      BY <1>18
    <3> HIDE DEF j
    <3> QED
      BY <1>14, <1>16, <3>1, ZenonT(40)
  <2> QED
    BY <1>5, <2>1, <2>2, Zenon DEF LeafSeq
<1> DEFINE E == Lists(g, M)
           F == Lists(f2, L)
<1>20. /\ E \in Seq(Entries) /\ Len(E) = Len(M)
       /\ \A i \in 1 .. Len(M) : E[i] = g.pages[M[i]].entries
  BY <1>14, <1>19, ListsTyped, ZenonT(40)
<1>21. /\ F \in Seq(Entries) /\ Len(F) = Len(L)
       /\ \A i \in 1 .. Len(L) : F[i] = f2.pages[L[i]].entries
  BY <1>9, ListsTyped
<1>22. \A j \in 1 .. Len(M) : F[up(j)] = E[j]
  <2> HIDE DEF up, E, F
  <2> TAKE j \in 1 .. Len(M)
  <2>1. E[j] = g.pages[M[j]].entries /\ F[up(j)] = f2.pages[L[up(j)]].entries
    BY <1>18, <1>20, <1>21, SMTT(40)
  <2>2. g.pages[L[up(j)]].entries = f2.pages[L[up(j)]].entries
    BY <1>16, <1>18, Zenon
  <2> QED
    BY <1>18, <2>1, <2>2, SMTT(40)
<1>23. F[b + 1] = <<>>
  <2>1. Len(F[c]) = 0 /\ F[c] \in Entries
    BY <1>7, <1>21, SMTT(40) DEF Filled
  <2> QED
    BY <1>3, <2>1, EmptySeq DEF Entries
<1>24. Padded(E, F, b)
  <2>1. Len(F) = Len(E) + 1 /\ b \in 0 .. Len(E)
    <3> HIDE DEF E, F
    <3> QED
      BY <1>3, <1>4, <1>5, <1>20, <1>21, SMTT(40)
  <2> HIDE DEF E, F
  <2>2. \A j \in 1 .. Len(E) : F[IF j <= b THEN j ELSE j + 1] = E[j]
    BY <1>20, <1>22
  <2> QED
    BY <1>23, <2>1, <2>2 DEF Padded
<1> HIDE DEF E, F
<1>25. InOrder(E) /\ Held(E) = Held(Lists(f, L))
  <2>1. InOrder(F) /\ Held(F) = Held(Lists(f, L))
    BY <1>7, SMTT(40) DEF F, Ordered
  <2>2. InOrder(E) <=> InOrder(F)
    BY <1>20, <1>21, <1>24, EmptyLeaf, SMTT(40)
  <2>3. Held(F) = Held(E)
    BY <1>20, <1>21, <1>24, EmptyLeaf, SMTT(40)
  <2> QED
    BY <2>1, <2>2, <2>3
<1>26. \A i \in Int : \A d : SeparatesAt(E, i, d) <=> SeparatesAt(F, IF i < b THEN i ELSE i + 1, d)
  BY <1>20, <1>21, <1>24, EmptyLeaf
<1>27. SeparatesAt(E, a, k)
  <2>1. a < b /\ a \in Int /\ SeparatesAt(F, a, k)
    BY <1>2, <1>7 DEF F
  <2> QED
    BY <1>26, <2>1
<1>28. \A i \in 1 .. Len(K) : SeparatesAt(Lists(f, L), i, K[i])
  BY DEF Tree, Separated
<1>29. \A i \in 1 .. Len(K) : i < a => SeparatesAt(E, i, K[i])
  <2> TAKE i \in 1 .. Len(K)
  <2> HAVE i < a
  <2>1. i \in Int /\ i \notin {a, a + 1} /\ i < b
    BY <1>2
  <2>2. SeparatesAt(F, i, K[i])
    BY <1>8, <1>28, <2>1 DEF F
  <2> QED
    BY <1>26, <2>1, <2>2
<1>30. \A i \in 1 .. Len(K) : a + 1 < i => SeparatesAt(E, i - 1, K[i])
  <2> TAKE i \in 1 .. Len(K)
  <2> HAVE a + 1 < i
  <2>1. i \in Int /\ i \notin {a, a + 1} /\ i - 1 \in Int /\ ~(i - 1 < b) /\ (i - 1) + 1 = i
    BY <1>2, SMTT(40)
  <2>2. SeparatesAt(F, i, K[i])
    BY <1>8, <1>28, <2>1 DEF F
  <2> QED
    BY <1>26, <2>1, <2>2
<1>31. Chained(g, M)
  <2>1. /\ \A i \in 1 .. Len(L) : f2.pages[L[i]].next = IF i = Len(L) THEN None ELSE L[i + 1]
        /\ g.first = L[1]
    <3>1. \A i \in 1 .. Len(L) : f.pages[L[i]].next = IF i = Len(L) THEN None ELSE L[i + 1]
      BY DEF Chained
    <3>2. \A i \in 1 .. Len(L) : L[i] \in DOMAIN f.pages
      BY <1>1 DEF LeafSeq
    <3>3. \A i \in DOMAIN f.pages : f2.pages[i].next = f.pages[i].next
      BY <1>7 DEF SameButEntries
    <3>4. g.first = L[1]
      BY <1>15, SMTT(40) DEF Chained
    <3> QED
      BY <3>1, <3>2, <3>3, <3>4
  <2>2. \A i \in 1 .. Len(L) : i \notin {b, c} => g.pages[L[i]].next = f2.pages[L[i]].next
    BY <1>9, <1>12, <1>14, SMTT(40) DEF LeafSeq
  <2>3. g.pages[L[b]].next = f2.pages[L[c]].next
    BY <1>10, <1>12, <1>14
  <2>4. g.first = M[1]
    <3>1. 1 \in 1 .. b
      BY <1>2, SMTT(40)
    <3> QED
      BY <1>6, <2>1, <3>1
  <2>5. ASSUME NEW i \in 1 .. Len(M)
        PROVE  g.pages[M[i]].next = IF i = Len(M) THEN None ELSE M[i + 1]
    <3>1. CASE i < b
      <4>1. i \in 1 .. b /\ i + 1 \in 1 .. b /\ i # Len(M) /\ i # Len(L) /\ i \notin {b, c}
        BY <1>3, <1>4, <1>5, <3>1, SMTT(40)
      <4>2. M[i] = L[i] /\ M[i + 1] = L[i + 1] /\ i \in 1 .. Len(L)
        BY <1>6, <4>1
      <4> QED
        BY <2>1, <2>2, <4>1, <4>2
    <3>2. CASE i = b
      <4>1. b \in 1 .. b /\ (b = Len(M) <=> c = Len(L)) /\ (b # Len(M) => c \in 1 .. Len(M) /\ b < c)
        BY <1>2, <1>3, <1>4, <1>5
      <4>2. M[b] = L[b] /\ (b # Len(M) => M[c] = L[c + 1])
        BY <1>6, <4>1
      <4>3. M[b + 1] = M[c]
        BY <1>3
      <4> QED
        BY <2>1, <2>3, <3>2, <4>1, <4>2, <4>3
    <3>3. CASE i > b
      <4>1. PICK j \in 1 .. Len(L) : j = i + 1 /\ j \notin {b, c} /\ M[i] = L[j]
        <5>1. i + 1 \in 1 .. Len(L) /\ i + 1 \notin {b, c}
          BY <1>3, <1>4, <1>5, <3>3
        <5> QED
          BY <1>6, <3>3, <5>1
      <4>2. (i = Len(M) <=> j = Len(L)) /\ (i # Len(M) => j \in 1 .. Len(M) /\ b < j)
        BY <1>4, <1>5, <3>3, <4>1
      <4>3. i # Len(M) => M[j] = L[j + 1]
        BY <1>6, <4>2
      <4> QED
        BY <2>1, <2>2, <4>1, <4>2, <4>3
    <3> QED
      BY <1>2, <3>1, <3>2, <3>3, SMTT(40)
  <2> QED
    BY <2>4, <2>5 DEF Chained
<1>32. Refilled(f, g, L, M, {a, a + 1, a + 2})
  <2> SUFFICES ASSUME NEW i \in 1 .. Len(M)
               PROVE  \/ MIN_KEYS_LEAF <= Filled(g, M, i) /\ Filled(g, M, i) <= MAX_KEYS_LEAF
                      \/ \E j \in 1 .. Len(L) : j \notin {a, a + 1, a + 2} /\ Filled(g, M, i) = Filled(f, L, j)
    BY DEF Refilled
  <2> DEFINE j == up(i)
  <2>1. j \in 1 .. Len(L) /\ j # c /\ M[i] = L[j] /\ L[j] # L[c] /\ L[j] \in DOMAIN f2.pages
    BY <1>18, SMTT(40)
  <2> HIDE DEF j, up
  <2>2. Filled(g, M, i) = Filled(f2, L, j)
    BY <1>16, <2>1 DEF Filled
  <2>3. CASE j \in {a, b}
    <3>1. Filled(f2, L, j) \in MIN_KEYS_LEAF .. MAX_KEYS_LEAF
      BY <1>7, <2>3
    <3>2. MIN_KEYS_LEAF \in Nat /\ MAX_KEYS_LEAF \in Nat
      BY SizesTyped
    <3> QED
      BY <2>2, <3>1, <3>2
  <2>4. CASE j \notin {a, b}
    <3>1. j \notin {a, a + 1, a + 2} /\ j \notin {a, b, c}
      BY <1>2, <1>3, <2>1, <2>4, SMTT(40)
    <3> QED
      BY <1>7, <2>1, <2>2, <3>1
  <2> QED
    BY <2>3, <2>4
<1>33. \A id \in DOMAIN g.pages :
         g.pages[id].deleted \/ id = g.root \/ \E i \in 1 .. Len(M) : id = M[i]
  <2> TAKE id \in DOMAIN g.pages
  <2>1. CASE id = L[c]
    BY <1>14, <2>1
  <2>2. CASE id # L[c]
    <3>1. id \in DOMAIN f.pages /\ g.pages[id].deleted = f.pages[id].deleted
      <4>1. id \in DOMAIN f2.pages /\ g.pages[id].deleted = f2.pages[id].deleted
        BY <1>14, <1>16, <2>2, Zenon
      <4>2. DOMAIN f2.pages = DOMAIN f.pages /\ \A i \in DOMAIN f.pages : f2.pages[i].deleted = f.pages[i].deleted
        BY <1>7, SMTT(40) DEF SameButEntries
      <4> QED
        BY <4>1, <4>2, SMTT(40)
    <3>2. f.pages[id].deleted \/ id = f.root \/ \E i \in 1 .. Len(L) : id = L[i]
      BY <3>1 DEF Tree, Frame
    <3>3. ASSUME NEW i \in 1 .. Len(L), id = L[i]
          PROVE  \E j \in 1 .. Len(M) : id = M[j]
      <4>1. CASE i <= b
        <5>1. i \in 1 .. b
          BY <1>4, <4>1
        <5> QED
          BY <1>6, <3>3, <5>1
      <4>2. CASE i > c
        <5>1. i - 1 \in 1 .. Len(M) /\ b < i - 1 /\ (i - 1) + 1 = i
          BY <1>2, <1>3, <1>4, <1>5, <4>2
        <5> QED
          BY <1>6, <3>3, <5>1
      <4>3. i # c
        BY <2>2, <3>3
      <4> QED
        BY <1>3, <4>1, <4>2, <4>3
    <3> QED
      BY <1>15, <3>1, <3>2, <3>3
  <2> QED
    BY <2>1, <2>2
<1>34. Len(M) = Len(L) - 1 /\ M[a] = L[a] /\ M[a + 1] = L[a + 1]
  <2>1. a \in 1 .. b /\ b \in 1 .. b
    BY <1>2, <1>4, SMTT(40)
  <2> QED
    BY <1>2, <1>4, <1>5, <1>6, <2>1
<1>35. Ordered(g, M)
  BY <1>14, <1>19, <1>25, SMTT(40) DEF Ordered, E
<1>36. Unlinked(f, g, L, K, a, k, M)
  BY <1>7, <1>14, <1>15, <1>17, <1>25, <1>27, <1>29, <1>30, <1>31, <1>32, <1>33, <1>34, <1>35, Zenon DEF Unlinked, E
<1> QED
  BY <1>36 DEF M

\* mergeLeaves3to2 keeps the tree, with a leaf less.
LEMMA MergeLeaves ==
    ASSUME NEW f, NEW L, NEW K, Tree(f, L, K), Chained(f, L),
           NEW a \in 1 .. Len(K), a + 1 \in 1 .. Len(K), ThreeToMerge(f, L, a),
           NEW g, g = MergeLeaves3to2(f, L[a], L[a + 1], L[a + 2], f.root, a)
    PROVE  \E M, J : /\ Tree(g, M, J) /\ Chained(g, M) /\ g.ok = f.ok
                     /\ Held(Lists(g, M)) = Held(Lists(f, L))
                     /\ Len(M) = Len(L) - 1
                     /\ Refilled(f, g, L, M, {a, a + 1, a + 2})
<1> DEFINE total == Size(f.pages[L[a]]) + Size(f.pages[L[a + 1]]) + Size(f.pages[L[a + 2]])
           f1 == TakeFromRightLeaf(f, L[a], L[a + 1], total \div 2 - Size(f.pages[L[a]]))
           f2 == TakeFromRightLeaf(f1, L[a + 1], L[a + 2], total - total \div 2 - Size(f1.pages[L[a + 1]]))
           f3 == MarkDeleted(SetNext(f2, L[a + 1], f2.pages[L[a + 2]].next), L[a + 2])
           k == FirstKey(f1.pages[L[a + 1]])
           f4 == SetKey(f3, f.root, a, k)
           f5 == Write(f4, f.root, RemoveFromInternal(f4.pages[f.root], a + 1))
           M == RemoveAt(L, a + 2)
           I == [K EXCEPT ![a] = k]
           J == RemoveAt(I, a + 1)
<1>1. MergeSteps(f, L, a, total, f1, f2)
  BY ZenonT(40) DEF MergeSteps
<1>2. g = Expect(f5, Size(f2.pages[L[a]]) = total \div 2 /\ Size(f2.pages[L[a + 2]]) = 0)
  BY Zenon DEF MergeLeaves3to2
<1> HIDE DEF total, f1, f2
<1>3. /\ K \in Seq(NodeKeys) /\ Len(L) = Len(K) + 1 /\ Len(K) \in Nat /\ Len(L) \in Nat
      /\ L \in Seq(Nat) /\ Ordered(f, L)
  BY DEF Tree, Frame, LeafSeq, Ordered
<1>4. /\ a \in 1 .. Len(L) /\ a + 2 \in 1 .. Len(L)
  BY <1>3
<1>5. /\ Merged(f, f2, L, a, k)
      /\ Size(f2.pages[L[a]]) = total \div 2 /\ Size(f2.pages[L[a + 2]]) = 0
  <2>1. Ordered(f, L)
    BY <1>3
  <2>2. Merged(f, f2, L, a, FirstKey(f1.pages[L[a + 1]]))
    BY <1>1, <1>4, <2>1, MergeShared
  <2>3. /\ Merged(f, f2, L, a, FirstKey(f1.pages[L[a + 1]]))
        /\ Size(f2.pages[L[a]]) = total \div 2 /\ Size(f2.pages[L[a + 2]]) = 0
    BY <1>1, <1>4, <2>1, MergeShared, SMTT(40)
  <2> QED
    BY <2>3
<1>6. g = f5
  BY <1>2, <1>5, Zenon DEF Expect
<1> HIDE DEF k
<1>7. Unlinked(f, f3, L, K, a, k, M)
  BY <1>5, MergeLinked
<1> HIDE DEF f3, M
<1>8. /\ Ordered(f3, M) /\ PagesTyped(f3) /\ RootIs(f3, L, K) /\ Chained(f3, M)
      /\ f3.ok = f.ok /\ f3.root = f.root /\ Held(Lists(f3, M)) = Held(Lists(f, L))
      /\ Len(M) = Len(L) - 1
      /\ Refilled(f, f3, L, M, {a, a + 1, a + 2})
      /\ k \in Keys /\ SeparatesAt(Lists(f3, M), a, k)
  BY <1>7 DEF Unlinked
<1>9. /\ \A i \in 1 .. Len(K) : i < a => SeparatesAt(Lists(f3, M), i, K[i])
      /\ \A i \in 1 .. Len(K) : a + 1 < i => SeparatesAt(Lists(f3, M), i - 1, K[i])
      /\ \A id \in DOMAIN f3.pages :
           f3.pages[id].deleted \/ id = f3.root \/ \E i \in 1 .. Len(M) : id = M[i]
  BY <1>7 DEF Unlinked
<1>10. f3 \in Files /\ LeafSeq(f3, M) /\ InOrder(Lists(f3, M)) /\ k \in NodeKeys /\ f4 = SetKey(f3, f3.root, a, k)
  BY <1>8 DEF Ordered, NodeKeys
<1> HIDE DEF f4
<1>11. /\ f4 \in Files /\ PagesTyped(f4) /\ RootIs(f4, L, I)
       /\ I \in Seq(NodeKeys) /\ Len(I) = Len(K)
       /\ f4.root = f3.root /\ f4.first = f3.first /\ f4.ok = f3.ok
       /\ DOMAIN f4.pages = DOMAIN f3.pages
       /\ \A i \in DOMAIN f3.pages : i # f3.root => f4.pages[i] = f3.pages[i]
  <2>0. /\ f3 \in Files /\ PagesTyped(f3) /\ K \in Seq(NodeKeys) /\ RootIs(f3, L, K)
        /\ a \in 1 .. Len(K) /\ k \in NodeKeys /\ f4 = SetKey(f3, f3.root, a, k)
    BY <1>3, <1>8, <1>10
  <2>1. /\ f4 \in Files /\ PagesTyped(f4) /\ RootIs(f4, L, I)
        /\ I \in Seq(NodeKeys) /\ Len(I) = Len(K)
    BY <2>0, SetKeyEffect
  <2>2. /\ RootIs(f4, L, I)
        /\ f4.root = f3.root /\ f4.first = f3.first /\ f4.ok = f3.ok
        /\ DOMAIN f4.pages = DOMAIN f3.pages
    BY <2>0, SetKeyEffect
  <2>3. RootIs(f4, L, I) /\ \A i \in DOMAIN f3.pages : i # f3.root => f4.pages[i] = f3.pages[i]
    BY <2>0, SetKeyEffect
  <2> QED
    BY <2>1, <2>2, <2>3
<1>12. I[a] = k /\ \A i \in 1 .. Len(K) : i # a => I[i] = K[i]
  BY <1>3
<1> HIDE DEF I
<1>13. ChildCut(f4, f5, I, a + 1, M, J)
  <2> DEFINE b == a + 1
  <2>1. /\ f4 \in Files /\ PagesTyped(f4) /\ L \in Seq(Nat) /\ I \in Seq(NodeKeys) /\ RootIs(f4, L, I)
        /\ Len(L) = Len(I) + 1 /\ b \in 1 .. Len(I)
    BY <1>3, <1>11
  <2>2. f5 = Write(f4, f4.root, RemoveFromInternal(f4.pages[f4.root], b))
    BY <1>8, <1>11
  <2>3. M = RemoveAt(L, b + 1) /\ J = RemoveAt(I, b)
    <3>1. b + 1 = a + 2
      OBVIOUS
    <3> QED
      BY <3>1 DEF M
  <2> HIDE DEF f5, b, J
  <2>4. ChildCut(f4, Write(f4, f4.root, RemoveFromInternal(f4.pages[f4.root], b)), I, b,
                 RemoveAt(L, b + 1), RemoveAt(I, b))
    BY <2>1, ChildRemoved
  <2>5. ChildCut(f4, f5, I, b, M, J)
    BY <2>2, <2>3, <2>4, Zenon
  <2> QED
    BY <2>5 DEF b
<1> HIDE DEF f5, J
<1>14. /\ f5 \in Files /\ PagesTyped(f5) /\ RootIs(f5, M, J)
       /\ f5.root = f4.root /\ f5.first = f4.first /\ f5.ok = f4.ok
       /\ DOMAIN f5.pages = DOMAIN f4.pages
       /\ \A i \in DOMAIN f4.pages : i # f4.root => f5.pages[i] = f4.pages[i]
  BY <1>13 DEF ChildCut
<1>15. /\ J \in Seq(NodeKeys) /\ Len(J) = Len(I) - 1
       /\ \A i \in 1 .. Len(I) - 1 : J[i] = IF i < a + 1 THEN I[i] ELSE I[i + 1]
  BY <1>13 DEF ChildCut
<1>16. \A i \in 1 .. Len(M) : M[i] \in DOMAIN f3.pages /\ M[i] \in DOMAIN f5.pages /\ M[i] # f3.root
                              /\ f5.pages[M[i]] = f3.pages[M[i]]
  <2>1. \A i \in 1 .. Len(M) : M[i] # f3.root /\ M[i] \in DOMAIN f3.pages
    BY <1>8, <1>10, RootIsNoLeaf
  <2> QED
    BY <1>11, <1>14, <2>1
<1> DEFINE E == Lists(f3, M)
<1>17. /\ LeafSeq(f5, M) /\ Lists(f5, M) = E
       /\ \A i \in 1 .. Len(M) : Filled(f5, M, i) = Filled(f3, M, i)
  BY <1>10, <1>14, <1>16, OtherPages
<1> HIDE DEF E
<1>18. Separated(E, J)
  <2> SUFFICES ASSUME NEW i \in 1 .. Len(J)
               PROVE  SeparatesAt(E, i, J[i])
    BY DEF Separated
  <2>1. /\ i \in 1 .. Len(K) /\ i + 1 \in 1 .. Len(K) /\ i \in 1 .. Len(I) - 1
        /\ i + 1 \in 1 .. Len(I) /\ i \in 1 .. Len(I)
    BY <1>3, <1>11, <1>15
  <2>2. CASE i < a
    <3>1. i < a + 1 /\ i # a
      BY <2>2
    <3>2. J[i] = K[i]
      BY <1>12, <1>15, <2>1, <3>1
    <3> QED
      BY <1>9, <2>1, <2>2, <3>2 DEF E
  <2>3. CASE i = a
    <3>1. i < a + 1
      BY <2>3
    <3>2. J[i] = k
      BY <1>12, <1>15, <2>1, <2>3, <3>1
    <3> QED
      BY <1>8, <2>3, <3>2 DEF E
  <2>4. CASE i > a
    <3>1. ~(i < a + 1) /\ i + 1 # a /\ a + 1 < i + 1 /\ (i + 1) - 1 = i
      BY <2>1, <2>4
    <3>2. J[i] = K[i + 1]
      BY <1>12, <1>15, <2>1, <3>1
    <3>3. SeparatesAt(E, (i + 1) - 1, K[i + 1])
      BY <1>9, <2>1, <3>1 DEF E
    <3> QED
      BY <3>1, <3>2, <3>3
  <2> QED
    BY <2>1, <2>2, <2>3, <2>4
<1>19. Frame(f5, M, J)
  <2>1. \A id \in DOMAIN f5.pages :
          f5.pages[id].deleted \/ id = f5.root \/ \E i \in 1 .. Len(M) : id = M[i]
    BY <1>9, <1>11, <1>14
  <2>2. Len(M) = Len(J) + 1 /\ Len(M) > 1
    BY <1>3, <1>8, <1>11, <1>15
  <2> QED
    BY <1>14, <1>15, <1>17, <2>1, <2>2, RootFrame
<1>20. InOrder(E) /\ Held(E) = Held(Lists(f, L))
  BY <1>8, <1>10 DEF E
<1>21. Tree(f5, M, J)
  BY <1>17, <1>18, <1>19, <1>20 DEF Tree
<1>22. Chained(f5, M) /\ f5.ok = f.ok
  <2>1. f5.first = f3.first /\ f5.ok = f.ok
    BY <1>8, <1>11, <1>14
  <2>2. \A i \in 1 .. Len(M) : f5.pages[M[i]].next = f3.pages[M[i]].next
    BY <1>16
  <2> QED
    BY <1>8, <2>1, <2>2 DEF Chained
<1>23. Refilled(f, f5, L, M, {a, a + 1, a + 2})
  BY <1>8, <1>17 DEF Refilled
<1>24. Held(Lists(f5, M)) = Held(Lists(f, L))
  BY <1>17, <1>20
<1> QED
  BY <1>6, <1>8, <1>21, <1>22, <1>23, <1>24
-----------------------------------------------------------------------------
(* Two leaves become the root, or the call fails. *)

\* A tree of one leaf.
LEMMA OneLeafTree ==
    ASSUME NEW f \in Files, PagesTyped(f), NEW l, l \in DOMAIN f.pages, l \in Nat,
           f.pages[l].isLeaf, ~f.pages[l].deleted, Ascending(f.pages[l].entries),
           f.root = l, \A id \in DOMAIN f.pages : f.pages[id].deleted \/ id = l
    PROVE  /\ Tree(f, <<l>>, <<>>)
           /\ Held(Lists(f, <<l>>)) = Range(f.pages[l].entries)
           /\ Filled(f, <<l>>, 1) = Len(f.pages[l].entries)
           /\ f.first = l /\ f.pages[l].next = None => Chained(f, <<l>>)
<1>1. <<l>> \in Seq(Nat) /\ Len(<<l>>) = 1 /\ <<l>>[1] = l /\ \A i \in 1 .. Len(<<l>>) : i = 1
  OBVIOUS
<1>2. <<>> \in Seq(NodeKeys) /\ Len(<<>>) = 0
  OBVIOUS
<1> DEFINE L == <<l>>
           K == <<>>
<1> HIDE DEF L, K
<1>3. L \in Seq(Nat) /\ Len(L) = 1 /\ L[1] = l /\ \A i \in 1 .. Len(L) : i = 1
  BY <1>1 DEF L
<1>4. K \in Seq(NodeKeys) /\ Len(K) = 0
  BY <1>2 DEF K
<1>5. LeafSeq(f, L)
  BY <1>3 DEF LeafSeq
<1>6. /\ Lists(f, L) \in Seq(Entries) /\ Len(Lists(f, L)) = 1
      /\ Lists(f, L)[1] = f.pages[l].entries
  BY <1>3, <1>5, ListsTyped
<1>7. InOrder(Lists(f, L))
  <2>1. \A i, j \in 1 .. Len(Lists(f, L)) : i = 1 /\ j = 1 /\ ~(i < j)
    BY <1>6
  <2> QED
    BY <1>6, <2>1 DEF InOrder
<1>8. Separated(Lists(f, L), K)
  BY <1>4 DEF Separated
<1>9. Frame(f, L, K)
  <2>1. Len(L) = Len(K) + 1 /\ ~(Len(L) > 1)
    BY <1>3, <1>4
  <2>2. \A id \in DOMAIN f.pages : f.pages[id].deleted \/ id = f.root \/ \E i \in 1 .. Len(L) : id = L[i]
    OBVIOUS
  <2> QED
    BY <1>3, <1>4, <1>5, <2>1, <2>2 DEF Frame
<1>10. Held(Lists(f, L)) = Range(f.pages[l].entries)
  <2>1. \A x : x \in Held(Lists(f, L)) <=> x \in Range(f.pages[l].entries)
    BY <1>6, HeldMembership
  <2> QED
    BY <2>1
<1>11. Filled(f, L, 1) = Len(f.pages[l].entries)
  BY <1>3 DEF Filled
<1>12. f.first = l /\ f.pages[l].next = None => Chained(f, L)
  BY <1>3 DEF Chained
<1>13. Tree(f, L, K)
  BY <1>7, <1>8, <1>9 DEF Tree
<1> QED
  BY <1>10, <1>11, <1>12, <1>13 DEF L, K

\* mergeLeaves2to1 makes a tree of one leaf, when the two fit into it.
LEMMA MergeIntoRoot ==
    ASSUME NEW f, NEW L, NEW K, Tree(f, L, K), Chained(f, L), Len(L) = 2,
           Filled(f, L, 1) + Filled(f, L, 2) <= MAX_KEYS_LEAF,
           NEW g, g = MergeLeaves2to1(f, L[1], L[2], f.root)
    PROVE  \E l : /\ Tree(g, <<l>>, <<>>) /\ Chained(g, <<l>>) /\ g.ok = f.ok
                  /\ Held(Lists(g, <<l>>)) = Held(Lists(f, L))
                  /\ Filled(g, <<l>>, 1) = Filled(f, L, 1) + Filled(f, L, 2)
<1> DEFINE l == L[1]
           r == L[2]
           m == TakeFromRightLeaf(f, l, r, Size(f.pages[r]))
           h == SetNext(m, l, None)
           f1 == MarkDeleted(h, r)
           f2 == MarkDeleted(f1, f.root)
<1>1. /\ f \in Files /\ PagesTyped(f) /\ LeafSeq(f, L) /\ RootIs(f, L, K) /\ Ordered(f, L) /\ L \in Seq(Nat)
  <2>1. Frame(f, L, K) /\ Len(L) > 1
    BY DEF Tree
  <2>2. /\ f \in Files /\ PagesTyped(f) /\ LeafSeq(f, L) /\ RootIs(f, L, K)
    BY <2>1, FrameRoot
  <2> QED
    BY <2>2 DEF Tree, Ordered, LeafSeq
<1>2. PICK x \in Nat, z \in Nat : x = Filled(f, L, 1) /\ z = Filled(f, L, 2)
                                  /\ x = Size(f.pages[l]) /\ z = Size(f.pages[r])
  <2>1. 1 \in 1 .. Len(L) /\ 2 \in 1 .. Len(L)
    OBVIOUS
  <2> QED
    BY <1>1, <2>1, FilledTyped, ZenonT(40)
<1>3. x + z <= MAX_KEYS_LEAF /\ MAX_KEYS_LEAF \in Nat
  BY <1>2, SizesTyped
<1>4. f.pages[r].next = None
  BY DEF Chained
<1>5. g = [f2 EXCEPT !.root = l]
  <2>1. Size(f.pages[l]) + Size(f.pages[r]) <= MAX_KEYS_LEAF
    BY <1>2, <1>3
  <2> QED
    BY <1>4, <2>1 DEF MergeLeaves2to1
<1>6. Shared(f, m, L, 1, x + z)
  <2> DEFINE a == 1
  <2>1. /\ a \in 1 .. Len(L) /\ a + 1 \in 1 .. Len(L) /\ L[a] = l /\ L[a + 1] = r
        /\ Filled(f, L, a) = x /\ Filled(f, L, a + 1) = z
    BY <1>2
  <2>2. m = TakeFromRightLeaf(f, l, r, z)
    BY <1>2
  <2> HIDE DEF a, l, r, m
  <2>3. z \in 0 .. Filled(f, L, a + 1) /\ Filled(f, L, a) + z <= MAX_KEYS_LEAF
    BY <1>3, <2>1
  <2>4. m = TakeFromRightLeaf(f, L[a], L[a + 1], z)
    BY <2>1, <2>2
  <2>5. Shared(f, m, L, a, Filled(f, L, a) + z)
    BY <1>1, <2>1, <2>3, <2>4, TakeFromRight
  <2> QED
    BY <2>1, <2>5 DEF a
<1> HIDE DEF m
<1>7. /\ SameButEntries(f, m) /\ Ordered(m, L) /\ Held(Lists(m, L)) = Held(Lists(f, L))
      /\ Filled(m, L, 1) = x + z /\ Filled(m, L, 2) = 0
  <2>1. /\ SameButEntries(f, m) /\ Ordered(m, L) /\ Held(Lists(m, L)) = Held(Lists(f, L))
        /\ Filled(m, L, 1) = x + z
        /\ Filled(m, L, 1 + 1) = Filled(f, L, 1) + Filled(f, L, 1 + 1) - (x + z)
    BY <1>6 DEF Shared
  <2>2. Filled(m, L, 2) = x + z - (x + z)
    BY <1>2, <2>1
  <2> QED
    BY <2>1, <2>2
<1>8. PagesTyped(m) /\ RootIs(m, L, K) /\ m \in Files /\ LeafSeq(m, L) /\ m.root = f.root
      /\ m.first = f.first /\ m.ok = f.ok /\ DOMAIN m.pages = DOMAIN f.pages
      /\ \A i \in DOMAIN f.pages : m.pages[i].deleted = f.pages[i].deleted
  <2>1. PagesTyped(m) /\ RootIs(m, L, K)
    BY <1>1, <1>7, EntriesKeepRoot
  <2> QED
    BY <1>7, <2>1 DEF Ordered, SameButEntries
<1>9. l \in DOMAIN m.pages /\ r \in DOMAIN m.pages /\ l # r /\ l # m.root /\ r # m.root /\ l \in Nat
      /\ m.root \in DOMAIN m.pages /\ m.pages[l].isLeaf /\ ~m.pages[l].deleted
  <2>1. 1 \in 1 .. Len(L) /\ 2 \in 1 .. Len(L) /\ 1 # 2
    OBVIOUS
  <2>2. l # m.root /\ r # m.root /\ m.root \in DOMAIN m.pages
    BY <1>8, <2>1, RootIsNoLeaf DEF RootIs
  <2>3. \A i, j \in 1 .. Len(L) : L[i] = L[j] => i = j
    BY <1>1 DEF LeafSeq
  <2>4. l # r
    BY <2>1, <2>3
  <2>5. l \in DOMAIN m.pages /\ m.pages[l].isLeaf /\ ~m.pages[l].deleted /\ r \in DOMAIN m.pages
    BY <1>8, <2>1, FilledTyped
  <2>6. l \in Nat
    BY <1>1, <2>1, SMTT(40)
  <2> QED
    BY <2>2, <2>4, <2>5, <2>6
<1> DEFINE e == m.pages[l].entries
<1>10. Ascending(e) /\ Range(e) = Held(Lists(f, L)) /\ Len(e) = x + z
  <2>1. /\ Lists(m, L) \in Seq(Entries) /\ Len(Lists(m, L)) = 2
        /\ Lists(m, L)[1] = e /\ Lists(m, L)[2] = m.pages[r].entries
    BY <1>8, ListsTyped
  <2>2. Len(m.pages[r].entries) = 0 /\ Len(e) = x + z
    BY <1>7 DEF Filled
  <2>3. m.pages[r].entries \in Entries /\ e \in Entries
    BY <1>8, <1>9, FileTyped, NodeTyped
  <2>4. Lists(m, L)[2] = <<>>
    BY <2>1, <2>2, <2>3, EmptySeq DEF Entries
  <2>5. Ascending(e)
    BY <1>7, <2>1 DEF Ordered, InOrder
  <2>6. Held(Lists(m, L)) = Range(e)
    BY <2>1, <2>3, <2>4, <2>5, EmptyNeighbour
  <2> QED
    BY <1>7, <2>2, <2>5, <2>6
<1> HIDE DEF l, r, h, f1, f2
<1>11. /\ h \in Files /\ PagesTyped(h) /\ SameButLinks(m, h) /\ h.pages[l].next = None
       /\ \A i \in DOMAIN m.pages : i # l => h.pages[i] = m.pages[i]
  BY <1>8, <1>9, SetNextEffect DEF h
<1>12. /\ h.root = m.root /\ h.first = m.first /\ h.ok = m.ok /\ DOMAIN h.pages = DOMAIN m.pages
       /\ h.pages[l].isLeaf /\ ~h.pages[l].deleted /\ h.pages[l].entries = e
       /\ \A i \in DOMAIN m.pages : h.pages[i].deleted = m.pages[i].deleted
  BY <1>9, <1>11 DEF SameButLinks
<1>13. /\ f1 \in Files /\ PagesTyped(f1)
       /\ f1.root = m.root /\ f1.first = m.first /\ f1.ok = m.ok
       /\ DOMAIN f1.pages = DOMAIN m.pages /\ f1.pages[r].deleted
       /\ \A i \in DOMAIN m.pages : i # r => f1.pages[i] = h.pages[i]
  <2>1. h \in Files /\ PagesTyped(h) /\ r \in DOMAIN h.pages /\ f1 = MarkDeleted(h, r)
    BY <1>9, <1>11, <1>12 DEF f1
  <2>2. /\ f1 \in Files /\ PagesTyped(f1)
        /\ f1.root = h.root /\ f1.first = h.first /\ f1.ok = h.ok
        /\ DOMAIN f1.pages = DOMAIN h.pages /\ f1.pages[r].deleted
        /\ \A i \in DOMAIN h.pages : i # r => f1.pages[i] = h.pages[i]
    BY <2>1, MarkDeletedEffect
  <2> QED
    BY <1>12, <2>2
<1>14. /\ f2 \in Files /\ PagesTyped(f2)
       /\ f2.first = m.first /\ f2.ok = m.ok
       /\ DOMAIN f2.pages = DOMAIN m.pages /\ f2.pages[m.root].deleted
       /\ \A i \in DOMAIN m.pages : i # m.root => f2.pages[i] = f1.pages[i]
  <2>1. f1 \in Files /\ PagesTyped(f1) /\ m.root \in DOMAIN f1.pages /\ f2 = MarkDeleted(f1, m.root)
    BY <1>8, <1>9, <1>13 DEF f2
  <2>2. /\ f2 \in Files /\ PagesTyped(f2)
        /\ f2.first = f1.first /\ f2.ok = f1.ok
        /\ DOMAIN f2.pages = DOMAIN f1.pages /\ f2.pages[m.root].deleted
        /\ \A i \in DOMAIN f1.pages : i # m.root => f2.pages[i] = f1.pages[i]
    BY <2>1, MarkDeletedEffect
  <2> QED
    BY <1>13, <2>2
<1>15. /\ g \in Files /\ g.pages = f2.pages /\ g.root = l /\ g.first = f.first /\ g.ok = f.ok
  <2>1. /\ f2.pages \in Seq(Node) /\ f2.first \in Int /\ f2.ok \in BOOLEAN /\ l \in Int
        /\ f2.first = f.first /\ f2.ok = f.ok
    BY <1>8, <1>9, <1>14, FileTyped
  <2>2. f2 = [pages |-> f2.pages, root |-> f2.root, first |-> f2.first, ok |-> f2.ok]
    BY <1>14 DEF Files
  <2>3. g = [f2 EXCEPT !.root = l]
    BY <1>5
  <2> HIDE DEF f2, l
  <2>4. g = [pages |-> f2.pages, root |-> l, first |-> f2.first, ok |-> f2.ok]
    BY <2>2, <2>3
  <2> QED
    BY <2>1, <2>4 DEF Files
<1>16. PagesTyped(g)
  BY <1>14, <1>15 DEF PagesTyped
<1>17. g.pages[l] = h.pages[l] /\ l \in DOMAIN g.pages
  BY <1>9, <1>13, <1>14, <1>15
<1>18. \A id \in DOMAIN g.pages : g.pages[id].deleted \/ id = l
  <2> TAKE id \in DOMAIN g.pages
  <2>1. CASE id = m.root
    BY <1>14, <1>15, <2>1
  <2>2. CASE id = r
    BY <1>9, <1>13, <1>14, <1>15, <2>2
  <2>3. CASE id # m.root /\ id # r /\ id # l
    <3>1. id \in DOMAIN m.pages /\ g.pages[id].deleted = m.pages[id].deleted
      BY <1>12, <1>13, <1>14, <1>15, <2>3
    <3>2. \A i \in 1 .. Len(L) : L[i] \in {l, r}
      BY DEF l, r
    <3>3. m.pages[id].deleted
      <4>1. f.pages[id].deleted \/ id = f.root \/ \E i \in 1 .. Len(L) : id = L[i]
        BY <1>8, <3>1 DEF Tree, Frame
      <4> QED
        BY <1>8, <2>3, <3>1, <3>2, <4>1
    <3> QED
      BY <3>1, <3>3
  <2> QED
    BY <2>1, <2>2, <2>3
<1>19. g.first = l /\ g.pages[l].next = None
  BY <1>11, <1>15, <1>17 DEF Chained, l
<1>20. /\ g.pages[l].isLeaf /\ ~g.pages[l].deleted /\ g.pages[l].entries = e
  BY <1>12, <1>17
<1> HIDE DEF e
<1>21. Tree(g, <<l>>, <<>>)
  BY <1>9, <1>10, <1>15, <1>16, <1>17, <1>18, <1>20, OneLeafTree
<1>22. /\ Tree(g, <<l>>, <<>>) /\ Held(Lists(g, <<l>>)) = Range(e) /\ Filled(g, <<l>>, 1) = Len(e)
       /\ Chained(g, <<l>>)
  BY <1>9, <1>10, <1>15, <1>16, <1>17, <1>18, <1>19, <1>20, OneLeafTree
<1> QED
  BY <1>2, <1>10, <1>15, <1>22
-----------------------------------------------------------------------------
(* The sizes of leaves *)

\* What a leaf must hold at least, in a tree of n leaves.
Least(n) == IF n = 1 THEN 1 ELSE IF n = 2 THEN MAX_KEYS_LEAF \div 2 ELSE MIN_KEYS_LEAF

Sized(f, L) ==
    /\ Len(L) <= MAX_KEYS_INTERNAL + 1
    /\ \A i \in 1 .. Len(L) : Least(Len(L)) <= Filled(f, L, i) /\ Filled(f, L, i) <= MAX_KEYS_LEAF

\* Two leaves that do not find room in one.
Stuck(f, L) == Len(L) = 2 /\ Filled(f, L, 1) + Filled(f, L, 2) > MAX_KEYS_LEAF

\* The tree holds the entries X.
Whole(f, L, K, X) ==
    /\ Tree(f, L, K) /\ Chained(f, L) /\ Held(Lists(f, L)) = X /\ Sized(f, L)
    /\ f.ok \/ Stuck(f, L)

\* What an operation leaves behind: a tree that holds X, or one of height 3.
Balanced(f, X) == High(f) \/ \E L, K : Whole(f, L, K, X)

\* The least size of a leaf, beside the sizes the code has names for.
LEMMA LeastBounds ==
    ASSUME NEW n \in Nat
    PROVE  /\ Least(n) \in Nat /\ 1 <= Least(n) /\ Least(n) <= MIN_KEYS_LEAF
           /\ MIN_KEYS_LEAF \in Nat /\ MAX_KEYS_LEAF \in Nat /\ MAX_KEYS_INTERNAL \in Nat
           /\ MIN_KEYS_LEAF < MAX_KEYS_LEAF
<1>1. PICK max \in Nat, min \in Nat, half \in Nat :
        /\ max = MAX_KEYS_LEAF /\ min = MIN_KEYS_LEAF /\ half = MAX_KEYS_LEAF \div 2
        /\ max >= 3 /\ 3 * min <= 2 * max + 1 /\ 2 * max + 1 <= 3 * min + 2
        /\ 2 * half <= max /\ max <= 2 * half + 1
  BY SizesTyped
<1>2. 1 <= half /\ half <= min /\ 1 <= min /\ min < max
  BY <1>1
<1>3. Least(n) \in {1, half, min}
  BY <1>1 DEF Least
<1>4. MAX_KEYS_INTERNAL \in Nat
  BY TreeAssumption DEF MAX_KEYS_INTERNAL
<1> QED
  BY <1>1, <1>2, <1>3, <1>4

\* The leaves of a tree.
LEMMA TreeLeaves ==
    ASSUME NEW f, NEW L, NEW K, Tree(f, L, K)
    PROVE  /\ f \in Files /\ LeafSeq(f, L) /\ PagesTyped(f) /\ Ordered(f, L)
           /\ Len(L) \in Nat /\ Len(L) >= 1 /\ Len(K) \in Nat /\ Len(L) = Len(K) + 1
           /\ \A i \in 1 .. Len(L) : Filled(f, L, i) \in Nat
<1>1. f \in Files /\ LeafSeq(f, L) /\ PagesTyped(f) /\ InOrder(Lists(f, L)) /\ K \in Seq(NodeKeys)
      /\ Len(L) = Len(K) + 1 /\ Len(L) \in Nat
  BY DEF Tree, Frame, LeafSeq
<1>2. \A i \in 1 .. Len(L) : Filled(f, L, i) \in Nat
  BY <1>1, FilledTyped
<1>3. Len(K) \in Nat
  BY <1>1
<1> QED
  BY <1>1, <1>2, <1>3 DEF Ordered

\* The leaves that had a part in a split or a merge are as full as any must be,
\* the others were before.
LEMMA RefilledSized ==
    ASSUME NEW f, NEW g, NEW L, NEW M, NEW J, NEW T, Refilled(f, g, L, M, T), Tree(g, M, J),
           Len(M) <= MAX_KEYS_INTERNAL + 1,
           \A j \in 1 .. Len(L) :
             j \notin T => MIN_KEYS_LEAF <= Filled(f, L, j) /\ Filled(f, L, j) <= MAX_KEYS_LEAF
    PROVE  Sized(g, M)
<1>1. Len(M) \in Nat /\ \A i \in 1 .. Len(M) : Filled(g, M, i) \in Nat
  BY TreeLeaves
<1>2. Least(Len(M)) <= MIN_KEYS_LEAF /\ Least(Len(M)) \in Nat /\ MIN_KEYS_LEAF \in Nat
  BY <1>1, LeastBounds
<1>3. \A i \in 1 .. Len(M) : MIN_KEYS_LEAF <= Filled(g, M, i) /\ Filled(g, M, i) <= MAX_KEYS_LEAF
  BY DEF Refilled
<1>4. \A i \in 1 .. Len(M) : Least(Len(M)) <= Filled(g, M, i)
  BY <1>1, <1>2, <1>3
<1> QED
  BY <1>3, <1>4 DEF Sized

\* The chain depends on the links alone.
LEMMA LinksKeepChain ==
    ASSUME NEW f, NEW g, NEW L, SameLinks(f, g, L), Chained(f, L)
    PROVE  Chained(g, L) /\ g.ok = f.ok
BY DEF SameLinks, Chained

\* A redistribution between the leaves a and a + 1.
LEMMA Redistributed ==
    ASSUME NEW f, NEW L, NEW K, Tree(f, L, K), Chained(f, L), f.ok,
           Len(L) <= MAX_KEYS_INTERNAL + 1, NEW a \in 1 .. Len(K),
           \A i \in 1 .. Len(L) :
             i \notin {a, a + 1} => Least(Len(L)) <= Filled(f, L, i) /\ Filled(f, L, i) <= MAX_KEYS_LEAF,
           2 * Least(Len(L)) <= Filled(f, L, a) + Filled(f, L, a + 1),
           Filled(f, L, a) + Filled(f, L, a + 1) <= 2 * MAX_KEYS_LEAF,
           NEW g, g = Redistribute2to2(f, L[a], L[a + 1], f.root, a)
    PROVE  Balanced(g, Held(Lists(f, L)))
<1>1. /\ Len(L) \in Nat /\ Len(K) \in Nat /\ Len(L) = Len(K) + 1
      /\ \A i \in 1 .. Len(L) : Filled(f, L, i) \in Nat
  BY TreeLeaves
<1>2. a \in 1 .. Len(L) /\ a + 1 \in 1 .. Len(L) /\ Len(L) > 1
  BY <1>1
<1>3. PICK x \in Nat, y \in Nat, low \in Nat, max \in Nat :
        /\ x = Filled(f, L, a) /\ y = Filled(f, L, a + 1)
        /\ low = Least(Len(L)) /\ max = MAX_KEYS_LEAF /\ 1 <= low
        /\ 2 * low <= x + y /\ x + y <= 2 * max
  BY <1>1, <1>2, LeastBounds
<1>4. 2 <= x + y
  BY <1>3, SMTT(40)
<1>5. /\ Frame(f, L, K) /\ InOrder(Lists(f, L))
      /\ \A i \in 1 .. Len(K) : SeparatesAt(Lists(f, L), i, K[i])
  BY DEF Tree, Separated
<1>6. /\ \E J : Tree(g, L, J)
      /\ SameLinks(f, g, L) /\ Held(Lists(g, L)) = Held(Lists(f, L)) /\ Halved(f, g, L, a)
  BY <1>2, <1>3, <1>4, <1>5, RedistributeTwo
<1>7. PICK J : Tree(g, L, J)
  BY <1>6
<1>8. /\ Filled(g, L, a) = (x + y) \div 2 /\ Filled(g, L, a + 1) = x + y - (x + y) \div 2
      /\ \A i \in 1 .. Len(L) : i \notin {a, a + 1} => Filled(g, L, i) = Filled(f, L, i)
  BY <1>3, <1>6 DEF Halved
<1>9. /\ low <= (x + y) \div 2 /\ (x + y) \div 2 <= max
      /\ low <= x + y - (x + y) \div 2 /\ x + y - (x + y) \div 2 <= max
  <2>1. PICK t \in Nat : t = x + y /\ 2 * low <= t /\ t <= 2 * max
    BY <1>3, SMTT(40)
  <2>2. PICK h \in Nat : h = t \div 2 /\ 2 * h <= t /\ t <= 2 * h + 1
    BY <2>1
  <2>3. low <= h /\ h <= max /\ low <= t - h /\ t - h <= max
    BY <2>1, <2>2
  <2> QED
    BY <2>1, <2>2, <2>3
<1>10. \A i \in 1 .. Len(L) : Least(Len(L)) <= Filled(g, L, i) /\ Filled(g, L, i) <= MAX_KEYS_LEAF
  BY <1>3, <1>8, <1>9
<1>11. Sized(g, L)
  BY <1>10 DEF Sized
<1>12. Chained(g, L) /\ g.ok
  BY <1>6, LinksKeepChain
<1> QED
  BY <1>6, <1>7, <1>11, <1>12 DEF Balanced, Whole

\* The leaves other than those in T are as full as they must be.
OthersSized(f, L, T) ==
    /\ Len(L) <= MAX_KEYS_INTERNAL + 1
    /\ \A i \in 1 .. Len(L) :
         i \notin T => Least(Len(L)) <= Filled(f, L, i) /\ Filled(f, L, i) <= MAX_KEYS_LEAF

\* A split of the leaves a and a + 1.
LEMMA SplitBalanced ==
    ASSUME NEW f, NEW L, NEW K, Tree(f, L, K), Chained(f, L), f.ok, NEW a \in 1 .. Len(K),
           FullPair(f, L, a), OthersSized(f, L, {a, a + 1}),
           NEW g, g = SplitLeaves2to3(f, L[a], L[a + 1], f.root, a)
    PROVE  Balanced(g, Held(Lists(f, L)))
<1>1. /\ Len(L) \in Nat /\ Len(K) \in Nat /\ Len(L) = Len(K) + 1
      /\ \A i \in 1 .. Len(L) : Filled(f, L, i) \in Nat
  BY TreeLeaves
<1>2. PICK low \in Nat, min \in Nat, max \in Nat :
        /\ low = Least(Len(L)) /\ min = MIN_KEYS_LEAF /\ max = MAX_KEYS_LEAF
        /\ 1 <= low /\ low <= min /\ min < max
  BY <1>1, LeastBounds
<1>3. \A i \in 1 .. Len(L) : Filled(f, L, i) # 0
  <2>1. a \in 1 .. Len(L) /\ a + 1 \in 1 .. Len(L)
    BY <1>1
  <2>2. max <= Filled(f, L, a) /\ max <= Filled(f, L, a + 1)
    BY <1>2 DEF FullPair
  <2>3. \A i \in 1 .. Len(L) : i \in {a, a + 1} => Filled(f, L, i) # 0
    BY <1>1, <1>2, <2>1, <2>2
  <2>4. \A i \in 1 .. Len(L) : i \notin {a, a + 1} => Filled(f, L, i) # 0
    BY <1>1, <1>2 DEF OthersSized
  <2> QED
    BY <2>3, <2>4
<1>4. \/ High(g)
      \/ \E M, J : /\ Tree(g, M, J) /\ Chained(g, M) /\ g.ok = f.ok
                   /\ Held(Lists(g, M)) = Held(Lists(f, L))
                   /\ Len(M) = Len(L) + 1 /\ Len(J) <= MAX_KEYS_INTERNAL
                   /\ Refilled(f, g, L, M, {a, a + 1})
  BY <1>3, SplitLeaves
<1>5. SUFFICES ASSUME NEW M, NEW J, Tree(g, M, J), Chained(g, M), g.ok = f.ok,
                      Held(Lists(g, M)) = Held(Lists(f, L)),
                      Len(J) <= MAX_KEYS_INTERNAL, Refilled(f, g, L, M, {a, a + 1})
               PROVE  Balanced(g, Held(Lists(f, L)))
  BY <1>4 DEF Balanced
<1>6. Len(M) <= MAX_KEYS_INTERNAL + 1
  <2>1. Len(J) \in Nat /\ Len(M) = Len(J) + 1 /\ Len(J) <= MAX_KEYS_INTERNAL
    BY <1>5, TreeLeaves
  <2>2. MAX_KEYS_INTERNAL \in Nat
    BY TreeAssumption DEF MAX_KEYS_INTERNAL
  <2> QED
    BY <2>1, <2>2
<1>7. \A j \in 1 .. Len(L) : j \notin {a, a + 1} =>
        MIN_KEYS_LEAF <= Filled(f, L, j) /\ Filled(f, L, j) <= MAX_KEYS_LEAF
  <2> SUFFICES ASSUME NEW j \in 1 .. Len(L), j \notin {a, a + 1}
               PROVE  MIN_KEYS_LEAF <= Filled(f, L, j) /\ Filled(f, L, j) <= MAX_KEYS_LEAF
    OBVIOUS
  <2>1. Len(L) # 1 /\ Len(L) # 2
    BY <1>1
  <2>2. Least(Len(L)) = MIN_KEYS_LEAF
    BY <2>1 DEF Least
  <2> QED
    BY <2>2 DEF OthersSized
<1>8. Sized(g, M)
  BY <1>5, <1>6, <1>7, RefilledSized
<1> QED
  BY <1>5, <1>8 DEF Balanced, Whole

\* The tree of one leaf: its root.
LEMMA OneLeaf ==
    ASSUME NEW f, NEW L, NEW K, Tree(f, L, K), Len(L) = 1
    PROVE  f.root = L[1] /\ L = <<L[1]>> /\ K = <<>>
<1>1. L \in Seq(Nat) /\ K \in Seq(NodeKeys) /\ Len(L) = Len(K) + 1 /\ f.root = L[1]
  BY DEF Tree, Frame, LeafSeq
<1>2. L = <<L[1]>>
  BY <1>1
<1>3. Len(K) = 0
  <2>1. Len(K) \in Nat
    BY <1>1
  <2> QED
    BY <1>1, <2>1, SMTT(40)
<1> QED
  BY <1>1, <1>2, <1>3

\* A leaf of several is a child of the root.
LEMMA ChildLeaf ==
    ASSUME NEW f, NEW L, NEW K, Tree(f, L, K), Len(L) > 1, NEW c \in 1 .. Len(L)
    PROVE  /\ f.pages[f.root].children = L /\ L[c] # f.root
           /\ f.pages[L[c]].isLeaf /\ Size(f.pages[L[c]]) = Filled(f, L, c)
<1>1. f \in Files /\ LeafSeq(f, L) /\ RootIs(f, L, K)
  BY FrameRoot DEF Tree
<1> QED
  BY <1>1, RootIsNoLeaf, FilledTyped DEF RootIs

\* What SplitRootLeaf says.
RootSplit(f, g, id) ==
    \E M, J : /\ Tree(g, M, J) /\ Chained(g, M) /\ Len(M) = 2 /\ g.ok = f.ok
              /\ Held(Lists(g, M)) = Held(Lists(f, <<id>>))
              /\ Filled(g, M, 1) = PHYS_SIZE_LEAF \div 2
              /\ Filled(g, M, 2) = PHYS_SIZE_LEAF - PHYS_SIZE_LEAF \div 2

\* The root is a leaf that overflows.
LEMMA LeafSplit ==
    ASSUME NEW f, NEW id, Tree(f, <<id>>, <<>>), Chained(f, <<id>>),
           Filled(f, <<id>>, 1) = PHYS_SIZE_LEAF,
           NEW g, g = SplitLeaf1to2(f, id)
    PROVE  RootSplit(f, g, id)
BY SplitRootLeaf, ZenonT(40) DEF RootSplit

\* handle_leaf_overflow
LEMMA OverflowHandled ==
    ASSUME NEW f, NEW L, NEW K, Tree(f, L, K), Chained(f, L), f.ok, NEW c \in 1 .. Len(L),
           Filled(f, L, c) = MAX_KEYS_LEAF + 1, OthersSized(f, L, {c}),
           NEW parent, NEW i, Len(L) > 1 => parent = f.root /\ i = c,
           NEW g, g = HandleLeafOverflow(f, L[c], parent, i)
    PROVE  Balanced(g, Held(Lists(f, L)))
<1>1. /\ Len(L) \in Nat /\ Len(L) >= 1 /\ Len(K) \in Nat /\ Len(L) = Len(K) + 1
      /\ \A j \in 1 .. Len(L) : Filled(f, L, j) \in Nat
  BY TreeLeaves
<1>2. PICK low \in Nat, min \in Nat, max \in Nat :
        /\ low = Least(Len(L)) /\ min = MIN_KEYS_LEAF /\ max = MAX_KEYS_LEAF
        /\ 1 <= low /\ low <= min /\ min < max
  BY <1>1, LeastBounds
<1>3. CASE Len(L) = 1
  <2>1. L[c] = f.root /\ L = <<f.root>> /\ K = <<>> /\ c = 1
    BY <1>1, <1>3, OneLeaf
  <2>2. g = SplitLeaf1to2(f, f.root)
    BY <2>1 DEF HandleLeafOverflow
  <2>3. Filled(f, <<f.root>>, 1) = PHYS_SIZE_LEAF
    <3>1. MAX_KEYS_LEAF + 1 = PHYS_SIZE_LEAF
      BY TreeAssumption DEF MAX_KEYS_LEAF
    <3> QED
      BY <2>1, <3>1
  <2>4. Tree(f, <<f.root>>, <<>>) /\ Chained(f, <<f.root>>)
    BY <2>1
  <2>5. PICK M, J : /\ Tree(g, M, J) /\ Chained(g, M) /\ Len(M) = 2 /\ g.ok = f.ok
                    /\ Held(Lists(g, M)) = Held(Lists(f, <<f.root>>))
                    /\ Filled(g, M, 1) = PHYS_SIZE_LEAF \div 2
                    /\ Filled(g, M, 2) = PHYS_SIZE_LEAF - PHYS_SIZE_LEAF \div 2
    <3>1. PICK id : id = f.root
      OBVIOUS
    <3>2. /\ Tree(f, <<id>>, <<>>) /\ Chained(f, <<id>>) /\ Filled(f, <<id>>, 1) = PHYS_SIZE_LEAF
          /\ g = SplitLeaf1to2(f, id)
      BY <2>2, <2>3, <2>4, <3>1
    <3>3. RootSplit(f, g, id)
      BY <3>2, LeafSplit
    <3> QED
      BY <3>1, <3>3 DEF RootSplit
  <2>6. Sized(g, M)
    <3>1. PICK p \in Nat, half \in Nat, other \in Nat :
            /\ p = PHYS_SIZE_LEAF /\ half = PHYS_SIZE_LEAF \div 2 /\ p >= 4
            /\ other = MAX_KEYS_LEAF \div 2 /\ MAX_KEYS_LEAF = p - 1
            /\ 2 * half <= p /\ p <= 2 * half + 1 /\ 2 * other <= p - 1
      <4>1. PHYS_SIZE_LEAF \in Nat /\ PHYS_SIZE_LEAF >= 4 /\ MAX_KEYS_LEAF = PHYS_SIZE_LEAF - 1
        BY TreeAssumption DEF MAX_KEYS_LEAF
      <4>2. /\ PHYS_SIZE_LEAF \div 2 \in Nat /\ 2 * (PHYS_SIZE_LEAF \div 2) <= PHYS_SIZE_LEAF
            /\ PHYS_SIZE_LEAF <= 2 * (PHYS_SIZE_LEAF \div 2) + 1
        BY <4>1
      <4> QED
        BY <4>1, <4>2, SizesTyped
    <3>2. other <= half /\ half <= p - 1 /\ other <= p - half /\ p - half <= p - 1
      BY <3>1
    <3>3. Least(Len(M)) = other
      BY <2>5, <3>1 DEF Least
    <3>4. \A j \in 1 .. Len(M) : j = 1 \/ j = 2
      BY <2>5
    <3>5. Len(M) <= MAX_KEYS_INTERNAL + 1
      BY <2>5, TreeAssumption DEF MAX_KEYS_INTERNAL
    <3> QED
      BY <2>5, <3>1, <3>2, <3>3, <3>4, <3>5 DEF Sized
  <2> QED
    BY <2>1, <2>5, <2>6 DEF Balanced, Whole
<1>4. CASE Len(L) > 1
  <2>1. parent = f.root /\ i = c /\ f.pages[parent].children = L /\ L[c] # f.root
    BY <1>4, ChildLeaf
  <2>2. /\ DOMAIN L = 1 .. Len(L)
        /\ \A j \in 1 .. Len(L) : CanTake(f.pages[L[j]]) <=> Filled(f, L, j) < max
    BY <1>2, <1>4, ChildLeaf DEF CanTake, MaxSize
  <2>3. \A j \in 1 .. Len(L) : j # c => low <= Filled(f, L, j) /\ Filled(f, L, j) <= max
    BY <1>2 DEF OthersSized
  \* Between the leaf and the neighbour on its left or its right.
  <2>4. ASSUME NEW a \in 1 .. Len(K), c \in {a, a + 1}, NEW b \in 1 .. Len(L), b \in {a, a + 1}, b # c
        PROVE  /\ OthersSized(f, L, {a, a + 1})
               /\ Filled(f, L, a) + Filled(f, L, a + 1) = Filled(f, L, b) + max + 1
               /\ Filled(f, L, a) \in {Filled(f, L, b), max + 1}
               /\ Filled(f, L, a + 1) \in {Filled(f, L, b), max + 1}
               /\ low <= Filled(f, L, b) /\ Filled(f, L, b) <= max /\ Filled(f, L, b) \in Nat
    <3>1. OthersSized(f, L, {a, a + 1})
      BY <2>4 DEF OthersSized
    <3>2. Filled(f, L, c) = max + 1
      BY <1>2
    <3>3. CASE c = a /\ b = a + 1
      BY <1>1, <1>2, <2>3, <2>4, <3>1, <3>2, <3>3
    <3>4. CASE c = a + 1 /\ b = a
      BY <1>1, <1>2, <2>3, <2>4, <3>1, <3>2, <3>4
    <3> QED
      BY <2>4, <3>3, <3>4
  <2>5. ASSUME NEW a \in 1 .. Len(K), c \in {a, a + 1}, NEW b \in 1 .. Len(L), b \in {a, a + 1}, b # c,
               CanTake(f.pages[L[b]]), g = Redistribute2to2(f, L[a], L[a + 1], f.root, a)
        PROVE  Balanced(g, Held(Lists(f, L)))
    <3>1. Filled(f, L, b) < max
      BY <2>2, <2>5
    <3>2. OthersSized(f, L, {a, a + 1})
      BY <2>4, <2>5
    <3>3. PICK t \in Nat : t = Filled(f, L, a) + Filled(f, L, a + 1) /\ 2 * low <= t /\ t <= 2 * max
      <4>1. PICK z \in Nat : z = Filled(f, L, b) /\ low <= z /\ z < max
        BY <2>4, <2>5, <3>1
      <4>2. Filled(f, L, a) + Filled(f, L, a + 1) = z + max + 1
        BY <2>4, <2>5, <4>1
      <4> QED
        BY <1>2, <4>1, <4>2, SMTT(40)
    <3>4. 2 * Least(Len(L)) <= Filled(f, L, a) + Filled(f, L, a + 1)
          /\ Filled(f, L, a) + Filled(f, L, a + 1) <= 2 * MAX_KEYS_LEAF
      BY <1>2, <3>3
    <3>5. Len(L) <= MAX_KEYS_INTERNAL + 1
          /\ \A j \in 1 .. Len(L) : j \notin {a, a + 1} =>
               Least(Len(L)) <= Filled(f, L, j) /\ Filled(f, L, j) <= MAX_KEYS_LEAF
      BY <3>2 DEF OthersSized
    <3> QED
      BY <2>5, <3>4, <3>5, Redistributed
  <2>6. ASSUME NEW a \in 1 .. Len(K), c \in {a, a + 1}, NEW b \in 1 .. Len(L), b \in {a, a + 1}, b # c,
               ~CanTake(f.pages[L[b]]), g = SplitLeaves2to3(f, L[a], L[a + 1], f.root, a)
        PROVE  Balanced(g, Held(Lists(f, L)))
    <3>1. Filled(f, L, b) = max
      <4>1. Filled(f, L, b) \in Nat /\ Filled(f, L, b) <= max
        BY <2>4, <2>6
      <4>2. ~(Filled(f, L, b) < max)
        BY <2>2, <2>6
      <4> QED
        BY <1>2, <4>1, <4>2
    <3>2. OthersSized(f, L, {a, a + 1})
      BY <2>4, <2>6
    <3>3. Filled(f, L, a) + Filled(f, L, a + 1) = max + max + 1
          /\ Filled(f, L, a) \in {max, max + 1} /\ Filled(f, L, a + 1) \in {max, max + 1}
      BY <2>4, <2>6, <3>1
    <3>4. FullPair(f, L, a)
      BY <1>2, <3>3, SMTT(40) DEF FullPair
    <3> QED
      BY <2>6, <3>2, <3>4, SplitBalanced
  <2>7. CASE c > 1 /\ CanTake(f.pages[L[c - 1]])
    <3>1. PICK a \in 1 .. Len(K) : a = c - 1 /\ a + 1 = c /\ a \in 1 .. Len(L) /\ a # c
      BY <1>1, <2>7
    <3>2. g = Redistribute2to2(f, L[a], L[a + 1], f.root, a)
      BY <2>1, <2>7, <3>1 DEF HandleLeafOverflow
    <3> QED
      BY <2>5, <2>7, <3>1, <3>2
  <2>8. CASE ~(c > 1 /\ CanTake(f.pages[L[c - 1]])) /\ c < Len(L) /\ CanTake(f.pages[L[c + 1]])
    <3>1. PICK b \in 1 .. Len(L) : b = c + 1 /\ b # c
      BY <1>1, <2>8
    <3>2. c \in 1 .. Len(K)
      BY <1>1, <2>8
    <3>3. g = Redistribute2to2(f, L[c], L[c + 1], f.root, c)
      BY <2>1, <2>8 DEF HandleLeafOverflow
    <3> QED
      BY <2>5, <2>8, <3>1, <3>2, <3>3
  <2>9. CASE ~(c > 1 /\ CanTake(f.pages[L[c - 1]])) /\ ~(c < Len(L) /\ CanTake(f.pages[L[c + 1]])) /\ c > 1
    <3>1. PICK a \in 1 .. Len(K) : a = c - 1 /\ a + 1 = c /\ a \in 1 .. Len(L) /\ a # c
      BY <1>1, <2>9
    <3>2. g = SplitLeaves2to3(f, L[a], L[a + 1], f.root, a)
      BY <2>1, <2>9, <3>1 DEF HandleLeafOverflow
    <3> QED
      BY <2>6, <2>9, <3>1, <3>2
  <2>10. CASE ~(c > 1) /\ ~(c < Len(L) /\ CanTake(f.pages[L[c + 1]]))
    <3>1. PICK b \in 1 .. Len(L) : b = c + 1 /\ b # c
      BY <1>1, <1>4, <2>10
    <3>2. c \in 1 .. Len(K) /\ c < Len(L)
      BY <1>1, <1>4, <2>10
    <3>3. g = SplitLeaves2to3(f, L[c], L[c + 1], f.root, c)
      BY <2>1, <2>10 DEF HandleLeafOverflow
    <3> QED
      BY <2>6, <2>10, <3>1, <3>2, <3>3
  <2> QED
    BY <2>7, <2>8, <2>9, <2>10
<1> QED
  BY <1>1, <1>3, <1>4

\* Either of two shapes of a tree.
LEMMA OneOrMore ==
    ASSUME NEW n \in Nat, n >= 1
    PROVE  n = 1 \/ n > 1
OBVIOUS

\* size() of a leaf.
LEMMA LeafSizes ==
    ASSUME NEW f, NEW L, NEW K, Tree(f, L, K)
    PROVE  \A i \in 1 .. Len(L) : Size(f.pages[L[i]]) = Filled(f, L, i) /\ f.pages[L[i]].isLeaf
BY TreeLeaves, FilledTyped

\* The least size of three leaves or more.
LEMMA LeastOfMany ==
    ASSUME NEW n \in Nat, n >= 3
    PROVE  Least(n) = MIN_KEYS_LEAF /\ n > 2
BY DEF Least

\* A merge of the leaves a, a + 1 and a + 2.
LEMMA MergeBalanced ==
    ASSUME NEW f, NEW L, NEW K, Tree(f, L, K), Chained(f, L), f.ok, Len(L) >= 3,
           NEW a \in 1 .. Len(K), a + 1 \in 1 .. Len(K),
           ThreeToMerge(f, L, a), OthersSized(f, L, {a, a + 1, a + 2}),
           NEW g, g = MergeLeaves3to2(f, L[a], L[a + 1], L[a + 2], f.root, a)
    PROVE  Balanced(g, Held(Lists(f, L)))
<1>1. Len(L) \in Nat
  BY TreeLeaves
<1>2. \E M, J : /\ Tree(g, M, J) /\ Chained(g, M) /\ g.ok = f.ok
                /\ Held(Lists(g, M)) = Held(Lists(f, L)) /\ Len(M) = Len(L) - 1
                /\ Refilled(f, g, L, M, {a, a + 1, a + 2})
  BY MergeLeaves
<1>3. SUFFICES ASSUME NEW M, NEW J, Tree(g, M, J), Chained(g, M), g.ok = f.ok,
                      Held(Lists(g, M)) = Held(Lists(f, L)), Len(M) = Len(L) - 1,
                      Refilled(f, g, L, M, {a, a + 1, a + 2})
               PROVE  Balanced(g, Held(Lists(f, L)))
  BY <1>2
<1>4. Len(M) <= MAX_KEYS_INTERNAL + 1
  <2>1. PICK n \in Nat, most \in Nat : n = Len(L) /\ most = MAX_KEYS_INTERNAL /\ n <= most + 1
    BY <1>1, LeastBounds DEF OthersSized
  <2>2. Len(M) = n - 1
    BY <1>3, <2>1
  <2> QED
    BY <2>1, <2>2
<1>5. \A j \in 1 .. Len(L) : j \notin {a, a + 1, a + 2} =>
        MIN_KEYS_LEAF <= Filled(f, L, j) /\ Filled(f, L, j) <= MAX_KEYS_LEAF
  <2>1. Least(Len(L)) = MIN_KEYS_LEAF
    BY <1>1, LeastOfMany
  <2> QED
    BY <2>1 DEF OthersSized
<1>6. Sized(g, M)
  BY <1>3, <1>4, <1>5, RefilledSized
<1> QED
  BY <1>3, <1>6 DEF Balanced, Whole

\* A redistribution among the leaves a, a + 1 and a + 2.
LEMMA ThreeBalanced ==
    ASSUME NEW f, NEW L, NEW K, Tree(f, L, K), Chained(f, L), f.ok, Len(L) >= 3,
           NEW a \in 1 .. Len(K), a + 1 \in 1 .. Len(K), Filled(f, L, a + 1) = MIN_KEYS_LEAF,
           \/ /\ Filled(f, L, a) = MIN_KEYS_LEAF - 1
              /\ MIN_KEYS_LEAF < Filled(f, L, a + 2) /\ Filled(f, L, a + 2) <= MAX_KEYS_LEAF
           \/ /\ Filled(f, L, a + 2) = MIN_KEYS_LEAF - 1
              /\ MIN_KEYS_LEAF < Filled(f, L, a) /\ Filled(f, L, a) <= MAX_KEYS_LEAF,
           OthersSized(f, L, {a, a + 1, a + 2}),
           NEW g, g = Redistribute3to3(f, L[a], L[a + 1], L[a + 2], f.root, a)
    PROVE  Balanced(g, Held(Lists(f, L)))
<1>1. Len(L) \in Nat /\ Least(Len(L)) = MIN_KEYS_LEAF /\ Len(L) > 2
  <2>1. Len(L) \in Nat
    BY TreeLeaves
  <2> QED
    BY <2>1, LeastOfMany
<1>2. /\ \E J : Tree(g, L, J)
      /\ SameLinks(f, g, L) /\ Held(Lists(g, L)) = Held(Lists(f, L))
      /\ \A i \in 1 .. Len(L) :
           \/ MIN_KEYS_LEAF <= Filled(g, L, i) /\ Filled(g, L, i) <= MAX_KEYS_LEAF
           \/ i \notin {a, a + 1, a + 2} /\ Filled(g, L, i) = Filled(f, L, i)
  BY <1>1, RedistributeThree
<1>3. PICK J : Tree(g, L, J)
  BY <1>2
<1>4. Sized(g, L)
  BY <1>1, <1>2 DEF Sized, OthersSized
<1>5. Chained(g, L) /\ g.ok
  BY <1>2, LinksKeepChain
<1> QED
  BY <1>2, <1>3, <1>4, <1>5 DEF Balanced, Whole

\* A merge of the two leaves below the root, or its failure.
LEMMA RootBalanced ==
    ASSUME NEW f, NEW L, NEW K, Tree(f, L, K), Chained(f, L), f.ok, Len(L) = 2,
           NEW c \in {1, 2}, NEW d \in {1, 2}, c # d, Filled(f, L, d) = MAX_KEYS_LEAF \div 2,
           MAX_KEYS_LEAF \div 2 <= Filled(f, L, c) + 1, Filled(f, L, c) <= MAX_KEYS_LEAF,
           NEW g, g = MergeLeaves2to1(f, L[1], L[2], f.root)
    PROVE  Balanced(g, Held(Lists(f, L)))
<1>1. \A i \in 1 .. Len(L) : Filled(f, L, i) \in Nat
  BY TreeLeaves
<1>2. PICK x \in Nat, y \in Nat, half \in Nat, max \in Nat :
        /\ x = Filled(f, L, c) /\ y = Filled(f, L, d) /\ half = MAX_KEYS_LEAF \div 2 /\ max = MAX_KEYS_LEAF
        /\ 2 * half <= max /\ max <= 2 * half + 1 /\ max >= 3
        /\ y = half /\ half <= x + 1 /\ x <= max
  BY <1>1, SizesTyped
<1>3. Filled(f, L, 1) + Filled(f, L, 2) = x + y
  <2>1. (c = 1 /\ d = 2) \/ (c = 2 /\ d = 1)
    OBVIOUS
  <2>2. CASE c = 1 /\ d = 2
    BY <1>2, <2>2
  <2>3. CASE c = 2 /\ d = 1
    BY <1>2, <2>3
  <2> QED
    BY <2>1, <2>2, <2>3
<1>4. CASE x + y <= max
  <2>1. PICK l : /\ Tree(g, <<l>>, <<>>) /\ Chained(g, <<l>>) /\ g.ok = f.ok
                 /\ Held(Lists(g, <<l>>)) = Held(Lists(f, L))
                 /\ Filled(g, <<l>>, 1) = x + y
    <3>1. Filled(f, L, 1) + Filled(f, L, 2) <= MAX_KEYS_LEAF
      BY <1>2, <1>3, <1>4
    <3>2. \E l : /\ Tree(g, <<l>>, <<>>) /\ Chained(g, <<l>>) /\ g.ok = f.ok
                 /\ Held(Lists(g, <<l>>)) = Held(Lists(f, L))
                 /\ Filled(g, <<l>>, 1) = Filled(f, L, 1) + Filled(f, L, 2)
      BY <3>1, MergeIntoRoot
    <3> QED
      BY <1>3, <3>2
  <2>2. 1 <= x + y /\ Least(1) = 1
    BY <1>2 DEF Least
  <2>3. Len(<<l>>) = 1 /\ \A i \in 1 .. Len(<<l>>) : i = 1
    OBVIOUS
  <2>4. Sized(g, <<l>>)
    BY <1>2, <1>4, <2>1, <2>2, <2>3, LeastBounds, SMTT(40) DEF Sized
  <2> QED
    BY <2>1, <2>4 DEF Balanced, Whole
<1>5. CASE x + y > max
  <2>1. g = Expect(f, FALSE)
    <3>1. Size(f.pages[L[1]]) = Filled(f, L, 1) /\ Size(f.pages[L[2]]) = Filled(f, L, 2)
      <4>1. Len(L) > 1 /\ 1 \in 1 .. Len(L) /\ 2 \in 1 .. Len(L)
        OBVIOUS
      <4> QED
        BY <4>1, LeafSizes
    <3>2. ~(Size(f.pages[L[1]]) + Size(f.pages[L[2]]) <= MAX_KEYS_LEAF)
      BY <1>2, <1>3, <1>5, <3>1
    <3> QED
      BY <3>2 DEF MergeLeaves2to1
  <2>2. /\ g \in Files /\ g.pages = f.pages /\ g.root = f.root /\ g.first = f.first
    <3>1. f \in Files
      BY TreeLeaves
    <3>2. g = [f EXCEPT !.ok = FALSE]
      BY <2>1 DEF Expect
    <3> QED
      BY <3>1, <3>2 DEF Files
  <2>3. Tree(g, L, K) /\ Chained(g, L) /\ Lists(g, L) = Lists(f, L)
        /\ \A i \in 1 .. Len(L) : Filled(g, L, i) = Filled(f, L, i)
    <3>1. Lists(g, L) = Lists(f, L) /\ Chained(g, L)
      BY <2>2 DEF Lists, Chained
    <3>2. Frame(g, L, K)
      BY <2>2 DEF Tree, Frame, PagesTyped, LeafSeq
    <3> QED
      BY <2>2, <3>1, <3>2 DEF Tree, Filled
  <2>4. half <= x /\ y <= max
    BY <1>2, <1>5
  <2>5. Sized(g, L)
    <3>1. \A i \in 1 .. Len(L) : i = c \/ i = d
      OBVIOUS
    <3>2. Least(Len(L)) = half /\ Len(L) <= MAX_KEYS_INTERNAL + 1
      BY <1>2, TreeAssumption DEF Least, MAX_KEYS_INTERNAL
    <3> QED
      BY <1>2, <2>3, <2>4, <3>1, <3>2 DEF Sized
  <2>6. Stuck(g, L)
    BY <1>1, <1>2, <1>3, <1>5, <2>3 DEF Stuck
  <2> QED
    BY <2>3, <2>5, <2>6 DEF Balanced, Whole
<1> QED
  BY <1>2, <1>4, <1>5

\* A leaf that may give entries away.
Lends(f, L, j) == j \in 1 .. Len(L) /\ Filled(f, L, j) > Least(Len(L))

\* can_lend, of a child of the root.
LEMMA CanLendLeaf ==
    ASSUME NEW f, NEW L, NEW K, Tree(f, L, K), Len(L) > 1, NEW j \in 1 .. Len(L)
    PROVE  CanLend(f.pages[L[j]], Len(L) = 2) <=> Lends(f, L, j)
<1>1. Size(f.pages[L[j]]) = Filled(f, L, j) /\ f.pages[L[j]].isLeaf
  BY LeafSizes
<1>2. Len(L) \in Nat
  BY TreeLeaves
<1>3. CASE Len(L) = 2
  <2>1. Least(Len(L)) = MAX_KEYS_LEAF \div 2
    BY <1>3 DEF Least
  <2> QED
    BY <1>1, <1>3, <2>1 DEF CanLend, MaxSize, Lends
<1>4. CASE Len(L) # 2
  <2>1. Least(Len(L)) = MIN_KEYS_LEAF
    BY <1>2, <1>4 DEF Least
  <2> QED
    BY <1>1, <1>4, <2>1 DEF CanLend, MinSize, Lends
<1> QED
  BY <1>3, <1>4

\* handle_leaf_underflow, with the leaves for the children of the root.
LEMMA UnderflowSteps ==
    ASSUME NEW f, NEW L, NEW K, Tree(f, L, K), Len(L) > 1, NEW c \in 1 .. Len(L),
           NEW g, g = HandleLeafUnderflow(f, L[c], f.root, c)
    PROVE  /\ Lends(f, L, c - 1) => g = Redistribute2to2(f, L[c - 1], L[c], f.root, c - 1)
           /\ ~Lends(f, L, c - 1) /\ Lends(f, L, c + 1)
                => g = Redistribute2to2(f, L[c], L[c + 1], f.root, c)
           /\ ~Lends(f, L, c - 1) /\ ~Lends(f, L, c + 1) =>
                /\ Len(L) = 2 => g = MergeLeaves2to1(f, L[1], L[2], f.root)
                /\ Len(L) > 2 =>
                     LET j == IF c = 1 THEN 1 ELSE IF c = Len(L) THEN Len(L) - 2 ELSE c - 1
                         outer == IF c = 1 THEN 3 ELSE Len(L) - 2
                     IN  g = IF c \in {1, Len(L)} /\ Lends(f, L, outer)
                             THEN Redistribute3to3(f, L[j], L[j + 1], L[j + 2], f.root, j)
                             ELSE MergeLeaves3to2(f, L[j], L[j + 1], L[j + 2], f.root, j)
<1>1. f.pages[f.root].children = L
  BY ChildLeaf
<1>2. \A j : j \in 1 .. Len(L) /\ CanLend(f.pages[L[j]], Len(L) = 2) <=> Lends(f, L, j)
  BY CanLendLeaf DEF Lends
<1>3. Len(L) \in Nat
  BY TreeLeaves
<1> DEFINE lends(j) == j \in 1 .. Len(L) /\ CanLend(f.pages[L[j]], Len(L) = 2)
           j == IF c = 1 THEN 1 ELSE IF c = Len(L) THEN Len(L) - 2 ELSE c - 1
           outer == IF c = 1 THEN 3 ELSE Len(L) - 2
<1>4. g = IF lends(c - 1) THEN Redistribute2to2(f, L[c - 1], L[c], f.root, c - 1)
          ELSE IF lends(c + 1) THEN Redistribute2to2(f, L[c], L[c + 1], f.root, c)
          ELSE IF Len(L) = 2 THEN MergeLeaves2to1(f, L[1], L[2], f.root)
          ELSE IF c \in {1, Len(L)} /\ lends(outer)
          THEN Redistribute3to3(f, L[j], L[j + 1], L[j + 2], f.root, j)
          ELSE MergeLeaves3to2(f, L[j], L[j + 1], L[j + 2], f.root, j)
  BY <1>1, ZenonT(40) DEF HandleLeafUnderflow
<1>5. \A i : lends(i) <=> Lends(f, L, i)
  BY <1>2
<1> HIDE DEF lends
<1> QED
  BY <1>3, <1>4, <1>5

\* Leaf c is one entry below what it must hold, or less than it should and one of
\* two.
Short(f, L, c) ==
    /\ Filled(f, L, c) < MIN_KEYS_LEAF /\ Least(Len(L)) <= Filled(f, L, c) + 1
    /\ OthersSized(f, L, {c})

\* The leaf that is short and a neighbour that lends.
LEMMA ShortAndLender ==
    ASSUME NEW f, NEW L, NEW K, Tree(f, L, K), Chained(f, L), f.ok, NEW c \in 1 .. Len(L), Short(f, L, c),
           NEW a \in 1 .. Len(K), c \in {a, a + 1}, NEW b \in {a, a + 1}, b # c, Lends(f, L, b),
           NEW g, g = Redistribute2to2(f, L[a], L[a + 1], f.root, a)
    PROVE  Balanced(g, Held(Lists(f, L)))
<1>1. /\ Len(L) \in Nat /\ \A j \in 1 .. Len(L) : Filled(f, L, j) \in Nat
  BY TreeLeaves
<1>2. PICK low \in Nat, min \in Nat, max \in Nat :
        /\ low = Least(Len(L)) /\ min = MIN_KEYS_LEAF /\ max = MAX_KEYS_LEAF
        /\ 1 <= low /\ low <= min /\ min < max
  BY <1>1, LeastBounds
<1>3. b \in 1 .. Len(L) /\ b \notin {c}
  BY DEF Lends
<1>4. PICK x \in Nat, y \in Nat :
        /\ x = Filled(f, L, c) /\ y = Filled(f, L, b)
        /\ x < min /\ low <= x + 1 /\ low < y /\ y <= max
  BY <1>1, <1>2, <1>3 DEF Short, Lends, OthersSized
<1>5. Filled(f, L, a) + Filled(f, L, a + 1) = x + y
  <2>1. (c = a /\ b = a + 1) \/ (c = a + 1 /\ b = a)
    OBVIOUS
  <2>2. CASE c = a /\ b = a + 1
    BY <1>4, <2>2
  <2>3. CASE c = a + 1 /\ b = a
    <3>1. Filled(f, L, a) = y /\ Filled(f, L, a + 1) = x
      BY <1>4, <2>3
    <3> QED
      BY <1>4, <3>1
  <2> QED
    BY <2>1, <2>2, <2>3
<1>6. 2 * low <= x + y /\ x + y <= 2 * max
  <2>1. x < min /\ low <= x + 1 /\ low < y /\ y <= max
    BY <1>4
  <2>2. min < max
    BY <1>2
  <2> QED
    BY <2>1, <2>2
<1>7. /\ 2 * Least(Len(L)) <= Filled(f, L, a) + Filled(f, L, a + 1)
      /\ Filled(f, L, a) + Filled(f, L, a + 1) <= 2 * MAX_KEYS_LEAF
  BY <1>2, <1>5, <1>6
<1>8. /\ Len(L) <= MAX_KEYS_INTERNAL + 1
      /\ \A i \in 1 .. Len(L) :
           i \notin {a, a + 1} => Least(Len(L)) <= Filled(f, L, i) /\ Filled(f, L, i) <= MAX_KEYS_LEAF
  BY DEF Short, OthersSized
<1> QED
  BY <1>7, <1>8, Redistributed

\* handle_leaf_underflow
LEMMA UnderflowHandled ==
    ASSUME NEW f, NEW L, NEW K, Tree(f, L, K), Chained(f, L), f.ok, Len(L) > 1,
           NEW c \in 1 .. Len(L), Short(f, L, c),
           NEW g, g = HandleLeafUnderflow(f, L[c], f.root, c)
    PROVE  Balanced(g, Held(Lists(f, L)))
<1> DEFINE j == IF c = 1 THEN 1 ELSE IF c = Len(L) THEN Len(L) - 2 ELSE c - 1
           outer == IF c = 1 THEN 3 ELSE Len(L) - 2
<1>1. /\ Lends(f, L, c - 1) => g = Redistribute2to2(f, L[c - 1], L[c], f.root, c - 1)
      /\ ~Lends(f, L, c - 1) /\ Lends(f, L, c + 1)
           => g = Redistribute2to2(f, L[c], L[c + 1], f.root, c)
      /\ ~Lends(f, L, c - 1) /\ ~Lends(f, L, c + 1) =>
           /\ Len(L) = 2 => g = MergeLeaves2to1(f, L[1], L[2], f.root)
           /\ Len(L) > 2 =>
                g = IF c \in {1, Len(L)} /\ Lends(f, L, outer)
                    THEN Redistribute3to3(f, L[j], L[j + 1], L[j + 2], f.root, j)
                    ELSE MergeLeaves3to2(f, L[j], L[j + 1], L[j + 2], f.root, j)
  BY UnderflowSteps
<1>2. /\ Len(L) \in Nat /\ Len(K) \in Nat /\ Len(L) = Len(K) + 1
      /\ \A i \in 1 .. Len(L) : Filled(f, L, i) \in Nat
  BY TreeLeaves
<1>3. PICK low \in Nat, min \in Nat, max \in Nat :
        /\ low = Least(Len(L)) /\ min = MIN_KEYS_LEAF /\ max = MAX_KEYS_LEAF
        /\ 1 <= low /\ low <= min /\ min < max
  BY <1>2, LeastBounds
<1>4. \A i \in 1 .. Len(L) : i # c => low <= Filled(f, L, i) /\ Filled(f, L, i) <= max
                                    /\ (~Lends(f, L, i) => Filled(f, L, i) = low)
  BY <1>2, <1>3 DEF Short, OthersSized, Lends
<1>5. Filled(f, L, c) < min /\ low <= Filled(f, L, c) + 1
  BY <1>3 DEF Short
<1>6. CASE Lends(f, L, c - 1)
  <2>1. PICK a \in 1 .. Len(K) : a = c - 1 /\ a + 1 = c
    BY <1>2, <1>6 DEF Lends
  <2>2. g = Redistribute2to2(f, L[a], L[a + 1], f.root, a) /\ Lends(f, L, a) /\ a # c
    BY <1>1, <1>6, <2>1
  <2> QED
    BY <2>1, <2>2, ShortAndLender
<1>7. CASE ~Lends(f, L, c - 1) /\ Lends(f, L, c + 1)
  <2>1. c \in 1 .. Len(K) /\ c + 1 # c
    BY <1>2, <1>7 DEF Lends
  <2>2. g = Redistribute2to2(f, L[c], L[c + 1], f.root, c)
    BY <1>1, <1>7
  <2> QED
    BY <1>7, <2>1, <2>2, ShortAndLender
<1>8. CASE ~Lends(f, L, c - 1) /\ ~Lends(f, L, c + 1) /\ Len(L) = 2
  <2>1. PICK d \in {1, 2} : d # c /\ d \in 1 .. Len(L) /\ (d = c - 1 \/ d = c + 1) /\ c \in {1, 2}
    BY <1>8
  <2>2. low = MAX_KEYS_LEAF \div 2
    BY <1>3, <1>8 DEF Least
  <2>3. Filled(f, L, d) = MAX_KEYS_LEAF \div 2
    BY <1>4, <1>8, <2>1, <2>2
  <2>4. MAX_KEYS_LEAF \div 2 <= Filled(f, L, c) + 1 /\ Filled(f, L, c) <= MAX_KEYS_LEAF
    BY <1>2, <1>3, <1>5, <2>2
  <2>5. g = MergeLeaves2to1(f, L[1], L[2], f.root)
    BY <1>1, <1>8
  <2> QED
    BY <1>8, <2>1, <2>3, <2>4, <2>5, RootBalanced
<1>9. CASE ~Lends(f, L, c - 1) /\ ~Lends(f, L, c + 1) /\ Len(L) > 2
  <2>1. low = min
    BY <1>2, <1>3, <1>9, LeastOfMany
  <2>2. Filled(f, L, c) = min - 1
    BY <1>2, <1>3, <1>5, <2>1
  <2>3. /\ g = IF c \in {1, Len(L)} /\ Lends(f, L, outer)
               THEN Redistribute3to3(f, L[j], L[j + 1], L[j + 2], f.root, j)
               ELSE MergeLeaves3to2(f, L[j], L[j + 1], L[j + 2], f.root, j)
    BY <1>1, <1>9
  <2>4. /\ j \in 1 .. Len(K) /\ j + 1 \in 1 .. Len(K) /\ c \in {j, j + 1, j + 2}
        /\ j \in 1 .. Len(L) /\ j + 1 \in 1 .. Len(L) /\ j + 2 \in 1 .. Len(L)
        /\ \/ c = j /\ c = 1 /\ outer = j + 2
           \/ c = j + 2 /\ c = Len(L) /\ outer = j
           \/ c = j + 1 /\ c \notin {1, Len(L)}
    <3>1. PICK n \in Nat : n = Len(L) /\ n > 2 /\ Len(K) = n - 1 /\ c \in 1 .. n
      BY <1>2, <1>9
    <3>2. CASE c = 1
      BY <3>1, <3>2
    <3>3. CASE c = n /\ c # 1
      BY <3>1, <3>3
    <3>4. CASE c # n /\ c # 1
      BY <3>1, <3>4
    <3> QED
      BY <3>2, <3>3, <3>4
  <2> HIDE DEF j, outer
  <2>5. PICK a \in 1 .. Len(K), b \in 1 .. Len(K), d \in 1 .. Len(L) :
          /\ a = j /\ b = a + 1 /\ d = a + 2 /\ a \in 1 .. Len(L) /\ b \in 1 .. Len(L)
          /\ a # b /\ a # d /\ b # d
          /\ \/ c = a /\ c = 1 /\ outer = d /\ c + 1 = b
             \/ c = d /\ c = Len(L) /\ outer = a /\ c - 1 = b
             \/ c = b /\ c \notin {1, Len(L)} /\ c - 1 = a /\ c + 1 = d
    BY <2>4
  <2>6. OthersSized(f, L, {a, b, d})
    BY <2>5 DEF Short, OthersSized
  <2>7. CASE c \in {1, Len(L)} /\ Lends(f, L, outer)
    <3>1. g = Redistribute3to3(f, L[a], L[a + 1], L[a + 2], f.root, a)
      BY <2>3, <2>5, <2>7
    <3>2. c # b /\ ~Lends(f, L, b)
      BY <1>9, <2>5, <2>7
    <3>3. Filled(f, L, b) = min
      BY <1>4, <2>1, <2>5, <3>2
    <3>4. outer # c /\ outer \in 1 .. Len(L) /\ min < Filled(f, L, outer) /\ Filled(f, L, outer) <= max
      BY <1>3, <1>4, <2>1, <2>5, <2>7, <3>2 DEF Lends
    <3>5. (c = a /\ outer = a + 2) \/ (c = a + 2 /\ outer = a)
      BY <2>5, <3>2
    <3>6. \/ /\ Filled(f, L, a) = MIN_KEYS_LEAF - 1
             /\ MIN_KEYS_LEAF < Filled(f, L, a + 2) /\ Filled(f, L, a + 2) <= MAX_KEYS_LEAF
          \/ /\ Filled(f, L, a + 2) = MIN_KEYS_LEAF - 1
             /\ MIN_KEYS_LEAF < Filled(f, L, a) /\ Filled(f, L, a) <= MAX_KEYS_LEAF
      BY <1>3, <2>2, <3>4, <3>5
    <3>7. a + 1 \in 1 .. Len(K) /\ Filled(f, L, a + 1) = MIN_KEYS_LEAF /\ OthersSized(f, L, {a, a + 1, a + 2})
      BY <1>3, <2>5, <2>6, <3>3
    <3>8. Len(L) >= 3
      BY <1>2, <1>9
    <3> QED
      BY <3>1, <3>6, <3>7, <3>8, ThreeBalanced
  <2>8. CASE ~(c \in {1, Len(L)} /\ Lends(f, L, outer))
    <3>1. g = MergeLeaves3to2(f, L[a], L[a + 1], L[a + 2], f.root, a)
      BY <2>3, <2>5, <2>8
    <3>2. \A i \in {a, b, d} : i # c => Filled(f, L, i) = min
      <4>1. \A i \in {a, b, d} : i # c => ~Lends(f, L, i)
        BY <1>9, <2>5, <2>8
      <4> QED
        BY <1>4, <2>1, <2>5, <4>1
    <3>3. PICK x \in Nat, y \in Nat, z \in Nat :
            x = Filled(f, L, a) /\ y = Filled(f, L, b) /\ z = Filled(f, L, d)
      BY <1>2, <2>5
    <3>4. /\ x + y + z = 3 * min - 1 /\ x \in {min - 1, min} /\ y \in {min - 1, min} /\ z \in {min - 1, min}
      <4>1. \/ x = min - 1 /\ y = min /\ z = min
            \/ x = min /\ y = min - 1 /\ z = min
            \/ x = min /\ y = min /\ z = min - 1
        BY <2>2, <2>5, <3>2, <3>3
      <4> QED
        BY <1>3, <4>1
    <3>5. ThreeToMerge(f, L, a)
      BY <1>3, <2>5, <3>3, <3>4 DEF ThreeToMerge
    <3>6. a + 1 \in 1 .. Len(K) /\ OthersSized(f, L, {a, a + 1, a + 2})
      BY <2>5, <2>6
    <3>7. Len(L) >= 3
      BY <1>2, <1>9
    <3> QED
      BY <3>1, <3>5, <3>6, <3>7, MergeBalanced
  <2> QED
    BY <2>7, <2>8
<1> QED
  BY <1>2, <1>6, <1>7, <1>8, <1>9
-----------------------------------------------------------------------------
(* The leaf in which a search ends *)

\* The search for a key ends in the leaf c.
Found(f, L, K, key, c) ==
    /\ c \in 1 .. Len(L) /\ FindLeaf(f, key).id = L[c]
    /\ Len(L) > 1 => FindLeaf(f, key).parent = f.root /\ FindLeaf(f, key).place = c
    /\ \A i \in 1 .. Len(K) : K[i] <= key <=> i < c

\* A separator is a number.
LEMMA SeparatorTyped ==
    ASSUME NEW K \in Seq(NodeKeys)
    PROVE  \A i \in 1 .. Len(K) : K[i] \in Int
<1>1. NodeKeys \subseteq Int
  BY TreeAssumption DEF NodeKeys, DefaultKey
<1>2. \A i \in 1 .. Len(K) : K[i] \in NodeKeys
  OBVIOUS
<1> QED
  BY <1>1, <1>2

\* find_leaf
LEMMA LeafFound ==
    ASSUME NEW f, NEW L, NEW K, Tree(f, L, K), NEW key \in Int,
           Len(L) > 1 => \A i \in 1 .. Len(L) : Filled(f, L, i) # 0
    PROVE  \E c : Found(f, L, K, key, c)
<1>1. /\ f \in Files /\ LeafSeq(f, L)
      /\ Len(L) \in Nat /\ Len(L) >= 1 /\ Len(K) \in Nat /\ Len(L) = Len(K) + 1
  BY TreeLeaves
<1>2. CASE Len(L) = 1
  <2>1. f.root = L[1] /\ f.pages[f.root].isLeaf /\ 1 \in 1 .. Len(L) /\ Len(K) = 0
    BY <1>1, <1>2, OneLeaf, LeafSizes
  <2>2. FindLeaf(f, key).id = L[1]
    BY <2>1 DEF FindLeaf
  <2> QED
    BY <1>2, <2>1, <2>2 DEF Found
<1>3. CASE Len(L) > 1
  <2>1. /\ RootIs(f, L, K) /\ K \in Seq(NodeKeys)
    BY <1>3, FrameRoot DEF Tree
  <2>2. \A i \in 1 .. Len(K) : K[i] \in Int
    BY <2>1, SeparatorTyped
  <2>3. \A i, j \in 1 .. Len(K) : i < j => K[i] < K[j]
    <3>1. /\ Lists(f, L) \in Seq(Entries) /\ Len(Lists(f, L)) = Len(L)
          /\ \A i \in 1 .. Len(L) : Len(Lists(f, L)[i]) # 0
      BY <1>1, <1>3, ListsTyped, FilledTyped
    <3>2. \A i \in 1 .. Len(K) : i \in 1 .. Len(L) /\ SeparatesAt(Lists(f, L), i, K[i])
      BY <1>1 DEF Tree, Separated
    <3> QED
      BY <2>2, <3>1, <3>2, SeparatorsAscend
  <2> DEFINE node == f.pages[f.root]
  <2>4. /\ node.keys = K /\ node.children = L /\ ~node.isLeaf
    BY <2>1 DEF RootIs
  <2> HIDE DEF node
  <2>5. PICK c : c = FindChild(node, key)
    OBVIOUS
  <2>6. c \in 1 .. Len(K) + 1 /\ \A i \in 1 .. Len(K) : K[i] <= key <=> i < c
    <3>1. PICK n \in Nat : n = Len(K) /\ DOMAIN K = 1 .. n
      BY <1>1, <2>1
    <3>2. /\ DOMAIN node.keys = 1 .. n
          /\ \A i \in 1 .. n : node.keys[i] \in Int
          /\ \A i, j \in 1 .. n : i < j => node.keys[i] < node.keys[j]
      BY <2>2, <2>3, <2>4, <3>1
    <3>3. /\ FindChild(node, key) \in 1 .. n + 1
          /\ \A i \in 1 .. n : node.keys[i] <= key <=> i < FindChild(node, key)
      BY <3>2, ChildPlace
    <3> QED
      BY <2>4, <2>5, <3>1, <3>3
  <2>7. FindLeaf(f, key) = [id |-> L[c], parent |-> f.root, place |-> c]
    BY <2>4, <2>5, SMTT(40) DEF FindLeaf, node
  <2> QED
    BY <1>1, <2>6, <2>7 DEF Found
<1> QED
  BY <1>1, <1>2, <1>3

\* The leaf c holds other entries: those in A were removed, those in B added, all
\* of the same key.
LeafPut(f, g, L, K, c, d, A, B) ==
    /\ Tree(g, L, K) /\ Chained(g, L) /\ g.ok = f.ok /\ g.root = f.root
    /\ g.pages[L[c]].isLeaf /\ g.pages[L[c]].entries = d /\ Filled(g, L, c) = Len(d)
    /\ \A i \in 1 .. Len(L) : i # c => Filled(g, L, i) = Filled(f, L, i)
    /\ Held(Lists(g, L)) = (Held(Lists(f, L)) \ A) \union B

\* The entries of the leaf c are written.
EntriesPut(f, g, L, c, d) ==
    /\ g \in Files /\ g.root = f.root /\ g.ok = f.ok /\ SameButEntries(f, g) /\ LeafSeq(g, L)
    /\ Lists(f, L) \in Seq(Entries) /\ Lists(g, L) \in Seq(Entries)
    /\ Len(Lists(f, L)) = Len(L) /\ Len(Lists(g, L)) = Len(L)
    /\ Lists(f, L)[c] = f.pages[L[c]].entries /\ Lists(g, L)[c] = d
    /\ \A j \in 1 .. Len(L) : j # c => Lists(g, L)[j] = Lists(f, L)[j]
    /\ g.pages[L[c]].isLeaf /\ g.pages[L[c]].entries = d /\ Filled(g, L, c) = Len(d)
    /\ \A i \in 1 .. Len(L) : i # c => Filled(g, L, i) = Filled(f, L, i)

\* The entries of one leaf are written.
LEMMA EntriesWritten ==
    ASSUME NEW f \in Files, NEW L, LeafSeq(f, L), NEW c \in 1 .. Len(L), NEW d \in Entries,
           NEW g, g = Write(f, L[c], [f.pages[L[c]] EXCEPT !.entries = d])
    PROVE  EntriesPut(f, g, L, c, d)
<1>1. /\ L[c] \in DOMAIN f.pages /\ L[c] \in 1 .. Len(f.pages) + 1
      /\ f.pages[L[c]] \in Node /\ f.pages[L[c]].isLeaf /\ Len(L) \in Nat
  BY FilledTyped DEF LeafSeq
<1> DEFINE node == [f.pages[L[c]] EXCEPT !.entries = d]
<1>2. /\ node \in Node /\ node.isLeaf = f.pages[L[c]].isLeaf /\ node.deleted = f.pages[L[c]].deleted
      /\ node.next = f.pages[L[c]].next /\ node.keys = f.pages[L[c]].keys
      /\ node.children = f.pages[L[c]].children /\ node.entries = d
  BY <1>1 DEF Node
<1>3. g = Write(f, L[c], node)
  OBVIOUS
<1> HIDE DEF node
<1>4. /\ g \in Files /\ g.root = f.root /\ g.first = f.first /\ g.ok = f.ok
      /\ DOMAIN g.pages = DOMAIN f.pages \union {L[c]}
      /\ g.pages[L[c]] = node
      /\ \A i \in DOMAIN f.pages : i # L[c] => g.pages[i] = f.pages[i]
  <2>1. PICK id : id = L[c]
    OBVIOUS
  <2>2. id \in 1 .. Len(f.pages) + 1 /\ g = Write(f, id, node) /\ node \in Node
    BY <1>1, <1>2, <1>3, <2>1
  <2>3. /\ g \in Files /\ g.root = f.root /\ g.first = f.first /\ g.ok = f.ok
        /\ DOMAIN g.pages = DOMAIN f.pages \union {id}
        /\ g.pages[id] = node
        /\ \A i \in DOMAIN f.pages : i # id => g.pages[i] = f.pages[i]
    BY <2>2, WriteEffect, SMTT(40)
  <2> QED
    BY <2>1, <2>3
<1>5. SameButEntries(f, g)
  BY <1>1, <1>2, <1>4, ZenonT(40) DEF SameButEntries
<1>6. LeafSeq(g, L)
  BY <1>4, <1>5, EntriesKeepShape
<1>7. /\ Lists(f, L) \in Seq(Entries) /\ Len(Lists(f, L)) = Len(L)
      /\ \A j \in 1 .. Len(L) : Lists(f, L)[j] = f.pages[L[j]].entries
  BY ListsTyped, SMTT(40)
<1>8. /\ Lists(g, L) \in Seq(Entries) /\ Len(Lists(g, L)) = Len(L)
      /\ \A j \in 1 .. Len(L) : Lists(g, L)[j] = g.pages[L[j]].entries
  BY <1>4, <1>6, ListsTyped, ZenonT(40)
<1>9. \A j \in 1 .. Len(L) : j # c => L[j] # L[c] /\ L[j] \in DOMAIN f.pages
  BY DEF LeafSeq
<1>10. \A j \in 1 .. Len(L) : j # c => g.pages[L[j]] = f.pages[L[j]]
  BY <1>4, <1>9, SMTT(40)
<1>11. /\ Filled(g, L, c) = Len(d)
       /\ \A i \in 1 .. Len(L) : i # c => Filled(g, L, i) = Filled(f, L, i)
  BY <1>2, <1>4, <1>10, SMTT(40) DEF Filled
<1>12. /\ g.pages[L[c]].isLeaf /\ g.pages[L[c]].entries = d
       /\ Lists(f, L)[c] = f.pages[L[c]].entries /\ Lists(g, L)[c] = d
  BY <1>1, <1>2, <1>4, <1>7, <1>8, ZenonT(40)
<1>13. \A j \in 1 .. Len(L) : j # c => Lists(g, L)[j] = Lists(f, L)[j]
  BY <1>7, <1>8, <1>10, SMTT(40)
<1> QED
  BY <1>4, <1>5, <1>6, <1>7, <1>8, <1>11, <1>12, <1>13 DEF EntriesPut

\* A leaf gets other entries of the same key.
LEMMA LeafWritten ==
    ASSUME NEW f, NEW L, NEW K, Tree(f, L, K), Chained(f, L), NEW key \in Int, NEW c, Found(f, L, K, key, c),
           NEW d \in Entries, Ascending(d), NEW A, NEW B,
           \A x \in A : x[1] = key, \A x \in B : x[1] = key,
           Range(d) = (Range(f.pages[L[c]].entries) \ A) \union B,
           NEW g, EntriesPut(f, g, L, c, d)
    PROVE  LeafPut(f, g, L, K, c, d, A, B)
<1>1. /\ Len(L) \in Nat /\ Len(K) \in Nat /\ Len(L) = Len(K) + 1 /\ c \in 1 .. Len(L)
      /\ LeafSeq(f, L) /\ Frame(f, L, K) /\ InOrder(Lists(f, L)) /\ Separated(Lists(f, L), K)
      /\ K \in Seq(NodeKeys) /\ \A i \in 1 .. Len(K) : K[i] <= key <=> i < c
  BY TreeLeaves DEF Tree, Found, Frame
<1>2. Chained(g, L) /\ Frame(g, L, K)
  BY <1>1, EntriesKeepShape DEF EntriesPut
<1> DEFINE E == Lists(f, L)
           F == Lists(g, L)
<1>3. /\ E \in Seq(Entries) /\ F \in Seq(Entries) /\ Len(E) = Len(K) + 1 /\ Len(F) = Len(E)
      /\ E[c] = f.pages[L[c]].entries /\ F[c] = d
      /\ \A j \in 1 .. Len(E) : j # c => F[j] = E[j]
      /\ c \in 1 .. Len(E)
  BY <1>1 DEF EntriesPut
<1> HIDE DEF E, F
<1>4. \A i \in 1 .. Len(K) : K[i] \in Int
  BY <1>1, SeparatorTyped
<1>5. /\ InOrder(E) /\ Separated(E, K) /\ Ascending(F[c])
      /\ \A x \in Range(F[c]) : x[1] = key \/ x \in Range(E[c])
  BY <1>1, <1>3 DEF E
<1>6. InOrder(F) /\ Separated(F, K)
  BY <1>1, <1>3, <1>4, <1>5, ReplaceLeaf
<1>7. Held(F) = (Held(E) \ A) \union B
  <2>1. Placed(E, c, key)
    BY <1>1, <1>3, <1>4, <1>5, FoundPlace
  <2>2. Range(F[c]) = (Range(E[c]) \ A) \union B
    BY <1>3
  <2> QED
    <3>1. /\ E \in Seq(Entries) /\ F \in Seq(Entries) /\ Len(F) = Len(E)
          /\ c \in 1 .. Len(E) /\ Placed(E, c, key) /\ key \in Int
          /\ \A j \in 1 .. Len(E) : j # c => F[j] = E[j]
          /\ \A x \in A : x[1] = key
          /\ Changed(Range(E[c]), Range(F[c]), A, B)
      BY <1>3, <2>1, <2>2 DEF Changed
    <3>2. Changed(Held(E), Held(F), A, B)
      BY <3>1, HeldReplaced
    <3> QED
      BY <3>2 DEF Changed
<1>8. Tree(g, L, K)
  BY <1>2, <1>6 DEF Tree, F
<1> QED
  BY <1>2, <1>7, <1>8 DEF LeafPut, EntriesPut, E, F
-----------------------------------------------------------------------------
(* The operations *)

\* The entries of the leaf where the search for a key ends.
LEMMA FoundEntries ==
    ASSUME NEW f, NEW L, NEW K, Tree(f, L, K), NEW key \in Int, NEW c, Found(f, L, K, key, c)
    PROVE  /\ f.pages[L[c]].entries \in Entries /\ Ascending(f.pages[L[c]].entries)
           /\ Range(f.pages[L[c]].entries) \subseteq Held(Lists(f, L))
           /\ \A x \in Held(Lists(f, L)) : x[1] = key => x \in Range(f.pages[L[c]].entries)
<1>1. /\ f \in Files /\ LeafSeq(f, L) /\ Len(K) \in Nat /\ Len(L) = Len(K) + 1 /\ c \in 1 .. Len(L)
      /\ InOrder(Lists(f, L)) /\ Separated(Lists(f, L), K)
      /\ K \in Seq(NodeKeys) /\ \A i \in 1 .. Len(K) : K[i] <= key <=> i < c
  BY TreeLeaves DEF Tree, Found, Frame
<1> DEFINE E == Lists(f, L)
<1>2. E \in Seq(Entries) /\ Len(E) = Len(L) /\ E[c] = f.pages[L[c]].entries
  BY <1>1, ListsTyped
<1> HIDE DEF E
<1>3. E[c] \in Entries /\ Ascending(E[c])
  BY <1>1, <1>2, ListTyped DEF InOrder, E
<1>4. Range(E[c]) \subseteq Held(E)
  BY <1>1, <1>2, HeldMembership
<1>5. Placed(E, c, key)
  <2>1. \A i \in 1 .. Len(K) : K[i] \in Int
    BY <1>1, SeparatorTyped
  <2>2. /\ Len(E) = Len(K) + 1 /\ Separated(E, K) /\ c \in 1 .. Len(E)
    BY <1>1, <1>2 DEF E
  <2> QED
    BY <1>1, <1>2, <2>1, <2>2, FoundPlace
<1>6. ASSUME NEW x \in Held(E), x[1] = key PROVE x \in Range(E[c])
  <2>1. PICK j \in 1 .. Len(E) : x \in Range(E[j])
    BY HeldMembership
  <2>2. (j < c => x[1] < key) /\ (c < j => key < x[1])
    BY <1>5, <2>1 DEF Placed
  <2>3. j = c
    BY <1>1, <1>2, <1>6, <2>2
  <2> QED
    BY <2>1, <2>3
<1> QED
  BY <1>2, <1>3, <1>4, <1>6 DEF E

\* How full leaves are before an insert.
Roomy(f, L) ==
    /\ Len(L) <= MAX_KEYS_INTERNAL + 1
    /\ \A i \in 1 .. Len(L) : /\ Filled(f, L, i) <= MAX_KEYS_LEAF
                              /\ Len(L) > 1 => Least(Len(L)) <= Filled(f, L, i)

\* An entry is put into its leaf.
EntryAdded(f, g, L, K, c, x) ==
    \E d : LeafPut(f, g, L, K, c, d, {}, {x}) /\ Len(d) = Filled(f, L, c) + 1

\* insert_in_leaf keeps the tree.
LEMMA EntryPut ==
    ASSUME NEW f, NEW L, NEW K, Tree(f, L, K), Chained(f, L), NEW key \in Keys, NEW value \in Values,
           \A x \in Held(Lists(f, L)) : x[1] # key,
           NEW c, Found(f, L, K, key, c),
           NEW g, g = Write(f, L[c], InsertInLeaf(f.pages[L[c]], key, value))
    PROVE  EntryAdded(f, g, L, K, c, <<key, value>>)
<1> DEFINE e == f.pages[L[c]].entries
           p == Below(LeafKeys(f.pages[L[c]]), key)
           d == InsertAt(e, p + 1, <<key, value>>)
<1>1. key \in Int
  BY TreeAssumption
<1>2. /\ e \in Entries /\ Ascending(e) /\ Range(e) \subseteq Held(Lists(f, L))
  BY <1>1, FoundEntries
<1>3. p \in 0 .. Len(e) /\ \A i \in 1 .. Len(e) : e[i][1] < key <=> i <= p
  BY <1>1, <1>2, EntryPlace
<1>4. g = Write(f, L[c], [f.pages[L[c]] EXCEPT !.entries = d])
  BY DEF InsertInLeaf
<1>5. Len(e) = Filled(f, L, c)
  BY DEF Filled
<1> HIDE DEF p
<1>6. /\ d \in Entries /\ Len(d) = Len(e) + 1 /\ Ascending(d)
      /\ Range(d) = Range(e) \union {<<key, value>>}
  <2>1. \A x \in Range(e) : x[1] # key
    BY <1>2
  <2> HIDE DEF e
  <2> QED
    BY <1>2, <1>3, <2>1, InsertEntry
<1> HIDE DEF d
<1>7. f \in Files /\ LeafSeq(f, L) /\ c \in 1 .. Len(L)
  BY TreeLeaves DEF Found
<1>8. EntriesPut(f, g, L, c, d)
  BY <1>4, <1>6, <1>7, EntriesWritten
<1> DEFINE A == {}
           B == {<<key, value>>}
<1>9. /\ \A x \in A : x[1] = key
      /\ \A x \in B : x[1] = key
      /\ Range(d) = (Range(f.pages[L[c]].entries) \ A) \union B
  BY <1>6
<1> HIDE DEF A, B
<1>10. LeafPut(f, g, L, K, c, d, A, B)
  BY <1>1, <1>6, <1>8, <1>9, LeafWritten
<1> QED
  BY <1>5, <1>6, <1>10 DEF A, B, EntryAdded

\* insert, in a tree that is there
LEMMA InsertedInto ==
    ASSUME NEW f, NEW L, NEW K, Tree(f, L, K), Chained(f, L), f.ok, Roomy(f, L),
           NEW key \in Keys, NEW value \in Values, \A x \in Held(Lists(f, L)) : x[1] # key,
           NEW g, g = Inserted(f, key, value)
    PROVE  Balanced(g, Held(Lists(f, L)) \union {<<key, value>>})
<1>1. /\ f \in Files /\ Len(L) \in Nat /\ Len(L) >= 1
      /\ \A i \in 1 .. Len(L) : Filled(f, L, i) \in Nat
  BY TreeLeaves
<1>2. PICK low \in Nat, max \in Nat : low = Least(Len(L)) /\ max = MAX_KEYS_LEAF /\ 1 <= low
  BY <1>1, LeastBounds
<1>3. PICK c : Found(f, L, K, key, c)
  <2>1. Len(L) > 1 => \A i \in 1 .. Len(L) : Filled(f, L, i) # 0
    BY <1>1, <1>2 DEF Roomy
  <2>2. key \in Int
    BY TreeAssumption
  <2> QED
    BY <2>1, <2>2, LeafFound
<1>4. c \in 1 .. Len(L) /\ FindLeaf(f, key).id = L[c]
      /\ (Len(L) > 1 => FindLeaf(f, key).parent = f.root /\ FindLeaf(f, key).place = c)
  BY <1>3 DEF Found
<1>5. f.root # None
  <2>1. f.root \in DOMAIN f.pages /\ DOMAIN f.pages = 1 .. Len(f.pages)
    BY <1>1, FileTyped DEF Tree, Frame
  <2> QED
    BY <2>1 DEF None
<1> DEFINE h == Write(f, L[c], InsertInLeaf(f.pages[L[c]], key, value))
           X == Held(Lists(f, L)) \union {<<key, value>>}
<1>6. g = IF Overflow(h.pages[L[c]])
          THEN HandleLeafOverflow(h, L[c], FindLeaf(f, key).parent, FindLeaf(f, key).place) ELSE h
  BY <1>4, <1>5 DEF Inserted
<1>7. PICK d : LeafPut(f, h, L, K, c, d, {}, {<<key, value>>}) /\ Len(d) = Filled(f, L, c) + 1
  <2>1. EntryAdded(f, h, L, K, c, <<key, value>>)
    BY <1>3, EntryPut
  <2> QED
    BY <2>1 DEF EntryAdded
<1> HIDE DEF h
<1>8. /\ Tree(h, L, K) /\ Chained(h, L) /\ h.ok /\ h.root = f.root
      /\ Size(h.pages[L[c]]) = Filled(f, L, c) + 1 /\ h.pages[L[c]].isLeaf
      /\ Filled(h, L, c) = Filled(f, L, c) + 1
      /\ \A i \in 1 .. Len(L) : i # c => Filled(h, L, i) = Filled(f, L, i)
      /\ Held(Lists(h, L)) = X
  BY <1>7 DEF LeafPut, Size
<1> HIDE DEF X
<1>9. OthersSized(h, L, {c})
  BY <1>1, <1>4, <1>8 DEF Roomy, OthersSized
<1>10. PICK x \in Nat : /\ x = Filled(f, L, c) /\ x <= max /\ (Len(L) > 1 => low <= x)
  BY <1>1, <1>2, <1>4 DEF Roomy
<1>11. CASE x + 1 > max
  <2>1. Overflow(h.pages[L[c]])
    BY <1>2, <1>8, <1>10, <1>11 DEF Overflow, MaxSize
  <2>2. g = HandleLeafOverflow(h, L[c], FindLeaf(f, key).parent, FindLeaf(f, key).place)
    BY <1>6, <2>1
  <2>3. Filled(h, L, c) = MAX_KEYS_LEAF + 1
    BY <1>2, <1>8, <1>10, <1>11
  <2>4. PICK parent, i : /\ parent = FindLeaf(f, key).parent /\ i = FindLeaf(f, key).place
                         /\ Len(L) > 1 => parent = h.root /\ i = c
    BY <1>4, <1>8
  <2>5. g = HandleLeafOverflow(h, L[c], parent, i)
    BY <2>2, <2>4
  <2>6. Balanced(g, Held(Lists(h, L)))
    BY <1>4, <1>8, <1>9, <2>3, <2>4, <2>5, OverflowHandled
  <2> QED
    BY <1>8, <2>6 DEF X
<1>12. CASE ~(x + 1 > max)
  <2>1. ~Overflow(h.pages[L[c]])
    BY <1>2, <1>8, <1>10, <1>12 DEF Overflow, MaxSize
  <2>2. g = h
    BY <1>6, <2>1
  <2>3. low <= x + 1
    <3>1. CASE Len(L) = 1
      BY <1>2, <3>1 DEF Least
    <3>2. CASE Len(L) > 1
      BY <1>10, <3>2
    <3> QED
      BY <1>1, <3>1, <3>2, OneOrMore
  <2>4. Filled(h, L, c) = x + 1 /\ x + 1 <= max
    BY <1>2, <1>8, <1>10, <1>12
  <2>5. \A i \in 1 .. Len(L) : Least(Len(L)) <= Filled(h, L, i) /\ Filled(h, L, i) <= MAX_KEYS_LEAF
    <3> TAKE i \in 1 .. Len(L)
    <3>1. CASE i = c
      BY <1>2, <2>3, <2>4, <3>1
    <3>2. CASE i # c
      BY <1>9, <3>2 DEF OthersSized
    <3> QED
      BY <3>1, <3>2
  <2>6. Sized(h, L)
    BY <1>9, <2>5 DEF OthersSized, Sized
  <2> QED
    BY <1>8, <2>2, <2>6 DEF Balanced, Whole, X
<1> QED
  BY <1>11, <1>12

\* The file of a tree without a root.
Empty(f) ==
    /\ f \in Files /\ PagesTyped(f) /\ f.root = None /\ f.first = None /\ f.ok
    /\ \A id \in DOMAIN f.pages : f.pages[id].deleted

\* What the file is between two operations.
Stored(f, X) == (Empty(f) /\ X = {}) \/ Balanced(f, X)

\* create_root
LEMMA RootCreated ==
    ASSUME NEW f, Empty(f), NEW g, g = CreateRoot(f)
    PROVE  \E l : /\ Tree(g, <<l>>, <<>>) /\ Chained(g, <<l>>) /\ g.ok /\ g.root # None
                  /\ Held(Lists(g, <<l>>)) = {} /\ Filled(g, <<l>>, 1) = 0
<1> DEFINE l == NewPage(f)
           h == Write(f, l, NewLeaf)
<1>1. f \in Files /\ PagesTyped(f)
  BY DEF Empty
<1>2. l \in 1 .. Len(f.pages) + 1 /\ Len(f.pages) \in Nat
  BY <1>1, NewPageFree, FileTyped
<1>3. NewLeaf \in Node /\ NewLeaf.entries = <<>> /\ NewLeaf.isLeaf /\ ~NewLeaf.deleted
      /\ NewLeaf.next = None /\ Len(NewLeaf.children) = 0
  BY NewNodesTyped DEF NewLeaf
<1>4. g = [h EXCEPT !.root = l, !.first = l]
  BY DEF CreateRoot
<1> HIDE DEF l
<1>5. /\ h \in Files /\ h.ok = f.ok
      /\ DOMAIN h.pages = DOMAIN f.pages \union {l}
      /\ h.pages[l] = NewLeaf
      /\ \A i \in DOMAIN f.pages : i # l => h.pages[i] = f.pages[i]
  <2>1. PICK node \in Node : node = NewLeaf
    BY <1>3
  <2>2. h = Write(f, l, node)
    BY <2>1
  <2> HIDE DEF h
  <2>3. /\ h \in Files /\ h.ok = f.ok
        /\ DOMAIN h.pages = DOMAIN f.pages \union {l}
        /\ h.pages[l] = node
        /\ \A i \in DOMAIN f.pages : i # l => h.pages[i] = f.pages[i]
    BY <1>1, <1>2, <2>2, WriteEffect
  <2> QED
    BY <2>1, <2>3
<1> HIDE DEF h
<1>6. g \in Files /\ g.pages = h.pages /\ g.root = l /\ g.first = l /\ g.ok = f.ok
  <2>1. l \in Int /\ h.pages \in Seq(Node) /\ h.ok \in BOOLEAN
    BY <1>2, <1>5, FileTyped
  <2>2. h = [pages |-> h.pages, root |-> h.root, first |-> h.first, ok |-> h.ok]
    BY <1>5 DEF Files
  <2>3. g = [pages |-> h.pages, root |-> l, first |-> l, ok |-> h.ok]
    BY <1>4, <2>2
  <2> QED
    BY <1>5, <2>1, <2>3 DEF Files
<1>7. PagesTyped(g)
  <2> SUFFICES ASSUME NEW i \in DOMAIN g.pages
               PROVE  /\ g.pages[i].next \in DOMAIN g.pages \union {None}
                      /\ Len(g.pages[i].children)
                           = IF g.pages[i].isLeaf THEN 0 ELSE Len(g.pages[i].keys) + 1
    BY DEF PagesTyped
  <2>1. CASE i = l
    BY <1>3, <1>5, <1>6, <2>1
  <2>2. CASE i # l
    BY <1>1, <1>5, <1>6, <2>2 DEF PagesTyped
  <2> QED
    BY <2>1, <2>2
<1>8. /\ l \in DOMAIN g.pages /\ l \in Nat /\ g.pages[l].isLeaf /\ ~g.pages[l].deleted
      /\ g.pages[l].entries = <<>> /\ g.pages[l].next = None
  BY <1>2, <1>3, <1>5, <1>6
<1>9. \A id \in DOMAIN g.pages : g.pages[id].deleted \/ id = l
  BY <1>5, <1>6 DEF Empty
<1>10. Ascending(g.pages[l].entries) /\ Len(g.pages[l].entries) = 0 /\ Range(g.pages[l].entries) = {}
  <2>1. Len(<<>>) = 0 /\ Range(<<>>) = {} /\ Ascending(<<>>)
    BY DEF Range, Ascending
  <2> QED
    BY <1>8, <2>1
<1>11. /\ Tree(g, <<l>>, <<>>) /\ Chained(g, <<l>>)
       /\ Held(Lists(g, <<l>>)) = Range(g.pages[l].entries)
       /\ Filled(g, <<l>>, 1) = Len(g.pages[l].entries)
  BY <1>6, <1>7, <1>8, <1>9, <1>10, OneLeafTree
<1>12. g.root # None /\ g.ok
  BY <1>2, <1>6 DEF None, Empty
<1> QED
  BY <1>10, <1>11, <1>12

\* A tree of height 3 is not one of height 2.
LEMMA HighIsHigh ==
    ASSUME NEW f, High(f)
    PROVE  ~(Height(f) <= 2)
<1>1. f.root # None /\ ~f.pages[f.root].isLeaf /\ ~f.pages[f.pages[f.root].children[1]].isLeaf
  BY DEF High, None
<1>2. Height(f) = 3
  BY <1>1 DEF Height
<1> QED
  BY <1>2

\* insert
LEMMA InsertedStored ==
    ASSUME NEW f, NEW X, Stored(f, X), Height(f) <= 2, f.ok,
           NEW key \in Keys, NEW value \in Values, \A x \in X : x[1] # key,
           NEW g, g = Inserted(f, key, value)
    PROVE  Stored(g, X \union {<<key, value>>})
<1>1. CASE Empty(f) /\ X = {}
  <2>1. PICK h : h = CreateRoot(f)
    OBVIOUS
  <2>2. PICK l : /\ Tree(h, <<l>>, <<>>) /\ Chained(h, <<l>>) /\ h.ok /\ h.root # None
                 /\ Held(Lists(h, <<l>>)) = {} /\ Filled(h, <<l>>, 1) = 0
    BY <1>1, <2>1, RootCreated
  <2>3. g = Inserted(h, key, value)
    BY <1>1, <2>1, <2>2 DEF Inserted, Empty
  <2> DEFINE L == <<l>>
             K == <<>>
  <2>4. Len(L) = 1 /\ \A i \in 1 .. Len(L) : i = 1
    OBVIOUS
  <2> HIDE DEF L, K
  <2>5. /\ Tree(h, L, K) /\ Chained(h, L) /\ Held(Lists(h, L)) = {} /\ Filled(h, L, 1) = 0
    BY <2>2 DEF L, K
  <2>6. Roomy(h, L)
    <3>1. 0 <= MAX_KEYS_LEAF /\ 1 <= MAX_KEYS_INTERNAL + 1
      BY LeastBounds
    <3> QED
      BY <2>4, <2>5, <3>1 DEF Roomy
  <2>7. Balanced(g, Held(Lists(h, L)) \union {<<key, value>>})
    BY <2>2, <2>3, <2>5, <2>6, InsertedInto
  <2> QED
    BY <1>1, <2>5, <2>7 DEF Stored
<1>2. ASSUME NEW L, NEW K, Whole(f, L, K, X) PROVE Stored(g, X \union {<<key, value>>})
  <2>1. Tree(f, L, K) /\ Chained(f, L) /\ Held(Lists(f, L)) = X /\ Sized(f, L)
    BY <1>2 DEF Whole
  <2>2. Roomy(f, L)
    BY <2>1 DEF Sized, Roomy
  <2>3. Balanced(g, Held(Lists(f, L)) \union {<<key, value>>})
    BY <2>1, <2>2, InsertedInto
  <2> QED
    BY <2>1, <2>3 DEF Stored
<1>3. ~High(f)
  BY HighIsHigh
<1> QED
  BY <1>1, <1>2, <1>3 DEF Stored, Balanced

\* What an update or a remove finds.
LEMMA SizedFound ==
    ASSUME NEW f, NEW L, NEW K, NEW X, Whole(f, L, K, X), NEW x \in X, NEW key \in Keys, key = x[1]
    PROVE  \E c : /\ Found(f, L, K, key, c) /\ c \in 1 .. Len(L) /\ FindLeaf(f, key).id = L[c]
                  /\ Len(L) > 1 => FindLeaf(f, key).parent = f.root /\ FindLeaf(f, key).place = c
                  /\ x \in Range(f.pages[L[c]].entries)
<1>1. Tree(f, L, K) /\ Held(Lists(f, L)) = X /\ Sized(f, L)
  BY DEF Whole
<1>2. key \in Int
  BY TreeAssumption
<1>3. \A i \in 1 .. Len(L) : Filled(f, L, i) # 0
  <2>1. Len(L) \in Nat /\ \A i \in 1 .. Len(L) : Filled(f, L, i) \in Nat
    BY <1>1, TreeLeaves
  <2>2. PICK low \in Nat : low = Least(Len(L)) /\ 1 <= low
    BY <2>1, LeastBounds
  <2> QED
    BY <1>1, <2>1, <2>2 DEF Sized
<1>4. PICK c : Found(f, L, K, key, c)
  BY <1>1, <1>2, <1>3, LeafFound
<1>5. x \in Range(f.pages[L[c]].entries)
  BY <1>1, <1>2, <1>4, FoundEntries
<1> QED
  BY <1>4, <1>5 DEF Found

\* update, in the leaf.
LEMMA EntriesUpdated ==
    ASSUME NEW node, node.entries \in Entries, Ascending(node.entries),
           NEW x \in Range(node.entries), NEW y, SameKey(x, y),
           NEW i, i = Below(LeafKeys(node), x[1]) + 1
    PROVE  ValueSet(node.entries, Replaced(node.entries, i, y), x, y)
<1>1. i \in 1 .. Len(node.entries) /\ node.entries[i] = x
  BY EntryFound
<1> DEFINE e == node.entries
           d == Replaced(e, i, y)
<1>2. e \in Entries /\ Ascending(e) /\ i \in 1 .. Len(e) /\ x = e[i] /\ d = Replaced(e, i, y)
  BY <1>1
<1> HIDE DEF e, d
<1>3. ValueSet(e, d, x, y)
  BY <1>2, EntryUpdated
<1> QED
  BY <1>3 DEF e, d

\* The value of an entry is replaced in its leaf.
ValueReplaced(f, g, L, K, c, x, y) ==
    \E d : LeafPut(f, g, L, K, c, d, {x}, {y}) /\ Len(d) = Filled(f, L, c)

\* update keeps the tree.
LEMMA ValuePut ==
    ASSUME NEW f, NEW L, NEW K, Tree(f, L, K), Chained(f, L), NEW key \in Keys, NEW c, Found(f, L, K, key, c),
           NEW x \in Range(f.pages[L[c]].entries), x[1] = key, NEW y, y[1] = key,
           NEW d, ValueSet(f.pages[L[c]].entries, d, x, y),
           NEW g, g = Write(f, L[c], [f.pages[L[c]] EXCEPT !.entries = d])
    PROVE  ValueReplaced(f, g, L, K, c, x, y)
<1> DEFINE e == f.pages[L[c]].entries
<1>1. key \in Int
  BY TreeAssumption
<1>2. d \in Entries /\ Len(d) = Len(e) /\ Ascending(d) /\ Range(d) = (Range(e) \ {x}) \union {y}
  BY DEF ValueSet, Changed
<1>3. f \in Files /\ LeafSeq(f, L) /\ c \in 1 .. Len(L)
  BY TreeLeaves DEF Found
<1>4. EntriesPut(f, g, L, c, d)
  BY <1>2, <1>3, EntriesWritten
<1> DEFINE A == {x}
           B == {y}
<1>5. /\ \A z \in A : z[1] = key
      /\ \A z \in B : z[1] = key
      /\ Range(d) = (Range(f.pages[L[c]].entries) \ A) \union B
  BY <1>2
<1> HIDE DEF A, B
<1>6. LeafPut(f, g, L, K, c, d, A, B)
  BY <1>1, <1>2, <1>4, <1>5, LeafWritten
<1> QED
  BY <1>2, <1>6 DEF A, B, ValueReplaced, Filled

\* An entry is removed from its leaf.
LEMMA EntryCut ==
    ASSUME NEW f, NEW L, NEW K, Tree(f, L, K), Chained(f, L), NEW key \in Keys,
           NEW c, Found(f, L, K, key, c), NEW x \in Range(f.pages[L[c]].entries), x[1] = key,
           NEW g, g = Write(f, L[c], RemoveFromLeaf(f.pages[L[c]], key))
    PROVE  \E d : /\ LeafPut(f, g, L, K, c, d, {x}, {}) /\ Len(d) = Filled(f, L, c) - 1
                  /\ d \in Entries
<1> DEFINE e == f.pages[L[c]].entries
           i == Below(LeafKeys(f.pages[L[c]]), key) + 1
           d == RemoveAt(e, i)
<1>1. key \in Int
  BY TreeAssumption
<1>2. e \in Entries /\ Ascending(e)
  BY <1>1, FoundEntries
<1>3. i \in 1 .. Len(e) /\ e[i] = x
  BY <1>2, EntryFound
<1>4. g = Write(f, L[c], [f.pages[L[c]] EXCEPT !.entries = d])
  BY DEF RemoveFromLeaf
<1>5. Len(e) = Filled(f, L, c)
  BY DEF Filled
<1> HIDE DEF i
<1>6. /\ d \in Entries /\ Len(d) = Len(e) - 1 /\ Ascending(d)
      /\ Range(d) = Range(e) \ {e[i]}
  <2> HIDE DEF e
  <2> QED
    BY <1>2, <1>3, RemoveEntry
<1> HIDE DEF d
<1>7. f \in Files /\ LeafSeq(f, L) /\ c \in 1 .. Len(L)
  BY TreeLeaves DEF Found
<1>8. EntriesPut(f, g, L, c, d)
  BY <1>4, <1>6, <1>7, EntriesWritten
<1> DEFINE A == {x}
           B == {}
<1>9. /\ \A y \in A : y[1] = key
      /\ \A y \in B : y[1] = key
      /\ Range(d) = (Range(f.pages[L[c]].entries) \ A) \union B
  BY <1>3, <1>6
<1> HIDE DEF A, B
<1>10. LeafPut(f, g, L, K, c, d, A, B)
  BY <1>1, <1>6, <1>8, <1>9, LeafWritten
<1> QED
  BY <1>5, <1>6, <1>10 DEF A, B

\* update
LEMMA UpdatedStored ==
    ASSUME NEW f, NEW X, Stored(f, X), Height(f) <= 2, f.ok,
           NEW key \in Keys, NEW value \in Values, NEW x \in X, x[1] = key,
           NEW g, g = Updated(f, key, value)
    PROVE  Stored(g, (X \ {x}) \union {<<key, value>>})
<1>1. PICK L, K : Whole(f, L, K, X)
  <2>1. ~High(f)
    BY HighIsHigh
  <2> QED
    BY <2>1 DEF Stored, Balanced
<1>2. Tree(f, L, K) /\ Chained(f, L) /\ Held(Lists(f, L)) = X /\ Sized(f, L)
  BY <1>1 DEF Whole
<1>3. PICK c : /\ Found(f, L, K, key, c) /\ c \in 1 .. Len(L) /\ FindLeaf(f, key).id = L[c]
               /\ x \in Range(f.pages[L[c]].entries)
  BY <1>1, SizedFound
<1>4. PICK i, y : i = Below(LeafKeys(f.pages[L[c]]), x[1]) + 1 /\ y = <<key, value>>
  OBVIOUS
<1> DEFINE d == Replaced(f.pages[L[c]].entries, i, y)
<1>5. g = Write(f, L[c], [f.pages[L[c]] EXCEPT !.entries = d])
  BY <1>3, <1>4 DEF Updated, Replaced
<1>6. \E b : LeafPut(f, g, L, K, c, b, {x}, {<<key, value>>}) /\ Len(b) = Filled(f, L, c)
  <2>1. f.pages[L[c]].entries \in Entries /\ Ascending(f.pages[L[c]].entries)
    <3>1. key \in Int
      BY TreeAssumption
    <3> QED
      BY <1>2, <1>3, <3>1, FoundEntries
  <2>2. y[1] = key
    BY <1>4
  <2>3. SameKey(x, y)
    BY <1>4, Zenon DEF SameKey
  <2>4. ValueSet(f.pages[L[c]].entries, d, x, y)
    BY <1>3, <1>4, <2>1, <2>3, EntriesUpdated
  <2> HIDE DEF d
  <2>5. ValueReplaced(f, g, L, K, c, x, y)
    BY <1>2, <1>3, <1>5, <2>2, <2>4, ValuePut
  <2> QED
    BY <1>4, <2>5 DEF ValueReplaced
<1>7. /\ Tree(g, L, K) /\ Chained(g, L) /\ g.ok
      /\ Held(Lists(g, L)) = (X \ {x}) \union {<<key, value>>}
      /\ \A j \in 1 .. Len(L) : Filled(g, L, j) = Filled(f, L, j)
  BY <1>2, <1>6 DEF LeafPut
<1>8. Sized(g, L)
  BY <1>2, <1>7 DEF Sized
<1> QED
  BY <1>7, <1>8 DEF Stored, Balanced, Whole

\* All pages are marked.
AllDeleted(f) ==
    /\ f \in Files /\ PagesTyped(f) /\ f.ok
    /\ \A id \in DOMAIN f.pages : f.pages[id].deleted

\* The last page is gone.
LEMMA RootUnset ==
    ASSUME NEW f, AllDeleted(f), NEW g, g = [f EXCEPT !.root = None, !.first = None]
    PROVE  Empty(g)
<1>1. f \in Files /\ PagesTyped(f) /\ f.ok
  BY DEF AllDeleted
<1>2. None \in Int /\ f.pages \in Seq(Node) /\ f.ok \in BOOLEAN
  BY <1>1, FileTyped DEF None
<1>3. f = [pages |-> f.pages, root |-> f.root, first |-> f.first, ok |-> f.ok]
  BY <1>1 DEF Files
<1>4. g = [pages |-> f.pages, root |-> None, first |-> None, ok |-> f.ok]
  BY <1>3
<1>5. g.pages = f.pages /\ g.root = None /\ g.first = None /\ g.ok
  BY <1>1, <1>4
<1>6. g \in Files
  BY <1>2, <1>4 DEF Files
<1>7. PagesTyped(g)
  BY <1>1, <1>5 DEF PagesTyped
<1> QED
  BY <1>5, <1>6, <1>7 DEF Empty, AllDeleted

\* The last leaf is marked.
LEMMA LastDeleted ==
    ASSUME NEW f, NEW L, NEW K, Tree(f, L, K), Len(L) = 1, f.ok, NEW g, g = MarkDeleted(f, f.root)
    PROVE  AllDeleted(g)
<1>1. f \in Files /\ PagesTyped(f) /\ f.root = L[1]
  BY OneLeaf, TreeLeaves
<1>2. f.root \in DOMAIN f.pages
  BY DEF Tree, Frame
<1>3. \A id \in DOMAIN f.pages : f.pages[id].deleted \/ id = f.root
  <2>1. \A i \in 1 .. Len(L) : i = 1
    OBVIOUS
  <2> QED
    BY <1>1, <2>1 DEF Tree, Frame
<1>4. PICK id \in DOMAIN f.pages : id = f.root /\ g = MarkDeleted(f, id)
  BY <1>2
<1>5. /\ g \in Files /\ PagesTyped(g) /\ g.ok = f.ok
      /\ DOMAIN g.pages = DOMAIN f.pages /\ g.pages[id].deleted
      /\ \A i \in DOMAIN f.pages : i # id => g.pages[i] = f.pages[i]
  <2>1. /\ g \in Files /\ PagesTyped(g)
        /\ g.root = f.root /\ g.first = f.first /\ g.ok = f.ok
        /\ DOMAIN g.pages = DOMAIN f.pages /\ g.pages[id].deleted
        /\ \A i \in DOMAIN f.pages : i # id => g.pages[i] = f.pages[i]
    <3>1. f \in Files /\ PagesTyped(f) /\ id \in DOMAIN f.pages /\ g = MarkDeleted(f, id)
      BY <1>1, <1>4
    <3> QED
      BY <3>1, MarkDeletedEffect, ZenonT(40)
  <2> QED
    BY <2>1
<1> QED
  BY <1>3, <1>4, <1>5 DEF AllDeleted

\* remove
LEMMA RemovedStored ==
    ASSUME NEW f, NEW X, Stored(f, X), Height(f) <= 2, f.ok,
           NEW key \in Keys, NEW x \in X, x[1] = key,
           NEW g, g = Removed(f, key)
    PROVE  Stored(g, X \ {x})
<1>1. PICK L, K : Whole(f, L, K, X)
  <2>1. ~High(f)
    BY HighIsHigh
  <2> QED
    BY <2>1 DEF Stored, Balanced
<1>2. /\ Tree(f, L, K) /\ Chained(f, L) /\ Held(Lists(f, L)) = X /\ Sized(f, L)
      /\ f \in Files /\ Len(L) \in Nat /\ Len(L) >= 1
      /\ \A i \in 1 .. Len(L) : Filled(f, L, i) \in Nat
  BY <1>1, TreeLeaves DEF Whole
<1>3. PICK low \in Nat, min \in Nat, max \in Nat :
        /\ low = Least(Len(L)) /\ min = MIN_KEYS_LEAF /\ max = MAX_KEYS_LEAF
        /\ 1 <= low /\ low <= min /\ min < max
  BY <1>2, LeastBounds
<1>4. PICK c : /\ Found(f, L, K, key, c) /\ c \in 1 .. Len(L) /\ FindLeaf(f, key).id = L[c]
               /\ Len(L) > 1 => FindLeaf(f, key).parent = f.root /\ FindLeaf(f, key).place = c
               /\ x \in Range(f.pages[L[c]].entries)
  BY <1>1, SizedFound
<1> DEFINE h == Write(f, L[c], RemoveFromLeaf(f.pages[L[c]], key))
<1>5. g = IF L[c] = f.root
          THEN IF h.pages[L[c]].entries # <<>> THEN h
               ELSE [MarkDeleted(h, L[c]) EXCEPT !.root = None, !.first = None]
          ELSE IF Underflow(h.pages[L[c]])
          THEN HandleLeafUnderflow(h, L[c], FindLeaf(f, key).parent, FindLeaf(f, key).place)
          ELSE h
  BY <1>4 DEF Removed
<1>6. PICK d \in Entries : LeafPut(f, h, L, K, c, d, {x}, {}) /\ Len(d) = Filled(f, L, c) - 1
  <2>1. /\ Tree(f, L, K) /\ Chained(f, L) /\ Found(f, L, K, key, c)
        /\ x \in Range(f.pages[L[c]].entries) /\ x[1] = key
        /\ h = Write(f, L[c], RemoveFromLeaf(f.pages[L[c]], key))
    BY <1>2, <1>4
  <2> HIDE DEF h
  <2> QED
    BY <2>1, EntryCut, SMTT(40)
<1> HIDE DEF h
<1>7. /\ Tree(h, L, K) /\ Chained(h, L) /\ h.ok /\ h.root = f.root
      /\ h.pages[L[c]].isLeaf /\ h.pages[L[c]].entries = d
      /\ Size(h.pages[L[c]]) = Filled(h, L, c) /\ Filled(h, L, c) = Filled(f, L, c) - 1
      /\ \A i \in 1 .. Len(L) : i # c => Filled(h, L, i) = Filled(f, L, i)
      /\ Held(Lists(h, L)) = X \ {x}
  BY <1>2, <1>6 DEF LeafPut, Size
<1>8. PICK y \in Nat : /\ y = Filled(h, L, c) /\ low <= y + 1 /\ y + 1 <= max
                       /\ Filled(f, L, c) = y + 1
  <2>1. PICK z \in Nat : z = Filled(f, L, c) /\ low <= z /\ z <= max
    BY <1>2, <1>3, <1>4 DEF Sized
  <2>2. z - 1 \in Nat /\ Filled(h, L, c) = z - 1
    BY <1>3, <1>7, <2>1
  <2> QED
    BY <2>1, <2>2
<1>9. OthersSized(h, L, {c})
  BY <1>2, <1>7 DEF Sized, OthersSized
\* A leaf that is as full as it must be.
<1>10. ASSUME low <= y, g = h PROVE Stored(g, X \ {x})
  <2>1. \A i \in 1 .. Len(L) : Least(Len(L)) <= Filled(h, L, i) /\ Filled(h, L, i) <= MAX_KEYS_LEAF
    <3> TAKE i \in 1 .. Len(L)
    <3>1. CASE i = c
      BY <1>3, <1>8, <1>10, <3>1
    <3>2. CASE i # c
      BY <1>9, <3>2 DEF OthersSized
    <3> QED
      BY <3>1, <3>2
  <2>2. Sized(h, L)
    BY <1>9, <2>1 DEF OthersSized, Sized
  <2> QED
    BY <1>7, <1>10, <2>2 DEF Stored, Balanced, Whole
<1>11. CASE Len(L) = 1
  <2>1. L[c] = f.root /\ c = 1 /\ L[1] = h.root
    BY <1>4, <1>7, <1>11, <1>2, OneLeaf
  <2>2. Len(d) = y /\ low = 1
    BY <1>3, <1>6, <1>8, <1>11 DEF Least
  <2>3. CASE h.pages[L[c]].entries # <<>>
    <3>1. y # 0
      BY <1>6, <1>7, <2>2, <2>3, EmptySeq DEF Entries
    <3>2. low <= y /\ g = h
      BY <1>5, <2>1, <2>2, <2>3, <3>1
    <3> QED
      BY <1>10, <3>2
  <2>4. CASE h.pages[L[c]].entries = <<>>
    <3>1. g = [MarkDeleted(h, L[1]) EXCEPT !.root = None, !.first = None]
      BY <1>5, <2>1, <2>4
    <3>2. Empty(g)
      <4>1. PICK m : m = MarkDeleted(h, h.root)
        OBVIOUS
      <4>2. AllDeleted(m)
        BY <1>7, <1>11, <4>1, LastDeleted
      <4>3. g = [m EXCEPT !.root = None, !.first = None]
        BY <2>1, <3>1, <4>1
      <4> QED
        BY <4>2, <4>3, RootUnset
    <3>3. Held(Lists(h, L)) = {}
      <4>1. /\ Len(Lists(h, L)) = 1 /\ Lists(h, L)[1] = <<>>
        BY <1>7, <1>11, <2>1, <2>4, TreeLeaves, ListsTyped
      <4>2. Range(<<>>) = {}
        BY DEF Range
      <4> QED
        BY <4>1, <4>2 DEF Held
    <3> QED
      BY <1>7, <3>2, <3>3 DEF Stored
  <2> QED
    BY <2>3, <2>4
<1>12. CASE Len(L) > 1
  <2>1. L[c] # f.root
    BY <1>2, <1>4, <1>12, ChildLeaf
  <2>2. Underflow(h.pages[L[c]]) <=> y < min
    BY <1>3, <1>7, <1>8 DEF Underflow, MinSize
  <2>3. CASE y < min
    <3>1. PICK root, i : root = FindLeaf(f, key).parent /\ i = FindLeaf(f, key).place
                         /\ root = h.root /\ i = c
      BY <1>4, <1>7, <1>12
    <3>2. g = HandleLeafUnderflow(h, L[c], h.root, c)
      BY <1>5, <2>1, <2>2, <2>3, <3>1
    <3>3. Short(h, L, c)
      BY <1>3, <1>8, <1>9, <2>3 DEF Short
    <3>4. Balanced(g, Held(Lists(h, L)))
      BY <1>4, <1>7, <1>12, <3>2, <3>3, UnderflowHandled
    <3> QED
      BY <1>7, <3>4 DEF Stored
  <2>4. CASE ~(y < min)
    <3>1. low <= y /\ g = h
      BY <1>3, <1>5, <2>1, <2>2, <2>4
    <3> QED
      BY <1>10, <3>1
  <2> QED
    BY <2>3, <2>4
<1> QED
  BY <1>2, <1>11, <1>12, OneOrMore
-----------------------------------------------------------------------------
(* The invariant *)

\* The entries of the contents.
Graph(c) == {<<key, c[key]>> : key \in DOMAIN c}

ContentsTyped ==
    DOMAIN contents \subseteq Keys /\ \A key \in DOMAIN contents : contents[key] \in Values

\* Between two operations, the file is without a tree, or a tree of height 1 or 2
\* with what was inserted and not removed, or a tree of height 3.
TreeInv == ContentsTyped /\ Stored(file, Graph(contents))

\* The file of a new tree.
LEMMA InitTree == Init => TreeInv
<1> SUFFICES ASSUME Init PROVE TreeInv
  OBVIOUS
<1>1. file = [pages |-> <<>>, root |-> None, first |-> None, ok |-> TRUE] /\ contents = <<>>
  BY DEF Init
<1>2. file \in Files
  BY <1>1 DEF Files, None
<1>3. DOMAIN file.pages = {} /\ DOMAIN contents = {}
  BY <1>1
<1>4. Empty(file)
  BY <1>1, <1>2, <1>3 DEF Empty, PagesTyped
<1>5. Graph(contents) = {}
  BY <1>3 DEF Graph
<1> QED
  BY <1>3, <1>4, <1>5 DEF TreeInv, ContentsTyped, Stored

\* insert
LEMMA InsertKeepsTree ==
    ASSUME TreeInv, NEW key \in Keys, NEW value \in Values, InsertKey(key, value)
    PROVE  TreeInv'
<1>1. /\ Height(file) <= 2 /\ file.ok /\ key \notin DOMAIN contents
      /\ file' = Inserted(file, key, value)
      /\ contents' = [k \in DOMAIN contents \union {key} |-> IF k = key THEN value ELSE contents[k]]
  BY DEF InsertKey, Modelled
<1>2. ContentsTyped'
  BY <1>1 DEF TreeInv, ContentsTyped
<1>3. Graph(contents') = Graph(contents) \union {<<key, value>>}
  BY <1>1 DEF Graph
<1>4. \A x \in Graph(contents) : x[1] # key
  BY <1>1 DEF Graph
<1>5. Stored(file', Graph(contents) \union {<<key, value>>})
  BY <1>1, <1>4, InsertedStored DEF TreeInv
<1> QED
  BY <1>2, <1>3, <1>5 DEF TreeInv

\* update
LEMMA UpdateKeepsTree ==
    ASSUME TreeInv, NEW key \in Keys, NEW value \in Values, UpdateKey(key, value)
    PROVE  TreeInv'
<1>1. /\ Height(file) <= 2 /\ file.ok /\ key \in DOMAIN contents
      /\ file' = Updated(file, key, value)
      /\ contents' = [contents EXCEPT ![key] = value]
  BY DEF UpdateKey, Modelled
<1>2. ContentsTyped'
  BY <1>1 DEF TreeInv, ContentsTyped
<1> DEFINE x == <<key, contents[key]>>
<1>3. Graph(contents') = (Graph(contents) \ {x}) \union {<<key, value>>}
  BY <1>1 DEF Graph
<1>4. x \in Graph(contents) /\ x[1] = key
  BY <1>1 DEF Graph
<1> HIDE DEF x
<1>5. Stored(file', (Graph(contents) \ {x}) \union {<<key, value>>})
  BY <1>1, <1>4, UpdatedStored DEF TreeInv
<1> QED
  BY <1>2, <1>3, <1>5 DEF TreeInv

\* remove
LEMMA RemoveKeepsTree ==
    ASSUME TreeInv, NEW key \in Keys, RemoveKey(key)
    PROVE  TreeInv'
<1>1. /\ Height(file) <= 2 /\ file.ok /\ key \in DOMAIN contents
      /\ file' = Removed(file, key)
      /\ contents' = [k \in DOMAIN contents \ {key} |-> contents[k]]
  BY DEF RemoveKey, Modelled
<1>2. ContentsTyped'
  BY <1>1 DEF TreeInv, ContentsTyped
<1> DEFINE x == <<key, contents[key]>>
<1>3. Graph(contents') = Graph(contents) \ {x}
  BY <1>1 DEF Graph
<1>4. x \in Graph(contents) /\ x[1] = key
  BY <1>1 DEF Graph
<1> HIDE DEF x
<1>5. Stored(file', Graph(contents) \ {x})
  BY <1>1, <1>4, RemovedStored DEF TreeInv
<1> QED
  BY <1>2, <1>3, <1>5 DEF TreeInv

\* Whatever is inserted, updated and removed, the file is empty, or has a tree
\* of height 1 or 2 that is whole and holds exactly the contents, or one whose
\* internal root was split.
THEOREM TreeInvariant == Spec => []TreeInv
<1>1. Init => TreeInv
  BY InitTree
<1>2. TreeInv /\ [Next]_vars => TreeInv'
  <2> SUFFICES ASSUME TreeInv, [Next]_vars PROVE TreeInv'
    OBVIOUS
  <2>1. ASSUME NEW key \in Keys, NEW value \in Values, InsertKey(key, value) PROVE TreeInv'
    BY <2>1, InsertKeepsTree
  <2>2. ASSUME NEW key \in Keys, NEW value \in Values, UpdateKey(key, value) PROVE TreeInv'
    BY <2>2, UpdateKeepsTree
  <2>3. ASSUME NEW key \in Keys, RemoveKey(key) PROVE TreeInv'
    BY <2>3, RemoveKeepsTree
  <2>4. CASE UNCHANGED vars
    BY <2>4 DEF vars, TreeInv, ContentsTyped
  <2> QED
    BY <2>1, <2>2, <2>3, <2>4 DEF Next
<1> QED
  BY <1>1, <1>2, PTL DEF Spec
-----------------------------------------------------------------------------
(* What the invariant says of the tree *)

\* A tree of height 1 or 2, or none.
LEMMA LowTree ==
    ASSUME TreeInv, Height(file) <= 2
    PROVE  \/ Empty(file) /\ Graph(contents) = {}
           \/ \E L, K : Whole(file, L, K, Graph(contents))
<1>1. ~High(file)
  BY HighIsHigh
<1> QED
  BY <1>1 DEF TreeInv, Stored, Balanced

\* A file without a tree.
LEMMA LiveWhenEmpty ==
    ASSUME Empty(file)
    PROVE  Live = {} /\ Leaves = <<>> /\ file.root = None /\ file.first = None
BY DEF Empty, Live, Leaves

\* The leaves as a set.
LEMMA RangeOf ==
    ASSUME NEW L \in Seq(Nat), NEW x
    PROVE  x \in Range(L) <=> \E i \in 1 .. Len(L) : x = L[i]
BY DEF Range

\* The pages of a tree, as the properties name them.
LEMMA WholeShape ==
    ASSUME NEW L, NEW K, NEW X, Whole(file, L, K, X)
    PROVE  /\ file.root # None /\ file.root \in Live /\ Leaves = L
           /\ file.first = L[1] /\ 1 \in 1 .. Len(L) /\ DOMAIN L = 1 .. Len(L)
           /\ \A i \in 1 .. Len(L) : L[i] \in Live /\ file.pages[L[i]].isLeaf
           /\ \A id \in Live : id = file.root \/ \E i \in 1 .. Len(L) : id = L[i]
<1>1. Tree(file, L, K) /\ Chained(file, L)
  BY DEF Whole
<1>2. /\ file \in Files /\ LeafSeq(file, L) /\ Len(L) \in Nat /\ Len(L) >= 1 /\ L \in Seq(Nat)
  BY <1>1, TreeLeaves DEF LeafSeq
<1>3. \A i \in 1 .. Len(L) : L[i] \in Live /\ file.pages[L[i]].isLeaf
  BY <1>2 DEF LeafSeq, Live
<1>4. file.root \in DOMAIN file.pages /\ file.root # None
  <2>1. file.root \in DOMAIN file.pages /\ DOMAIN file.pages = 1 .. Len(file.pages)
    BY <1>1, <1>2, FileTyped DEF Tree, Frame
  <2> QED
    BY <2>1 DEF None
<1>5. \A id \in Live : id = file.root \/ \E i \in 1 .. Len(L) : id = L[i]
  BY <1>1 DEF Tree, Frame, Live
<1>6. 1 \in 1 .. Len(L) /\ file.first = L[1] /\ DOMAIN L = 1 .. Len(L)
  BY <1>1, <1>2 DEF Chained
<1>7. CASE Len(L) = 1
  <2>1. file.root = L[1] /\ L = <<L[1]>>
    BY <1>1, <1>7, OneLeaf
  <2>2. Leaves = L
    BY <1>3, <1>4, <1>6, <2>1 DEF Leaves, LeavesBelow
  <2> QED
    BY <1>3, <1>4, <1>5, <1>6, <2>1, <2>2
<1>8. CASE Len(L) > 1
  <2>1. ~file.pages[file.root].isLeaf /\ ~file.pages[file.root].deleted /\ file.pages[file.root].children = L
    BY <1>1, <1>8 DEF Tree, Frame
  <2>2. file.root \in Live
    BY <1>4, <2>1 DEF Live
  <2>3. Leaves = L
    BY <1>4, <2>1, <2>2 DEF Leaves, LeavesBelow
  <2> QED
    BY <1>3, <1>4, <1>5, <1>6, <2>2, <2>3
<1> QED
  BY <1>2, <1>7, <1>8, OneOrMore

\* The invariant implies TypeOK ...
LEMMA TreeTyped == TreeInv /\ Height(file) <= 2 => TypeOK
<1> SUFFICES ASSUME TreeInv, Height(file) <= 2 PROVE TypeOK
  OBVIOUS
<1>1. file \in Files /\ PagesTyped(file)
  BY LowTree, TreeLeaves DEF Empty, Whole
<1>2. file.root \in Live \union {None} /\ file.first \in Live \union {None}
  <2>1. CASE Empty(file)
    BY <2>1 DEF Empty
  <2>2. ASSUME NEW L, NEW K, Whole(file, L, K, Graph(contents))
        PROVE  file.root \in Live \union {None} /\ file.first \in Live \union {None}
    BY <2>2, WholeShape
  <2> QED
    BY <2>1, <2>2, LowTree
<1>3. \A i \in DOMAIN file.pages :
        LET node == file.pages[i] IN
        /\ node.isLeaf \in BOOLEAN /\ node.deleted \in BOOLEAN
        /\ node.entries \in Seq(Keys \X Values)
        /\ node.keys \in Seq(Keys \union {DefaultKey})
        /\ Len(node.children) = IF node.isLeaf THEN 0 ELSE Len(node.keys) + 1
        /\ node.next \in DOMAIN file.pages \union {None}
  <2> SUFFICES ASSUME NEW i \in DOMAIN file.pages
               PROVE  LET node == file.pages[i] IN
                      /\ node.isLeaf \in BOOLEAN /\ node.deleted \in BOOLEAN
                      /\ node.entries \in Seq(Keys \X Values)
                      /\ node.keys \in Seq(Keys \union {DefaultKey})
                      /\ Len(node.children) = IF node.isLeaf THEN 0 ELSE Len(node.keys) + 1
                      /\ node.next \in DOMAIN file.pages \union {None}
    OBVIOUS
  <2>1. file.pages[i] \in Node
    BY <1>1, FileTyped
  <2>2. /\ file.pages[i].isLeaf \in BOOLEAN /\ file.pages[i].deleted \in BOOLEAN
        /\ file.pages[i].entries \in Entries /\ file.pages[i].keys \in Seq(NodeKeys)
    BY <2>1, NodeTyped
  <2>3. /\ file.pages[i].next \in DOMAIN file.pages \union {None}
        /\ Len(file.pages[i].children) = IF file.pages[i].isLeaf THEN 0 ELSE Len(file.pages[i].keys) + 1
    BY <1>1 DEF PagesTyped
  <2> QED
    BY <2>2, <2>3 DEF Entries, NodeKeys
<1>4. file.ok \in BOOLEAN
  BY <1>1, FileTyped
<1> QED
  BY <1>2, <1>3, <1>4 DEF TypeOK, TreeInv, ContentsTyped

\* ... OnlyMergesFail ...
LEMMA TreeMerges == TreeInv /\ Height(file) <= 2 => OnlyMergesFail
<1> SUFFICES ASSUME TreeInv, Height(file) <= 2 PROVE OnlyMergesFail
  OBVIOUS
<1>1. CASE Empty(file)
  BY <1>1 DEF Empty, OnlyMergesFail
<1>2. ASSUME NEW L, NEW K, Whole(file, L, K, Graph(contents)) PROVE OnlyMergesFail
  <2>1. CASE file.ok
    BY <2>1 DEF OnlyMergesFail
  <2>2. CASE Stuck(file, L)
    <3>1. Leaves = L /\ Tree(file, L, K)
      BY <1>2, WholeShape DEF Whole
    <3>2. Len(L) = 2 /\ Filled(file, L, 1) + Filled(file, L, 2) > MAX_KEYS_LEAF
      BY <2>2 DEF Stuck
    <3>3. Size(file.pages[L[1]]) = Filled(file, L, 1) /\ Size(file.pages[L[2]]) = Filled(file, L, 2)
      <4>1. 1 \in 1 .. Len(L) /\ 2 \in 1 .. Len(L)
        BY <3>2
      <4> QED
        BY <3>1, <4>1, LeafSizes
    <3> QED
      BY <3>1, <3>2, <3>3 DEF OnlyMergesFail
  <2> QED
    BY <1>2, <2>1, <2>2 DEF Whole
<1> QED
  BY <1>1, <1>2, LowTree

\* ... NoPageIsLost ...
LEMMA TreePages == TreeInv /\ Height(file) <= 2 => NoPageIsLost
<1> SUFFICES ASSUME TreeInv, Height(file) <= 2 PROVE NoPageIsLost
  OBVIOUS
<1>1. CASE Empty(file)
  <2>1. Live = {} /\ Leaves = <<>> /\ file.root = None
    BY <1>1, LiveWhenEmpty
  <2>2. IsInjective(<<>>) /\ Range(<<>>) = {}
    BY DEF IsInjective, Range
  <2> QED
    BY <2>1, <2>2 DEF NoPageIsLost
<1>2. ASSUME NEW L, NEW K, Whole(file, L, K, Graph(contents)) PROVE NoPageIsLost
  <2>1. /\ file.root # None /\ file.root \in Live /\ Leaves = L /\ DOMAIN L = 1 .. Len(L)
        /\ \A i \in 1 .. Len(L) : L[i] \in Live
        /\ \A id \in Live : id = file.root \/ \E i \in 1 .. Len(L) : id = L[i]
    BY <1>2, WholeShape
  <2>2. L \in Seq(Nat) /\ \A i, j \in 1 .. Len(L) : L[i] = L[j] => i = j
    BY <1>2, TreeLeaves DEF Whole, LeafSeq
  <2>3. IsInjective(L)
    BY <2>1, <2>2 DEF IsInjective
  <2>4. Live = Range(L) \union {file.root}
    BY <2>1, <2>2, RangeOf
  <2>5. {file.root} \ {None} = {file.root}
    BY <2>1
  <2> QED
    BY <2>1, <2>3, <2>4, <2>5 DEF NoPageIsLost
<1> QED
  BY <1>1, <1>2, LowTree

\* The entries that a search for a key collects in a leaf.
FoundIn(node, key) ==
    LET start == Below(LeafKeys(node), key) + 1
    IN  {node.entries[i] : i \in {j \in start .. Len(node.entries) :
                                     \A k \in start .. j : node.entries[k][1] = key}}

\* The search collects the entries of the key.
LEMMA SearchInLeaf ==
    ASSUME NEW node, node.entries \in Entries, Ascending(node.entries), NEW key \in Int
    PROVE  /\ \A x \in FoundIn(node, key) : x \in Range(node.entries) /\ x[1] = key
           /\ \A x \in Range(node.entries) : x[1] = key => x \in FoundIn(node, key)
<1> DEFINE e == node.entries
           start == Below(LeafKeys(node), key) + 1
<1>1. FoundIn(node, key) = {e[i] : i \in {j \in start .. Len(e) : \A k \in start .. j : e[k][1] = key}}
  BY DEF FoundIn
<1>2. start \in Int /\ start >= 1 /\ Len(e) \in Nat
  <2>1. PICK p : p = Below(LeafKeys(node), key)
    OBVIOUS
  <2>2. p \in 0 .. Len(node.entries)
    BY <2>1, EntryPlace
  <2>3. Len(node.entries) \in Nat
    BY DEF Entries
  <2> QED
    BY <2>1, <2>2, <2>3
<1>3. ASSUME NEW x \in FoundIn(node, key) PROVE x \in Range(e) /\ x[1] = key
  <2> HIDE DEF start
  <2>1. PICK i \in start .. Len(e) : x = e[i] /\ \A k \in start .. i : e[k][1] = key
    BY <1>1, <1>3
  <2>2. i \in 1 .. Len(e) /\ i \in start .. i
    BY <1>2, <2>1
  <2>3. DOMAIN e = 1 .. Len(e)
    BY DEF Entries
  <2> QED
    BY <2>1, <2>2, <2>3 DEF Range
<1>4. ASSUME NEW x \in Range(e), x[1] = key PROVE x \in FoundIn(node, key)
  <2>1. PICK p : p = Below(LeafKeys(node), x[1])
    OBVIOUS
  <2>2. p + 1 \in 1 .. Len(e) /\ e[p + 1] = x
    BY <2>1, EntryFound
  <2>3. start = p + 1
    BY <1>4, <2>1
  <2> HIDE DEF start, e
  <2>4. start \in start .. Len(e) /\ \A k \in start .. start : e[k][1] = key
    BY <1>2, <1>4, <2>2, <2>3
  <2> QED
    BY <1>1, <2>2, <2>3, <2>4
<1> QED
  BY <1>3, <1>4 DEF e

\* The leaf in which the search for a key ends.
LEMMA LeafOf ==
    ASSUME NEW L, NEW K, NEW X, Whole(file, L, K, X), NEW key \in Keys
    PROVE  \E c : Found(file, L, K, key, c)
<1>1. Tree(file, L, K) /\ Sized(file, L)
  BY DEF Whole
<1>2. key \in Int
  BY TreeAssumption
<1>3. \A i \in 1 .. Len(L) : Filled(file, L, i) # 0
  <2>1. Len(L) \in Nat /\ \A i \in 1 .. Len(L) : Filled(file, L, i) \in Nat
    BY <1>1, TreeLeaves
  <2>2. PICK low \in Nat : low = Least(Len(L)) /\ 1 <= low
    BY <2>1, LeastBounds
  <2> QED
    BY <1>1, <2>1, <2>2 DEF Sized
<1> QED
  BY <1>1, <1>2, <1>3, LeafFound

\* search: the entries of the key, which are in one leaf.
LEMMA SearchInTree ==
    ASSUME NEW L, NEW K, NEW X, Whole(file, L, K, X), NEW key \in Keys, NEW x
    PROVE  x \in Search(file, key) <=> x \in X /\ x[1] = key
<1>1. Tree(file, L, K) /\ Held(Lists(file, L)) = X /\ key \in Int
  BY TreeAssumption DEF Whole
<1>2. PICK c : Found(file, L, K, key, c)
  BY LeafOf
<1> DEFINE node == file.pages[L[c]]
<1>3. /\ node.entries \in Entries /\ Ascending(node.entries)
      /\ Range(node.entries) \subseteq X
      /\ \A y \in X : y[1] = key => y \in Range(node.entries)
  BY <1>1, <1>2, FoundEntries
<1>4. Search(file, key) = FoundIn(node, key)
  <2>1. file.root # None
    BY WholeShape
  <2>2. FindLeaf(file, key).id = L[c]
    BY <1>2 DEF Found
  <2> QED
    BY <2>1, <2>2 DEF Search, FoundIn
<1> HIDE DEF node
<1>5. /\ \A y \in FoundIn(node, key) : y \in Range(node.entries) /\ y[1] = key
      /\ \A y \in Range(node.entries) : y[1] = key => y \in FoundIn(node, key)
  BY <1>1, <1>3, SearchInLeaf
<1> QED
  BY <1>3, <1>4, <1>5

\* What a search should find.
LEMMA GraphOf ==
    ASSUME NEW key, NEW x
    PROVE  x \in Graph(contents) /\ x[1] = key
           <=> x \in (IF key \in DOMAIN contents THEN {<<key, contents[key]>>} ELSE {})
BY DEF Graph

\* The invariant implies SearchFindsAll ...
LEMMA TreeSearch == TreeInv /\ Height(file) <= 2 => SearchFindsAll
<1> SUFFICES ASSUME TreeInv, Height(file) <= 2 PROVE SearchFindsAll
  OBVIOUS
<1> DEFINE expected(key) == IF key \in DOMAIN contents THEN {<<key, contents[key]>>} ELSE {}
<1>1. CASE Empty(file) /\ Graph(contents) = {}
  <2>1. Leaves = <<>> /\ file.root = None /\ file.first = None
    BY <1>1, LiveWhenEmpty
  <2>2. ASSUME NEW key \in Keys PROVE Search(file, key) = expected(key)
    <3>1. key \notin DOMAIN contents
      BY <1>1 DEF Graph
    <3> QED
      BY <2>1, <3>1 DEF Search
  <2>3. ChainIsInOrder
    BY <2>1 DEF ChainIsInOrder
  <2> QED
    BY <2>2, <2>3 DEF SearchFindsAll
<1>2. ASSUME NEW L, NEW K, Whole(file, L, K, Graph(contents)) PROVE SearchFindsAll
  <2>1. ASSUME NEW key \in Keys PROVE Search(file, key) = expected(key)
    <3>1. \A x : x \in Search(file, key) <=> x \in Graph(contents) /\ x[1] = key
      BY <1>2, SearchInTree
    <3>2. \A x : x \in Search(file, key) <=> x \in expected(key)
      BY <3>1, GraphOf
    <3> QED
      BY <3>2
  <2>2. ChainIsInOrder
    <3>1. Leaves = L /\ file.first = L[1] /\ Len(L) \in Nat /\ 1 \in 1 .. Len(L)
      BY <1>2, WholeShape, TreeLeaves DEF Whole
    <3>2. \A i \in 1 .. Len(L) : file.pages[L[i]].next = IF i = Len(L) THEN None ELSE L[i + 1]
      BY <1>2 DEF Whole, Chained
    <3> QED
      BY <3>1, <3>2 DEF ChainIsInOrder
  <2> QED
    BY <2>1, <2>2 DEF SearchFindsAll
<1> QED
  BY <1>1, <1>2, LowTree

\* What check_integrity asks of one node.
Intact(id) ==
    LET node == file.pages[id]
        keys == IF node.isLeaf THEN LeafKeys(node) ELSE node.keys
        isRootChild == id \in Range(file.pages[file.root].children)
        least == IF id = file.root THEN 1
                 ELSE IF isRootChild THEN MaxSize(node) \div 2 ELSE MinSize(node)
    IN  /\ least <= Size(node) /\ ~Overflow(node)
        /\ \A i \in 1 .. Len(keys) - 1 : keys[i] < keys[i + 1]
        /\ \A i \in DOMAIN node.keys, j \in DOMAIN node.children :
             ~node.isLeaf => \A leaf \in Range(LeavesBelow(node.children[j])) :
                /\ leaf \in Live
                /\ \A key \in Range(LeafKeys(file.pages[leaf])) : (key < node.keys[i]) = (j <= i)

\* How full a leaf is: as check_integrity asks, also below a root of two
\* children.
LEMMA LeafFilled ==
    ASSUME NEW L, NEW K, NEW X, Whole(file, L, K, X), NEW c \in 1 .. Len(L)
    PROVE  LET node == file.pages[L[c]]
               isRootChild == L[c] \in Range(file.pages[file.root].children)
               least == IF L[c] = file.root THEN 1
                        ELSE IF isRootChild THEN MaxSize(node) \div 2 ELSE MinSize(node)
           IN  node.isLeaf /\ least <= Size(node) /\ ~Overflow(node)
<1>1. Tree(file, L, K) /\ Sized(file, L)
  BY DEF Whole
<1>2. Len(L) \in Nat /\ Len(L) >= 1 /\ Filled(file, L, c) \in Nat /\ L \in Seq(Nat)
  BY <1>1, TreeLeaves DEF LeafSeq
<1>3. file.pages[L[c]].isLeaf /\ Size(file.pages[L[c]]) = Filled(file, L, c)
  BY <1>1, LeafSizes
<1>4. Least(Len(L)) <= Filled(file, L, c) /\ Filled(file, L, c) <= MAX_KEYS_LEAF
  BY <1>1 DEF Sized
<1> DEFINE n == Len(L)
           size == Size(file.pages[L[c]])
<1>5. PICK max \in Nat, min \in Nat, half \in Nat, low \in Nat :
        /\ max = MAX_KEYS_LEAF /\ min = MIN_KEYS_LEAF /\ half = MAX_KEYS_LEAF \div 2
        /\ max >= 3 /\ 3 * min <= 2 * max + 1 /\ 2 * max + 1 <= 3 * min + 2
        /\ 2 * half <= max /\ max <= 2 * half + 1 /\ low = Least(n)
  BY <1>2, SizesTyped, LeastBounds
<1>6. half <= min /\ (n > 1 => half <= low) /\ 1 <= low
  <2>1. half <= min /\ 1 <= half /\ 1 <= min
    BY <1>5
  <2>2. low = IF n = 1 THEN 1 ELSE IF n = 2 THEN half ELSE min
    BY <1>5 DEF Least
  <2> HIDE DEF n
  <2> QED
    BY <2>1, <2>2
<1>7. size \in Nat /\ low <= size /\ size <= max
  BY <1>2, <1>3, <1>4, <1>5
<1>8. ~Overflow(file.pages[L[c]])
  BY <1>3, <1>5, <1>7 DEF Overflow, MaxSize
<1>9. MaxSize(file.pages[L[c]]) \div 2 = half
  BY <1>3, <1>5 DEF MaxSize
<1>10. L[c] = file.root \/ (L[c] \in Range(file.pages[file.root].children) /\ half <= size)
  <2>1. CASE n = 1
    <3>1. file.root = L[1]
      BY <1>1, <2>1, OneLeaf
    <3>2. c = 1
      BY <2>1
    <3> QED
      BY <3>1, <3>2
  <2>2. CASE n > 1
    <3>1. file.pages[file.root].children = L
      BY <1>1, <2>2, ChildLeaf
    <3>2. L[c] \in Range(L)
      BY <1>2, RangeOf
    <3>3. half <= size
      BY <1>5, <1>6, <1>7, <2>2
    <3> QED
      BY <3>1, <3>2, <3>3
  <2> QED
    BY <1>2, <2>1, <2>2, OneOrMore
<1>11. 1 <= size
  BY <1>6, <1>7
<1> QED
  BY <1>3, <1>8, <1>9, <1>10, <1>11

\* A leaf is intact.
LEMMA LeafIntact ==
    ASSUME NEW L, NEW K, NEW X, Whole(file, L, K, X), NEW c \in 1 .. Len(L)
    PROVE  Intact(L[c])
<1> DEFINE node == file.pages[L[c]]
<1>1. file \in Files /\ LeafSeq(file, L) /\ InOrder(Lists(file, L))
  BY TreeLeaves DEF Whole, Ordered
<1>2. node.isLeaf /\ node.entries \in Entries /\ Ascending(node.entries)
  <2>1. /\ Lists(file, L) \in Seq(Entries) /\ Len(Lists(file, L)) = Len(L)
        /\ Lists(file, L)[c] = node.entries
    BY <1>1, ListsTyped
  <2>2. Ascending(Lists(file, L)[c])
    BY <1>1, <2>1 DEF InOrder
  <2> QED
    BY <1>1, <2>1, <2>2, ListTyped DEF LeafSeq
<1>3. \A i \in 1 .. Len(LeafKeys(node)) - 1 : LeafKeys(node)[i] < LeafKeys(node)[i + 1]
  <2> DEFINE e == node.entries
  <2> HIDE DEF e
  <2>1. e \in Entries /\ Ascending(e) /\ Len(e) \in Nat /\ DOMAIN e = 1 .. Len(e)
    BY <1>2 DEF e, Entries
  <2>2. LeafKeys(node) = [i \in 1 .. Len(e) |-> e[i][1]]
    BY <2>1 DEF LeafKeys, e
  <2>3. Len(LeafKeys(node)) = Len(e)
    BY <2>1, <2>2
  <2> QED
    BY <2>1, <2>2, <2>3 DEF Ascending
<1> QED
  BY <1>2, <1>3, LeafFilled DEF Intact

\* The root of leaves: its separators.
LEMMA RootIntact ==
    ASSUME NEW L, NEW K, NEW X, Whole(file, L, K, X), Len(L) > 1
    PROVE  Intact(file.root)
<1> DEFINE node == file.pages[file.root]
           E == Lists(file, L)
<1>1. Tree(file, L, K) /\ Sized(file, L)
  BY DEF Whole
<1>2. /\ ~node.isLeaf /\ node.children = L /\ node.keys = K
      /\ K \in Seq(NodeKeys) /\ Separated(E, K)
  BY <1>1 DEF Tree, Frame
<1>3. /\ file \in Files /\ LeafSeq(file, L) /\ Len(L) \in Nat /\ Len(K) \in Nat /\ Len(L) = Len(K) + 1
  BY <1>1, TreeLeaves
<1>4. /\ E \in Seq(Entries) /\ Len(E) = Len(L) /\ \A i \in 1 .. Len(L) : E[i] = file.pages[L[i]].entries
  BY <1>3, ListsTyped
<1>5. \A i \in 1 .. Len(L) : Len(E[i]) # 0
  <2>1. PICK low \in Nat : low = Least(Len(L)) /\ 1 <= low
    BY <1>3, LeastBounds
  <2>2. \A i \in 1 .. Len(L) : Filled(file, L, i) \in Nat /\ Filled(file, L, i) = Len(E[i])
    BY <1>3, FilledTyped
  <2> QED
    BY <1>1, <2>1, <2>2 DEF Sized
<1> HIDE DEF E
<1>6. \A i \in 1 .. Len(K) : K[i] \in Int
  BY <1>2, SeparatorTyped
<1>7. \A i \in 1 .. Len(K) - 1 : K[i] < K[i + 1]
  <2> TAKE i \in 1 .. Len(K) - 1
  <2>1. /\ i \in 1 .. Len(E) /\ i + 1 \in 1 .. Len(E) /\ i < i + 1
        /\ i \in 1 .. Len(K) /\ i + 1 \in 1 .. Len(K)
    BY <1>3, <1>4
  <2>2. SeparatesAt(E, i, K[i]) /\ SeparatesAt(E, i + 1, K[i + 1]) /\ Len(E[i + 1]) # 0
    BY <1>2, <1>3, <1>5, <2>1 DEF Separated
  <2>3. K[i] \in Int /\ K[i + 1] \in Int
    BY <1>6, <2>1
  <2> DEFINE next == i + 1
  <2> HIDE DEF next
  <2>4. /\ next \in 1 .. Len(E) /\ i < next /\ SeparatesAt(E, next, K[next]) /\ Len(E[next]) # 0
        /\ K[next] \in Int
    BY <2>1, <2>2, <2>3 DEF next
  <2>5. K[i] < K[next]
    BY <1>4, <2>1, <2>2, <2>3, <2>4, SeparatorsAscend
  <2> QED
    BY <2>5 DEF next
<1>8. 1 <= Size(node) /\ ~Overflow(node)
  <2>1. Len(L) <= MAX_KEYS_INTERNAL + 1 /\ MAX_KEYS_INTERNAL \in Nat
    BY <1>1, <1>3, LeastBounds DEF Sized
  <2>2. Size(node) = Len(K) /\ MaxSize(node) = MAX_KEYS_INTERNAL
    BY <1>2 DEF Size, MaxSize
  <2> QED
    BY <1>3, <2>1, <2>2 DEF Overflow
<1>9. ASSUME NEW i \in 1 .. Len(K), NEW j \in 1 .. Len(L), NEW leaf \in Range(LeavesBelow(L[j]))
      PROVE  leaf \in Live /\ \A key \in Range(LeafKeys(file.pages[leaf])) : (key < K[i]) = (j <= i)
  <2>1. L[j] \in Live /\ file.pages[L[j]].isLeaf
    BY WholeShape
  <2>2. leaf = L[j]
    BY <2>1 DEF LeavesBelow, Range
  <2>3. ASSUME NEW key \in Range(LeafKeys(file.pages[leaf])) PROVE (key < K[i]) = (j <= i)
    <3>1. file.pages[leaf].entries = E[j] /\ E[j] \in Entries
      BY <1>4, <2>2, ListTyped
    <3>2. PICK x \in Range(E[j]) : key = x[1]
      BY <3>1 DEF LeafKeys, Range
    <3>3. IF j <= i THEN x[1] < K[i] ELSE K[i] <= x[1]
      BY <1>2, <1>4, <3>2 DEF Separated, SeparatesAt
    <3>4. key \in Int /\ K[i] \in Int
      BY <1>6, <3>1, <3>2, RangeTyped
    <3> QED
      BY <3>2, <3>3, <3>4
  <2> QED
    BY <2>1, <2>2, <2>3
<1>10. DOMAIN K = 1 .. Len(K) /\ DOMAIN L = 1 .. Len(L)
  BY <1>2, <1>3 DEF LeafSeq
<1> QED
  BY <1>2, <1>7, <1>8, <1>9, <1>10 DEF Intact

\* ... and CheckIntegrity.
LEMMA TreeIntegrity == TreeInv /\ Height(file) <= 2 => CheckIntegrity
<1> SUFFICES ASSUME TreeInv, Height(file) <= 2 PROVE CheckIntegrity
  OBVIOUS
<1>1. ASSUME NEW id \in Live PROVE Intact(id)
  <2>1. CASE Empty(file)
    BY <1>1, <2>1, LiveWhenEmpty
  <2>2. ASSUME NEW L, NEW K, Whole(file, L, K, Graph(contents)) PROVE Intact(id)
    <3>1. id = file.root \/ \E i \in 1 .. Len(L) : id = L[i]
      BY <1>1, <2>2, WholeShape
    <3>2. ASSUME NEW i \in 1 .. Len(L), id = L[i] PROVE Intact(id)
      BY <2>2, <3>2, LeafIntact
    <3>3. Tree(file, L, K) /\ Len(L) \in Nat /\ Len(L) >= 1
      BY <2>2, TreeLeaves DEF Whole
    <3>4. CASE id = file.root /\ Len(L) > 1
      BY <2>2, <3>4, RootIntact
    <3>5. CASE id = file.root /\ Len(L) = 1
      <4>1. id = L[1] /\ 1 \in 1 .. Len(L)
        BY <3>3, <3>5, OneLeaf
      <4> QED
        BY <3>2, <4>1
    <3> QED
      BY <3>1, <3>2, <3>3, <3>4, <3>5
  <2> QED
    BY <2>1, <2>2, LowTree
<1> QED
  BY <1>1 DEF CheckIntegrity, Intact
-----------------------------------------------------------------------------
(* The properties.  Each of them is about the trees whose root is a leaf or  *)
(* has leaves below it.  The condition is needed: the split of an internal   *)
(* root does not keep integrity, so the invariant says nothing of a tree of  *)
(* height 3, and no operation of the model goes on from one.                 *)

\* No operation writes a page that is not a node, or a root or a first leaf
\* that is not a page of the tree.
THEOREM TreeTypeCorrect == Spec => [](Height(file) <= 2 => TypeOK)
BY TreeInvariant, TreeTyped, PTL

\* What check_integrity of b_star_plus_tree.h asks of the nodes: after each
\* insert and remove, with whatever was split, merged or redistributed, every
\* node but the root is filled well enough, its keys ascend, and each separator
\* has the keys below it on the left and the others on the right.
THEOREM IntegrityIsKept == Spec => [](Height(file) <= 2 => CheckIntegrity)
BY TreeInvariant, TreeIntegrity, PTL

\* No operation throws, and none fails an assertion, but for the one of
\* handleLeafUnderflow that the last two leaves fit into one.
THEOREM OnlyTheLastMergeFails == Spec => [](Height(file) <= 2 => OnlyMergesFail)
BY TreeInvariant, TreeMerges, PTL

\* search finds the entry of each key that was inserted and not removed, with
\* the last value it was given, and nothing else, and the chain of the leaves
\* goes through all of them in their order.
THEOREM SearchIsRight == Spec => [](Height(file) <= 2 => SearchFindsAll)
BY TreeInvariant, TreeSearch, PTL

\* Every page of the file is one node of the tree or marked as deleted, so that
\* the constructor of the next node uses it again.
THEOREM PagesAreKept == Spec => [](Height(file) <= 2 => NoPageIsLost)
BY TreeInvariant, TreePages, PTL
-----------------------------------------------------------------------------
(* The refinement of Dictionary *)

\* A search finds the contents.
LEMMA ResultsAreContents ==
    TreeInv /\ Height(file) <= 2 =>
        /\ SearchResults = [key \in DOMAIN contents |-> contents[key]]
        /\ SearchResults \in [DOMAIN contents -> Values] /\ DOMAIN contents \subseteq Keys
<1> SUFFICES ASSUME TreeInv, Height(file) <= 2
             PROVE  /\ SearchResults = [key \in DOMAIN contents |-> contents[key]]
                    /\ SearchResults \in [DOMAIN contents -> Values]
                    /\ DOMAIN contents \subseteq Keys
  OBVIOUS
<1>1. /\ DOMAIN contents \subseteq Keys
      /\ \A key \in DOMAIN contents : contents[key] \in Values
  BY DEF TreeInv, ContentsTyped
<1>2. \A key \in Keys :
         Search(file, key) = IF key \in DOMAIN contents THEN {<<key, contents[key]>>} ELSE {}
  BY TreeSearch DEF SearchFindsAll
<1>3. {key \in Keys : Search(file, key) # {}} = DOMAIN contents
  BY <1>1, <1>2
<1>4. ASSUME NEW key \in DOMAIN contents
      PROVE  (CHOOSE entry \in Search(file, key) : TRUE)[2] = contents[key]
  <2>1. Search(file, key) = {<<key, contents[key]>>}
    BY <1>1, <1>2
  <2>2. (CHOOSE entry \in Search(file, key) : TRUE) = <<key, contents[key]>>
    BY <2>1
  <2>3. \A entry : entry = <<key, contents[key]>> => entry[2] = contents[key]
    OBVIOUS
  <2> QED BY <2>2, <2>3, Zenon
<1>5. SearchResults = [key \in DOMAIN contents |-> contents[key]]
  BY <1>3, <1>4 DEF SearchResults
<1> QED BY <1>1, <1>5

LEMMA DictionaryStarts == Init => Dict!Init
<1> SUFFICES ASSUME Init PROVE SearchResults = <<>>
  BY DEF Dict!Init
<1>1. \A key \in Keys : Search(file, key) = {}
  BY DEF Init, Search
<1>2. {key \in Keys : Search(file, key) # {}} = {}
  BY <1>1
<1>3. \A f : f = [key \in {} |-> f[key]] => f = <<>>
  OBVIOUS
<1>4. SearchResults = [key \in {} |-> SearchResults[key]]
  BY <1>2 DEF SearchResults
<1> QED BY <1>3, <1>4

\* Each operation is one of the dictionary.
LEMMA StepIsCall ==
    ASSUME [Next]_vars, NEW D, NEW E,
           D = [key \in DOMAIN contents |-> contents[key]],
           E = [key \in DOMAIN contents' |-> contents'[key]],
           E \in [DOMAIN contents' -> Values], DOMAIN contents' \subseteq Keys,
           SearchResults = D, SearchResults' = E
    PROVE  [Dict!Next]_SearchResults
<1>1. ASSUME NEW key \in Keys, NEW value \in Values, InsertKey(key, value) PROVE Dict!Insert(key)
  <2>1. /\ key \notin DOMAIN contents
        /\ contents' = [k \in DOMAIN contents \union {key} |-> IF k = key THEN value ELSE contents[k]]
    BY <1>1 DEF InsertKey
  <2>2. DOMAIN contents' = DOMAIN contents \union {key} /\ DOMAIN D = DOMAIN contents
    BY <2>1
  <2>3. \A k \in (DOMAIN contents \union {key}) \ {key} : E[k] = D[k]
    BY <2>1, <2>2
  <2> QED BY <2>1, <2>2, <2>3 DEF Dict!Insert, Dict!Becomes
<1>2. ASSUME NEW key \in Keys, NEW value \in Values, UpdateKey(key, value) PROVE Dict!Update(key)
  <2>1. key \in DOMAIN contents /\ contents' = [contents EXCEPT ![key] = value]
    BY <1>2 DEF UpdateKey
  <2>2. DOMAIN contents' = DOMAIN contents /\ DOMAIN D = DOMAIN contents
    BY <2>1
  <2>3. \A k \in DOMAIN contents \ {key} : E[k] = D[k]
    BY <2>1, <2>2
  <2> QED BY <2>1, <2>2, <2>3 DEF Dict!Update, Dict!Becomes
<1>3. ASSUME NEW key \in Keys, RemoveKey(key) PROVE Dict!Remove(key)
  <2>1. key \in DOMAIN contents /\ contents' = [k \in DOMAIN contents \ {key} |-> contents[k]]
    BY <1>3 DEF RemoveKey
  <2>2. DOMAIN contents' = DOMAIN contents \ {key} /\ DOMAIN D = DOMAIN contents
    BY <2>1
  <2>3. \A k \in (DOMAIN contents \ {key}) \ {} : E[k] = D[k]
    BY <2>1, <2>2
  <2> QED BY <2>1, <2>2, <2>3 DEF Dict!Remove, Dict!Becomes
<1>4. CASE UNCHANGED vars
  BY <1>4 DEF vars
<1> QED BY <1>1, <1>2, <1>3, <1>4 DEF Next, Dict!Next

\* The tree implements a dictionary: the pages that an insert, an update or a
\* remove rewrites, splits or merges change what a search finds for its own key
\* and for no other, for any keys, values and room in the pages.
THEOREM TreeIsADictionary == Spec => ImplementsDictionary
<1>1. (TreeInv /\ Height(file) <= 2 =>
        /\ SearchResults = [key \in DOMAIN contents |-> contents[key]]
        /\ SearchResults \in [DOMAIN contents -> Values] /\ DOMAIN contents \subseteq Keys)'
  BY ResultsAreContents, PTL
<1>2. TreeInv /\ TreeInv' /\ [Next]_vars => (Height(file') <= 2 => [Dict!Next]_SearchResults)
  <2> SUFFICES ASSUME TreeInv, TreeInv', [Next]_vars, Height(file') <= 2
               PROVE  [Dict!Next]_SearchResults
    OBVIOUS
  <2>1. CASE UNCHANGED vars
    BY <2>1 DEF vars, SearchResults
  <2>2. CASE Next
    <3>1. Height(file) <= 2
      BY <2>2 DEF Next, InsertKey, UpdateKey, RemoveKey, Modelled
    <3>2. (Height(file) <= 2)'
      OBVIOUS
    <3> QED BY <1>1, <3>1, <3>2, ResultsAreContents, StepIsCall
  <2> QED BY <2>1, <2>2
<1> QED BY <1>2, DictionaryStarts, TreeInvariant, PTL DEF Spec, ImplementsDictionary
=============================================================================
