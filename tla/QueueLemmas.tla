---------------------------- MODULE QueueLemmas ----------------------------
(***************************************************************************)
(* What joins and leaves a queue without duplicates: the queue_ of the     *)
(* thread pool and that of the logger.                                     *)
(***************************************************************************)
EXTENDS Functions, SequenceTheorems, TLAPS

\* The range of a sequence, by its places.
LEMMA RangeByPlaces ==
    ASSUME NEW S, NEW q \in Seq(S)
    PROVE  \A x : x \in Range(q) <=> \E i \in 1 .. Len(q) : q[i] = x
BY DEF Range

\* A task that was not in the queue is appended.
LEMMA AppendNew ==
    ASSUME NEW S, NEW q \in Seq(S), NEW x \in S, IsInjective(q), x \notin Range(q)
    PROVE  /\ Append(q, x) \in Seq(S)
           /\ IsInjective(Append(q, x))
           /\ Range(Append(q, x)) = Range(q) \union {x}
           /\ Append(q, x) # <<>>
<1> DEFINE r == Append(q, x)
<1>1. r \in Seq(S) /\ Len(r) = Len(q) + 1
  BY AppendProperties
<1>2. r[Len(q) + 1] = x /\ \A i \in 1 .. Len(q) : r[i] = q[i]
  BY AppendProperties
<1>3. Len(q) \in Nat /\ DOMAIN q = 1 .. Len(q) /\ DOMAIN r = 1 .. (Len(q) + 1)
  BY <1>1, LenProperties
<1>4. \A i \in 1 .. Len(q) : q[i] # x
  BY RangeByPlaces
<1>5. IsInjective(r)
  <2> SUFFICES ASSUME NEW i \in 1 .. (Len(q) + 1), NEW j \in 1 .. (Len(q) + 1), r[i] = r[j]
               PROVE  i = j
    BY <1>3 DEF IsInjective
  <2>1. CASE i = Len(q) + 1 \/ j = Len(q) + 1
    BY <2>1, <1>2, <1>3, <1>4
  <2>2. CASE i \in 1 .. Len(q) /\ j \in 1 .. Len(q)
    BY <2>2, <1>2, <1>3 DEF IsInjective
  <2> QED BY <2>1, <2>2, <1>3
<1>6. \A y : y \in Range(r) <=> y \in Range(q) \union {x}
  <2> TAKE y
  <2>1. y \in Range(r) <=> \E i \in 1 .. (Len(q) + 1) : r[i] = y
    BY <1>1, RangeByPlaces
  <2>2. y \in Range(q) <=> \E i \in 1 .. Len(q) : q[i] = y
    BY RangeByPlaces
  <2> QED BY <2>1, <2>2, <1>2, <1>3
<1> HIDE DEF r
<1>7. Range(r) = Range(q) \union {x}
  BY <1>6
<1>8. r # <<>>
  BY <1>1, <1>3, EmptySeq
<1> QED BY <1>1, <1>5, <1>7, <1>8 DEF r

\* The first task is taken from the queue.
LEMMA TakeFirst ==
    ASSUME NEW S, NEW q \in Seq(S), q # <<>>, IsInjective(q)
    PROVE  /\ Head(q) \in Range(q) /\ Head(q) \in S
           /\ Tail(q) \in Seq(S)
           /\ IsInjective(Tail(q))
           /\ Range(Tail(q)) = Range(q) \ {Head(q)}
<1> DEFINE r == Tail(q)
<1>1. Head(q) \in S /\ r \in Seq(S) /\ Len(r) = Len(q) - 1 /\ Head(q) = q[1]
  BY HeadTailProperties
<1>2. \A i \in 1 .. Len(r) : r[i] = q[i + 1]
  BY HeadTailProperties
<1>3. Len(q) \in Nat \ {0} /\ DOMAIN q = 1 .. Len(q) /\ DOMAIN r = 1 .. (Len(q) - 1)
  BY <1>1, LenProperties, EmptySeq
<1>4. \A i, j \in 1 .. Len(q) : q[i] = q[j] => i = j
  BY <1>3 DEF IsInjective
<1>5. IsInjective(r)
  <2> SUFFICES ASSUME NEW i \in 1 .. (Len(q) - 1), NEW j \in 1 .. (Len(q) - 1), r[i] = r[j]
               PROVE  i = j
    BY <1>3 DEF IsInjective
  <2> QED BY <1>1, <1>2, <1>3, <1>4
<1>6. \A y : y \in Range(r) <=> y \in Range(q) \ {Head(q)}
  <2> TAKE y
  <2>1. y \in Range(r) <=> \E i \in 1 .. (Len(q) - 1) : r[i] = y
    BY <1>3 DEF Range
  <2>2. y \in Range(q) <=> \E i \in 1 .. Len(q) : q[i] = y
    BY RangeByPlaces
  <2>3. ASSUME y \in Range(r) PROVE y \in Range(q) /\ y # Head(q)
    <3>1. PICK i \in 1 .. (Len(q) - 1) : r[i] = y
      BY <2>1, <2>3
    <3>2. q[i + 1] = y /\ i + 1 \in 1 .. Len(q) /\ i + 1 # 1 /\ 1 \in 1 .. Len(q)
      BY <3>1, <1>1, <1>2, <1>3
    <3> QED BY <3>2, <2>2, <1>1, <1>4
  <2>4. ASSUME y \in Range(q), y # Head(q) PROVE y \in Range(r)
    <3>1. PICK i \in 1 .. Len(q) : q[i] = y
      BY <2>2, <2>4
    <3>2. i # 1
      BY <3>1, <2>4, <1>1
    <3>3. i - 1 \in 1 .. Len(r) /\ i - 1 \in 1 .. (Len(q) - 1) /\ (i - 1) + 1 = i
      BY <3>1, <3>2, <1>1, <1>3
    <3> QED BY <3>1, <3>3, <1>2, <2>1
  <2> QED BY <2>3, <2>4
<1> HIDE DEF r
<1>7. Range(r) = Range(q) \ {Head(q)}
  BY <1>6
<1>8. Head(q) \in Range(q)
  BY <1>1, <1>3, RangeByPlaces
<1> QED BY <1>1, <1>5, <1>7, <1>8 DEF r

\* What is in front of a queue, and what is behind its first.
LEMMA FirstOfAll ==
    ASSUME NEW S, NEW q \in Seq(S), NEW x \in S
    PROVE  /\ <<x>> \o q \in Seq(S) /\ <<x>> \o q # <<>>
           /\ Head(<<x>> \o q) = x /\ Tail(<<x>> \o q) = q
           /\ \A y \in S : Append(<<x>> \o q, y) = <<x>> \o Append(q, y)
<1> DEFINE r == <<x>> \o q
<1>1. <<x>> \in Seq(S) /\ Len(<<x>>) = 1 /\ <<x>>[1] = x
  OBVIOUS
<1>2. /\ r \in Seq(S) /\ Len(r) = 1 + Len(q) /\ r[1] = x
      /\ \A i \in 1 .. Len(q) : r[i + 1] = q[i]
  <2>1. \A i \in 1 .. Len(<<x>>) + Len(q) : r[i] = IF i <= Len(<<x>>) THEN <<x>>[i] ELSE q[i - Len(<<x>>)]
    BY <1>1, ConcatProperties
  <2>2. r \in Seq(S) /\ Len(r) = 1 + Len(q) /\ Len(q) \in Nat
    BY <1>1, ConcatProperties, LenProperties
  <2> QED BY <1>1, <2>1, <2>2
<1>3. Len(q) \in Nat /\ DOMAIN q = 1 .. Len(q)
  BY LenProperties
<1> HIDE DEF r
<1>4. r # <<>> /\ Head(r) = x
  BY <1>2, <1>3
<1>5. Tail(r) = q
  <2>1. Tail(r) \in Seq(S) /\ Len(Tail(r)) = Len(q) /\ \A i \in 1 .. Len(q) : Tail(r)[i] = q[i]
    BY <1>2, <1>3, <1>4, HeadTailProperties
  <2> QED BY <2>1, SeqEqual
<1>6. ASSUME NEW y \in S PROVE Append(r, y) = <<x>> \o Append(q, y)
  <2>1. Append(q, y) = q \o <<y>> /\ Append(r, y) = r \o <<y>> /\ <<y>> \in Seq(S)
    BY <1>2, AppendIsConcat
  <2>2. (<<x>> \o q) \o <<y>> = <<x>> \o (q \o <<y>>)
    BY <1>1, <2>1, ConcatAssociative
  <2> QED BY <2>1, <2>2 DEF r
<1> QED BY <1>2, <1>4, <1>5, <1>6 DEF r

LEMMA FirstAndRest ==
    ASSUME NEW S, NEW q \in Seq(S), q # <<>>
    PROVE  Head(q) \in S /\ Tail(q) \in Seq(S) /\ <<Head(q)>> \o Tail(q) = q
<1>1. Len(q) \in Nat \ {0} /\ Head(q) = q[1] /\ Head(q) \in S /\ Tail(q) \in Seq(S)
  BY HeadTailProperties, LenProperties
<1>2. SubSeq(q, 1, Len(q)) = <<q[1]>> \o SubSeq(q, 2, Len(q))
  BY <1>1, SubSeqRecursiveFirst
<1>3. SubSeq(q, 1, Len(q)) = q /\ Tail(q) = SubSeq(q, 2, Len(q))
  BY SubSeqFull, TailIsSubSeq
<1> QED BY <1>1, <1>2, <1>3
=============================================================================
