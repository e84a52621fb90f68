---------------------------- MODULE LoggerProofs ----------------------------
(***************************************************************************)
(* Theorems about Logger: no entry is lost or written twice, a flush keeps *)
(* its promise, and no file goes on once it has reached its limit, for any *)
(* number of queries, any sizes of their lines and any limit of a file.    *)
(***************************************************************************)
EXTENDS Logger, FiniteSetTheorems, QueueLemmas

-----------------------------------------------------------------------------
(* The inductive invariant *)

\* The writer is through with these.
Ended == Written \union dropped

\* These are counted in pending_writes_.
Outstanding == {e \in Entries : caller[e] = "counted" \/ e \in InQueue \union InHand}

PendingIsExact == pending = Cardinality(Outstanding)

HoldsLine == writer \in {"writing", "rotated", "written"}

\* An entry that was pushed is in the queue, in the writer's hand, or ended.
PlacesFit ==
    /\ IsInjective(queue)
    /\ line \in {<<>>} \union {<<e>> : e \in Entries}
    /\ line # <<>> <=> HoldsLine
    /\ InQueue \intersect InHand = {}
    /\ \A e \in Entries :
         caller[e] \in {"pushed", "returned"} <=> e \in InQueue \union InHand \union Ended
    /\ InQueue \intersect Written = {}
    /\ writer # "written" => InHand \intersect Written = {}
    /\ writer = "written" => InHand \subseteq Ended

\* Without its last line the file is below the limit.
KeepsLimit(file) ==
    file.lines # <<>> => file.bytes - LineSize[Last(file.lines)] < MaxFileSize

\* A line is written once, and no file but the current one can grow: every
\* closed file has reached the limit, with its last line and not before.
RotationKeepsLimit ==
    /\ \A i \in DOMAIN logFiles : KeepsLimit(logFiles[i])
    /\ \A i \in 1 .. Len(logFiles) - 1 : logFiles[i].bytes >= MaxFileSize
    /\ \A i, j \in DOMAIN logFiles :
         \A k \in DOMAIN logFiles[i].lines, l \in DOMAIN logFiles[j].lines :
           logFiles[i].lines[k] = logFiles[j].lines[l] => i = j /\ k = l

\* current_file_size_ is that of the current file, and there is room in it
\* before a line is written.
FilesFit ==
    /\ logFiles # <<>>
    /\ size = logFiles[Len(logFiles)].bytes
    /\ ~isOpen /\ writer # "gone" => size = 0
    /\ writer = "rotated" => size < MaxFileSize
    /\ RotationKeepsLimit

\* The writer leaves when nothing is outstanding and nobody can log any more.
LivesFit ==
    /\ running <=> destructor = "idle"
    /\ destructor # "idle" => \A e \in Entries : caller[e] \in {"idle", "returned"}
    /\ writer = "gone" => destructor # "idle" /\ Outstanding = {}
    /\ \A e \in promised : caller[e] = "returned"
    /\ flush = "returned" => promised \subseteq Ended

LoggerInv ==
    /\ TypeOK
    /\ PendingIsExact
    /\ PlacesFit
    /\ FilesFit
    /\ LivesFit
-----------------------------------------------------------------------------
(* The entries *)

LEMMA OutstandingIsFinite ==
    ASSUME TypeOK
    PROVE  /\ Outstanding \subseteq Entries /\ IsFiniteSet(Outstanding)
           /\ Cardinality(Outstanding) \in 0 .. Cardinality(Entries)
<1>1. Outstanding \subseteq Entries /\ IsFiniteSet(Entries)
  BY LoggerAssumption DEF Outstanding
<1> QED BY <1>1, FS_Subset, FS_CardinalityType

\* Nothing is pending when nothing is outstanding.
LEMMA NothingPending ==
    ASSUME LoggerInv, pending = 0
    PROVE  Outstanding = {}
BY OutstandingIsFinite, FS_EmptySet DEF LoggerInv, PendingIsExact

\* What the writer and the queue hold are entries.
LEMMA HeldAreEntries ==
    ASSUME LoggerInv
    PROVE  /\ InQueue \subseteq Entries
           /\ HoldsLine => \E e \in Entries : line = <<e>> /\ InHand = {e} /\ Head(line) = e
           /\ ~HoldsLine => line = <<>> /\ InHand = {}
<1>1. InQueue \subseteq Entries
  BY RangeByPlaces DEF LoggerInv, TypeOK, InQueue
<1>2. ASSUME NEW e \in Entries PROVE Range(<<e>>) = {e} /\ Head(<<e>>) = e
  BY DEF Range
<1>3. Range(<<>>) = {}
  BY DEF Range
<1> QED BY <1>1, <1>2, <1>3 DEF LoggerInv, PlacesFit, InHand

\* Entries stay where they are.
LEMMA EntriesStay ==
    ASSUME LoggerInv, UNCHANGED <<queue, pending, caller, line, logFiles, dropped>>,
           writer' = writer \/ (~HoldsLine /\ ~HoldsLine')
    PROVE  PendingIsExact' /\ PlacesFit' /\ Outstanding' = Outstanding /\ Ended' = Ended
<1>1. InQueue' = InQueue /\ InHand' = InHand /\ Written' = Written
  BY DEF InQueue, InHand, Written
<1>2. Outstanding' = Outstanding /\ Ended' = Ended
  BY <1>1 DEF Outstanding, Ended
<1>3. PlacesFit'
  BY <1>1, <1>2 DEF LoggerInv, PlacesFit, HoldsLine
<1> QED BY <1>2, <1>3 DEF LoggerInv, PendingIsExact

LEMMA FilesStay ==
    ASSUME LoggerInv, UNCHANGED <<isOpen, size, logFiles>>, writer' # "rotated", writer # "gone"
    PROVE  FilesFit'
BY DEF LoggerInv, FilesFit, RotationKeepsLimit

\* An empty file is within its limit, and so is one that was below the limit
\* when it got its last line.
LEMMA NewFileKeeps == NewFile \in File /\ KeepsLimit(NewFile) /\ NewFile.bytes = 0 /\ NewFile.lines = <<>>
BY EmptySeq DEF NewFile, File, KeepsLimit

LEMMA WithLineKeeps ==
    ASSUME NEW file \in File, NEW e \in Entries, file.bytes < MaxFileSize
    PROVE  /\ WithLine(file, e) \in File /\ KeepsLimit(WithLine(file, e))
           /\ WithLine(file, e).lines = Append(file.lines, e)
           /\ WithLine(file, e).bytes = file.bytes + LineSize[e]
           /\ WithLine(file, e).bytes \in Nat
<1>1. file.lines \in Seq(Entries) /\ file.bytes \in Nat
  BY DEF File
<1>2. LineSize[e] \in Nat /\ MaxFileSize \in Nat
  BY LoggerAssumption
<1>3. WithLine(file, e) = [lines |-> Append(file.lines, e), bytes |-> file.bytes + LineSize[e]]
  BY DEF WithLine
<1>4. Append(file.lines, e) \in Seq(Entries) /\ Last(Append(file.lines, e)) = e
  BY <1>1 DEF Last
<1>5. KeepsLimit(WithLine(file, e))
  <2>1. WithLine(file, e).bytes - LineSize[e] = file.bytes
    BY <1>1, <1>2, <1>3
  <2> QED BY <2>1, <1>3, <1>4 DEF KeepsLimit
<1> QED BY <1>1, <1>2, <1>3, <1>4, <1>5 DEF File

LEMMA LoggerStarts == Init => LoggerInv
<1> SUFFICES ASSUME Init PROVE LoggerInv
  OBVIOUS
<1>1. InQueue = {} /\ InHand = {} /\ Written = {}
  BY NewFileKeeps DEF Init, InQueue, InHand, Written, Range
<1>2. Outstanding = {} /\ Ended = {}
  BY <1>1 DEF Init, Outstanding, Ended
<1>3. Cardinality({}) = 0 /\ Cardinality(Entries) \in Nat
  BY LoggerAssumption, FS_EmptySet, FS_CardinalityType
<1>4. TypeOK
  <2>1. <<>> \in Seq(Entries)
    BY EmptySeq
  <2>2. <<NewFile>> \in Seq(File)
    BY NewFileKeeps
  <2>3. pending \in 0 .. Cardinality(Entries) /\ line \in Seq(Entries) /\ Len(line) <= 1
    BY <1>3, <2>1 DEF Init
  <2>4. caller \in [Entries -> {"idle", "counted", "pushed", "returned"}]
    BY DEF Init
  <2> QED BY <2>1, <2>2, <2>3, <2>4 DEF Init, TypeOK
<1>5. PlacesFit
  BY <1>1, <1>2 DEF Init, PlacesFit, HoldsLine, IsInjective
<1>6. FilesFit
  BY LoggerAssumption, NewFileKeeps DEF Init, FilesFit, RotationKeepsLimit
<1>7. LivesFit
  BY <1>2 DEF Init, LivesFit
<1> QED BY <1>2, <1>3, <1>4, <1>5, <1>6, <1>7 DEF Init, LoggerInv, PendingIsExact
-----------------------------------------------------------------------------
(* LogQuery *)

LEMMA CountKeeps ==
    ASSUME LoggerInv, NEW e \in Entries, Count(e)
    PROVE  LoggerInv'
<1> USE DEF LoggerInv
<1>1. /\ caller[e] = "idle" /\ destructor = "idle"
      /\ caller' = [caller EXCEPT ![e] = "counted"] /\ pending' = pending + 1
      /\ UNCHANGED <<queue, writer, line, isOpen, size, logFiles, dropped, flush, promised, running, destructor>>
  BY DEF Count, fileVars, lifeVars
<1>2. InQueue' = InQueue /\ InHand' = InHand /\ Written' = Written /\ Ended' = Ended
  BY <1>1 DEF InQueue, InHand, Written, Ended
<1>3. e \notin InQueue \union InHand \union Ended
  BY <1>1 DEF PlacesFit
<1>4. /\ caller'[e] = "counted" /\ \A d \in Entries \ {e} : caller'[d] = caller[d]
      /\ caller' \in [Entries -> {"idle", "counted", "pushed", "returned"}]
  BY <1>1 DEF TypeOK
<1>5. e \notin Outstanding /\ Outstanding' = Outstanding \union {e}
  BY <1>1, <1>2, <1>3, <1>4 DEF Outstanding
<1>6. PendingIsExact'
  BY <1>1, <1>5, OutstandingIsFinite, FS_AddElement DEF PendingIsExact
<1>7. pending' \in 0 .. Cardinality(Entries)
  <2>1. Outstanding' \subseteq Entries /\ IsFiniteSet(Entries)
    BY LoggerAssumption DEF Outstanding
  <2> QED BY <2>1, <1>6, FS_Subset, FS_CardinalityType DEF PendingIsExact
<1>8. TypeOK'
  BY <1>1, <1>4, <1>7 DEF TypeOK
<1>9. PlacesFit'
  <2>1. \A d \in Entries : caller'[d] \in {"pushed", "returned"} <=> d \in InQueue \union InHand \union Ended
    BY <1>3, <1>4 DEF PlacesFit
  <2> QED BY <2>1, <1>1, <1>2 DEF PlacesFit, HoldsLine
<1>10. FilesFit'
  BY <1>1 DEF FilesFit, RotationKeepsLimit
<1>11. LivesFit'
  BY <1>1, <1>2, <1>4 DEF LivesFit, TypeOK
<1> QED BY <1>6, <1>8, <1>9, <1>10, <1>11

LEMMA PushKeeps ==
    ASSUME LoggerInv, NEW e \in Entries, Push(e)
    PROVE  LoggerInv'
<1> USE DEF LoggerInv
<1>1. /\ caller[e] = "counted"
      /\ caller' = [caller EXCEPT ![e] = "pushed"] /\ queue' = Append(queue, e)
      /\ UNCHANGED <<pending, writer, line, isOpen, size, logFiles, dropped, flush, promised, running, destructor>>
  BY DEF Push, fileVars, lifeVars
<1>2. InHand' = InHand /\ Written' = Written /\ Ended' = Ended
  BY <1>1 DEF InHand, Written, Ended
<1>3. e \notin InQueue \union InHand \union Ended
  BY <1>1 DEF PlacesFit
<1>4. /\ caller'[e] = "pushed" /\ \A d \in Entries \ {e} : caller'[d] = caller[d]
      /\ caller' \in [Entries -> {"idle", "counted", "pushed", "returned"}]
  BY <1>1 DEF TypeOK
<1>5. queue' \in Seq(Entries) /\ IsInjective(queue') /\ InQueue' = InQueue \union {e}
  BY <1>1, <1>3, AppendNew DEF InQueue, TypeOK, PlacesFit
<1>6. Outstanding' = Outstanding
  BY <1>1, <1>2, <1>4, <1>5 DEF Outstanding
<1>7. PendingIsExact'
  BY <1>1, <1>6 DEF PendingIsExact
<1>8. TypeOK'
  BY <1>1, <1>4, <1>5 DEF TypeOK
<1>9. PlacesFit'
  <2>1. \A d \in Entries : caller'[d] \in {"pushed", "returned"}
                              <=> d \in InQueue \union {e} \union InHand \union Ended
    BY <1>3, <1>4 DEF PlacesFit
  <2>2. e \notin InHand /\ e \notin Written
    BY <1>3 DEF Ended
  <2> QED BY <2>1, <2>2, <1>1, <1>2, <1>5 DEF PlacesFit, HoldsLine
<1>10. FilesFit'
  BY <1>1 DEF FilesFit, RotationKeepsLimit
<1>11. LivesFit'
  BY <1>1, <1>2, <1>4, <1>6 DEF LivesFit, TypeOK
<1> QED BY <1>7, <1>8, <1>9, <1>10, <1>11

LEMMA NotifyKeeps ==
    ASSUME LoggerInv, NEW e \in Entries, Notify(e)
    PROVE  LoggerInv'
<1> USE DEF LoggerInv
<1>1. /\ caller[e] = "pushed" /\ caller' = [caller EXCEPT ![e] = "returned"]
      /\ writer' = IF writer = "asleep" THEN "checking" ELSE writer
      /\ UNCHANGED <<queue, pending, line, isOpen, size, logFiles, dropped, flush, promised, running, destructor>>
  BY DEF Notify, WakeWriter, fileVars, lifeVars
<1>2. InQueue' = InQueue /\ InHand' = InHand /\ Written' = Written /\ Ended' = Ended
  BY <1>1 DEF InQueue, InHand, Written, Ended
<1>3. /\ caller'[e] = "returned" /\ \A d \in Entries \ {e} : caller'[d] = caller[d]
      /\ caller' \in [Entries -> {"idle", "counted", "pushed", "returned"}]
  BY <1>1 DEF TypeOK
<1>4. Outstanding' = Outstanding
  BY <1>1, <1>2, <1>3 DEF Outstanding
<1>5. TypeOK'
  BY <1>1, <1>3 DEF TypeOK
<1>6. PlacesFit'
  <2>1. \A d \in Entries : caller'[d] \in {"pushed", "returned"} <=> d \in InQueue \union InHand \union Ended
    BY <1>1, <1>3 DEF PlacesFit
  <2> QED BY <2>1, <1>1, <1>2 DEF PlacesFit, HoldsLine
<1>7. FilesFit'
  BY <1>1 DEF FilesFit, RotationKeepsLimit
<1>8. LivesFit'
  BY <1>1, <1>2, <1>3, <1>4 DEF LivesFit, TypeOK
<1> QED BY <1>1, <1>4, <1>5, <1>6, <1>7, <1>8 DEF PendingIsExact
-----------------------------------------------------------------------------
(* WriteLoop *)

\* A step of the writer between two lines: it waits, wakes or leaves.
LEMMA WaitKeeps ==
    ASSUME LoggerInv, ~HoldsLine, writer # "gone",
           writer' \in {"testing", "checking", "blocking", "asleep", "draining", "gone"},
           UNCHANGED <<queue, pending, caller, line, size, logFiles, dropped, flush, promised,
                       running, destructor>>,
           isOpen' = (isOpen /\ writer' # "gone"),
           writer' = "gone" => ~running /\ pending = 0
    PROVE  LoggerInv'
<1> USE DEF LoggerInv
<1>1. ~HoldsLine'
  BY DEF HoldsLine
<1>2. PendingIsExact' /\ PlacesFit' /\ Outstanding' = Outstanding /\ Ended' = Ended
  BY <1>1, EntriesStay
<1>3. TypeOK'
  BY DEF TypeOK
<1>4. FilesFit'
  <2>1. RotationKeepsLimit'
    BY DEF FilesFit, RotationKeepsLimit
  <2>2. writer' # "gone" => isOpen' = isOpen
    BY DEF TypeOK
  <2> QED BY <2>1, <2>2 DEF FilesFit
<1>5. LivesFit'
  BY <1>2, NothingPending DEF LivesFit
<1> QED BY <1>2, <1>3, <1>4, <1>5

LEMMA PopKeeps ==
    ASSUME LoggerInv, Pop
    PROVE  LoggerInv'
<1> USE DEF LoggerInv
<1> DEFINE e == Head(queue)
<1>1. /\ writer = "draining" /\ queue # <<>> /\ line' = <<e>> /\ queue' = Tail(queue)
      /\ writer' = "writing"
      /\ UNCHANGED <<pending, caller, isOpen, size, logFiles, dropped, flush, promised, running, destructor>>
  BY DEF Pop, fileVars, lifeVars
<1>2. /\ e \in InQueue /\ e \in Entries /\ queue' \in Seq(Entries) /\ IsInjective(queue')
      /\ InQueue' = InQueue \ {e}
  BY <1>1, TakeFirst DEF InQueue, TypeOK, PlacesFit
<1> HIDE DEF e
<1>3. InHand = {} /\ InHand' = {e}
  BY <1>1, HeldAreEntries DEF HoldsLine, InHand, Range
<1>4. Written' = Written /\ Ended' = Ended
  BY <1>1 DEF Written, Ended
<1>5. Outstanding' = Outstanding
  BY <1>1, <1>2, <1>3 DEF Outstanding
<1>6. TypeOK'
  BY <1>1, <1>2 DEF TypeOK
<1>7. PlacesFit'
  <2>1. InQueue' \union InHand' = InQueue \union InHand
    BY <1>2, <1>3
  <2> QED BY <2>1, <1>1, <1>2, <1>3, <1>4 DEF PlacesFit, HoldsLine
<1>8. FilesFit'
  BY <1>1 DEF FilesFit, RotationKeepsLimit
<1>9. LivesFit'
  BY <1>1, <1>4, <1>5 DEF LivesFit
<1> QED BY <1>1, <1>5, <1>6, <1>7, <1>8, <1>9 DEF PendingIsExact

\* An empty file comes after a full one.
LEMMA RotateFileKeeps ==
    ASSUME LoggerInv, RotateFile
    PROVE  LoggerInv'
<1> USE DEF LoggerInv
<1>1. PICK opens \in BOOLEAN : Rotate(opens)
  BY DEF RotateFile
<1>2. /\ writer = "writing" /\ writer' = "rotated"
      /\ UNCHANGED <<queue, pending, caller, line, dropped, flush, promised, running, destructor>>
  BY DEF RotateFile, lifeVars
<1>3. MaxFileSize \in Nat \ {0} /\ size \in Nat /\ isOpen \in BOOLEAN
  BY LoggerAssumption DEF TypeOK
<1>4. /\ Written' = Written /\ logFiles' \in Seq(File) /\ FilesFit'
      /\ isOpen' \in BOOLEAN /\ size' \in Nat
  <2>1. CASE ~isOpen
    <3>1. isOpen' = opens /\ UNCHANGED <<size, logFiles>> /\ size = 0
      BY <1>1, <1>2, <2>1 DEF Rotate, FilesFit
    <3> QED BY <3>1, <1>2, <1>3 DEF FilesFit, RotationKeepsLimit, TypeOK, Written
  <2>2. CASE isOpen /\ size < MaxFileSize
    <3>1. ~(size >= MaxFileSize)
      BY <1>3, <2>2
    <3>2. UNCHANGED <<isOpen, size, logFiles>>
      BY <1>1, <2>2, <3>1 DEF Rotate
    <3>3. RotationKeepsLimit' /\ Written' = Written
      BY <3>2 DEF FilesFit, RotationKeepsLimit, Written
    <3> QED BY <3>2, <3>3, <1>2, <1>3, <2>2 DEF FilesFit, TypeOK
  <2>3. CASE isOpen /\ size >= MaxFileSize
    <3> DEFINE n == Len(logFiles)
    <3>1. isOpen' = opens /\ size' = 0 /\ logFiles' = Append(logFiles, NewFile)
      BY <1>1, <1>3, <2>3 DEF Rotate
    <3>2. NewFile \in File /\ logFiles \in Seq(File) /\ n \in Nat /\ DOMAIN logFiles = 1 .. n
      BY NewFileKeeps DEF TypeOK
    <3>3. /\ logFiles' \in Seq(File) /\ Len(logFiles') = n + 1
          /\ DOMAIN logFiles' = 1 .. (n + 1) /\ logFiles'[n + 1] = NewFile
          /\ \A i \in 1 .. n : logFiles'[i] = logFiles[i]
      BY <3>1, <3>2
    <3>4. n \in 1 .. n /\ logFiles[n].bytes >= MaxFileSize
      BY <3>2, <2>3 DEF FilesFit
    <3> HIDE DEF n
    <3>5. Written' = Written
      <4>1. Range(NewFile.lines) = {}
        BY NewFileKeeps DEF Range
      <4>2. Written' = UNION {Range(logFiles'[i].lines) : i \in 1 .. (n + 1)}
        BY <3>3 DEF Written
      <4>3. Written = UNION {Range(logFiles[i].lines) : i \in 1 .. n}
        BY <3>2 DEF Written
      <4>4. ASSUME NEW x PROVE x \in Written' <=> x \in Written
        <5>1. x \in Written' <=> \E i \in 1 .. (n + 1) : x \in Range(logFiles'[i].lines)
          BY <4>2
        <5>2. x \in Written <=> \E i \in 1 .. n : x \in Range(logFiles[i].lines)
          BY <4>3
        <5> QED BY <5>1, <5>2, <4>1, <3>2, <3>3
      <4> QED BY <4>4
    <3>6. ASSUME NEW i \in 1 .. n, NEW j \in 1 .. n,
                 NEW k \in DOMAIN logFiles[i].lines, NEW l \in DOMAIN logFiles[j].lines,
                 logFiles[i].lines[k] = logFiles[j].lines[l]
          PROVE  i = j /\ k = l
      BY <3>2, <3>6 DEF FilesFit, RotationKeepsLimit
    <3>7. RotationKeepsLimit'
      <4>1. \A i \in 1 .. n : logFiles[i].bytes >= MaxFileSize
        <5>1. n = Len(logFiles)
          BY DEF n
        <5> QED BY <5>1, <3>2, <3>4 DEF FilesFit, RotationKeepsLimit
      <4>2. KeepsLimit(NewFile) /\ DOMAIN NewFile.lines = {}
        BY NewFileKeeps
      <4>3. \A i \in 1 .. (n + 1) : KeepsLimit(logFiles'[i])
        <5>1. \A i \in 1 .. n : KeepsLimit(logFiles[i])
          BY <3>2 DEF FilesFit, RotationKeepsLimit
        <5>2. \A i \in 1 .. (n + 1) : i \in 1 .. n \/ i = n + 1
          BY <3>2
        <5> QED BY <5>1, <5>2, <4>2, <3>3
      <4>4. \A i \in 1 .. (n + 1) - 1 : logFiles'[i].bytes >= MaxFileSize
        BY <4>1, <3>2, <3>3
      <4>5. ASSUME NEW i \in 1 .. (n + 1), NEW j \in 1 .. (n + 1),
                   NEW k \in DOMAIN logFiles'[i].lines, NEW l \in DOMAIN logFiles'[j].lines,
                   logFiles'[i].lines[k] = logFiles'[j].lines[l]
            PROVE  i = j /\ k = l
        <5>1. i \in 1 .. n /\ j \in 1 .. n
          BY <4>2, <3>2, <3>3
        <5>2. /\ k \in DOMAIN logFiles[i].lines /\ l \in DOMAIN logFiles[j].lines
              /\ logFiles[i].lines[k] = logFiles[j].lines[l]
          BY <5>1, <4>5, <3>3
        <5> QED BY <5>1, <5>2, <3>6
      <4> QED BY <4>3, <4>4, <4>5, <3>3 DEF RotationKeepsLimit
    <3>8. FilesFit'
      <4>1. logFiles' # <<>> /\ size' = logFiles'[Len(logFiles')].bytes
        BY <3>1, <3>2, <3>3, NewFileKeeps
      <4> QED BY <4>1, <3>1, <3>7, <1>2, <1>3 DEF FilesFit
    <3> QED BY <3>1, <3>3, <3>5, <3>8
  <2> QED BY <2>1, <2>2, <2>3, <1>3 DEF FilesFit
<1>5. InQueue' = InQueue /\ InHand' = InHand /\ Ended' = Ended
  BY <1>2, <1>4 DEF InQueue, InHand, Ended
<1>6. Outstanding' = Outstanding
  BY <1>2, <1>5 DEF Outstanding
<1>7. TypeOK'
  BY <1>2, <1>4 DEF TypeOK
<1>8. PlacesFit'
  BY <1>2, <1>4, <1>5 DEF PlacesFit, HoldsLine
<1>9. LivesFit'
  BY <1>2, <1>5, <1>6 DEF LivesFit
<1> QED BY <1>2, <1>4, <1>6, <1>7, <1>8, <1>9 DEF PendingIsExact

\* A line goes into the current file, or is dropped if there is none.
LEMMA WriteLineKeeps ==
    ASSUME LoggerInv, WriteLine
    PROVE  LoggerInv'
<1> USE DEF LoggerInv
<1>1. /\ writer = "rotated" /\ writer' = "written"
      /\ UNCHANGED <<queue, pending, caller, line, isOpen, flush, promised, running, destructor>>
  BY DEF WriteLine, lifeVars
<1>2. PICK e \in Entries : line = <<e>> /\ InHand = {e} /\ Head(line) = e
  BY <1>1, HeldAreEntries DEF HoldsLine
<1>3. MaxFileSize \in Nat \ {0} /\ size \in Nat /\ isOpen \in BOOLEAN
  BY LoggerAssumption DEF TypeOK
<1>4. e \notin Written
  BY <1>1, <1>2 DEF PlacesFit
<1>5. /\ Ended' = Ended \union {e} /\ Written' \subseteq Written \union {e}
      /\ logFiles' \in Seq(File) /\ FilesFit' /\ size' \in Nat /\ dropped' \subseteq Entries
  <2>1. CASE ~isOpen
    <3>1. dropped' = dropped \union {e} /\ UNCHANGED <<logFiles, size>>
      BY <1>2, <2>1 DEF WriteLine, InHand
    <3>2. Written' = Written /\ RotationKeepsLimit'
      BY <3>1 DEF Written, FilesFit, RotationKeepsLimit
    <3>3. FilesFit'
      BY <3>1, <3>2, <1>1 DEF FilesFit
    <3> QED BY <3>1, <3>2, <3>3, <1>3 DEF Ended, TypeOK
  <2>2. CASE isOpen
    <3> DEFINE n == Len(logFiles)
               old == logFiles[n].lines
               len == Len(old)
               file == WithLine(logFiles[n], e)
    <3>1. logFiles' = [logFiles EXCEPT ![n] = file] /\ size' = size + LineSize[e] /\ dropped' = dropped
      BY <1>2, <2>2 DEF WriteLine
    <3>2. /\ logFiles \in Seq(File) /\ n \in Nat /\ DOMAIN logFiles = 1 .. n
          /\ n \in 1 .. n
      BY DEF TypeOK, FilesFit
    <3>3. /\ logFiles[n] \in File /\ old \in Seq(Entries) /\ len \in Nat
          /\ logFiles[n].bytes = size /\ size < MaxFileSize
      <4>1. logFiles[n] \in File
        BY <3>2
      <4> QED BY <4>1, <3>2, <1>1 DEF FilesFit, File
    <3>4. /\ file \in File /\ KeepsLimit(file)
          /\ file.lines = Append(old, e) /\ file.bytes = size + LineSize[e] /\ file.bytes \in Nat
      BY <3>3, WithLineKeeps
    <3>12. /\ Len(file.lines) = len + 1 /\ file.lines[len + 1] = e
           /\ \A k \in 1 .. len : file.lines[k] = old[k]
           /\ DOMAIN file.lines = 1 .. (len + 1) /\ DOMAIN old = 1 .. len
      BY <3>3, <3>4
    <3>5. \A i \in 1 .. n : \A k \in DOMAIN logFiles[i].lines : logFiles[i].lines[k] \in Written
      <4>1. Written = UNION {Range(logFiles[i].lines) : i \in 1 .. n}
        BY <3>2 DEF Written
      <4>2. \A i \in 1 .. n : \A k \in DOMAIN logFiles[i].lines :
               logFiles[i].lines[k] \in Range(logFiles[i].lines)
        BY DEF Range
      <4> HIDE DEF n
      <4> QED BY <4>1, <4>2
    <3>6. /\ \A i \in 1 .. n : KeepsLimit(logFiles[i])
          /\ \A i \in 1 .. n - 1 : logFiles[i].bytes >= MaxFileSize
          /\ \A i, j \in 1 .. n :
               \A k \in DOMAIN logFiles[i].lines, l \in DOMAIN logFiles[j].lines :
                 logFiles[i].lines[k] = logFiles[j].lines[l] => i = j /\ k = l
      BY <3>2 DEF FilesFit, RotationKeepsLimit
    <3> HIDE DEF file
    <3>7. /\ logFiles' \in Seq(File) /\ Len(logFiles') = n /\ DOMAIN logFiles' = 1 .. n
          /\ logFiles'[n] = file /\ \A i \in 1 .. n : i # n => logFiles'[i] = logFiles[i]
      <4>1. logFiles \in Seq(File) /\ file \in File /\ n = Len(logFiles)
        BY <3>2, <3>4
      <4> HIDE DEF n
      <4>2. /\ logFiles' \in Seq(File) /\ Len(logFiles') = n /\ DOMAIN logFiles' = 1 .. n
        BY <4>1, <3>1, <3>2
      <4>3. logFiles'[n] = file /\ \A i \in 1 .. n : i # n => logFiles'[i] = logFiles[i]
        BY <3>1, <3>2
      <4> QED BY <4>2, <4>3
    <3> HIDE DEF n, len
    <3>8. Range(file.lines) = Range(old) \union {e}
      <4>1. ASSUME NEW x PROVE x \in Range(file.lines) <=> x \in Range(old) \union {e}
        <5>1. x \in Range(file.lines) <=> \E k \in 1 .. (len + 1) : file.lines[k] = x
          BY <3>12 DEF Range
        <5>2. x \in Range(old) <=> \E k \in 1 .. len : old[k] = x
          BY <3>12 DEF Range
        <5>3. \A k \in 1 .. (len + 1) : k \in 1 .. len \/ k = len + 1
          BY <3>3
        <5>4. len + 1 \in 1 .. (len + 1) /\ \A k \in 1 .. len : k \in 1 .. (len + 1)
          BY <3>3
        <5> HIDE DEF old, file
        <5> QED BY <5>1, <5>2, <5>3, <5>4, <3>12
      <4> QED BY <4>1
    <3>9. Written' = Written \union {e}
      <4>1. Written' = UNION {Range(logFiles'[i].lines) : i \in 1 .. n}
        BY <3>7 DEF Written
      <4>2. Written = UNION {Range(logFiles[i].lines) : i \in 1 .. n}
        BY <3>2 DEF Written
      <4>3. ASSUME NEW x PROVE x \in Written' <=> x \in Written \union {e}
        <5>1. x \in Written' <=> \E i \in 1 .. n : x \in Range(logFiles'[i].lines)
          BY <4>1
        <5>2. x \in Written <=> \E i \in 1 .. n : x \in Range(logFiles[i].lines)
          BY <4>2
        <5> QED BY <5>1, <5>2, <3>2, <3>7, <3>8
      <4> QED BY <4>3
    <3>10. RotationKeepsLimit'
      <4>1. \A i \in 1 .. n : KeepsLimit(logFiles'[i])
        BY <3>4, <3>6, <3>7
      <4>2. \A i \in 1 .. n - 1 : logFiles'[i].bytes >= MaxFileSize
        <5>1. \A i \in 1 .. n - 1 : i \in 1 .. n /\ i # n
          BY <3>2
        <5> QED BY <5>1, <3>6, <3>7
      <4>3. ASSUME NEW i \in 1 .. n, NEW j \in 1 .. n,
                   NEW k \in DOMAIN logFiles'[i].lines, NEW l \in DOMAIN logFiles'[j].lines,
                   logFiles'[i].lines[k] = logFiles'[j].lines[l]
            PROVE  i = j /\ k = l
        <5>1. ASSUME NEW a \in 1 .. n, NEW m \in DOMAIN logFiles'[a].lines
              PROVE  \/ a = n /\ m = len + 1 /\ logFiles'[a].lines[m] = e
                     \/ /\ m \in DOMAIN logFiles[a].lines
                        /\ logFiles'[a].lines[m] = logFiles[a].lines[m]
          <6>1. CASE a # n
            BY <6>1, <5>1, <3>7
          <6>2. CASE a = n
            <7>1. m \in 1 .. (len + 1)
              BY <6>2, <5>1, <3>7, <3>12
            <7>2. m = len + 1 \/ m \in 1 .. len
              BY <7>1, <3>3
            <7> QED BY <6>2, <7>2, <3>7, <3>12
          <6> QED BY <6>1, <6>2
        <5>2. /\ \/ i = n /\ k = len + 1 /\ logFiles'[i].lines[k] = e
                 \/ k \in DOMAIN logFiles[i].lines /\ logFiles'[i].lines[k] = logFiles[i].lines[k]
              /\ \/ j = n /\ l = len + 1 /\ logFiles'[j].lines[l] = e
                 \/ l \in DOMAIN logFiles[j].lines /\ logFiles'[j].lines[l] = logFiles[j].lines[l]
          BY <5>1
        <5> QED BY <5>2, <4>3, <3>5, <3>6, <1>4
      <4> QED BY <4>1, <4>2, <4>3, <3>7 DEF RotationKeepsLimit
    <3>11. FilesFit'
      <4>1. logFiles' # <<>> /\ size' = logFiles'[Len(logFiles')].bytes
        BY <3>1, <3>2, <3>3, <3>4, <3>7, <1>3
      <4>2. isOpen' /\ writer' # "rotated"
        BY <1>1, <2>2
      <4> QED BY <4>1, <4>2, <3>10 DEF FilesFit
    <3>13. size' \in Nat
      BY <3>1, <3>4
    <3> QED BY <3>1, <3>7, <3>9, <3>11, <3>13 DEF Ended, TypeOK
  <2> QED BY <2>1, <2>2
<1>6. InQueue' = InQueue /\ InHand' = InHand
  BY <1>1 DEF InQueue, InHand
<1>7. Outstanding' = Outstanding
  BY <1>1, <1>6 DEF Outstanding
<1>8. TypeOK'
  BY <1>1, <1>5 DEF TypeOK
<1>9. PlacesFit'
  <2>1. InHand' \subseteq Ended' /\ e \notin InQueue
    BY <1>2, <1>5, <1>6 DEF PlacesFit
  <2>2. \A d \in Entries : d \in InQueue' \union InHand' \union Ended' <=> d \in InQueue \union InHand \union Ended
    BY <1>2, <1>5, <1>6
  <2>3. InQueue' \intersect Written' = {}
    BY <2>1, <1>5, <1>6 DEF PlacesFit
  <2> QED BY <2>1, <2>2, <2>3, <1>1, <1>6 DEF PlacesFit, HoldsLine
<1>10. LivesFit'
  BY <1>1, <1>5, <1>7 DEF LivesFit
<1> QED BY <1>1, <1>5, <1>7, <1>8, <1>9, <1>10 DEF PendingIsExact

LEMMA CountDownKeeps ==
    ASSUME LoggerInv, CountDown
    PROVE  LoggerInv'
<1> USE DEF LoggerInv
<1>1. /\ writer = "written" /\ writer' = "draining" /\ pending' = pending - 1 /\ line' = <<>>
      /\ UNCHANGED <<queue, caller, isOpen, size, logFiles, dropped, flush, promised, running, destructor>>
  BY DEF CountDown, fileVars, lifeVars
<1>2. PICK e \in Entries : line = <<e>> /\ InHand = {e}
  BY <1>1, HeldAreEntries DEF HoldsLine
<1>3. InQueue' = InQueue /\ InHand' = {} /\ Written' = Written /\ Ended' = Ended
  BY <1>1 DEF InQueue, InHand, Written, Ended, Range
<1>4. e \in Ended /\ e \notin InQueue /\ caller[e] \in {"pushed", "returned"}
  BY <1>1, <1>2 DEF PlacesFit
<1>5. e \in Outstanding /\ Outstanding' = Outstanding \ {e}
  BY <1>1, <1>2, <1>3, <1>4 DEF Outstanding
<1>6. PendingIsExact'
  BY <1>1, <1>5, OutstandingIsFinite, FS_RemoveElement DEF PendingIsExact
<1>7. pending' \in 0 .. Cardinality(Entries)
  <2>1. Outstanding' \subseteq Entries /\ IsFiniteSet(Entries)
    BY LoggerAssumption DEF Outstanding
  <2> QED BY <2>1, <1>6, FS_Subset, FS_CardinalityType DEF PendingIsExact
<1>8. TypeOK'
  <2>1. line' \in Seq(Entries) /\ Len(line') <= 1
    BY <1>1
  <2> QED BY <2>1, <1>1, <1>7 DEF TypeOK
<1>9. PlacesFit'
  <2>1. \A d \in Entries : d \in InQueue' \union InHand' \union Ended' <=> d \in InQueue \union InHand \union Ended
    BY <1>2, <1>3, <1>4
  <2> QED BY <2>1, <1>1, <1>3 DEF PlacesFit, HoldsLine
<1>10. FilesFit'
  BY <1>1, FilesStay
<1>11. LivesFit'
  BY <1>1, <1>3, <1>5 DEF LivesFit
<1> QED BY <1>6, <1>8, <1>9, <1>10, <1>11

LEMMA WriteLoopKeeps ==
    ASSUME LoggerInv, WriteLoop \/ WakeSpuriously
    PROVE  LoggerInv'
<1>1. CASE Test
  <2>1. /\ writer = "testing" /\ writer' = IF running \/ pending > 0 THEN "checking" ELSE "gone"
        /\ isOpen' = (isOpen /\ writer' # "gone")
        /\ UNCHANGED <<queue, pending, caller, line, size, logFiles, dropped, flush, promised,
                       running, destructor>>
    BY <1>1 DEF Test, lifeVars
  <2>2. writer' = "gone" => ~running /\ pending = 0
    BY <2>1, OutstandingIsFinite DEF LoggerInv, PendingIsExact
  <2> QED BY <2>1, <2>2, WaitKeeps DEF HoldsLine
<1>2. CASE CheckPredicate \/ Block \/ Drained \/ WakeSpuriously
  <2>1. /\ writer \in {"checking", "blocking", "draining", "asleep"}
        /\ writer' \in {"testing", "checking", "blocking", "asleep", "draining"}
        /\ UNCHANGED <<queue, pending, caller, line, isOpen, size, logFiles, dropped, flush, promised,
                       running, destructor>>
    BY <1>2 DEF CheckPredicate, Block, Drained, WakeSpuriously, fileVars, lifeVars
  <2>2. isOpen' = (isOpen /\ writer' # "gone")
    BY <2>1 DEF LoggerInv, TypeOK
  <2> QED BY <2>1, <2>2, WaitKeeps DEF HoldsLine
<1> QED BY <1>1, <1>2, PopKeeps, RotateFileKeeps, WriteLineKeeps, CountDownKeeps DEF WriteLoop
-----------------------------------------------------------------------------
(* Flush and the destructor *)

LEMMA FlushKeeps ==
    ASSUME LoggerInv, BeginFlush \/ EndFlush
    PROVE  LoggerInv'
<1> USE DEF LoggerInv
<1>1. UNCHANGED <<queue, pending, caller, writer, line, isOpen, size, logFiles, dropped, running, destructor>>
  BY DEF BeginFlush, EndFlush, fileVars
<1>2. PendingIsExact' /\ PlacesFit' /\ Outstanding' = Outstanding /\ Ended' = Ended
  BY <1>1, EntriesStay
<1>3. FilesFit'
  BY <1>1 DEF FilesFit, RotationKeepsLimit
<1>4. CASE BeginFlush
  <2>1. flush' = "waiting" /\ promised' = {e \in Entries : caller[e] = "returned"}
    BY <1>4 DEF BeginFlush
  <2>2. TypeOK'
    BY <2>1, <1>1 DEF TypeOK
  <2>3. LivesFit'
    BY <2>1, <1>1, <1>2 DEF LivesFit
  <2> QED BY <2>2, <2>3, <1>2, <1>3
<1>5. CASE EndFlush
  <2>1. flush' = "returned" /\ promised' = promised /\ Outstanding = {}
    BY <1>5, NothingPending DEF EndFlush
  <2>2. TypeOK'
    BY <2>1, <1>1 DEF TypeOK
  <2>3. promised \subseteq Ended
    BY <2>1 DEF Outstanding, PlacesFit, LivesFit, TypeOK
  <2>4. LivesFit'
    BY <2>1, <2>3, <1>1, <1>2 DEF LivesFit
  <2> QED BY <2>2, <2>4, <1>2, <1>3
<1> QED BY <1>4, <1>5

LEMMA DestroyKeeps ==
    ASSUME LoggerInv, Destroy
    PROVE  LoggerInv'
<1> USE DEF LoggerInv
<1>1. /\ UNCHANGED <<queue, pending, caller, line, isOpen, size, logFiles, dropped, flush, promised>>
      /\ writer' = writer \/ (writer = "asleep" /\ writer' = "checking")
  BY DEF Destroy, StopRunning, NotifyWriter, Join, WakeWriter, fileVars
<1>2. PendingIsExact' /\ PlacesFit' /\ Outstanding' = Outstanding /\ Ended' = Ended
  BY <1>1, EntriesStay DEF HoldsLine
<1>3. FilesFit'
  BY <1>1 DEF FilesFit, RotationKeepsLimit
<1>4. CASE StopRunning
  <2>1. /\ running' = FALSE /\ destructor' = "notifying" /\ writer' = writer
        /\ \A e \in Entries : caller[e] \in {"idle", "returned"}
    BY <1>4 DEF StopRunning
  <2>2. TypeOK'
    BY <2>1, <1>1 DEF TypeOK
  <2>3. LivesFit'
    BY <2>1, <1>1, <1>2 DEF LivesFit
  <2> QED BY <2>2, <2>3, <1>2, <1>3
<1>5. CASE NotifyWriter \/ Join
  <2>1. running' = running /\ destructor # "idle" /\ destructor' \in {"joining", "returned"}
    BY <1>5 DEF NotifyWriter, Join
  <2>2. TypeOK'
    BY <2>1, <1>1 DEF TypeOK
  <2>3. LivesFit'
    BY <2>1, <1>1, <1>2 DEF LivesFit
  <2> QED BY <2>2, <2>3, <1>2, <1>3
<1> QED BY <1>4, <1>5 DEF Destroy
-----------------------------------------------------------------------------
(* Theorems *)

\* Counter, queue, files and the state of every call fit together at each step
\* of the threads that log, of the writer, of Flush and of the destructor.
THEOREM LoggerInvariant == Spec => []LoggerInv
<1>1. LoggerInv /\ [Next]_vars => LoggerInv'
  <2> SUFFICES ASSUME LoggerInv, [Next]_vars PROVE LoggerInv'
    OBVIOUS
  <2>1. CASE \E e \in Entries : LogQuery(e)
    BY <2>1, CountKeeps, PushKeeps, NotifyKeeps DEF LogQuery
  <2>2. CASE WriteLoop \/ WakeSpuriously
    BY <2>2, WriteLoopKeeps
  <2>3. CASE BeginFlush \/ EndFlush
    BY <2>3, FlushKeeps
  <2>4. CASE Destroy
    BY <2>4, DestroyKeeps
  <2>5. CASE UNCHANGED vars
    <3>1. /\ UNCHANGED <<queue, pending, caller, line, isOpen, size, logFiles, dropped, writer>>
          /\ UNCHANGED <<flush, promised, running, destructor>>
      BY <2>5 DEF vars
    <3>2. PendingIsExact' /\ PlacesFit' /\ Outstanding' = Outstanding /\ Ended' = Ended
      BY <3>1, EntriesStay
    <3>3. TypeOK' /\ FilesFit'
      BY <3>1 DEF LoggerInv, TypeOK, FilesFit, RotationKeepsLimit
    <3>4. LivesFit'
      BY <3>1, <3>2 DEF LoggerInv, LivesFit
    <3> QED BY <3>2, <3>3, <3>4 DEF LoggerInv
  <2> QED BY <2>1, <2>2, <2>3, <2>4, <2>5 DEF Next
<1> QED BY <1>1, LoggerStarts, PTL DEF Spec

\* The logger's variables keep their types, and pending_writes_, which is
\* unsigned, never goes below zero, although it is counted up outside the mutex.
THEOREM LoggerTypeCorrect == Spec => []TypeOK
<1>1. LoggerInv => TypeOK
  BY DEF LoggerInv
<1> QED BY <1>1, LoggerInvariant, PTL

\* When Flush returns, every entry whose LogQuery had returned before is in a
\* file, unless none could be opened.
THEOREM FlushAlwaysKeepsItsPromise == Spec => []FlushKeepsItsPromise
<1>1. LoggerInv => FlushKeepsItsPromise
  BY DEF LoggerInv, LivesFit, Ended, FlushKeepsItsPromise
<1> QED BY <1>1, LoggerInvariant, PTL

\* RotateIfNeeded lets no file get another line once the lines this logger has
\* put in it have reached the limit, closes a file only then, and no entry is
\* written twice.
THEOREM RotationAlwaysKeepsLimit == Spec => []RotationKeepsLimit
<1>1. LoggerInv => RotationKeepsLimit
  BY DEF LoggerInv, FilesFit
<1> QED BY <1>1, LoggerInvariant, PTL

\* The writer thread leaves no entry behind when the logger is destroyed.
THEOREM NothingEverLeftBehind == Spec => []NothingLeftBehind
<1>1. LoggerInv => NothingLeftBehind
  BY DEF LoggerInv, LivesFit, PlacesFit, Outstanding, Ended, NothingLeftBehind
<1> QED BY <1>1, LoggerInvariant, PTL
-----------------------------------------------------------------------------
(* No entry waits for a notification that has been given *)

\* The writer does not sleep on a queue whose callers have all notified it, and
\* it finds nobody pushing between its look at the queue and its sleep.
WakeupKept ==
    queue # <<>> =>
        /\ writer # "blocking"
        /\ writer = "asleep" => \E e \in Entries : caller[e] = "pushed"

LEMMA StepKeepsWakeup == LoggerInv /\ WakeupKept /\ [Next]_vars => WakeupKept'
<1> SUFFICES ASSUME LoggerInv, WakeupKept, [Next]_vars PROVE WakeupKept'
  OBVIOUS
<1>1. ASSUME NEW e \in Entries, LogQuery(e) PROVE WakeupKept'
  <2>1. CASE Count(e)
    <3>1. UNCHANGED <<queue, writer>> /\ caller[e] = "idle" /\ caller' = [caller EXCEPT ![e] = "counted"]
      BY <2>1 DEF Count
    <3> QED BY <3>1 DEF WakeupKept, LoggerInv, TypeOK
  <2>2. CASE Push(e)
    <3>1. writer # "blocking" /\ writer' = writer /\ caller'[e] = "pushed"
      BY <2>2 DEF Push, Locked, LoggerInv, TypeOK
    <3> QED BY <3>1 DEF WakeupKept
  <2>3. CASE Notify(e)
    <3>1. queue' = queue /\ writer' = IF writer = "asleep" THEN "checking" ELSE writer
      BY <2>3 DEF Notify, WakeWriter
    <3> QED BY <3>1 DEF WakeupKept
  <2> QED BY <1>1, <2>1, <2>2, <2>3 DEF LogQuery
<1>2. CASE WriteLoop \/ WakeSpuriously
  <2>1. CASE Block
    BY <2>1 DEF Block, WakeupKept
  <2>2. CASE CheckPredicate
    BY <2>2 DEF CheckPredicate, WakeupKept
  <2>3. CASE WakeSpuriously \/ Test \/ Pop \/ Drained \/ RotateFile \/ WriteLine \/ CountDown
    <3>1. writer' \notin {"blocking", "asleep"}
      BY <2>3 DEF WakeSpuriously, Test, Pop, Drained, RotateFile, WriteLine, CountDown
    <3> QED BY <3>1 DEF WakeupKept
  <2> QED BY <1>2, <2>1, <2>2, <2>3 DEF WriteLoop
<1>3. CASE BeginFlush \/ EndFlush \/ Destroy \/ UNCHANGED vars
  <2>1. UNCHANGED <<queue, caller>> /\ (writer' = writer \/ writer' = "checking")
    BY <1>3 DEF BeginFlush, EndFlush, Destroy, StopRunning, NotifyWriter, Join, WakeWriter, vars
  <2> QED BY <2>1 DEF WakeupKept
<1> QED BY <1>1, <1>2, <1>3 DEF Next

\* LogQuery notifies after it has released the mutex, and the writer looks at
\* the queue before it sleeps: whoever is queued is seen or will be notified of.
THEOREM NoWakeupIsLost == Spec => []WakeupKept
<1>1. Init => WakeupKept
  BY DEF Init, WakeupKept
<1> QED BY <1>1, StepKeepsWakeup, LoggerInvariant, PTL DEF Spec

\* What a flush waits for is always in the hands of somebody who goes on: the
\* writer, awake, or a thread inside LogQuery, which will wake it.
SomebodyGoesOn ==
    pending > 0 =>
        \/ writer \notin {"asleep", "gone"}
        \/ \E e \in Entries : caller[e] \in {"counted", "pushed"}

\* Flush never polls a count that nobody can bring down any more: no entry is
\* counted without being queued, none stays in the queue of a sleeping writer, and
\* the writer does not leave while one is counted.
THEOREM FlushIsNeverStranded == Spec => []SomebodyGoesOn
<1>1. ASSUME LoggerInv, WakeupKept, pending > 0, writer \in {"asleep", "gone"}
      PROVE  \E e \in Entries : caller[e] \in {"counted", "pushed"}
  <2>1. Outstanding # {}
    BY <1>1, FS_EmptySet DEF LoggerInv, PendingIsExact
  <2>2. writer = "asleep"
    BY <1>1, <2>1 DEF LoggerInv, LivesFit
  <2>3. PICK e \in Entries : caller[e] = "counted" \/ e \in InQueue \union InHand
    BY <2>1 DEF Outstanding
  <2>4. line = <<>> /\ InHand = {}
    BY <1>1, <2>2 DEF LoggerInv, PlacesFit, HoldsLine, InHand, Range
  <2>5. CASE e \in InQueue
    <3>1. queue # <<>>
      BY <2>5 DEF InQueue, Range
    <3> QED BY <1>1, <2>2, <3>1 DEF WakeupKept
  <2> QED BY <2>3, <2>4, <2>5
<1>2. LoggerInv /\ WakeupKept => SomebodyGoesOn
  BY <1>1 DEF SomebodyGoesOn
<1> QED BY <1>2, LoggerInvariant, NoWakeupIsLost, PTL
-----------------------------------------------------------------------------
(* The refinement of AccessLog *)

\* What waits, by where the writer is.
LEMMA WaitingIs ==
    ASSUME LoggerInv
    PROVE  /\ Waiting \in Seq(Entries)
           /\ writer \notin {"writing", "rotated"} => Waiting = queue
           /\ writer \in {"writing", "rotated"} =>
                \E e \in Entries : /\ line = <<e>> /\ Waiting = <<e>> \o queue
                                   /\ Waiting # <<>> /\ Head(Waiting) = e /\ Tail(Waiting) = queue
<1>1. queue \in Seq(Entries)
  BY DEF LoggerInv, TypeOK
<1>2. CASE writer \notin {"writing", "rotated"}
  BY <1>1, <1>2 DEF Waiting
<1>3. CASE writer \in {"writing", "rotated"}
  <2>1. PICK e \in Entries : line = <<e>>
    BY <1>3, HeldAreEntries DEF HoldsLine
  <2>2. Waiting = <<e>> \o queue
    BY <1>3, <2>1 DEF Waiting
  <2> QED BY <1>1, <1>3, <2>1, <2>2, FirstOfAll
<1> QED BY <1>2, <1>3

LEMMA NothingWaits ==
    ASSUME LoggerInv, Outstanding = {}
    PROVE  Waiting = <<>>
<1>1. InQueue = {} /\ InHand = {}
  <2>1. InQueue \union InHand \subseteq Entries
    BY HeldAreEntries
  <2> QED BY <2>1 DEF Outstanding
<1>2. ~HoldsLine
  BY <1>1, HeldAreEntries
<1>3. queue = <<>>
  <2>1. queue \in Seq(Entries) /\ Range(queue) = {}
    BY <1>1 DEF LoggerInv, TypeOK, InQueue
  <2>2. queue # <<>> => Head(queue) \in Range(queue)
    BY <2>1, TakeFirst DEF LoggerInv, PlacesFit
  <2> QED BY <2>1, <2>2
<1> QED BY <1>2, <1>3, WaitingIs DEF HoldsLine

\* A step that changes nothing the callers are promised.
LEMMA LogStays ==
    ASSUME UNCHANGED <<logFiles, dropped, flush>>,
           Logged' = Logged, Waiting' = Waiting, Phase' = Phase
    PROVE  UNCHANGED Log!vars
BY DEF Log!vars

\* LogQuery: the entry is logged when it is pushed.
LEMMA LogQueryImplements ==
    ASSUME LoggerInv, NEW e \in Entries, LogQuery(e)
    PROVE  Log!Log(e) \/ UNCHANGED Log!vars
<1> USE DEF LoggerInv
<1>1. /\ UNCHANGED <<line, logFiles, dropped, flush, destructor>>
      /\ \E place \in {"counted", "pushed", "returned"} : caller' = [caller EXCEPT ![e] = place]
  BY DEF LogQuery, Count, Push, Notify, fileVars, lifeVars
<1>2. Phase' = Phase
  BY <1>1 DEF Phase
<1>3. caller \in [Entries -> {"idle", "counted", "pushed", "returned"}]
  BY DEF TypeOK
<1>4. CASE Count(e)
  <2>1. caller[e] = "idle" /\ caller' = [caller EXCEPT ![e] = "counted"] /\ UNCHANGED <<queue, writer>>
    BY <1>4 DEF Count
  <2>2. Logged' = Logged
    BY <1>3, <2>1 DEF Logged
  <2>3. Waiting' = Waiting
    BY <1>1, <2>1 DEF Waiting
  <2> QED BY <1>1, <1>2, <2>2, <2>3, LogStays
<1>5. CASE Push(e)
  <2>1. /\ caller[e] = "counted" /\ caller' = [caller EXCEPT ![e] = "pushed"]
        /\ writer' = writer /\ queue' = Append(queue, e)
    BY <1>5 DEF Push
  <2>2. e \notin Logged /\ Logged' = Logged \union {e}
    BY <1>3, <2>1 DEF Logged
  <2>3. Phase = "open"
    BY <2>1 DEF Phase, LivesFit
  <2>4. queue \in Seq(Entries)
    BY DEF TypeOK
  <2>5. Waiting' = Append(Waiting, e)
    <3>1. CASE writer \in {"writing", "rotated"}
      <4>1. PICK d \in Entries : line = <<d>>
        BY <3>1, WaitingIs
      <4>2. Append(<<d>> \o queue, e) = <<d>> \o Append(queue, e)
        BY <2>4, FirstOfAll
      <4> QED BY <3>1, <4>1, <4>2, <1>1, <2>1 DEF Waiting
    <3>2. CASE writer \notin {"writing", "rotated"}
      BY <3>2, <2>1 DEF Waiting
    <3> QED BY <3>1, <3>2
  <2> QED BY <1>1, <1>2, <2>2, <2>3, <2>5 DEF Log!Log
<1>6. CASE Notify(e)
  <2>1. /\ caller[e] = "pushed" /\ caller' = [caller EXCEPT ![e] = "returned"] /\ queue' = queue
        /\ writer' = IF writer = "asleep" THEN "checking" ELSE writer
    BY <1>6 DEF Notify, WakeWriter
  <2>2. Logged' = Logged
    BY <1>3, <2>1 DEF Logged
  <2>3. Waiting' = Waiting
    BY <1>1, <2>1 DEF Waiting
  <2> QED BY <1>1, <1>2, <2>2, <2>3, LogStays
<1> QED BY <1>4, <1>5, <1>6 DEF LogQuery

\* WriteLoop: a file is rotated when it is full, the first entry is written or
\* dropped, and the waiting and counting around that is nobody's business.
LEMMA WriteLoopImplements ==
    ASSUME LoggerInv, WriteLoop \/ WakeSpuriously
    PROVE  Log!Rotate \/ Log!Write \/ Log!Drop \/ UNCHANGED Log!vars
<1> USE DEF LoggerInv
<1>1. UNCHANGED <<caller, flush, destructor>>
  BY DEF WriteLoop, Test, CheckPredicate, Block, Pop, Drained, RotateFile, WriteLine, CountDown,
         WakeSpuriously, fileVars, lifeVars
<1>2. Logged' = Logged /\ Phase' = Phase
  BY <1>1 DEF Logged, Phase
<1>3. queue \in Seq(Entries)
  BY DEF TypeOK
<1>4. CASE Test \/ CheckPredicate \/ Block \/ Drained \/ WakeSpuriously \/ CountDown
  <2>1. /\ UNCHANGED <<queue, logFiles, dropped>>
        /\ writer \notin {"writing", "rotated"} /\ writer' \notin {"writing", "rotated"}
    BY <1>4 DEF Test, CheckPredicate, Block, Drained, WakeSpuriously, CountDown, fileVars
  <2>2. Waiting' = Waiting
    BY <2>1 DEF Waiting
  <2> QED BY <1>1, <1>2, <2>1, <2>2, LogStays
<1>5. CASE Pop
  <2>1. /\ UNCHANGED <<logFiles, dropped>> /\ writer = "draining" /\ writer' = "writing"
        /\ queue # <<>> /\ line' = <<Head(queue)>> /\ queue' = Tail(queue)
    BY <1>5 DEF Pop, fileVars
  <2>2. <<Head(queue)>> \o Tail(queue) = queue
    BY <1>3, <2>1, FirstAndRest
  <2>3. Waiting' = Waiting
    BY <2>1, <2>2 DEF Waiting
  <2> QED BY <1>1, <1>2, <2>1, <2>3, LogStays
<1>6. CASE RotateFile
  <2>1. /\ UNCHANGED <<queue, line, dropped>> /\ writer = "writing" /\ writer' = "rotated"
        /\ \/ logFiles' = logFiles
           \/ size >= MaxFileSize /\ logFiles' = Append(logFiles, NewFile)
    BY <1>6 DEF RotateFile, Rotate
  <2>2. Waiting' = Waiting /\ Waiting # <<>>
    <3>1. Waiting # <<>>
      BY <2>1, WaitingIs
    <3> QED BY <2>1, <3>1 DEF Waiting
  <2>3. CASE logFiles' = logFiles
    BY <1>1, <1>2, <2>1, <2>2, <2>3, LogStays
  <2>4. CASE size >= MaxFileSize /\ logFiles' = Append(logFiles, NewFile)
    <3>1. logFiles[Len(logFiles)].bytes >= MaxFileSize
      BY <2>4 DEF FilesFit
    <3>2. NewFile = Log!NewFile
      BY DEF NewFile, Log!NewFile
    <3> QED BY <1>1, <1>2, <2>1, <2>2, <2>4, <3>1, <3>2 DEF Log!Rotate, Log!Current
  <2> QED BY <2>1, <2>3, <2>4
<1>7. CASE WriteLine
  <2>1. /\ UNCHANGED <<queue, line>> /\ writer = "rotated" /\ writer' = "written"
        /\ IF isOpen THEN /\ logFiles' = [logFiles EXCEPT ![Len(logFiles)] = WithLine(@, Head(line))]
                          /\ dropped' = dropped
           ELSE logFiles' = logFiles /\ dropped' = dropped \union Range(line)
    BY <1>7 DEF WriteLine
  <2>2. PICK e \in Entries : /\ line = <<e>> /\ Waiting # <<>>
                             /\ Head(Waiting) = e /\ Tail(Waiting) = queue
    BY <2>1, WaitingIs
  <2>3. Waiting' = queue
    BY <2>1 DEF Waiting
  <2>4. Head(line) = e /\ Range(line) = {e}
    BY <2>1, <2>2, HeldAreEntries DEF HoldsLine, InHand
  <2>5. CASE isOpen
    <3>1. logFiles[Len(logFiles)].bytes < MaxFileSize
      BY <2>1 DEF FilesFit
    <3>2. logFiles' = [logFiles EXCEPT ![Log!Current] =
             [lines |-> Append(@.lines, Head(Waiting)), bytes |-> @.bytes + LineSize[Head(Waiting)]]]
      BY <2>1, <2>2, <2>4, <2>5 DEF WithLine, Log!Current
    <3> QED BY <1>1, <1>2, <2>1, <2>2, <2>3, <2>5, <3>1, <3>2 DEF Log!Write, Log!Current
  <2>6. CASE ~isOpen
    BY <1>1, <1>2, <2>1, <2>2, <2>3, <2>4, <2>6 DEF Log!Drop
  <2> QED BY <2>5, <2>6
<1> QED BY <1>4, <1>5, <1>6, <1>7 DEF WriteLoop

\* Flush returns when nothing is pending: then nothing waits.
LEMMA FlushImplements ==
    ASSUME LoggerInv, BeginFlush \/ EndFlush
    PROVE  Log!BeginFlush \/ Log!EndFlush
<1>1. UNCHANGED <<queue, caller, writer, line, logFiles, dropped, destructor>>
  BY DEF BeginFlush, EndFlush, fileVars
<1>2. Logged' = Logged /\ Waiting' = Waiting /\ Phase' = Phase
  BY <1>1 DEF Logged, Waiting, Phase
<1>3. CASE BeginFlush
  <2>1. flush = "idle" /\ flush' = "waiting" /\ Phase = "open"
    BY <1>3 DEF BeginFlush, Phase
  <2> QED BY <1>1, <1>2, <2>1 DEF Log!BeginFlush
<1>4. CASE EndFlush
  <2>1. flush = "waiting" /\ flush' = "returned" /\ pending = 0
    BY <1>4 DEF EndFlush
  <2>2. Waiting = <<>>
    BY <2>1, NothingPending, NothingWaits
  <2> QED BY <1>1, <1>2, <2>1, <2>2 DEF Log!EndFlush
<1> QED BY <1>3, <1>4

\* The destructor returns when the writer has left, who has left nothing.
LEMMA DestroyImplements ==
    ASSUME LoggerInv, Destroy
    PROVE  Log!Close \/ Log!Finish \/ UNCHANGED Log!vars
<1>1. /\ UNCHANGED <<queue, caller, line, logFiles, dropped, flush>>
      /\ writer' = IF writer = "asleep" /\ NotifyWriter THEN "checking" ELSE writer
  BY DEF Destroy, StopRunning, NotifyWriter, Join, WakeWriter, fileVars
<1>2. Logged' = Logged /\ Waiting' = Waiting
  BY <1>1 DEF Logged, Waiting
<1>3. CASE StopRunning
  <2>1. Phase = "open" /\ Phase' = "closing" /\ flush # "waiting"
    BY <1>3 DEF StopRunning, Phase
  <2> QED BY <1>1, <1>2, <2>1 DEF Log!Close
<1>4. CASE NotifyWriter
  <2>1. Phase' = Phase
    BY <1>4 DEF NotifyWriter, Phase
  <2> QED BY <1>1, <1>2, <2>1, LogStays
<1>5. CASE Join
  <2>1. Phase = "closing" /\ Phase' = "closed" /\ writer = "gone"
    BY <1>5 DEF Join, Phase
  <2>2. Waiting = <<>>
    BY <2>1, NothingWaits DEF LoggerInv, LivesFit
  <2> QED BY <1>1, <1>2, <2>1, <2>2 DEF Log!Finish
<1> QED BY <1>3, <1>4, <1>5 DEF Destroy

LEMMA LogStarts == Init => Log!Init
BY DEF Init, Log!Init, NewFile, Log!NewFile, Logged, Waiting, Phase

\* Each step is a step of the access log or one that its callers cannot see.
LEMMA StepImplements == LoggerInv /\ [Next]_vars => [Log!Next]_(Log!vars)
<1> SUFFICES ASSUME LoggerInv, [Next]_vars PROVE Log!Next \/ UNCHANGED Log!vars
  OBVIOUS
<1>1. CASE \E e \in Entries : LogQuery(e)
  BY <1>1, LogQueryImplements DEF Log!Next
<1>2. CASE WriteLoop \/ WakeSpuriously
  BY <1>2, WriteLoopImplements DEF Log!Next
<1>3. CASE BeginFlush \/ EndFlush
  BY <1>3, FlushImplements DEF Log!Next
<1>4. CASE Destroy
  BY <1>4, DestroyImplements DEF Log!Next
<1>5. CASE UNCHANGED vars
  <2>1. UNCHANGED <<queue, caller, writer, line, logFiles, dropped, flush, destructor>>
    BY <1>5 DEF vars
  <2>2. Logged' = Logged /\ Waiting' = Waiting /\ Phase' = Phase
    BY <2>1 DEF Logged, Waiting, Phase
  <2> QED BY <2>1, <2>2, LogStays
<1> QED BY <1>1, <1>2, <1>3, <1>4, <1>5 DEF Next

\* The logger implements AccessLog: behind the counter outside the mutex, the
\* wakeups and the rotation, queries go into the files in the order in which
\* they were queued, and Flush and the destructor wait for all of them.
THEOREM AccessLogImplemented == Spec => ImplementsAccessLog
<1>1. LoggerInv /\ [Next]_vars => [Log!Next]_(Log!vars)
  BY StepImplements
<1> QED BY LogStarts, <1>1, LoggerInvariant, PTL DEF Spec, ImplementsAccessLog, Log!Spec
==============================================================================
