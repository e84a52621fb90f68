--------------------------- MODULE TelemetryProofs ---------------------------
(***************************************************************************)
(* Theorems about Telemetry: however the counting threads and the output   *)
(* thread interleave, each recorded request is in one second, for any      *)
(* requests, durations and sizes of the windows.                           *)
(***************************************************************************)
EXTENDS Telemetry, FiniteSetTheorems, TLAPS

-----------------------------------------------------------------------------
(* Sums *)

LEMMA UnitsOfOne ==
    ASSUME NEW x, NEW n \in Nat
    PROVE  IsFiniteSet({x} \X (1 .. n)) /\ Cardinality({x} \X (1 .. n)) = n
<1>1. IsFiniteSet(1 .. n) /\ Cardinality(1 .. n) = n
  BY FS_Interval
<1>2. IsFiniteSet({x}) /\ Cardinality({x}) = 1
  BY FS_Singleton
<1> QED BY <1>1, <1>2, FS_Product

\* A sum over a larger set.
LEMMA SumAdd ==
    ASSUME NEW f, NEW S, NEW x, x \notin S, IsFiniteSet(Units(f, S)), f[x] \in Nat
    PROVE  /\ IsFiniteSet(Units(f, S \union {x}))
           /\ SumOf(f, S \union {x}) = SumOf(f, S) + f[x]
           /\ SumOf(f, S) \in Nat
<1> DEFINE own == {x} \X (1 .. f[x])
<1>1. IsFiniteSet(own) /\ Cardinality(own) = f[x]
  BY UnitsOfOne
<1>2. Units(f, S \union {x}) = Units(f, S) \union own
  BY DEF Units
<1>3. Units(f, S) \cap own = {}
  BY DEF Units
<1> HIDE DEF own
<1>4. /\ IsFiniteSet(Units(f, S) \union own)
      /\ Cardinality(Units(f, S) \union own)
           = Cardinality(Units(f, S)) + Cardinality(own) - Cardinality(Units(f, S) \cap own)
  BY <1>1, FS_Union
<1>5. Cardinality(Units(f, S)) \in Nat /\ Cardinality({}) = 0
  BY FS_CardinalityType, FS_EmptySet
<1>6. Cardinality(Units(f, S) \cap own) = 0
  BY <1>3, <1>5
<1>7. Cardinality(Units(f, S) \union own) = Cardinality(Units(f, S)) + f[x]
  BY <1>1, <1>4, <1>5, <1>6
<1> QED BY <1>2, <1>4, <1>5, <1>7 DEF SumOf

\* Units of a part are units.
LEMMA UnitsOfPart ==
    ASSUME NEW f, NEW S, NEW T, T \subseteq S, IsFiniteSet(Units(f, S))
    PROVE  IsFiniteSet(Units(f, T))
<1>1. Units(f, T) \in SUBSET Units(f, S)
  BY DEF Units
<1> QED BY <1>1, FS_Subset

\* One value of a sum is replaced.
LEMMA SumReplace ==
    ASSUME NEW S, NEW f \in [S -> Nat], NEW x \in S, NEW v \in Nat,
           IsFiniteSet(Units(f, S))
    PROVE  /\ IsFiniteSet(Units([f EXCEPT ![x] = v], S))
           /\ SumOf([f EXCEPT ![x] = v], S) + f[x] = SumOf(f, S) + v
           /\ SumOf([f EXCEPT ![x] = v], S) \in Nat
<1> DEFINE g == [f EXCEPT ![x] = v]
           rest == S \ {x}
<1>1. S = rest \union {x} /\ x \notin rest
  OBVIOUS
<1>2. IsFiniteSet(Units(f, rest))
  BY UnitsOfPart
<1>3. /\ SumOf(f, rest \union {x}) = SumOf(f, rest) + f[x]
      /\ SumOf(f, rest) \in Nat
  BY <1>1, <1>2, SumAdd
<1>4. Units(g, rest) = Units(f, rest)
  BY DEF Units
<1>5. g[x] = v
  OBVIOUS
<1> HIDE DEF g, rest
<1>6. /\ IsFiniteSet(Units(g, rest \union {x}))
      /\ SumOf(g, rest \union {x}) = SumOf(g, rest) + v
  BY <1>1, <1>2, <1>4, <1>5, SumAdd
<1>7. SumOf(g, rest) = SumOf(f, rest)
  BY <1>4 DEF SumOf
<1>8. f[x] \in Nat
  OBVIOUS
<1>9. IsFiniteSet(Units(g, S)) /\ SumOf(g, S) + f[x] = SumOf(f, S) + v /\ SumOf(g, S) \in Nat
  BY <1>1, <1>3, <1>6, <1>7, <1>8
<1> QED BY <1>9 DEF g

\* Nothing adds up to nothing.
LEMMA SumOfNothing ==
    ASSUME NEW f, NEW S, \A x \in S : f[x] = 0
    PROVE  IsFiniteSet(Units(f, S)) /\ SumOf(f, S) = 0
<1>1. Units(f, S) = {}
  BY DEF Units
<1> QED BY <1>1, FS_EmptySet DEF SumOf

-----------------------------------------------------------------------------
(* Windows *)

Window(n) == [slots : [0 .. n - 1 -> Nat], index : 0 .. n - 1]

LEMMA SmallRemainder ==
    ASSUME NEW i \in Nat, NEW n \in Nat, i < n
    PROVE  i % n = i
OBVIOUS

LEMMA TickedSlots ==
    ASSUME NEW n \in Nat \ {0}, NEW w \in Window(n), NEW v \in Nat
    PROVE  /\ WindowTick(w, v) \in Window(n)
           /\ WindowTick(w, v).slots = [w.slots EXCEPT ![w.index] = v]
           /\ w.index + 1 < n => WindowTick(w, v).index = w.index + 1
<1>1. w.slots \in [0 .. n - 1 -> Nat] /\ w.index \in 0 .. n - 1
  BY DEF Window
<1>2. Cardinality(DOMAIN w.slots) = n
  <2>1. DOMAIN w.slots = 0 .. n - 1
    BY <1>1
  <2>2. n - 1 \in Int /\ (n - 1) - 0 + 1 = n /\ ~(0 > n - 1)
    OBVIOUS
  <2> QED BY <2>1, <2>2, FS_Interval
<1>3. WindowTick(w, v) = [slots |-> [w.slots EXCEPT ![w.index] = v], index |-> (w.index + 1) % n]
  BY <1>2 DEF WindowTick
<1>4. (w.index + 1) % n \in 0 .. n - 1
  BY <1>1
<1>5. w.index + 1 < n => (w.index + 1) % n = w.index + 1
  BY <1>1, SmallRemainder
<1>6. [w.slots EXCEPT ![w.index] = v] \in [0 .. n - 1 -> Nat]
  BY <1>1
<1>7. WindowTick(w, v) \in Window(n)
  BY <1>3, <1>4, <1>6 DEF Window
<1>8. /\ WindowTick(w, v).slots = [w.slots EXCEPT ![w.index] = v]
      /\ WindowTick(w, v).index = (w.index + 1) % n
  BY <1>3
<1> QED BY <1>5, <1>7, <1>8

\* What a window holds changes by what is written and what is overwritten.
LEMMA TickedSum ==
    ASSUME NEW n \in Nat \ {0}, NEW w \in Window(n), NEW v \in Nat,
           IsFiniteSet(Units(w.slots, 0 .. n - 1))
    PROVE  /\ IsFiniteSet(Units(WindowTick(w, v).slots, 0 .. n - 1))
           /\ WindowSum(WindowTick(w, v)) + w.slots[w.index] = WindowSum(w) + v
           /\ WindowSum(WindowTick(w, v)) \in Nat
           /\ WindowSum(w) \in Nat
           /\ w.slots[w.index] \in Nat
<1> DEFINE s == [w.slots EXCEPT ![w.index] = v]
<1>1. w.slots \in [0 .. n - 1 -> Nat] /\ w.index \in 0 .. n - 1
  BY DEF Window
<1>2. DOMAIN w.slots = 0 .. n - 1 /\ DOMAIN s = 0 .. n - 1
  BY <1>1
<1>3. /\ IsFiniteSet(Units(s, 0 .. n - 1))
      /\ SumOf(s, 0 .. n - 1) + w.slots[w.index] = SumOf(w.slots, 0 .. n - 1) + v
      /\ SumOf(s, 0 .. n - 1) \in Nat
  BY <1>1, SumReplace
<1>4. SumOf(w.slots, 0 .. n - 1) \in Nat
  BY FS_CardinalityType DEF SumOf
<1>5. w.slots[w.index] \in Nat
  BY <1>1
<1>6. WindowTick(w, v).slots = s
  BY TickedSlots
<1> HIDE DEF s
<1>7. /\ WindowSum(w) = SumOf(w.slots, 0 .. n - 1)
      /\ WindowSum(WindowTick(w, v)) = SumOf(s, 0 .. n - 1)
  BY <1>2, <1>6 DEF WindowSum
<1> QED BY <1>3, <1>4, <1>5, <1>6, <1>7

-----------------------------------------------------------------------------
(* The inductive invariant *)

\* Where the output thread is while a window has not had its value of the
\* second that it works on.
Pending == [rps |-> {}, durations |-> {"durations"}, counts |-> {"durations", "counts"},
            errors |-> {"durations", "counts", "errors"},
            requests |-> {"durations", "counts", "errors", "requests"}]
Ticks(name) == IF ticker \in Pending[name] THEN seconds - 1 ELSE seconds

\* A window that has not been filled once is written from its start, has
\* forgotten nothing, and is empty from there on.
Fresh(name) ==
    /\ Ticks(name) < SizeOf(name) => windows[name].index = Ticks(name)
    /\ Ticks(name) <= SizeOf(name) => forgotten[name] = 0
    /\ \A i \in 0 .. SizeOf(name) - 1 : Ticks(name) <= i => windows[name].slots[i] = 0

\* The variables have their types; the total counts the requests that have
\* begun, and an error is counted for who failed.
TypesInv ==
    /\ TypeOK
    /\ ticker \in Pending.requests => seconds > 0
    /\ totals.requests = Cardinality(Requests \ Past({"idle"}))
    /\ Past({"duration", "error"}) \subseteq Failed

Windows ==
    /\ windows = [name \in Names |-> windows[name]]
    /\ \A name \in Names :
         /\ windows[name] \in Window(SizeOf(name))
         /\ IsFiniteSet(Units(windows[name].slots, 0 .. SizeOf(name) - 1))
    /\ forgotten \in [Names -> Nat]

WindowsInv == Windows /\ \A name \in Names : Fresh(name)

Kept(name) == WindowSum(windows[name]) + forgotten[name]
Owed == IF ticker \in Pending.requests THEN rps ELSE 0

\* What the windows have taken, and the current second has, is what was
\* recorded; the window of the requests is still owed the rate of the second.
SumsInv ==
    /\ Kept("counts") + current.requests
         = Cardinality(Past({"current", "duration", "error", "done"}))
    /\ Kept("durations") + current.duration = SumDurations(Past({"duration", "error", "done"}))
    /\ IsFiniteSet(Units(Duration, Past({"duration", "error", "done"})))
    /\ Kept("errors") + current.errors = Cardinality(Failed \cap Past({"done"}))
    /\ Kept("rps") = lastTotal
    /\ Kept("requests") + Owed = lastTotal

TelemetryInv == TypesInv /\ WindowsInv /\ SumsInv

-----------------------------------------------------------------------------
(* Windows that get a value *)

LEMMA Sizes == \A name \in Names : SizeOf(name) \in Nat \ {0}
BY TelemetryAssumption DEF Names, SizeOf

\* What a window holds and has forgotten grows by what it gets; the others keep
\* what they have.
LEMMA PutKeeps ==
    ASSUME Windows, NEW name \in Names, NEW v \in Nat, Put(name, v)
    PROVE  /\ Windows'
           /\ Kept(name) \in Nat /\ Kept(name)' = Kept(name) + v
           /\ \A other \in Names \ {name} : Kept(other)' = Kept(other)
<1> DEFINE n == SizeOf(name)
           w == windows[name]
           t == WindowTick(w, v)
<1>1. n \in Nat \ {0} /\ w \in Window(n) /\ IsFiniteSet(Units(w.slots, 0 .. n - 1))
  BY Sizes DEF Windows
<1>2. windows' = [windows EXCEPT ![name] = t]
  BY DEF Put
<1>3. forgotten' = [forgotten EXCEPT ![name] = @ + w.slots[w.index]]
  BY DEF Put
<1>4. windows'[name] = t /\ \A other \in Names \ {name} : windows'[other] = windows[other]
  BY <1>2 DEF Windows
<1>5. windows' = [i \in Names |-> windows'[i]]
  BY <1>2 DEF Windows
<1> HIDE DEF w, t, n
<1>6. /\ t \in Window(n) /\ IsFiniteSet(Units(t.slots, 0 .. n - 1))
      /\ WindowSum(t) + w.slots[w.index] = WindowSum(w) + v
      /\ WindowSum(t) \in Nat /\ WindowSum(w) \in Nat /\ w.slots[w.index] \in Nat
  <2>1. t \in Window(n)
    BY <1>1, TickedSlots DEF t
  <2> QED BY <1>1, <2>1, TickedSum DEF t
<1>7. /\ forgotten'[name] = forgotten[name] + w.slots[w.index]
      /\ \A other \in Names \ {name} : forgotten'[other] = forgotten[other]
      /\ forgotten' \in [Names -> Nat] /\ forgotten[name] \in Nat
  BY <1>3, <1>6 DEF Windows
<1>8. \A other \in Names :
        /\ windows'[other] \in Window(SizeOf(other))
        /\ IsFiniteSet(Units(windows'[other].slots, 0 .. SizeOf(other) - 1))
  <2>1. windows'[name] \in Window(SizeOf(name))
        /\ IsFiniteSet(Units(windows'[name].slots, 0 .. SizeOf(name) - 1))
    BY <1>4, <1>6 DEF n
  <2> QED BY <1>4, <2>1 DEF Windows
<1>9. Windows'
  BY <1>5, <1>7, <1>8 DEF Windows
<1>10. Kept(name) = WindowSum(w) + forgotten[name]
  BY DEF Kept, w
<1>11. Kept(name)' = WindowSum(t) + (forgotten[name] + w.slots[w.index])
  BY <1>4, <1>7 DEF Kept
<1>12. Kept(name) \in Nat /\ Kept(name)' = Kept(name) + v
  <2> DEFINE a == WindowSum(t)
             b == WindowSum(w)
             x == w.slots[w.index]
             f == forgotten[name]
  <2>1. a \in Nat /\ b \in Nat /\ x \in Nat /\ a + x = b + v
    BY <1>6
  <2>2. f \in Nat
    BY <1>7
  <2>3. Kept(name) = b + f /\ Kept(name)' = a + (f + x)
    BY <1>10, <1>11
  <2> HIDE DEF a, b, x, f
  <2>4. a + (f + x) = (b + f) + v /\ b + f \in Nat
    BY <2>1, <2>2
  <2> QED BY <2>3, <2>4
<1>13. \A other \in Names \ {name} : Kept(other)' = Kept(other)
  BY <1>4, <1>7 DEF Kept
<1> QED BY <1>9, <1>12, <1>13

\* A window that gets the value of the second stays as fresh as it is.
LEMMA PutFresh ==
    ASSUME WindowsInv, NEW name \in Names, NEW v \in Nat, Put(name, v),
           Ticks(name) \in Nat, Ticks(name)' = Ticks(name) + 1,
           \A other \in Names \ {name} : Ticks(other)' = Ticks(other)
    PROVE  \A other \in Names : Fresh(other)'
<1> DEFINE n == SizeOf(name)
           w == windows[name]
           t == WindowTick(w, v)
           k == Ticks(name)
<1>1. n \in Nat \ {0} /\ w \in Window(n) /\ IsFiniteSet(Units(w.slots, 0 .. n - 1))
  BY Sizes DEF WindowsInv, Windows
<1>2. /\ k < n => w.index = k
      /\ k <= n => forgotten[name] = 0
      /\ \A i \in 0 .. n - 1 : k <= i => w.slots[i] = 0
  BY DEF WindowsInv, Fresh
<1>3. windows'[name] = t /\ \A other \in Names \ {name} : windows'[other] = windows[other]
  BY DEF Put, WindowsInv, Windows
<1>4. /\ forgotten'[name] = forgotten[name] + w.slots[w.index]
      /\ \A other \in Names \ {name} : forgotten'[other] = forgotten[other]
  BY DEF Put, WindowsInv, Windows
<1>5. w.slots \in [0 .. n - 1 -> Nat] /\ w.index \in 0 .. n - 1
  BY <1>1 DEF Window
<1>6. Fresh(name)' <=> /\ k + 1 < n => windows'[name].index = k + 1
                       /\ k + 1 <= n => forgotten'[name] = 0
                       /\ \A i \in 0 .. n - 1 : k + 1 <= i => windows'[name].slots[i] = 0
  BY DEF Fresh, SizeOf
<1>7. k \in Nat
  OBVIOUS
<1> HIDE DEF w, t, n, k
<1>8. /\ t.slots = [w.slots EXCEPT ![w.index] = v]
      /\ w.index + 1 < n => t.index = w.index + 1
  BY <1>1, TickedSlots DEF t
<1>9. k + 1 < n => t.index = k + 1
  BY <1>1, <1>2, <1>7, <1>8
<1>10. k + 1 <= n => forgotten'[name] = 0
  <2> SUFFICES ASSUME k + 1 <= n
               PROVE  forgotten'[name] = 0
    OBVIOUS
  <2>1. k < n /\ k <= n /\ k \in 0 .. n - 1 /\ k <= k
    BY <1>1, <1>7
  <2>2. w.slots[w.index] = 0 /\ forgotten[name] = 0
    BY <1>2, <2>1
  <2> QED BY <1>4, <2>2
<1>11. ASSUME NEW i \in 0 .. n - 1, k + 1 <= i
       PROVE  t.slots[i] = 0
  <2>1. k <= i /\ k < n /\ i # k
    BY <1>1, <1>7, <1>11
  <2>2. i # w.index /\ w.slots[i] = 0
    BY <1>2, <2>1
  <2> QED BY <1>5, <1>8, <2>2
<1>12. Fresh(name)'
  BY <1>3, <1>6, <1>9, <1>10, <1>11
<1>13. ASSUME NEW other \in Names \ {name}
       PROVE  Fresh(other)'
  <2>1. Fresh(other)
    BY DEF WindowsInv
  <2> QED BY <1>3, <1>4, <2>1 DEF Fresh, SizeOf
<1> QED BY <1>12, <1>13

-----------------------------------------------------------------------------
(* The clock of a window *)

Ended == {"starting", "sleeping", "gone"}

LEMMA TicksCount ==
    ASSUME TypesInv, NEW name \in Names
    PROVE  Ticks(name) \in Nat /\ Ticks(name) <= seconds
<1>1. seconds \in Nat
  BY DEF TypesInv, TypeOK
<1>2. Pending[name] \subseteq Pending.requests
  BY DEF Names, Pending
<1>3. ticker \in Pending[name] => seconds > 0
  BY <1>2 DEF TypesInv
<1> QED BY <1>1, <1>3 DEF Ticks

\* The output thread begins a second: the windows that wait stay behind it.
LEMMA ClockBegins ==
    ASSUME TypesInv, ticker \in Ended, ticker' = "durations", seconds' = seconds + 1
    PROVE  /\ Ticks("rps")' = Ticks("rps") + 1
           /\ \A name \in Names \ {"rps"} : Ticks(name)' = Ticks(name)
<1>1. seconds \in Nat
  BY DEF TypesInv, TypeOK
<1>2. \A name \in Names : ticker \notin Pending[name]
  BY DEF Ended, Names, Pending
<1>3. \A name \in Names \ {"rps"} : "durations" \in Pending[name]
  BY DEF Names, Pending
<1>4. "durations" \notin Pending["rps"] /\ "rps" \in Names
  BY DEF Names, Pending
<1>5. Ticks("rps") = seconds /\ Ticks("rps")' = seconds + 1
  BY <1>2, <1>4 DEF Ticks
<1>6. ASSUME NEW name \in Names \ {"rps"}
      PROVE  Ticks(name)' = Ticks(name)
  <2>1. Ticks(name) = seconds
    BY <1>2 DEF Ticks
  <2>2. Ticks(name)' = seconds' - 1
    BY <1>3 DEF Ticks
  <2>3. (seconds + 1) - 1 = seconds
    BY <1>1
  <2> QED BY <2>1, <2>2, <2>3
<1> QED BY <1>5, <1>6

\* The output thread goes from a window to the next.
LEMMA ClockGoesOn ==
    ASSUME TypesInv, NEW name \in Names, ticker = name, seconds' = seconds,
           \/ name = "durations" /\ ticker' = "counts"
           \/ name = "counts" /\ ticker' = "errors"
           \/ name = "errors" /\ ticker' = "requests"
           \/ name = "requests" /\ ticker' \in Ended
    PROVE  /\ Ticks(name)' = Ticks(name) + 1
           /\ \A other \in Names \ {name} : Ticks(other)' = Ticks(other)
<1>1. seconds \in Nat
  BY DEF TypesInv, TypeOK
<1>2. ticker \in Pending[name] /\ ticker' \notin Pending[name]
  BY DEF Ended, Names, Pending
<1>3. \A other \in Names \ {name} : ticker \in Pending[other] <=> ticker' \in Pending[other]
  BY DEF Ended, Names, Pending
<1>4. Ticks(name) = seconds - 1 /\ Ticks(name)' = seconds
  BY <1>2 DEF Ticks
<1>5. ASSUME NEW other \in Names \ {name}
      PROVE  Ticks(other)' = Ticks(other)
  BY <1>3 DEF Ticks
<1>6. (seconds - 1) + 1 = seconds
  BY <1>1
<1> QED BY <1>4, <1>5, <1>6

-----------------------------------------------------------------------------
(* Requests that advance *)

LEMMA Advanced ==
    ASSUME TypesInv, NEW r \in Requests, NEW from, NEW to, Advance(r, from, to), NEW steps
    PROVE  /\ (from \in steps <=> to \in steps) => Past(steps)' = Past(steps)
           /\ from \notin steps /\ to \in steps =>
                Past(steps)' = Past(steps) \union {r} /\ r \notin Past(steps)
           /\ from \in steps /\ to \notin steps =>
                Past(steps)' = Past(steps) \ {r} /\ r \in Past(steps)
<1>1. recorder[r] = from /\ recorder' = [recorder EXCEPT ![r] = to]
  BY DEF Advance
<1>2. recorder'[r] = to /\ \A q \in Requests : q # r => recorder'[q] = recorder[q]
  BY <1>1 DEF TypesInv, TypeOK
<1> QED BY <1>1, <1>2 DEF Past

LEMMA PastIsFinite ==
    \A steps : IsFiniteSet(Past(steps)) /\ Cardinality(Past(steps)) \in Nat
<1> TAKE steps
<1>1. Past(steps) \in SUBSET Requests
  BY DEF Past
<1> QED BY <1>1, FS_Subset, FS_CardinalityType, TelemetryAssumption

\* What only the output thread writes is not written.
LEMMA WindowsKept ==
    ASSUME WindowsInv, UNCHANGED <<windows, forgotten, ticker, seconds, rps>>
    PROVE  /\ WindowsInv'
           /\ \A name \in Names : Kept(name)' = Kept(name)
           /\ Owed' = Owed
<1>1. Windows'
  BY DEF WindowsInv, Windows
<1>2. \A name \in Names : Fresh(name)' <=> Fresh(name)
  BY DEF Fresh, Ticks
<1> QED BY <1>1, <1>2 DEF WindowsInv, Kept, Owed

-----------------------------------------------------------------------------
(* RecordRequest *)

Steps == {"idle", "total", "current", "duration", "error", "done"}
Counted == {"current", "duration", "error", "done"}
Timed == {"duration", "error", "done"}

LEMMA AdvancedType ==
    ASSUME TypesInv, NEW r \in Requests, NEW from, NEW to \in Steps, Advance(r, from, to)
    PROVE  recorder' \in [Requests -> Steps]
BY DEF Advance, TypesInv, TypeOK, Steps

LEMMA CountTotalKeeps ==
    ASSUME TelemetryInv, NEW r \in Requests, CountTotal(r)
    PROVE  TelemetryInv'
<1>1. /\ Advance(r, "idle", "total") /\ UNCHANGED <<current, running>>
      /\ totals' = [totals EXCEPT !.requests = @ + 1]
      /\ UNCHANGED <<windows, forgotten, ticker, seconds, rps, currentRps, lastTotal>>
  BY DEF CountTotal, tickerVars
<1>2. recorder' \in [Requests -> Steps]
  BY <1>1, AdvancedType DEF TelemetryInv, Steps
<1>3. /\ Past({"idle"})' = Past({"idle"}) \ {r} /\ r \in Past({"idle"})
      /\ Past({"duration", "error"})' = Past({"duration", "error"})
      /\ Past(Counted)' = Past(Counted)
      /\ Past(Timed)' = Past(Timed)
      /\ Past({"done"})' = Past({"done"})
  BY <1>1, Advanced DEF TelemetryInv, Counted, Timed
<1> DEFINE begun == Requests \ Past({"idle"})
           begunNow == Requests \ Past({"idle"})'
<1>4. begunNow = begun \union {r} /\ r \notin begun /\ begun \in SUBSET Requests
      /\ begunNow \in SUBSET Requests
  BY <1>3
<1> HIDE DEF begun, begunNow
<1>5. IsFiniteSet(begun)
  BY <1>4, FS_Subset, TelemetryAssumption
<1>6. Cardinality(begunNow) = Cardinality(begun) + 1 /\ Cardinality(begun) \in Nat
  BY <1>4, <1>5, FS_AddElement, FS_CardinalityType
<1>7. Cardinality(begunNow) <= Cardinality(Requests) /\ Cardinality(Requests) \in Nat
  BY <1>4, FS_Subset, FS_CardinalityType, TelemetryAssumption
<1>8. totals.requests = Cardinality(begun)
  BY DEF TelemetryInv, TypesInv, begun
<1>9. totals'.requests = Cardinality(begunNow) /\ totals'.errors = totals.errors
      /\ totals' \in [requests : 0 .. Cardinality(Requests), errors : Nat]
  BY <1>1, <1>6, <1>7, <1>8 DEF TelemetryInv, TypesInv, TypeOK
<1>10. lastTotal' \in 0 .. totals'.requests
  BY <1>1, <1>6, <1>8, <1>9 DEF TelemetryInv, TypesInv, TypeOK
<1>11. TypeOK'
  BY <1>1, <1>2, <1>9, <1>10 DEF TelemetryInv, TypesInv, TypeOK, Steps
<1>12. TypesInv'
  BY <1>1, <1>3, <1>9, <1>11 DEF TelemetryInv, TypesInv, begunNow
<1>13. WindowsInv' /\ (\A name \in Names : Kept(name)' = Kept(name)) /\ Owed' = Owed
  BY <1>1, WindowsKept DEF TelemetryInv
<1>14. SumsInv'
  BY <1>1, <1>3, <1>13 DEF TelemetryInv, SumsInv, Counted, Timed, Names
<1> QED BY <1>12, <1>13, <1>14 DEF TelemetryInv

\* A step of RecordRequest that leaves the total of the requests as it is.
LEMMA AdvanceKeepsTypes ==
    ASSUME TypesInv, NEW r \in Requests, NEW from, NEW to \in Steps \ {"idle"},
           from # "idle", Advance(r, from, to),
           to \in {"duration", "error"} => r \in Failed,
           totals' \in [requests : Nat, errors : Nat], totals'.requests = totals.requests,
           current' \in [requests : Nat, errors : Nat, duration : Nat],
           UNCHANGED <<running, windows, forgotten, ticker, seconds, rps, currentRps, lastTotal>>
    PROVE  TypesInv'
<1>1. recorder' \in [Requests -> Steps]
  BY AdvancedType
<1>2. Past({"idle"})' = Past({"idle"})
  BY Advanced
<1>3. Past({"duration", "error"})' \subseteq Past({"duration", "error"}) \union
        (IF to \in {"duration", "error"} THEN {r} ELSE {})
  BY Advanced
<1>4. Past({"duration", "error"})' \subseteq Failed
  BY <1>3 DEF TypesInv
<1>5. totals' \in [requests : 0 .. Cardinality(Requests), errors : Nat]
  BY DEF TypesInv, TypeOK
<1>6. TypeOK'
  BY <1>1, <1>5 DEF TypesInv, TypeOK, Steps
<1> QED BY <1>2, <1>4, <1>6 DEF TypesInv

LEMMA KeptIsNat ==
    ASSUME Windows
    PROVE  \A name \in Names : Kept(name) \in Nat
<1> SUFFICES ASSUME NEW name \in Names
             PROVE  Kept(name) \in Nat
  OBVIOUS
<1>1. windows[name] \in Window(SizeOf(name)) /\ forgotten[name] \in Nat
  BY DEF Windows
<1>2. DOMAIN windows[name].slots = 0 .. SizeOf(name) - 1
  BY <1>1 DEF Window
<1>3. IsFiniteSet(Units(windows[name].slots, 0 .. SizeOf(name) - 1))
  BY DEF Windows
<1>4. WindowSum(windows[name]) \in Nat
  BY <1>2, <1>3, FS_CardinalityType DEF WindowSum, SumOf
<1> QED BY <1>1, <1>4 DEF Kept

LEMMA CountCurrentKeeps ==
    ASSUME TelemetryInv, NEW r \in Requests, CountCurrent(r)
    PROVE  TelemetryInv'
<1>1. /\ Advance(r, "total", "current") /\ UNCHANGED <<totals, running>>
      /\ current' = [current EXCEPT !.requests = @ + 1]
      /\ UNCHANGED <<windows, forgotten, ticker, seconds, rps, currentRps, lastTotal>>
  BY DEF CountCurrent, tickerVars
<1>2. /\ current'.requests = current.requests + 1 /\ current.requests \in Nat
      /\ current'.errors = current.errors /\ current'.duration = current.duration
      /\ current' \in [requests : Nat, errors : Nat, duration : Nat]
  BY <1>1 DEF TelemetryInv, TypesInv, TypeOK
<1>3. totals \in [requests : Nat, errors : Nat]
  BY DEF TelemetryInv, TypesInv, TypeOK
<1>4. TypesInv'
  BY <1>1, <1>2, <1>3, AdvanceKeepsTypes DEF TelemetryInv, Steps
<1>5. WindowsInv' /\ (\A name \in Names : Kept(name)' = Kept(name)) /\ Owed' = Owed
  BY <1>1, WindowsKept DEF TelemetryInv
<1>6. /\ Past(Counted)' = Past(Counted) \union {r} /\ r \notin Past(Counted)
      /\ Past(Timed)' = Past(Timed)
      /\ Past({"done"})' = Past({"done"})
  BY <1>1, Advanced DEF TelemetryInv, Counted, Timed
<1>7. Cardinality(Past(Counted) \union {r}) = Cardinality(Past(Counted)) + 1
  BY <1>6, PastIsFinite, FS_AddElement
<1>8. Kept("counts") \in Nat /\ Cardinality(Past(Counted)) \in Nat
  BY KeptIsNat, PastIsFinite DEF TelemetryInv, WindowsInv, Names
<1>9. Kept("counts") + current.requests = Cardinality(Past(Counted))
  BY DEF TelemetryInv, SumsInv, Counted
<1>10. Kept("counts")' + current'.requests = Cardinality(Past(Counted)')
  <2>1. Kept("counts") + (current.requests + 1) = Cardinality(Past(Counted)) + 1
    BY <1>2, <1>8, <1>9
  <2> QED BY <1>2, <1>5, <1>6, <1>7, <2>1 DEF Names
<1>11. SumsInv'
  BY <1>1, <1>2, <1>5, <1>6, <1>10 DEF TelemetryInv, SumsInv, Counted, Timed, Names
<1> QED BY <1>4, <1>5, <1>11 DEF TelemetryInv

LEMMA AddDurationKeeps ==
    ASSUME TelemetryInv, NEW r \in Requests, AddDuration(r)
    PROVE  TelemetryInv'
<1> DEFINE to == IF r \in Failed THEN "duration" ELSE "done"
<1>1. /\ Advance(r, "current", to) /\ UNCHANGED <<totals, running>>
      /\ current' = [current EXCEPT !.duration = @ + Duration[r]]
      /\ UNCHANGED <<windows, forgotten, ticker, seconds, rps, currentRps, lastTotal>>
  BY DEF AddDuration, tickerVars
<1>2. to \in {"duration", "done"} /\ (to = "duration" <=> r \in Failed)
  OBVIOUS
<1> HIDE DEF to
<1>3. Duration[r] \in Nat
  BY TelemetryAssumption
<1>4. /\ current'.duration = current.duration + Duration[r] /\ current.duration \in Nat
      /\ current'.errors = current.errors /\ current'.requests = current.requests
      /\ current' \in [requests : Nat, errors : Nat, duration : Nat]
  BY <1>1, <1>3 DEF TelemetryInv, TypesInv, TypeOK
<1>5. totals \in [requests : Nat, errors : Nat]
  BY DEF TelemetryInv, TypesInv, TypeOK
<1>6. TypesInv'
  BY <1>1, <1>2, <1>4, <1>5, AdvanceKeepsTypes DEF TelemetryInv, Steps
<1>7. WindowsInv' /\ (\A name \in Names : Kept(name)' = Kept(name)) /\ Owed' = Owed
  BY <1>1, WindowsKept DEF TelemetryInv
<1>8. /\ Past(Timed)' = Past(Timed) \union {r} /\ r \notin Past(Timed)
      /\ Past(Counted)' = Past(Counted)
  BY <1>1, <1>2, Advanced DEF TelemetryInv, Counted, Timed
<1>9. Failed \cap Past({"done"})' = Failed \cap Past({"done"})
  <2>1. Past({"done"})' = Past({"done"})
        \/ (r \notin Failed /\ Past({"done"})' = Past({"done"}) \union {r})
    BY <1>1, <1>2, Advanced DEF TelemetryInv
  <2> QED BY <2>1
<1>10. IsFiniteSet(Units(Duration, Past(Timed)))
  BY DEF TelemetryInv, SumsInv, Timed
<1>11. /\ IsFiniteSet(Units(Duration, Past(Timed) \union {r}))
       /\ SumDurations(Past(Timed) \union {r}) = SumDurations(Past(Timed)) + Duration[r]
       /\ SumDurations(Past(Timed)) \in Nat
  BY <1>3, <1>8, <1>10, SumAdd DEF SumDurations
<1>12. Kept("durations") \in Nat
  BY KeptIsNat DEF TelemetryInv, WindowsInv, Names
<1>13. Kept("durations") + current.duration = SumDurations(Past(Timed))
  BY DEF TelemetryInv, SumsInv, Timed
<1>14. Kept("durations") + (current.duration + Duration[r])
         = SumDurations(Past(Timed)) + Duration[r]
  BY <1>3, <1>4, <1>11, <1>12, <1>13
<1>15. Kept("durations")' = Kept("durations")
  BY <1>7 DEF Names
<1>16. Kept("durations")' + current'.duration = SumDurations(Past(Timed)')
  BY <1>4, <1>8, <1>11, <1>14, <1>15, Zenon
<1>17. IsFiniteSet(Units(Duration, Past(Timed)'))
  BY <1>8, <1>11
<1>18. SumsInv'
  BY <1>1, <1>4, <1>7, <1>8, <1>9, <1>16, <1>17
     DEF TelemetryInv, SumsInv, Counted, Timed, Names, SumDurations
<1> QED BY <1>6, <1>7, <1>18 DEF TelemetryInv

LEMMA CountErrorKeeps ==
    ASSUME TelemetryInv, NEW r \in Requests, CountError(r)
    PROVE  TelemetryInv'
<1>1. /\ Advance(r, "duration", "error") /\ UNCHANGED <<current, running>>
      /\ totals' = [totals EXCEPT !.errors = @ + 1]
      /\ UNCHANGED <<windows, forgotten, ticker, seconds, rps, currentRps, lastTotal>>
  BY DEF CountError, tickerVars
<1>2. r \in Failed
  BY <1>1 DEF Advance, TelemetryInv, TypesInv, Past
<1>3. totals' \in [requests : Nat, errors : Nat] /\ totals'.requests = totals.requests
  BY <1>1 DEF TelemetryInv, TypesInv, TypeOK
<1>4. current \in [requests : Nat, errors : Nat, duration : Nat]
  BY DEF TelemetryInv, TypesInv, TypeOK
<1>5. TypesInv'
  BY <1>1, <1>2, <1>3, <1>4, AdvanceKeepsTypes DEF TelemetryInv, Steps
<1>6. WindowsInv' /\ (\A name \in Names : Kept(name)' = Kept(name)) /\ Owed' = Owed
  BY <1>1, WindowsKept DEF TelemetryInv
<1>7. /\ Past(Timed)' = Past(Timed) /\ Past(Counted)' = Past(Counted)
      /\ Past({"done"})' = Past({"done"})
  BY <1>1, Advanced DEF TelemetryInv, Counted, Timed
<1>8. SumsInv'
  BY <1>1, <1>6, <1>7 DEF TelemetryInv, SumsInv, Counted, Timed, Names
<1> QED BY <1>5, <1>6, <1>8 DEF TelemetryInv

LEMMA CountCurrentErrorKeeps ==
    ASSUME TelemetryInv, NEW r \in Requests, CountCurrentError(r)
    PROVE  TelemetryInv'
<1>1. /\ Advance(r, "error", "done") /\ UNCHANGED <<totals, running>>
      /\ current' = [current EXCEPT !.errors = @ + 1]
      /\ UNCHANGED <<windows, forgotten, ticker, seconds, rps, currentRps, lastTotal>>
  BY DEF CountCurrentError, tickerVars
<1>2. r \in Failed
  BY <1>1 DEF Advance, TelemetryInv, TypesInv, Past
<1>3. /\ current'.errors = current.errors + 1 /\ current.errors \in Nat
      /\ current'.requests = current.requests /\ current'.duration = current.duration
      /\ current' \in [requests : Nat, errors : Nat, duration : Nat]
  BY <1>1 DEF TelemetryInv, TypesInv, TypeOK
<1>4. totals \in [requests : Nat, errors : Nat]
  BY DEF TelemetryInv, TypesInv, TypeOK
<1>5. TypesInv'
  BY <1>1, <1>3, <1>4, AdvanceKeepsTypes DEF TelemetryInv, Steps
<1>6. WindowsInv' /\ (\A name \in Names : Kept(name)' = Kept(name)) /\ Owed' = Owed
  BY <1>1, WindowsKept DEF TelemetryInv
<1>7. /\ Past(Timed)' = Past(Timed) /\ Past(Counted)' = Past(Counted)
      /\ Past({"done"})' = Past({"done"}) \union {r} /\ r \notin Past({"done"})
  BY <1>1, Advanced DEF TelemetryInv, Counted, Timed
<1> DEFINE failed == Failed \cap Past({"done"})
<1>8. Failed \cap Past({"done"})' = failed \union {r} /\ r \notin failed
  BY <1>2, <1>7
<1>9. IsFiniteSet(failed)
  BY PastIsFinite, FS_Intersection
<1> HIDE DEF failed
<1>10. Cardinality(failed \union {r}) = Cardinality(failed) + 1 /\ Cardinality(failed) \in Nat
  BY <1>8, <1>9, FS_AddElement, FS_CardinalityType
<1>11. Kept("errors") \in Nat /\ Kept("errors")' = Kept("errors")
  BY <1>6, KeptIsNat DEF TelemetryInv, WindowsInv, Names
<1>12. Kept("errors") + current.errors = Cardinality(failed)
  BY DEF TelemetryInv, SumsInv, failed
<1>13. Kept("errors") + (current.errors + 1) = Cardinality(failed) + 1
  BY <1>3, <1>10, <1>11, <1>12
<1>14. Kept("errors")' + current'.errors = Cardinality(Failed \cap Past({"done"})')
  BY <1>3, <1>8, <1>10, <1>11, <1>13, Zenon
<1>15. SumsInv'
  BY <1>1, <1>3, <1>6, <1>7, <1>14 DEF TelemetryInv, SumsInv, Counted, Timed, Names
<1> QED BY <1>5, <1>6, <1>15 DEF TelemetryInv

-----------------------------------------------------------------------------
(* OutputLoop *)

\* The types after a step of the output thread.
LEMMA OutputTypes ==
    ASSUME TypesInv, Windows', UNCHANGED <<totals, recorder, running>>,
           current' \in [requests : Nat, errors : Nat, duration : Nat],
           rps' \in 0 .. Cardinality(Requests), currentRps' \in 0 .. Cardinality(Requests),
           lastTotal' \in 0 .. totals.requests, seconds' \in 0 .. MaxSeconds,
           ticker' \in Ended \union Pending.requests,
           ticker' \in Pending.requests => seconds' > 0
    PROVE  TypesInv'
<1>1. Past({"idle"})' = Past({"idle"}) /\ Past({"duration", "error"})' = Past({"duration", "error"})
  BY DEF Past
<1>2. \A name \in Names : /\ windows'[name].slots \in [0 .. SizeOf(name) - 1 -> Nat]
                          /\ windows'[name].index \in 0 .. SizeOf(name) - 1
  BY DEF Windows, Window
<1>3. forgotten' \in [Names -> Nat]
  BY DEF Windows
<1>4. ticker' \in {"starting", "sleeping", "durations", "counts", "errors", "requests", "gone"}
  BY DEF Ended, Pending
<1>5. TypeOK'
  BY <1>2, <1>3, <1>4 DEF TypesInv, TypeOK
<1> QED BY <1>1, <1>5 DEF TypesInv

LEMMA LoadTotalKeeps ==
    ASSUME TelemetryInv, LoadTotal
    PROVE  TelemetryInv'
<1>1. /\ ticker = "sleeping" /\ seconds < MaxSeconds
      /\ rps' = totals.requests - lastTotal /\ lastTotal' = totals.requests
      /\ currentRps' = rps' /\ Put("rps", rps')
      /\ seconds' = seconds + 1 /\ ticker' = "durations"
      /\ UNCHANGED <<totals, current, recorder, running>>
  BY DEF LoadTotal
<1>2. /\ totals.requests \in 0 .. Cardinality(Requests) /\ lastTotal \in 0 .. totals.requests
      /\ seconds \in Nat /\ MaxSeconds \in Nat
      /\ current \in [requests : Nat, errors : Nat, duration : Nat]
  BY TelemetryAssumption DEF TelemetryInv, TypesInv, TypeOK
<1>3. Cardinality(Requests) \in Nat
  BY FS_CardinalityType, TelemetryAssumption
<1>4. PICK v \in 0 .. Cardinality(Requests) : v = rps'
  BY <1>1, <1>2, <1>3
<1>5. v \in Nat /\ Put("rps", v) /\ "rps" \in Names /\ Windows
  BY <1>1, <1>3, <1>4 DEF Names, TelemetryInv, WindowsInv
<1>6. /\ Windows'
      /\ Kept("rps") \in Nat /\ Kept("rps")' = Kept("rps") + v
      /\ \A other \in Names \ {"rps"} : Kept(other)' = Kept(other)
  BY <1>5, PutKeeps
<1>7. /\ Ticks("rps") \in Nat /\ Ticks("rps")' = Ticks("rps") + 1
      /\ \A name \in Names \ {"rps"} : Ticks(name)' = Ticks(name)
  BY <1>1, <1>5, TicksCount, ClockBegins DEF TelemetryInv, Ended
<1>8. \A other \in Names : Fresh(other)'
  BY <1>5, <1>7, PutFresh DEF TelemetryInv
<1>9. seconds' \in 0 .. MaxSeconds /\ seconds' > 0
  BY <1>1, <1>2
<1>10. lastTotal' \in 0 .. totals.requests
  BY <1>1, <1>2, <1>3
<1>11. rps' \in 0 .. Cardinality(Requests) /\ currentRps' \in 0 .. Cardinality(Requests)
  BY <1>1, <1>4
<1>12. ticker' \in Pending.requests /\ ticker \notin Pending.requests
  BY <1>1 DEF Pending
<1>13. current' \in [requests : Nat, errors : Nat, duration : Nat]
  BY <1>1, <1>2
<1>14. TypesInv'
  BY <1>1, <1>6, <1>9, <1>10, <1>11, <1>12, <1>13, OutputTypes DEF TelemetryInv
<1>15. /\ Kept("rps") = lastTotal
       /\ Kept("requests") + Owed = lastTotal
  BY DEF TelemetryInv, SumsInv
<1>16. Owed = 0 /\ Owed' = v
  BY <1>4, <1>12 DEF Owed
<1>17. lastTotal + v = lastTotal'
  BY <1>1, <1>2, <1>4
<1>18. Kept("rps")' = lastTotal'
  BY <1>6, <1>15, <1>17
<1>19. Kept("requests") \in Nat /\ Kept("requests")' = Kept("requests")
  BY <1>5, <1>6, KeptIsNat DEF Names
<1>20. Kept("requests")' + Owed' = lastTotal'
  <2>1. Kept("requests") = lastTotal
    BY <1>15, <1>16, <1>19
  <2> QED BY <1>16, <1>17, <1>19, <2>1
<1>21. \A steps : Past(steps)' = Past(steps)
  BY <1>1 DEF Past
<1>22. SumsInv'
  BY <1>1, <1>6, <1>18, <1>20, <1>21 DEF TelemetryInv, SumsInv, Names
<1> QED BY <1>6, <1>8, <1>14, <1>22 DEF TelemetryInv, WindowsInv

LEMMA TickRequestsKeeps ==
    ASSUME TelemetryInv, TickRequests
    PROVE  TelemetryInv'
<1>1. /\ ticker = "requests" /\ Put("requests", rps) /\ ticker' \in {"gone", "sleeping"}
      /\ UNCHANGED <<totals, current, currentRps, lastTotal, recorder, rps, seconds, running>>
  BY DEF TickRequests
<1>2. /\ rps \in 0 .. Cardinality(Requests) /\ currentRps \in 0 .. Cardinality(Requests)
      /\ lastTotal \in 0 .. totals.requests /\ seconds \in 0 .. MaxSeconds
      /\ current \in [requests : Nat, errors : Nat, duration : Nat]
  BY DEF TelemetryInv, TypesInv, TypeOK
<1>3. rps \in Nat /\ "requests" \in Names /\ Windows /\ TypesInv
  BY <1>2, FS_CardinalityType, TelemetryAssumption DEF Names, TelemetryInv, WindowsInv
<1>4. PICK v \in Nat : v = rps
  BY <1>3
<1>5. Put("requests", v)
  BY <1>1, <1>4
<1>6. /\ Windows'
      /\ Kept("requests") \in Nat /\ Kept("requests")' = Kept("requests") + v
      /\ \A other \in Names \ {"requests"} : Kept(other)' = Kept(other)
  BY <1>3, <1>5, PutKeeps
<1>7. /\ Ticks("requests") \in Nat /\ Ticks("requests")' = Ticks("requests") + 1
      /\ \A other \in Names \ {"requests"} : Ticks(other)' = Ticks(other)
  BY <1>1, <1>3, TicksCount, ClockGoesOn DEF Ended
<1>8. \A other \in Names : Fresh(other)'
  BY <1>3, <1>5, <1>7, PutFresh DEF TelemetryInv
<1>9. ticker' \in Ended /\ ticker' \notin Pending.requests /\ ticker \in Pending.requests
  BY <1>1 DEF Ended, Pending
<1>10. TypesInv'
  BY <1>1, <1>2, <1>3, <1>6, <1>9, OutputTypes
<1>11. Kept("requests") + Owed = lastTotal /\ Owed = v /\ Owed' = 0
  BY <1>4, <1>9 DEF TelemetryInv, SumsInv, Owed
<1>12. Kept("requests")' + Owed' = lastTotal'
  BY <1>1, <1>6, <1>11
<1>13. \A steps : Past(steps)' = Past(steps)
  BY <1>1 DEF Past
<1>14. SumsInv'
  BY <1>1, <1>6, <1>12, <1>13 DEF TelemetryInv, SumsInv, Names
<1> QED BY <1>6, <1>8, <1>10, <1>14 DEF TelemetryInv, WindowsInv

\* What is drained goes from the current second to its window.
LEMMA Drained ==
    ASSUME TelemetryInv, NEW name \in Names, NEW counter, NEW next, Drain(name, counter, next),
           \/ name = "durations" /\ counter = "duration" /\ next = "counts"
           \/ name = "counts" /\ counter = "requests" /\ next = "errors"
           \/ name = "errors" /\ counter = "errors" /\ next = "requests"
    PROVE  /\ TypesInv' /\ WindowsInv'
           /\ Kept(name)' + current'[counter] = Kept(name) + current[counter]
           /\ \A other \in Names \ {name} : Kept(other)' = Kept(other)
           /\ \A other \in DOMAIN current \ {counter} : current'[other] = current[other]
           /\ DOMAIN current = {"requests", "errors", "duration"}
           /\ Owed' = Owed /\ lastTotal' = lastTotal
           /\ \A steps : Past(steps)' = Past(steps)
<1>1. /\ ticker = name /\ Put(name, current[counter]) /\ ticker' = next
      /\ current' = [current EXCEPT ![counter] = 0]
      /\ UNCHANGED <<totals, currentRps, lastTotal, recorder, rps, seconds, running>>
  BY DEF Drain
<1>2. /\ rps \in 0 .. Cardinality(Requests) /\ currentRps \in 0 .. Cardinality(Requests)
      /\ lastTotal \in 0 .. totals.requests /\ seconds \in 0 .. MaxSeconds
      /\ current \in [requests : Nat, errors : Nat, duration : Nat]
  BY DEF TelemetryInv, TypesInv, TypeOK
<1>3. /\ current[counter] \in Nat /\ current'[counter] = 0
      /\ DOMAIN current = {"requests", "errors", "duration"}
      /\ \A other \in DOMAIN current \ {counter} : current'[other] = current[other]
      /\ current' \in [requests : Nat, errors : Nat, duration : Nat]
  BY <1>1, <1>2
<1>4. Windows /\ TypesInv
  BY DEF TelemetryInv, WindowsInv
<1>5. PICK v \in Nat : v = current[counter]
  BY <1>3
<1>6. Put(name, v)
  BY <1>1, <1>5
<1>7. /\ Windows'
      /\ Kept(name) \in Nat /\ Kept(name)' = Kept(name) + v
      /\ \A other \in Names \ {name} : Kept(other)' = Kept(other)
  BY <1>4, <1>6, PutKeeps
<1>8. /\ Ticks(name) \in Nat /\ Ticks(name)' = Ticks(name) + 1
      /\ \A other \in Names \ {name} : Ticks(other)' = Ticks(other)
  BY <1>1, <1>4, TicksCount, ClockGoesOn
<1>9. \A other \in Names : Fresh(other)'
  BY <1>6, <1>8, PutFresh DEF TelemetryInv
<1>10. ticker' \in Pending.requests /\ ticker \in Pending.requests
  BY <1>1 DEF Pending
<1>11. seconds > 0
  BY <1>4, <1>10 DEF TypesInv
<1>12. TypesInv'
  BY <1>1, <1>2, <1>3, <1>4, <1>7, <1>10, <1>11, OutputTypes
<1>13. Owed' = Owed
  BY <1>1, <1>10 DEF Owed
<1>14. Kept(name)' + current'[counter] = Kept(name) + current[counter]
  BY <1>3, <1>5, <1>7
<1>15. \A steps : Past(steps)' = Past(steps)
  BY <1>1 DEF Past
<1>16. lastTotal' = lastTotal
  BY <1>1
<1>17. WindowsInv'
  BY <1>7, <1>9 DEF WindowsInv
<1> QED BY <1>3, <1>7, <1>12, <1>13, <1>14, <1>15, <1>16, <1>17

LEMMA DrainsKeep ==
    ASSUME TelemetryInv, DrainDurations \/ DrainCounts \/ DrainErrors
    PROVE  TelemetryInv'
<1>1. CASE DrainDurations
  <2>1. Drain("durations", "duration", "counts") /\ "durations" \in Names
    BY <1>1 DEF DrainDurations, Names
  <2>2. /\ TypesInv' /\ WindowsInv'
        /\ Kept("durations")' + current'["duration"] = Kept("durations") + current["duration"]
        /\ \A other \in Names \ {"durations"} : Kept(other)' = Kept(other)
        /\ \A other \in DOMAIN current \ {"duration"} : current'[other] = current[other]
        /\ DOMAIN current = {"requests", "errors", "duration"}
        /\ Owed' = Owed /\ lastTotal' = lastTotal
        /\ \A steps : Past(steps)' = Past(steps)
    BY <2>1, Drained
  <2>3. SumsInv'
    BY <2>2 DEF TelemetryInv, SumsInv, Names
  <2> QED BY <2>2, <2>3 DEF TelemetryInv
<1>2. CASE DrainCounts
  <2>1. Drain("counts", "requests", "errors") /\ "counts" \in Names
    BY <1>2 DEF DrainCounts, Names
  <2>2. /\ TypesInv' /\ WindowsInv'
        /\ Kept("counts")' + current'["requests"] = Kept("counts") + current["requests"]
        /\ \A other \in Names \ {"counts"} : Kept(other)' = Kept(other)
        /\ \A other \in DOMAIN current \ {"requests"} : current'[other] = current[other]
        /\ DOMAIN current = {"requests", "errors", "duration"}
        /\ Owed' = Owed /\ lastTotal' = lastTotal
        /\ \A steps : Past(steps)' = Past(steps)
    BY <2>1, Drained
  <2>3. SumsInv'
    BY <2>2 DEF TelemetryInv, SumsInv, Names
  <2> QED BY <2>2, <2>3 DEF TelemetryInv
<1>3. CASE DrainErrors
  <2>1. Drain("errors", "errors", "requests") /\ "errors" \in Names
    BY <1>3 DEF DrainErrors, Names
  <2>2. /\ TypesInv' /\ WindowsInv'
        /\ Kept("errors")' + current'["errors"] = Kept("errors") + current["errors"]
        /\ \A other \in Names \ {"errors"} : Kept(other)' = Kept(other)
        /\ \A other \in DOMAIN current \ {"errors"} : current'[other] = current[other]
        /\ DOMAIN current = {"requests", "errors", "duration"}
        /\ Owed' = Owed /\ lastTotal' = lastTotal
        /\ \A steps : Past(steps)' = Past(steps)
    BY <2>1, Drained
  <2>3. SumsInv'
    BY <2>2 DEF TelemetryInv, SumsInv, Names
  <2> QED BY <2>2, <2>3 DEF TelemetryInv
<1> QED BY <1>1, <1>2, <1>3

-----------------------------------------------------------------------------
(* The specification *)

LEMMA InitKeeps == Init => TelemetryInv
<1> SUFFICES ASSUME Init
             PROVE  TelemetryInv
  OBVIOUS
<1>1. Past({"idle"}) = Requests /\ \A steps : "idle" \notin steps => Past(steps) = {}
  BY DEF Init, Past
<1>2. Requests \ Past({"idle"}) = {} /\ Past({"duration", "error"}) = {}
      /\ Past(Counted) = {} /\ Past(Timed) = {} /\ Failed \cap Past({"done"}) = {}
  BY <1>1 DEF Counted, Timed
<1>3. Cardinality({}) = 0 /\ IsFiniteSet({}) /\ Cardinality(Requests) \in Nat
  BY FS_EmptySet, FS_CardinalityType, TelemetryAssumption
<1>4. \A name \in Names : 
        windows[name] = [slots |-> [i \in 0 .. SizeOf(name) - 1 |-> 0], index |-> 0]
  BY DEF Init, EmptyWindow
<1>5. ASSUME NEW name \in Names
      PROVE  /\ windows[name] \in Window(SizeOf(name))
             /\ IsFiniteSet(Units(windows[name].slots, 0 .. SizeOf(name) - 1))
             /\ Kept(name) = 0
             /\ Fresh(name)
  <2> DEFINE n == SizeOf(name)
             zeros == [i \in 0 .. n - 1 |-> 0]
  <2>1. n \in Nat \ {0}
    BY Sizes
  <2>2. windows[name] = [slots |-> zeros, index |-> 0]
    BY <1>4
  <2> HIDE DEF n
  <2>3. zeros \in [0 .. n - 1 -> Nat] /\ 0 \in 0 .. n - 1 /\ DOMAIN zeros = 0 .. n - 1
        /\ \A i \in 0 .. n - 1 : zeros[i] = 0
    BY <2>1
  <2> HIDE DEF zeros
  <2>4. windows[name] \in Window(SizeOf(name))
    BY <2>2, <2>3 DEF n, Window
  <2>5. windows[name].slots = zeros /\ windows[name].index = 0
    BY <2>2
  <2>6. DOMAIN windows[name].slots = 0 .. n - 1 /\ \A i \in 0 .. n - 1 : windows[name].slots[i] = 0
    BY <2>3, <2>5
  <2>7. /\ IsFiniteSet(Units(windows[name].slots, 0 .. n - 1))
        /\ SumOf(windows[name].slots, 0 .. n - 1) = 0
    BY <2>6, SumOfNothing
  <2>8. WindowSum(windows[name]) = 0 /\ forgotten[name] = 0
    BY <2>6, <2>7 DEF WindowSum, Init
  <2>9. Kept(name) = 0
    BY <2>8 DEF Kept
  <2>10. Ticks(name) = 0
    BY DEF Init, Ticks, Pending, Names
  <2>11. Fresh(name)
    BY <2>6, <2>8, <2>10, <2>5 DEF Fresh, n
  <2> QED BY <2>4, <2>7, <2>9, <2>11 DEF n
<1>6. windows = [name \in Names |-> windows[name]] /\ forgotten \in [Names -> Nat]
  BY DEF Init
<1>7. WindowsInv
  BY <1>5, <1>6 DEF WindowsInv, Windows
<1>8. Owed = 0
  BY DEF Init, Owed, Pending
<1>9. SumDurations({}) = 0 /\ IsFiniteSet(Units(Duration, {}))
  BY SumOfNothing DEF SumDurations
<1>10. /\ Kept("counts") = 0 /\ Kept("durations") = 0 /\ Kept("errors") = 0 /\ Kept("rps") = 0
       /\ Kept("requests") = 0
  BY <1>5 DEF Names
<1>11. current.requests = 0 /\ current.duration = 0 /\ current.errors = 0 /\ lastTotal = 0
  BY DEF Init
<1>12. SumsInv
  <2>1. Kept("counts") + current.requests = 0 /\ Kept("durations") + current.duration = 0
        /\ Kept("errors") + current.errors = 0 /\ Kept("requests") + Owed = 0
    BY <1>8, <1>10, <1>11
  <2>2. /\ Cardinality(Past(Counted)) = 0 /\ SumDurations(Past(Timed)) = 0
        /\ IsFiniteSet(Units(Duration, Past(Timed)))
        /\ Cardinality(Failed \cap Past({"done"})) = 0
    BY <1>2, <1>3, <1>9, Zenon
  <2> QED BY <1>10, <1>11, <2>1, <2>2, Zenon DEF SumsInv, Counted, Timed
<1>13. \A name \in Names : /\ windows[name].slots \in [0 .. SizeOf(name) - 1 -> Nat]
                           /\ windows[name].index \in 0 .. SizeOf(name) - 1
  BY <1>5 DEF Window
<1>14. TypeOK
  BY <1>3, <1>6, <1>13, TelemetryAssumption DEF Init, TypeOK
<1>15. TypesInv
  BY <1>2, <1>3, <1>14 DEF TypesInv, Init, Pending
<1> QED BY <1>7, <1>12, <1>15 DEF TelemetryInv

LEMMA NextKeeps == TelemetryInv /\ [Next]_vars => TelemetryInv'
<1> SUFFICES ASSUME TelemetryInv, [Next]_vars
             PROVE  TelemetryInv'
  OBVIOUS
<1>1. ASSUME UNCHANGED <<totals, current, recorder, tickerVars>>,
             running' \in {"unset", "yes", "no"}
      PROVE  TelemetryInv'
  <2>1. UNCHANGED <<windows, forgotten, ticker, seconds, rps, currentRps, lastTotal>>
    BY <1>1 DEF tickerVars
  <2>2. WindowsInv' /\ (\A name \in Names : Kept(name)' = Kept(name)) /\ Owed' = Owed
    BY <2>1, WindowsKept DEF TelemetryInv
  <2>3. \A steps : Past(steps)' = Past(steps)
    BY <1>1 DEF Past
  <2>4. TypesInv'
    BY <1>1, <2>1, <2>3 DEF TelemetryInv, TypesInv, TypeOK
  <2>5. SumsInv'
    BY <1>1, <2>1, <2>2, <2>3 DEF TelemetryInv, SumsInv, Names
  <2> QED BY <2>2, <2>4, <2>5 DEF TelemetryInv
<1>2. CASE FinishConstruction
  BY <1>1, <1>2 DEF FinishConstruction
<1>3. CASE StopRunning
  BY <1>1, <1>3 DEF StopRunning
<1>4. ASSUME NEW r \in Requests, RecordRequest(r)
      PROVE  TelemetryInv'
  BY <1>4, CountTotalKeeps, CountCurrentKeeps, AddDurationKeeps, CountErrorKeeps,
     CountCurrentErrorKeeps DEF RecordRequest
<1>5. CASE EnterLoop
  <2>1. /\ ticker = "starting" /\ ticker' \in {"sleeping", "gone"}
        /\ UNCHANGED <<totals, current, currentRps, lastTotal, windows, recorder, rps, seconds,
                       running, forgotten>>
    BY <1>5 DEF EnterLoop
  <2>2. ticker \notin Pending.requests /\ ticker' \notin Pending.requests /\ ticker' \in Ended
    BY <2>1 DEF Pending, Ended
  <2>3. \A name \in Names : Ticks(name)' = Ticks(name)
    <3>1. \A name \in Names : Pending[name] \subseteq Pending.requests
      BY DEF Names, Pending
    <3> QED BY <2>1, <2>2, <3>1 DEF Ticks
  <2>4. \A name \in Names : Fresh(name)' /\ Kept(name)' = Kept(name)
    BY <2>1, <2>3 DEF TelemetryInv, WindowsInv, Fresh, Kept
  <2>5. Windows'
    BY <2>1 DEF TelemetryInv, WindowsInv, Windows
  <2>6. Owed' = Owed
    BY <2>2 DEF Owed
  <2>7. \A steps : Past(steps)' = Past(steps)
    BY <2>1 DEF Past
  <2>8. TypesInv'
    BY <2>1, <2>2, <2>5, OutputTypes DEF TelemetryInv, TypesInv, TypeOK
  <2>9. SumsInv'
    BY <2>1, <2>4, <2>6, <2>7 DEF TelemetryInv, SumsInv, Names
  <2> QED BY <2>4, <2>5, <2>8, <2>9 DEF TelemetryInv, WindowsInv
<1>6. CASE OutputLoop
  BY <1>5, <1>6, LoadTotalKeeps, DrainsKeep, TickRequestsKeeps DEF OutputLoop
<1>7. CASE UNCHANGED vars
  <2>1. UNCHANGED <<totals, current, recorder, tickerVars, running>>
    BY <1>7 DEF vars, tickerVars
  <2>2. running \in {"unset", "yes", "no"}
    BY DEF TelemetryInv, TypesInv, TypeOK
  <2> QED BY <1>1, <2>1, <2>2
<1> QED BY <1>2, <1>3, <1>4, <1>6, <1>7 DEF Next

\* The inductive invariant holds of the telemetry of server/telemetry.cpp, for
\* any requests, durations and windows.
THEOREM TelemetryInvariant == Spec => []TelemetryInv
BY InitKeeps, NextKeeps, PTL DEF Spec

\* The variables keep their types, whatever is between two accesses of a
\* counter: the difference of two totals in OutputLoop is a natural number that
\* no second exceeds, and the rings stay within their slots.
THEOREM TelemetryTypeCorrect == Spec => []TypeOK
<1>1. TelemetryInv => TypeOK
  BY DEF TelemetryInv, TypesInv
<1> QED BY <1>1, TelemetryInvariant, PTL

\* RecordRequest and OutputLoop share no lock, and still each request, its
\* duration and its error are in one second and in one only; a window forgets
\* nothing before it has been filled.
THEOREM SecondsAlwaysAddUp == Spec => []SecondsAddUp
<1>1. ASSUME TelemetryInv
      PROVE  SecondsAddUp
  <2>1. \A name \in Names : seconds <= SizeOf(name) => forgotten[name] = 0
    <3> SUFFICES ASSUME NEW name \in Names, seconds <= SizeOf(name)
                 PROVE  forgotten[name] = 0
      OBVIOUS
    <3>1. Ticks(name) \in Nat /\ Ticks(name) <= seconds /\ SizeOf(name) \in Nat
      BY <1>1, TicksCount, Sizes DEF TelemetryInv
    <3>2. seconds \in Nat
      BY <1>1 DEF TelemetryInv, TypesInv, TypeOK
    <3>3. Ticks(name) <= SizeOf(name)
      BY <3>1, <3>2
    <3> QED BY <1>1, <3>3 DEF TelemetryInv, WindowsInv, Fresh
  <2>2. ticker \in {"starting", "sleeping", "gone"} => Kept("requests") = lastTotal
    <3>1. Kept("requests") \in Nat
      BY <1>1, KeptIsNat DEF TelemetryInv, WindowsInv, Names
    <3>2. Kept("requests") + Owed = lastTotal
      BY <1>1 DEF TelemetryInv, SumsInv
    <3>3. ticker \in {"starting", "sleeping", "gone"} => Owed = 0
      BY DEF Owed, Pending
    <3> QED BY <3>1, <3>2, <3>3
  <2> QED BY <1>1, <2>1, <2>2 DEF TelemetryInv, SumsInv, SecondsAddUp, Kept
<1> QED BY <1>1, TelemetryInvariant, PTL

=============================================================================
