---------------------------- MODULE ServerProofs ----------------------------
(***************************************************************************)
(* Theorems about Server: its files hold what was asked for, and nobody    *)
(* uses a permission that was gone when the request arrived, for any       *)
(* number of clients, users, databases and statements.                     *)
(***************************************************************************)
EXTENDS Server, SequenceTheorems, TLAPS

-----------------------------------------------------------------------------
(* What holds of the JSON files however updates, saves, failures and restarts
   interleave: the inductive invariant of JsonFiles. *)

\* While no undoing has gone wrong, no vector of rules has two for a scope.
RulesAreUnique ==
    /\ \A f \in Files : /\ OneRuleEach(memory[f].rules)
                        /\ OneRuleEach(disk[f].content.rules)
                        /\ OneRuleEach(tmp[f].content.rules)
    /\ \A c \in Threads : saving[c] # NoSave => OneRuleEach(saving[c].content.rules)

\* The item of a save is of its file, and so is the way it is undone.
ItemFits(f, x, undo) ==
    CASE f = "accounts" -> x \in Names /\ x.file = f /\ undo.how = "account"
      [] f = "databases" -> (x # NoItem => x \in Names /\ x.file = f) /\ undo.how = "none"
      [] f = "rules" -> x \in Rights /\ undo.how \in {"grant", "push", "erase", "revoke"} /\ undo.place # 0

ItemsFit == \A c \in Threads : saving[c] # NoSave =>
                ItemFits(saving[c].file, saving[c].item, saving[c].undo)

\* What undoes an edit of the rules that ended in rules fits them.
UndoFits(rules, x, undo) ==
    /\ undo.how \in {"grant", "push"} =>
          undo.place \in DOMAIN rules /\ rules[undo.place].scope = x.scope
    /\ undo.how = "erase" =>
          undo.place <= Len(rules) + 1 /\ \A i \in DOMAIN rules : rules[i].scope # x.scope
    /\ undo.how = "revoke" =>
          \A i \in DOMAIN rules : rules[i].scope = x.scope =>
              rules[i].permissions = undo.permissions \ {x.permission}

\* Who is not alone leaves its item in doubt and its file unsure.
OverlapsAreRaced ==
    /\ \A c, d \in Threads :
          c # d /\ saving[c] # NoSave /\ saving[d] # NoSave /\ saving[c].file = saving[d].file =>
              ~saving[c].alone
    /\ \A c \in Threads : saving[c] # NoSave /\ ~saving[c].alone =>
          /\ saving[c].item # NoItem => saving[c].item \in doubtful
          /\ saving[c].file \in unsure

\* Nothing is said of the rules any more.
Known(f) == misplaced => f # "rules"

\* What is saved alone is what is in memory, and what its files get.
Current(c) ==
    LET s == saving[c] IN
    /\ s.content = memory[s.file]
    /\ s.at = "write" => s.output = "tmp" /\ tmp[s.file] = Blank
    /\ s.at = "rename" => tmp[s.file] = Json(s.content)
    /\ s.item # NoItem /\ Known(s.file) => (s.item \in Held(s.content) <=> s.item \in asked)
    /\ s.file = "accounts" /\ s.item \notin doubtful /\ s.file \notin unsure =>
          s.item \notin Held(disk[s.file].content)
    /\ ~misplaced /\ s.file = "rules" => UndoFits(s.content.rules, s.item, s.undo)

AloneIsCurrent == \A c \in Threads : saving[c] # NoSave /\ saving[c].alone => Current(c)

FilesInv ==
    /\ FilesTypeOK
    /\ ~misplaced => RulesAreUnique
    /\ ItemsFit
    /\ OverlapsAreRaced
    /\ AloneIsCurrent
    /\ FilesAreAsAsked
-----------------------------------------------------------------------------
(* Items *)

LEMMA AccountIsItem ==
    ASSUME NEW u \in Users
    PROVE  Account(u) \in Names /\ Account(u) \in Items /\ Account(u).file = "accounts"
BY DEF Account, Items, Names

LEMMA DatabaseIsItem ==
    ASSUME NEW d \in Databases
    PROVE  Database(d) \in Names /\ Database(d) \in Items /\ Database(d).file = "databases"
BY DEF Database, Items, Names

LEMMA RightIsItem ==
    ASSUME NEW scope \in Scopes, NEW p \in Permissions
    PROVE  /\ Right(scope, p) \in Rights /\ Right(scope, p) \in Items
           /\ Right(scope, p).file = "rules"
           /\ Right(scope, p).scope = scope /\ Right(scope, p).permission = p
BY DEF Right, Items, Rights

LEMMA RightHasParts ==
    ASSUME NEW x \in Rights
    PROVE  /\ x.scope \in Scopes /\ x.permission \in Permissions
           /\ x = Right(x.scope, x.permission) /\ x.file = "rules" /\ x \in Items
BY RightIsItem DEF Rights, Right, Items

LEMMA ItemHasFile ==
    ASSUME NEW x \in Items
    PROVE  /\ x.file \in Files /\ x # NoItem
           /\ x.file = "rules" => x \in Rights
           /\ x.file # "rules" => x \in Names
<1>1. NoItem.file = "none"
  BY DEF NoItem
<1>2. ASSUME NEW y \in Names PROVE y.file \in {"accounts", "databases"}
  BY AccountIsItem, DatabaseIsItem DEF Names
<1>3. ASSUME NEW y \in Rights PROVE y.file = "rules"
  BY RightHasParts
<1> QED
  BY <1>1, <1>2, <1>3 DEF Items, Files

LEMMA NamesAreNoRights ==
    ASSUME NEW x \in Names
    PROVE  x \notin Rights /\ x \in Items
<1>1. x.file \in {"accounts", "databases"}
  BY AccountIsItem, DatabaseIsItem DEF Names
<1> QED
  BY <1>1, RightHasParts DEF Items
-----------------------------------------------------------------------------
(* Vectors of rules *)

LEMMA RuleHasParts ==
    ASSUME NEW rules \in Seq(Rules), NEW i \in DOMAIN rules
    PROVE  /\ rules[i] \in Rules /\ rules[i].scope \in Scopes
           /\ rules[i].permissions \in SUBSET Permissions
           /\ Len(rules) \in Nat /\ DOMAIN rules = 1 .. Len(rules) /\ i \in 1 .. Len(rules)
<1>1. Len(rules) \in Nat /\ DOMAIN rules = 1 .. Len(rules) /\ rules \in [1 .. Len(rules) -> Rules]
  OBVIOUS
<1>2. rules[i] \in Rules
  BY <1>1
<1> QED
  BY <1>1, <1>2 DEF Rules

\* A right is in a vector if one of the rules for its scope has it.
LEMMA RightHeld ==
    ASSUME NEW rules \in Seq(Rules), NEW x \in Rights
    PROVE  x \in RightsIn(rules) <=>
              \E i \in DOMAIN rules : rules[i].scope = x.scope /\ x.permission \in rules[i].permissions
<1>1. ASSUME NEW i \in DOMAIN rules, NEW p \in rules[i].permissions
      PROVE  /\ Right(rules[i].scope, p).scope = rules[i].scope
             /\ Right(rules[i].scope, p).permission = p
  BY RuleHasParts, RightIsItem
<1>2. x = Right(x.scope, x.permission)
  BY RightHasParts
<1> QED
  BY <1>1, <1>2 DEF RightsIn

LEMMA RightsInAreRights ==
    ASSUME NEW rules \in Seq(Rules)
    PROVE  RightsIn(rules) \subseteq Rights
<1>1. ASSUME NEW i \in DOMAIN rules, NEW p \in rules[i].permissions
      PROVE  Right(rules[i].scope, p) \in Rights
  BY RuleHasParts, RightIsItem
<1> QED
  BY <1>1 DEF RightsIn

LEMMA HeldSplits ==
    ASSUME NEW content \in Contents
    PROVE  /\ content.names \subseteq Names /\ content.rules \in Seq(Rules)
           /\ Held(content) \subseteq Items
           /\ \A x \in Names : x \in Held(content) <=> x \in content.names
           /\ \A x \in Rights : x \in Held(content) <=> x \in RightsIn(content.rules)
<1>1. content.names \subseteq Names /\ content.rules \in Seq(Rules)
  BY DEF Contents
<1>2. RightsIn(content.rules) \subseteq Rights
  BY <1>1, RightsInAreRights
<1> QED
  BY <1>1, <1>2, NamesAreNoRights DEF Held, Items

\* Of the scope, new has the permissions, of others what rules has.
SaysOf(rules, new, scope, permissions) ==
    OneRuleEach(rules) =>
        /\ OneRuleEach(new)
        /\ \A x \in Rights : x \in RightsIn(new) <=>
              IF x.scope = scope THEN x.permission \in permissions ELSE x \in RightsIn(rules)

\* The rule at a place gets other permissions.
LEMMA EditRule ==
    ASSUME NEW rules \in Seq(Rules), NEW i \in DOMAIN rules, NEW permissions \in SUBSET Permissions,
           NEW new, new = [rules EXCEPT ![i].permissions = permissions]
    PROVE  /\ new \in Seq(Rules) /\ Len(new) = Len(rules) /\ DOMAIN new = DOMAIN rules
           /\ \A j \in DOMAIN rules : new[j].scope = rules[j].scope
           /\ new[i].permissions = permissions
           /\ \A j \in DOMAIN rules \ {i} : new[j] = rules[j]
           /\ SaysOf(rules, new, rules[i].scope, permissions)
<1>1. rules[i] \in Rules /\ Len(rules) \in Nat /\ DOMAIN rules = 1 .. Len(rules)
  BY RuleHasParts
<1>2. [rules[i] EXCEPT !.permissions = permissions] \in Rules
  BY <1>1 DEF Rules
<1>3. /\ new \in Seq(Rules) /\ Len(new) = Len(rules) /\ DOMAIN new = DOMAIN rules
      /\ new[i] = [rules[i] EXCEPT !.permissions = permissions]
      /\ \A j \in DOMAIN rules \ {i} : new[j] = rules[j]
  BY <1>1, <1>2
<1>4. new[i].scope = rules[i].scope /\ new[i].permissions = permissions
  BY <1>1, <1>3 DEF Rules
<1>5. \A j \in DOMAIN rules : new[j].scope = rules[j].scope
  BY <1>3, <1>4
<1>6. ASSUME OneRuleEach(rules) PROVE OneRuleEach(new)
  BY <1>3, <1>5, <1>6 DEF OneRuleEach
<1>7. ASSUME OneRuleEach(rules), NEW x \in Rights
      PROVE  x \in RightsIn(new) <=> IF x.scope = rules[i].scope THEN x.permission \in permissions
                                     ELSE x \in RightsIn(rules)
  <2>1. x \in RightsIn(new) <=>
          \E j \in DOMAIN rules : new[j].scope = x.scope /\ x.permission \in new[j].permissions
    BY <1>3, RightHeld
  <2>2. CASE x.scope = rules[i].scope
    <3>1. \A j \in DOMAIN rules : new[j].scope = x.scope <=> j = i
      BY <1>5, <1>7, <2>2 DEF OneRuleEach
    <3> QED
      BY <1>4, <2>1, <2>2, <3>1
  <2>3. CASE x.scope # rules[i].scope
    BY <1>3, <1>5, <2>1, <2>3, RightHeld
  <2> QED
    BY <2>2, <2>3
<1> QED
  BY <1>3, <1>4, <1>5, <1>6, <1>7 DEF SaysOf

\* A rule that is alone with its scope: what it says is what is held.
LEMMA RuleSays ==
    ASSUME NEW rules \in Seq(Rules), OneRuleEach(rules), NEW i \in DOMAIN rules,
           NEW x \in Rights, x.scope = rules[i].scope
    PROVE  x \in RightsIn(rules) <=> x.permission \in rules[i].permissions
BY RightHeld DEF OneRuleEach

LEMMA AppendRule ==
    ASSUME NEW rules \in Seq(Rules), NEW rule \in Rules, NEW new, new = Append(rules, rule),
           \A j \in DOMAIN rules : rules[j].scope # rule.scope
    PROVE  /\ new \in Seq(Rules) /\ Len(new) = Len(rules) + 1 /\ new[Len(rules) + 1] = rule
           /\ DOMAIN new = 1 .. Len(rules) + 1 /\ DOMAIN rules = 1 .. Len(rules)
           /\ \A j \in DOMAIN rules : new[j] = rules[j]
           /\ SaysOf(rules, new, rule.scope, rule.permissions)
<1>1. /\ new \in Seq(Rules) /\ Len(new) = Len(rules) + 1 /\ new[Len(rules) + 1] = rule
      /\ DOMAIN new = 1 .. Len(rules) + 1 /\ DOMAIN rules = 1 .. Len(rules) /\ Len(rules) \in Nat
      /\ \A j \in DOMAIN rules : new[j] = rules[j]
  OBVIOUS
<1> DEFINE n == Len(rules)
<1>2. ASSUME OneRuleEach(rules), NEW j \in DOMAIN new, NEW k \in DOMAIN new,
             new[j].scope = new[k].scope
      PROVE  j = k
  <2>1. (j \in DOMAIN rules \/ j = n + 1) /\ (k \in DOMAIN rules \/ k = n + 1)
    BY <1>1
  <2> QED
    BY <1>1, <1>2, <2>1 DEF OneRuleEach
<1>3. ASSUME NEW x \in Rights
      PROVE  x \in RightsIn(new) <=> IF x.scope = rule.scope THEN x.permission \in rule.permissions
                                     ELSE x \in RightsIn(rules)
  <2>1. x \in RightsIn(new) <=>
          \E j \in DOMAIN new : new[j].scope = x.scope /\ x.permission \in new[j].permissions
    BY <1>1, RightHeld
  <2>2. \A j \in DOMAIN new : j \in DOMAIN rules \/ j = n + 1
    BY <1>1
  <2>3. n + 1 \in DOMAIN new /\ \A j \in DOMAIN rules : j \in DOMAIN new
    BY <1>1
  <2> QED
    BY <1>1, <2>1, <2>2, <2>3, RightHeld
<1> QED
  BY <1>1, <1>2, <1>3 DEF OneRuleEach, SaysOf

\* The place of a rule once the one at i is gone, and once one is put there.
LEMMA RemoveRule ==
    ASSUME NEW rules \in Seq(Rules), NEW i \in DOMAIN rules, NEW new, new = RemoveAt(rules, i)
    PROVE  /\ new \in Seq(Rules) /\ Len(new) = Len(rules) - 1 /\ DOMAIN new = 1 .. Len(rules) - 1
           /\ i \in 1 .. Len(rules) /\ Len(rules) \in Nat
           /\ OneRuleEach(rules) =>
                 /\ OneRuleEach(new)
                 /\ \A j \in DOMAIN new : new[j].scope # rules[i].scope
                 /\ \A x \in Rights : x \in RightsIn(new) <=>
                       x.scope # rules[i].scope /\ x \in RightsIn(rules)
<1> DEFINE n == Len(rules)
           at(j) == IF j < i THEN j ELSE j + 1
<1>1. n \in Nat /\ i \in 1 .. n /\ DOMAIN rules = 1 .. n
  BY RuleHasParts
<1>2. /\ new \in Seq(Rules) /\ Len(new) = n - 1 /\ DOMAIN new = 1 .. n - 1
      /\ \A j \in 1 .. n - 1 : new[j] = rules[at(j)]
  <2> DEFINE front == SubSeq(rules, 1, i - 1)
             back == SubSeq(rules, i + 1, n)
  <2>1. /\ front \in Seq(Rules) /\ Len(front) = i - 1
        /\ \A j \in 1 .. i - 1 : front[j] = rules[j]
    BY <1>1
  <2>2. /\ back \in Seq(Rules) /\ Len(back) = n - i
        /\ \A j \in 1 .. n - i : back[j] = rules[i + j]
    BY <1>1
  <2>3. new = front \o back
    BY DEF RemoveAt
  <2> HIDE DEF front, back
  <2>4. new \in Seq(Rules) /\ Len(new) = n - 1
    <3>1. front \o back \in Seq(Rules) /\ Len(front \o back) = Len(front) + Len(back)
      BY <2>1, <2>2, ConcatProperties
    <3> QED
      BY <1>1, <2>1, <2>2, <2>3, <3>1
  <2>5. ASSUME NEW j \in 1 .. n - 1 PROVE new[j] = IF j < i THEN front[j] ELSE back[j - (i - 1)]
    BY <1>1, <2>1, <2>2, <2>3
  <2>6. ASSUME NEW j \in 1 .. n - 1 PROVE new[j] = rules[at(j)]
    <3>1. CASE j < i
      BY <1>1, <2>1, <2>5, <3>1
    <3>2. CASE ~(j < i)
      <4>1. j - (i - 1) \in 1 .. n - i /\ i + (j - (i - 1)) = j + 1
        BY <1>1, <3>2
      <4> QED
        BY <1>1, <2>2, <2>5, <3>2, <4>1
    <3> QED
      BY <3>1, <3>2
  <2> QED
    BY <1>1, <2>4, <2>6
<1>3. \A j \in 1 .. n - 1 : at(j) \in (1 .. n) \ {i}
  BY <1>1
<1>4. \A k \in (1 .. n) \ {i} : \E j \in 1 .. n - 1 : at(j) = k
  <2> SUFFICES ASSUME NEW k \in (1 .. n) \ {i} PROVE \E j \in 1 .. n - 1 : at(j) = k
    OBVIOUS
  <2>1. CASE k < i
    BY <1>1, <2>1
  <2>2. CASE k > i
    <3>1. k - 1 \in 1 .. n - 1 /\ at(k - 1) = k
      BY <1>1, <2>2
    <3> QED
      BY <3>1
  <2> QED
    BY <1>1, <2>1, <2>2
<1>5. \A j, k \in 1 .. n - 1 : at(j) = at(k) => j = k
  BY <1>1
<1> HIDE DEF at, n
<1>6. ASSUME OneRuleEach(rules)
      PROVE  /\ OneRuleEach(new)
             /\ \A j \in DOMAIN new : new[j].scope # rules[i].scope
  BY <1>1, <1>2, <1>3, <1>5, <1>6 DEF OneRuleEach
<1>7. ASSUME OneRuleEach(rules), NEW x \in Rights
      PROVE  x \in RightsIn(new) <=> x.scope # rules[i].scope /\ x \in RightsIn(rules)
  <2>1. x \in RightsIn(new) <=>
          \E j \in 1 .. n - 1 : rules[at(j)].scope = x.scope /\ x.permission \in rules[at(j)].permissions
    BY <1>2, RightHeld
  <2>2. x \in RightsIn(rules) <=>
          \E k \in 1 .. n : rules[k].scope = x.scope /\ x.permission \in rules[k].permissions
    BY <1>1, RightHeld
  <2>3. \A k \in (1 .. n) \ {i} : rules[k].scope # rules[i].scope
    BY <1>1, <1>7 DEF OneRuleEach
  <2> QED
    BY <1>3, <1>4, <2>1, <2>2, <2>3
<1> QED
  BY <1>1, <1>2, <1>6, <1>7 DEF n

LEMMA InsertRule ==
    ASSUME NEW rules \in Seq(Rules), NEW i \in Nat, i \in 1 .. Len(rules) + 1, NEW scope \in Scopes,
           NEW new, new = InsertAt(rules, i, [scope |-> scope, permissions |-> {}])
    PROVE  /\ new \in Seq(Rules)
           /\ \A x \in Rights : x \in RightsIn(new) <=> x \in RightsIn(rules)
           /\ (OneRuleEach(rules) /\ \A j \in DOMAIN rules : rules[j].scope # scope) =>
                 OneRuleEach(new)
<1> DEFINE n == Len(rules)
           rule == [scope |-> scope, permissions |-> {}]
           at(j) == IF j < i THEN j ELSE j + 1
<1>1. n \in Nat /\ i \in 1 .. n + 1 /\ DOMAIN rules = 1 .. n /\ rule \in Rules
  BY DEF Rules
<1>2. /\ new \in Seq(Rules) /\ Len(new) = n + 1 /\ DOMAIN new = 1 .. n + 1
      /\ new[i] = rule
      /\ \A j \in 1 .. n : new[at(j)] = rules[j]
  <2> DEFINE front == SubSeq(rules, 1, i - 1)
             back == SubSeq(rules, i, n)
             upto == front \o <<rule>>
  <2>1. /\ front \in Seq(Rules) /\ Len(front) = i - 1
        /\ \A j \in 1 .. i - 1 : front[j] = rules[j]
    BY <1>1
  <2>2. /\ back \in Seq(Rules) /\ Len(back) = n - i + 1
        /\ \A j \in 1 .. n - i + 1 : back[j] = rules[i + j - 1]
    BY <1>1
  <2>3. new = upto \o back
    BY DEF InsertAt
  <2> HIDE DEF front, back, rule
  <2>4. /\ upto \in Seq(Rules) /\ Len(upto) = i /\ upto[i] = rule
        /\ \A j \in 1 .. i - 1 : upto[j] = front[j]
    BY <1>1, <2>1
  <2> HIDE DEF upto
  <2>5. new \in Seq(Rules) /\ Len(new) = n + 1
    <3>1. upto \o back \in Seq(Rules) /\ Len(upto \o back) = Len(upto) + Len(back)
      BY <2>2, <2>4, ConcatProperties
    <3>2. i + (n - i + 1) = n + 1
      BY <1>1
    <3> QED
      BY <2>2, <2>3, <2>4, <3>1, <3>2
  <2>6. ASSUME NEW k \in 1 .. n + 1 PROVE new[k] = IF k <= i THEN upto[k] ELSE back[k - i]
    <3>1. k \in 1 .. Len(upto) + Len(back)
      BY <1>1, <2>2, <2>4
    <3>2. (upto \o back)[k] = IF k <= Len(upto) THEN upto[k] ELSE back[k - Len(upto)]
      BY <2>2, <2>4, <3>1
    <3> QED
      BY <2>3, <2>4, <3>2
  <2>7. ASSUME NEW j \in 1 .. n PROVE new[at(j)] = rules[j]
    <3>1. CASE j < i
      <4>1. at(j) = j /\ j \in 1 .. n + 1 /\ j \in 1 .. i - 1 /\ j <= i
        BY <1>1, <3>1
      <4> QED
        BY <2>1, <2>4, <2>6, <4>1
    <3>2. CASE ~(j < i)
      <4>1. /\ at(j) = j + 1 /\ ~(j + 1 <= i) /\ j + 1 \in 1 .. n + 1 /\ j + 1 > i
            /\ (j + 1) - i \in 1 .. n - i + 1 /\ i + ((j + 1) - i) - 1 = j
        BY <1>1, <3>2
      <4> QED
        BY <2>2, <2>6, <4>1
    <3> QED
      BY <3>1, <3>2
  <2>8. i \in 1 .. n + 1 /\ i <= i
    BY <1>1
  <2>9. new[i] = rule
    BY <2>4, <2>6, <2>8
  <2>10. DOMAIN new = 1 .. n + 1
    BY <1>1, <2>5
  <2> QED
    BY <2>5, <2>7, <2>9, <2>10 DEF rule
<1>3. \A j \in 1 .. n : at(j) \in 1 .. n + 1 /\ at(j) # i
  BY <1>1
<1>4. \A k \in 1 .. n + 1 : k = i \/ \E j \in 1 .. n : at(j) = k
  <2> SUFFICES ASSUME NEW k \in 1 .. n + 1, k # i PROVE \E j \in 1 .. n : at(j) = k
    OBVIOUS
  <2>1. CASE k < i
    BY <1>1, <2>1
  <2>2. CASE k > i
    <3>1. k - 1 \in 1 .. n /\ at(k - 1) = k
      BY <1>1, <2>2
    <3> QED
      BY <3>1
  <2> QED
    BY <1>1, <2>1, <2>2
<1>5. rule.scope = scope /\ rule.permissions = {}
  OBVIOUS
<1> HIDE DEF at, n, rule
<1>6. ASSUME NEW x \in Rights PROVE x \in RightsIn(new) <=> x \in RightsIn(rules)
  <2>1. x \in RightsIn(new) <=>
          \E k \in 1 .. n + 1 : new[k].scope = x.scope /\ x.permission \in new[k].permissions
    BY <1>2, RightHeld
  <2>2. x \in RightsIn(rules) <=>
          \E j \in 1 .. n : rules[j].scope = x.scope /\ x.permission \in rules[j].permissions
    BY <1>1, RightHeld
  <2> QED
    BY <1>2, <1>3, <1>4, <1>5, <2>1, <2>2
<1>7. ASSUME OneRuleEach(rules), \A j \in DOMAIN rules : rules[j].scope # scope,
             NEW k \in DOMAIN new, NEW m \in DOMAIN new, new[k].scope = new[m].scope
      PROVE  k = m
  <2>1. \A j \in 1 .. n : new[at(j)].scope # scope
    BY <1>1, <1>2, <1>7
  <2>2. CASE k = i \/ m = i
    <3>1. new[k].scope = scope /\ new[m].scope = scope
      BY <1>2, <1>5, <1>7, <2>2
    <3>2. \A h \in 1 .. n + 1 : new[h].scope = scope => h = i
      BY <1>4, <2>1
    <3> QED
      BY <1>2, <3>1, <3>2
  <2>3. CASE k # i /\ m # i
    <3>1. PICK j \in 1 .. n : at(j) = k
      BY <1>2, <1>4, <2>3
    <3>2. PICK h \in 1 .. n : at(h) = m
      BY <1>2, <1>4, <2>3
    <3>3. j = h
      BY <1>1, <1>2, <1>7, <3>1, <3>2 DEF OneRuleEach
    <3> QED
      BY <3>1, <3>2, <3>3
  <2> QED
    BY <2>2, <2>3
<1> QED
  BY <1>2, <1>6, <1>7 DEF OneRuleEach

LEMMA FrontOfRules ==
    ASSUME NEW rules \in Seq(Rules), Len(rules) > 0
    PROVE  Front(rules) \in Seq(Rules)
BY DEF Front
LEMMA FittingItem ==
    ASSUME NEW f \in Files, NEW x, NEW undo, ItemFits(f, x, undo), x # NoItem
    PROVE  x \in Items /\ x.file = f /\ (f = "rules" => x \in Rights) /\ (f # "rules" => x \in Names)
<1>1. CASE f = "accounts"
  BY <1>1, NamesAreNoRights DEF ItemFits
<1>2. CASE f = "databases"
  BY <1>2, NamesAreNoRights DEF ItemFits
<1>3. CASE f = "rules"
  BY <1>3, RightHasParts DEF ItemFits
<1> QED
  BY <1>1, <1>2, <1>3 DEF Files

LEMMA SaveHasType ==
    ASSUME FilesInv, NEW c \in Threads, saving[c] # NoSave
    PROVE  /\ saving[c] \in Saves
           /\ saving[c].file \in Files /\ saving[c].content \in Contents
           /\ saving[c].undo \in Undos /\ saving[c].alone \in BOOLEAN
           /\ saving[c].item \in Items \union {NoItem}
           /\ ItemFits(saving[c].file, saving[c].item, saving[c].undo)
           /\ saving[c].item # NoItem =>
                 saving[c].item \in Items /\ saving[c].item.file = saving[c].file
           /\ memory[saving[c].file] \in Contents
<1>1. saving[c] \in Saves
  BY DEF FilesInv, FilesTypeOK
<1>2. /\ saving[c].file \in Files /\ saving[c].content \in Contents
      /\ saving[c].undo \in Undos /\ saving[c].alone \in BOOLEAN
      /\ saving[c].item \in Items \union {NoItem}
  BY <1>1 DEF Saves
<1>3. ItemFits(saving[c].file, saving[c].item, saving[c].undo)
  BY DEF FilesInv, ItemsFit
<1>4. memory[saving[c].file] \in Contents
  BY <1>2 DEF FilesInv, FilesTypeOK
<1> QED
  BY <1>1, <1>2, <1>3, <1>4, FittingItem
-----------------------------------------------------------------------------
(* Updates *)

\* An edit changes what its item says and nothing else, and can be undone.
EditFits(f, x, content, undo, again) ==
    /\ f \in Files /\ content \in Contents /\ undo \in Undos /\ again \in BOOLEAN
    /\ ItemFits(f, x, undo)
    /\ ~misplaced => OneRuleEach(content.rules)
    /\ Known(f) => \A y \in Items : y.file = f /\ y # x =>
          (y \in Held(content) <=> y \in Held(memory[f]))
    /\ f = "accounts" /\ x \in Held(memory[f]) => again
    /\ ~misplaced /\ f = "rules" => UndoFits(content.rules, x, undo)

\* What is asked for changes at the item only, and is what it says then.
AskedFits(f, x, content, askedNow) ==
    /\ askedNow \subseteq Items
    /\ \A y \in Items : y # x => (y \in askedNow <=> y \in asked)
    /\ x # NoItem /\ Known(f) => (x \in Held(content) <=> x \in askedNow)

\* What an update does to the saves.
LEMMA UpdateSaves ==
    ASSUME FilesInv, NEW c \in Threads, NEW f, NEW x, NEW content, NEW undo, NEW again,
           EditFits(f, x, content, undo, again),
           Update(c, f, x, content, undo, again)
    PROVE  /\ saving' \in [Threads -> Saves \union {NoSave}]
           /\ saving'[c] = [at |-> "open", file |-> f, item |-> x, content |-> content, undo |-> undo,
                            output |-> "closed", alone |-> SavingWith(c, f) = {} /\ ~again]
           /\ \A d \in Threads \ {c} : saving'[d] # NoSave <=> saving[d] # NoSave
           /\ \A d \in Threads \ {c} : saving'[d] # NoSave =>
                 /\ saving'[d].at = saving[d].at /\ saving'[d].file = saving[d].file
                 /\ saving'[d].item = saving[d].item /\ saving'[d].content = saving[d].content
                 /\ saving'[d].undo = saving[d].undo /\ saving'[d].output = saving[d].output
                 /\ saving[d].file = f => /\ ~saving'[d].alone
                                          /\ SavingWith(c, f) # {} /\ d \in SavingWith(c, f)
<1> DEFINE others == SavingWith(c, f)
           mine == [at |-> "open", file |-> f, item |-> x, content |-> content, undo |-> undo,
                    output |-> "closed", alone |-> others = {} /\ ~again]
           each(d) == IF d = c THEN mine
                      ELSE IF d \in others THEN [saving[d] EXCEPT !.alone = FALSE]
                      ELSE saving[d]
<1>1. saving' = [d \in Threads |-> each(d)]
  BY DEF Update
<1>2. mine \in Saves
  <2>1. x \in Items \union {NoItem}
    BY FittingItem DEF EditFits
  <2> QED
    BY <2>1 DEF Saves, EditFits
<1>3. c \notin others /\ others \subseteq Threads
  BY DEF SavingWith
<1>4. ASSUME NEW d \in others
      PROVE  /\ saving[d] \in Saves /\ saving[d] # NoSave /\ saving[d].file = f
             /\ [saving[d] EXCEPT !.alone = FALSE] \in Saves
  <2>1. saving[d] \in Saves /\ saving[d] # NoSave /\ saving[d].file = f
    BY DEF SavingWith, FilesInv, FilesTypeOK
  <2> QED
    BY <2>1 DEF Saves
<1>5. ASSUME NEW d \in Threads, d \notin others, d # c, saving[d] # NoSave
      PROVE  saving[d].file # f
  BY <1>5 DEF SavingWith
<1>6. ASSUME NEW y \in Saves PROVE y # NoSave
  <2>1. "file" \in DOMAIN y /\ "file" \notin DOMAIN NoSave
    BY DEF Saves, NoSave
  <2> QED
    BY <2>1
<1> HIDE DEF mine, others
<1>7. saving'[c] = mine
  BY <1>1
<1>8. \A d \in others : saving'[d] = [saving[d] EXCEPT !.alone = FALSE]
  BY <1>1, <1>3
<1>9. \A d \in Threads \ {c} : d \notin others => saving'[d] = saving[d]
  BY <1>1
<1>10. saving' \in [Threads -> Saves \union {NoSave}]
  <2> SUFFICES ASSUME NEW d \in Threads PROVE each(d) \in Saves \union {NoSave}
    BY <1>1
  <2>1. saving[d] \in Saves \union {NoSave}
    BY DEF FilesInv, FilesTypeOK
  <2> QED
    BY <1>2, <1>4, <2>1
<1>11. ASSUME NEW d \in others
       PROVE  /\ saving'[d] # NoSave /\ saving[d] # NoSave /\ saving[d].file = f /\ ~saving'[d].alone
              /\ saving'[d].at = saving[d].at /\ saving'[d].file = saving[d].file
              /\ saving'[d].item = saving[d].item /\ saving'[d].content = saving[d].content
              /\ saving'[d].undo = saving[d].undo /\ saving'[d].output = saving[d].output
  <2>1. saving'[d] = [saving[d] EXCEPT !.alone = FALSE] /\ saving'[d] \in Saves
    BY <1>4, <1>8
  <2> QED
    BY <1>4, <1>6, <2>1 DEF Saves
<1>12. ASSUME NEW d \in Threads \ {c}, d \notin others
       PROVE  saving'[d] = saving[d] /\ (saving'[d] # NoSave => saving[d].file # f)
  BY <1>5, <1>9, <1>12
<1> QED
  BY <1>7, <1>10, <1>11, <1>12 DEF mine, others

LEMMA UpdateKeepsFilesInv ==
    ASSUME FilesInv, NEW c \in Threads, NEW f, NEW x, NEW content, NEW undo, NEW again,
           EditFits(f, x, content, undo, again), AskedFits(f, x, content, asked'),
           Update(c, f, x, content, undo, again)
    PROVE  FilesInv'
<1> DEFINE others == SavingWith(c, f)
           alone == others = {} /\ ~again
<1>1. /\ saving[c] = NoSave
      /\ memory' = [memory EXCEPT ![f] = content]
      /\ doubtful' = IF alone THEN doubtful
                     ELSE doubtful \union (({x} \union {saving[d].item : d \in others}) \ {NoItem})
      /\ unsure' = IF alone THEN unsure ELSE unsure \union {f}
      /\ UNCHANGED <<disk, tmp, failures, misplaced>>
  BY DEF Update
<1>2. /\ f \in Files /\ content \in Contents /\ undo \in Undos /\ ItemFits(f, x, undo)
      /\ x # NoItem => x \in Items /\ x.file = f
      /\ memory \in [Files -> Contents]
      /\ doubtful \subseteq Items /\ unsure \subseteq Files
  BY FittingItem DEF EditFits, FilesInv, FilesTypeOK
<1>3. memory' \in [Files -> Contents] /\ memory'[f] = content /\ \A g \in Files \ {f} : memory'[g] = memory[g]
  BY <1>1, <1>2
<1>4. /\ saving' \in [Threads -> Saves \union {NoSave}]
      /\ saving'[c] = [at |-> "open", file |-> f, item |-> x, content |-> content, undo |-> undo,
                       output |-> "closed", alone |-> alone]
      /\ saving'[c] # NoSave
  <2>1. "file" \notin DOMAIN NoSave
    BY DEF NoSave
  <2> QED
    BY <2>1, UpdateSaves
<1>5. ASSUME NEW d \in Threads \ {c}, saving'[d] # NoSave
      PROVE  /\ saving[d] # NoSave
             /\ saving'[d].at = saving[d].at /\ saving'[d].file = saving[d].file
             /\ saving'[d].item = saving[d].item /\ saving'[d].content = saving[d].content
             /\ saving'[d].undo = saving[d].undo
             /\ saving[d].file # f => saving'[d] = saving[d]
             /\ saving[d].file = f => ~saving'[d].alone /\ ~alone /\ d \in others
             /\ ItemFits(saving[d].file, saving[d].item, saving[d].undo)
             /\ saving[d].file \in Files /\ saving[d].content \in Contents
             /\ saving[d].item # NoItem => saving[d].item \in Items /\ saving[d].item.file = saving[d].file
  <2>1. saving[d] # NoSave
    BY <1>5, UpdateSaves
  <2>2. /\ ItemFits(saving[d].file, saving[d].item, saving[d].undo)
        /\ saving[d].file \in Files /\ saving[d].content \in Contents
        /\ saving[d].item # NoItem => saving[d].item \in Items /\ saving[d].item.file = saving[d].file
    BY <2>1, SaveHasType
  <2>3. /\ saving'[d].at = saving[d].at /\ saving'[d].file = saving[d].file
        /\ saving'[d].item = saving[d].item /\ saving'[d].content = saving[d].content
        /\ saving'[d].undo = saving[d].undo
    BY <1>5, UpdateSaves
  <2>4. ASSUME saving[d].file # f PROVE saving'[d] = saving[d]
    <3>1. d \notin others
      BY <2>4 DEF others, SavingWith
    <3> QED
      BY <3>1 DEF Update, others
  <2>5. ASSUME saving[d].file = f PROVE ~saving'[d].alone /\ others # {} /\ d \in others
    BY <1>5, <2>5, UpdateSaves
  <2> QED
    BY <2>1, <2>2, <2>3, <2>4, <2>5
<1>6. /\ doubtful \subseteq doubtful' /\ unsure \subseteq unsure'
      /\ ~alone => (x # NoItem => x \in doubtful') /\ f \in unsure'
      /\ \A d \in others : ~alone /\ saving[d].item # NoItem => saving[d].item \in doubtful'
      /\ unsure' \subseteq Files
  BY <1>1, <1>2
<1>7. ASSUME NEW d \in Threads \ {c}, saving[d] # NoSave
      PROVE  saving'[d] # NoSave /\ saving'[d].item = saving[d].item
  BY <1>7, UpdateSaves
<1> HIDE DEF alone, others
<1>8. FilesTypeOK'
  <2>1. doubtful' \subseteq Items
    <3>1. \A d \in others : saving[d].item \in Items \union {NoItem}
      BY SaveHasType DEF SavingWith, others
    <3> QED
      BY <1>1, <1>2, <3>1
  <2>2. asked' \subseteq Items
    BY DEF AskedFits
  <2> QED
    BY <1>1, <1>3, <1>4, <1>6, <2>1, <2>2 DEF FilesInv, FilesTypeOK
<1>9. ~misplaced' => RulesAreUnique'
  <2> SUFFICES ASSUME ~misplaced PROVE RulesAreUnique'
    BY <1>1
  <2>1. OneRuleEach(content.rules) /\ RulesAreUnique
    BY DEF EditFits, FilesInv
  <2>2. \A g \in Files : OneRuleEach(memory'[g].rules)
    BY <1>3, <2>1 DEF RulesAreUnique
  <2>3. ASSUME NEW d \in Threads, saving'[d] # NoSave PROVE OneRuleEach(saving'[d].content.rules)
    <3>1. CASE d = c
      BY <1>4, <2>1, <3>1
    <3>2. CASE d # c
      BY <1>5, <2>1, <2>3, <3>2 DEF RulesAreUnique
    <3> QED
      BY <3>1, <3>2
  <2> QED
    BY <1>1, <2>1, <2>2, <2>3 DEF RulesAreUnique
<1>10. ItemsFit'
  <2> SUFFICES ASSUME NEW d \in Threads, saving'[d] # NoSave
               PROVE  ItemFits(saving'[d].file, saving'[d].item, saving'[d].undo)
    BY DEF ItemsFit, ItemFits
  <2>1. CASE d = c
    BY <1>2, <1>4, <2>1
  <2>2. CASE d # c
    BY <1>5, <2>2
  <2> QED
    BY <2>1, <2>2
<1>11. OverlapsAreRaced'
  <2>1. ASSUME NEW d \in Threads, NEW e \in Threads, d # e, saving'[d] # NoSave, saving'[e] # NoSave,
               saving'[d].file = saving'[e].file
        PROVE  ~saving'[d].alone
    <3>1. CASE d = c
      BY <1>4, <1>5, <2>1, <3>1
    <3>2. CASE e = c
      BY <1>4, <1>5, <2>1, <3>2
    <3>3. CASE d # c /\ e # c
      BY <1>5, <2>1, <3>3 DEF FilesInv, OverlapsAreRaced
    <3> QED
      BY <3>1, <3>2, <3>3
  <2>2. ASSUME NEW d \in Threads, saving'[d] # NoSave, ~saving'[d].alone
        PROVE  (saving'[d].item # NoItem => saving'[d].item \in doubtful') /\ saving'[d].file \in unsure'
    <3>1. CASE d = c
      BY <1>4, <1>6, <2>2, <3>1
    <3>2. CASE d # c /\ saving[d].file = f
      BY <1>5, <1>6, <2>2, <3>2
    <3>3. CASE d # c /\ saving[d].file # f
      BY <1>5, <1>6, <2>2, <3>3 DEF FilesInv, OverlapsAreRaced
    <3> QED
      BY <3>1, <3>2, <3>3
  <2> QED
    BY <2>1, <2>2 DEF OverlapsAreRaced
<1>12. AloneIsCurrent'
  <2> SUFFICES ASSUME NEW d \in Threads, saving'[d] # NoSave, saving'[d].alone
               PROVE  Current(d)'
    BY DEF AloneIsCurrent
  <2>1. CASE d = c
    <3>1. alone /\ others = {} /\ ~again
      <4>1. saving'[c].alone = alone
        BY <1>4
      <4>2. alone
        BY <2>1, <4>1
      <4> QED
        BY <4>2 DEF alone
    <3>2. ASSUME f = "accounts", x \notin doubtful', f \notin unsure'
          PROVE  x \notin Held(disk[f].content)
      <4>1. x \in Items /\ x.file = f
        BY <1>2, <3>2 DEF ItemFits, Items
      <4>2. x \notin Held(memory[f])
        BY <3>1, <3>2 DEF EditFits
      <4>3. ASSUME NEW e \in Threads, saving[e] # NoSave, saving[e].item = x PROVE FALSE
        <5>1. saving[e].file = f
          BY <4>1, <4>3, SaveHasType, ItemHasFile
        <5> QED
          BY <1>1, <3>1, <4>3, <5>1 DEF others, SavingWith
      <4> QED
        BY <1>6, <3>2, <4>1, <4>2, <4>3 DEF FilesInv, FilesAreAsAsked, BeingSaved, Load
    <3>3. x # NoItem /\ Known(f) => (x \in Held(content) <=> x \in asked')
      BY DEF AskedFits
    <3>4. ~misplaced /\ f = "rules" => UndoFits(content.rules, x, undo)
      BY DEF EditFits
    <3> QED
      BY <1>1, <1>3, <1>4, <2>1, <3>2, <3>3, <3>4 DEF Current, Known
  <2>2. CASE d # c
    <3>1. saving[d] # NoSave /\ saving'[d] = saving[d] /\ saving[d].file \in Files \ {f}
      BY <1>5, <2>2
    <3>2. Current(d)
      BY <2>2, <3>1 DEF FilesInv, AloneIsCurrent
    <3>3. memory'[saving[d].file] = memory[saving[d].file]
      BY <1>3, <3>1
    <3>4. ASSUME saving[d].item # NoItem
          PROVE  saving[d].item \in asked' <=> saving[d].item \in asked
      <4>1. saving[d].item \in Items /\ saving[d].item # x
        BY <1>2, <1>5, <2>2, <3>1, <3>4
      <4> QED
        BY <4>1 DEF AskedFits
    <3> QED
      BY <1>1, <1>6, <3>1, <3>2, <3>3, <3>4 DEF Current, Known
  <2> QED
    BY <2>1, <2>2
<1>13. FilesAreAsAsked'
  <2> SUFFICES ASSUME NEW y \in Items, y \notin doubtful', ~BeingSaved(y)', misplaced => y.file # "rules"
               PROVE  /\ y \in Held(memory'[y.file]) <=> y \in asked'
                      /\ y.file \notin unsure' => (y \in Held(disk[y.file].content) <=> y \in asked')
    BY <1>1 DEF FilesAreAsAsked, Load
  <2>1. y # x
    BY <1>4 DEF BeingSaved
  <2>2. ~BeingSaved(y)
    <3>1. ASSUME NEW d \in Threads, saving[d] # NoSave, saving[d].item = y PROVE FALSE
      BY <1>1, <1>7, <3>1 DEF BeingSaved
    <3> QED
      BY <3>1 DEF BeingSaved
  <2>3. y \in asked' <=> y \in asked
    BY <2>1 DEF AskedFits
  <2>4. /\ y \in Held(memory[y.file]) <=> y \in asked
        /\ y.file \notin unsure' => (y \in Held(disk[y.file].content) <=> y \in asked)
    BY <1>6, <2>2 DEF FilesInv, FilesAreAsAsked, Load
  <2>5. y \in Held(memory'[y.file]) <=> y \in Held(memory[y.file])
    <3>1. CASE y.file = f
      <4>1. Known(f)
        BY <3>1 DEF Known
      <4> QED
        BY <1>3, <2>1, <3>1, <4>1 DEF EditFits
    <3>2. CASE y.file # f
      BY <1>3, <3>2, ItemHasFile
    <3> QED
      BY <3>1, <3>2
  <2> QED
    BY <2>3, <2>4, <2>5
<1> QED
  BY <1>8, <1>9, <1>10, <1>11, <1>12, <1>13 DEF FilesInv
LEMMA OtherNames ==
    ASSUME NEW content \in Contents, NEW names \in SUBSET Names,
           NEW new, new = [content EXCEPT !.names = names]
    PROVE  /\ new \in Contents /\ new.rules = content.rules
           /\ \A y \in Names : y \in Held(new) <=> y \in names
<1>1. new \in Contents /\ new.rules = content.rules /\ new.names = names
  BY DEF Contents
<1> QED
  BY <1>1, HeldSplits

LEMMA OtherRules ==
    ASSUME NEW content \in Contents, NEW rules \in Seq(Rules),
           NEW new, new = [content EXCEPT !.rules = rules]
    PROVE  /\ new \in Contents /\ new.rules = rules /\ new.names = content.names
           /\ \A y \in Rights : y \in Held(new) <=> y \in RightsIn(rules)
           /\ \A y \in Names : y \in Held(new) <=> y \in Held(content)
<1>1. new \in Contents /\ new.rules = rules /\ new.names = content.names
  BY DEF Contents
<1> QED
  BY <1>1, HeldSplits

LEMMA UndoHasType ==
    ASSUME NEW how \in {"none", "account", "grant", "push", "erase", "revoke"},
           NEW place \in Nat, NEW permissions \in SUBSET Permissions
    PROVE  /\ Undo(how, place, permissions) \in Undos
           /\ Undo(how, place, permissions).how = how
           /\ Undo(how, place, permissions).place = place
           /\ Undo(how, place, permissions).permissions = permissions
BY DEF Undo, Undos

\* Names are added and removed one at a time.
NameEdit(f, x, names, undo, again) ==
    /\ f \in {"accounts", "databases"} /\ x \in Names /\ x.file = f
    /\ names \in SUBSET Names /\ undo \in Undos /\ again \in BOOLEAN
    /\ \A y \in Names : y # x => (y \in names <=> y \in memory[f].names)
    /\ f = "accounts" => undo.how = "account" /\ (x \in memory[f].names => again)
    /\ f = "databases" => undo.how = "none"

LEMMA NameEditFits ==
    ASSUME FilesInv, NEW f, NEW x, NEW names, NEW undo, NEW again,
           NameEdit(f, x, names, undo, again),
           NEW content, content = [memory[f] EXCEPT !.names = names]
    PROVE  EditFits(f, x, content, undo, again) /\ (x \in Held(content) <=> x \in names)
<1>1. f \in Files /\ memory[f] \in Contents
  BY DEF NameEdit, Files, FilesInv, FilesTypeOK
<1>2. /\ content \in Contents /\ content.rules = memory[f].rules
      /\ \A y \in Names : y \in Held(content) <=> y \in names
  BY <1>1, OtherNames DEF NameEdit
<1>3. \A y \in Names : y \in Held(memory[f]) <=> y \in memory[f].names
  BY <1>1, HeldSplits
<1>4. ItemFits(f, x, undo)
  BY DEF NameEdit, ItemFits
<1>5. ~misplaced => OneRuleEach(content.rules)
  BY <1>1, <1>2 DEF FilesInv, RulesAreUnique
<1>6. ASSUME NEW y \in Items, y.file = f, y # x PROVE y \in Held(content) <=> y \in Held(memory[f])
  <2>1. y \in Names
    BY <1>6, ItemHasFile DEF NameEdit
  <2> QED
    BY <1>2, <1>3, <1>6, <2>1 DEF NameEdit
<1>7. undo \in Undos /\ again \in BOOLEAN /\ f # "rules" /\ x \in Names
      /\ (f = "accounts" /\ x \in Held(memory[f]) => again)
  BY <1>3 DEF NameEdit
<1> QED
  BY <1>1, <1>2, <1>4, <1>5, <1>6, <1>7 DEF EditFits

EditsNames(c) ==
    \E f, x, names, undo, again :
        /\ NameEdit(f, x, names, undo, again) /\ UpdateNames(c, x, names, undo, again)
        /\ asked' = (asked \ {x}) \union (names \intersect {x})

LEMMA NamesKeepFilesInv ==
    ASSUME FilesInv, NEW c \in Threads, EditsNames(c)
    PROVE  FilesInv'
<1>1. PICK f, x, names, undo, again :
         /\ NameEdit(f, x, names, undo, again) /\ UpdateNames(c, x, names, undo, again)
         /\ asked' = (asked \ {x}) \union (names \intersect {x})
  BY DEF EditsNames
<1>2. PICK content : content = [memory[f] EXCEPT !.names = names]
  OBVIOUS
<1>3. EditFits(f, x, content, undo, again) /\ (x \in Held(content) <=> x \in names)
  BY <1>1, <1>2, NameEditFits
<1>4. Update(c, f, x, content, undo, again)
  BY <1>1, <1>2 DEF UpdateNames, NameEdit
<1>5. AskedFits(f, x, content, asked')
  <2>1. x \in Items /\ asked \subseteq Items
    BY <1>1, NamesAreNoRights DEF NameEdit, FilesInv, FilesTypeOK
  <2> QED
    BY <1>1, <1>3, <2>1 DEF AskedFits
<1> QED
  BY <1>3, <1>4, <1>5, UpdateKeepsFilesInv

LEMMA CreateAccountEdits ==
    ASSUME FilesInv, NEW c \in Threads, NEW u \in Users, CreateAccount(c, u)
    PROVE  EditsNames(c)
<1>1. PICK x, names, again : /\ x = Account(u)
                             /\ names = memory["accounts"].names \union {x}
                             /\ again = (x \in memory["accounts"].names)
  OBVIOUS
<1>2. memory["accounts"].names \subseteq Names
  BY DEF FilesInv, FilesTypeOK, Contents, Files
<1>3. NameEdit("accounts", x, names, Undo("account", 0, {}), again)
  <2>1. Undo("account", 0, {}) \in Undos /\ Undo("account", 0, {}).how = "account"
    BY UndoHasType
  <2>2. x \in Names /\ x.file = "accounts" /\ names \in SUBSET Names
    BY <1>1, <1>2, AccountIsItem
  <2>3. again = TRUE \/ again = FALSE
    BY <1>1
  <2>4. x \in memory["accounts"].names => again
    BY <1>1
  <2>5. \A y \in Names : y # x => (y \in names <=> y \in memory["accounts"].names)
    BY <1>1
  <2> QED
    BY <2>1, <2>2, <2>3, <2>4, <2>5 DEF NameEdit
<1>4. UpdateNames(c, x, names, Undo("account", 0, {}), again)
  BY <1>1 DEF CreateAccount
<1>5. asked' = (asked \ {x}) \union (names \intersect {x})
  BY <1>1 DEF CreateAccount
<1> QED
  BY <1>3, <1>4, <1>5 DEF EditsNames

LEMMA DatabasesEdit ==
    ASSUME FilesInv, NEW c \in Threads, NEW d \in Databases, CreateDatabase(c, d) \/ DropDatabase(c, d)
    PROVE  EditsNames(c)
<1>1. PICK x : x = Database(d)
  OBVIOUS
<1>2. memory["databases"].names \subseteq Names
  BY DEF FilesInv, FilesTypeOK, Contents, Files
<1>3. NoUndo \in Undos /\ NoUndo.how = "none"
  BY UndoHasType DEF NoUndo
<1>4. ASSUME NEW names, names \in {memory["databases"].names \union {x}, memory["databases"].names \ {x}}
      PROVE  NameEdit("databases", x, names, NoUndo, FALSE)
  BY <1>1, <1>2, <1>3, <1>4, DatabaseIsItem DEF NameEdit
<1>5. CASE CreateDatabase(c, d)
  <2>1. PICK names : names = memory["databases"].names \union {x}
    OBVIOUS
  <2>2. UpdateNames(c, x, names, NoUndo, FALSE) /\ asked' = (asked \ {x}) \union (names \intersect {x})
    BY <1>1, <1>5, <2>1 DEF CreateDatabase
  <2> QED
    BY <1>4, <2>1, <2>2 DEF EditsNames
<1>6. CASE DropDatabase(c, d)
  <2>1. PICK names : names = memory["databases"].names \ {x}
    OBVIOUS
  <2>2. UpdateNames(c, x, names, NoUndo, FALSE) /\ asked' = (asked \ {x}) \union (names \intersect {x})
    BY <1>1, <1>6, <2>1 DEF DropDatabase
  <2> QED
    BY <1>4, <2>1, <2>2 DEF EditsNames
<1> QED
  BY <1>5, <1>6

LEMMA TablesEdit ==
    ASSUME FilesInv, NEW c \in Threads, UpdateTables(c)
    PROVE  /\ EditFits("databases", NoItem, memory["databases"], NoUndo, FALSE)
           /\ AskedFits("databases", NoItem, memory["databases"], asked')
           /\ Update(c, "databases", NoItem, memory["databases"], NoUndo, FALSE)
<1>1. "databases" \in Files /\ memory["databases"] \in Contents
  BY DEF FilesInv, FilesTypeOK, Files
<1>2. NoUndo \in Undos /\ NoUndo.how = "none"
  BY UndoHasType DEF NoUndo
<1>3. ~misplaced => OneRuleEach(memory["databases"].rules)
  BY <1>1 DEF FilesInv, RulesAreUnique
<1>4. EditFits("databases", NoItem, memory["databases"], NoUndo, FALSE)
  BY <1>1, <1>2, <1>3 DEF EditFits, ItemFits
<1>5. AskedFits("databases", NoItem, memory["databases"], asked')
  BY DEF AskedFits, UpdateTables, FilesInv, FilesTypeOK
<1> QED
  BY <1>4, <1>5 DEF UpdateTables

LEMMA TablesKeepFilesInv ==
    ASSUME FilesInv, NEW c \in Threads, UpdateTables(c)
    PROVE  FilesInv'
<1>1. PICK content : content = memory["databases"]
  OBVIOUS
<1> QED
  BY <1>1, TablesEdit, UpdateKeepsFilesInv
-----------------------------------------------------------------------------
(* Updates of the rules *)

\* One right is added or removed, and what has been done to the vector can be
\* undone.
RuleEdit(rules, x, new, undo, added) ==
    /\ new \in Seq(Rules)
    /\ undo \in Undos /\ undo.how \in {"grant", "push", "erase", "revoke"} /\ undo.place # 0
    /\ undo.how = "revoke" /\ x.permission \in undo.permissions => x \in RightsIn(rules)
    /\ OneRuleEach(rules) =>
          /\ OneRuleEach(new) /\ UndoFits(new, x, undo)
          /\ \A y \in Rights : y \in RightsIn(new) <=> IF y = x THEN added ELSE y \in RightsIn(rules)

LEMMA FoundRule ==
    ASSUME NEW rules \in Seq(Rules), NEW scope, NEW i \in Find(rules, scope)
    PROVE  /\ i \in Nat /\ i # 0
           /\ i \in DOMAIN rules => rules[i].scope = scope
           /\ i \notin DOMAIN rules => /\ i = Len(rules) + 1
                                       /\ \A j \in DOMAIN rules : rules[j].scope # scope
<1>1. i \in 1 .. Len(rules) + 1 /\ Len(rules) \in Nat /\ DOMAIN rules = 1 .. Len(rules)
  BY DEF Find
<1> QED
  BY <1>1 DEF Find

LEMMA SameRight ==
    ASSUME NEW x \in Rights, NEW y \in Rights, x.scope = y.scope, x.permission = y.permission
    PROVE  x = y
BY RightHasParts

LEMMA GrantEdits ==
    ASSUME NEW rules \in Seq(Rules), NEW x \in Rights, NEW i \in Find(rules, x.scope), i \in DOMAIN rules
    PROVE  RuleEdit(rules, x, [rules EXCEPT ![i].permissions = @ \union {x.permission}],
                    Undo("grant", i, {}), TRUE)
<1>1. PICK permissions : permissions = rules[i].permissions \union {x.permission}
  OBVIOUS
<1>2. permissions \in SUBSET Permissions
  BY <1>1, RuleHasParts, RightHasParts
<1>3. PICK new : new = [rules EXCEPT ![i].permissions = permissions]
  OBVIOUS
<1>4. new = [rules EXCEPT ![i].permissions = @ \union {x.permission}]
  BY <1>1, <1>3
<1>5. /\ new \in Seq(Rules) /\ i \in DOMAIN new /\ new[i].scope = x.scope /\ i \in Nat /\ i # 0
      /\ rules[i].scope = x.scope
      /\ OneRuleEach(rules) =>
                 /\ OneRuleEach(new)
                 /\ \A y \in Rights : y \in RightsIn(new) <=>
                       IF y.scope = x.scope THEN y.permission \in permissions
                       ELSE y \in RightsIn(rules)
  <2>1. i \in Nat /\ i # 0 /\ rules[i].scope = x.scope
    BY FoundRule
  <2>2. /\ new \in Seq(Rules) /\ DOMAIN new = DOMAIN rules
        /\ \A j \in DOMAIN rules : new[j].scope = rules[j].scope
        /\ SaysOf(rules, new, rules[i].scope, permissions)
    <3>1. new \in Seq(Rules) /\ DOMAIN new = DOMAIN rules
      BY <1>2, <1>3, EditRule
    <3>2. \A j \in DOMAIN rules : new[j].scope = rules[j].scope
      BY <1>2, <1>3, EditRule
    <3>3. SaysOf(rules, new, rules[i].scope, permissions)
      BY <1>2, <1>3, EditRule
    <3> QED
      BY <3>1, <3>2, <3>3
  <2>3. new[i].permissions = permissions
    <3>1. rules[i] \in Rules
      BY RuleHasParts
    <3>2. new[i] = [rules[i] EXCEPT !.permissions = permissions]
      BY <1>3
    <3> QED
      BY <3>1, <3>2 DEF Rules
  <2> QED
    BY <2>1, <2>2, <2>3 DEF SaysOf
<1>6. UndoFits(new, x, Undo("grant", i, {})) /\ Undo("grant", i, {}) \in Undos
      /\ Undo("grant", i, {}).how = "grant" /\ Undo("grant", i, {}).place # 0
  BY <1>5, UndoHasType DEF UndoFits
<1>7. ASSUME OneRuleEach(rules), NEW y \in Rights
      PROVE  y \in RightsIn(new) <=> IF y = x THEN TRUE ELSE y \in RightsIn(rules)
  <2>1. y.scope = x.scope => (y \in RightsIn(rules) <=> y.permission \in rules[i].permissions)
    BY <1>5, <1>7, RuleSays
  <2>2. y # x /\ y.scope = x.scope => y.permission # x.permission
    BY SameRight
  <2> QED
    BY <1>1, <1>5, <1>7, <2>1, <2>2
<1> QED
  BY <1>4, <1>5, <1>6, <1>7 DEF RuleEdit

LEMMA PushEdits ==
    ASSUME NEW rules \in Seq(Rules), NEW x \in Rights, NEW i \in Find(rules, x.scope), i \notin DOMAIN rules
    PROVE  RuleEdit(rules, x, Append(rules, [scope |-> x.scope, permissions |-> {x.permission}]),
                    Undo("push", i, {}), TRUE)
<1>1. PICK rule : rule = [scope |-> x.scope, permissions |-> {x.permission}]
  OBVIOUS
<1>2. rule \in Rules /\ rule.scope = x.scope /\ rule.permissions = {x.permission}
  BY <1>1, RightHasParts DEF Rules
<1>3. PICK new : new = Append(rules, rule)
  OBVIOUS
<1>4. i = Len(rules) + 1 /\ i \in Nat /\ i # 0 /\ \A j \in DOMAIN rules : rules[j].scope # x.scope
  BY FoundRule
<1>5. /\ new \in Seq(Rules) /\ i \in DOMAIN new /\ new[i] = rule
      /\ SaysOf(rules, new, x.scope, {x.permission})
  <2>1. /\ new \in Seq(Rules) /\ new[Len(rules) + 1] = rule
        /\ DOMAIN new = 1 .. Len(rules) + 1
        /\ SaysOf(rules, new, rule.scope, rule.permissions)
    <3>1. \A j \in DOMAIN rules : rules[j].scope # rule.scope
      BY <1>2, <1>4
    <3>2. new[Len(rules) + 1] = rule
      BY <1>2, <1>3
    <3> QED
      BY <1>2, <1>3, <3>1, <3>2, AppendRule
  <2>2. Len(rules) \in Nat
    OBVIOUS
  <2> QED
    BY <1>2, <1>4, <2>1, <2>2
<1>6. UndoFits(new, x, Undo("push", i, {})) /\ Undo("push", i, {}) \in Undos
      /\ Undo("push", i, {}).how = "push" /\ Undo("push", i, {}).place # 0
  BY <1>2, <1>4, <1>5, UndoHasType DEF UndoFits
<1>7. ASSUME OneRuleEach(rules), NEW y \in Rights
      PROVE  y \in RightsIn(new) <=> IF y = x THEN TRUE ELSE y \in RightsIn(rules)
  <2>1. y.scope = x.scope => y \notin RightsIn(rules)
    BY <1>4, RightHeld
  <2>2. y # x /\ y.scope = x.scope => y.permission # x.permission
    BY SameRight
  <2> QED
    BY <1>5, <1>7, <2>1, <2>2 DEF SaysOf
<1> QED
  BY <1>1, <1>3, <1>5, <1>6, <1>7 DEF RuleEdit, SaysOf

LEMMA EraseEdits ==
    ASSUME NEW rules \in Seq(Rules), NEW x \in Rights, NEW i \in Find(rules, x.scope), i \in DOMAIN rules,
           rules[i].permissions \subseteq {x.permission}
    PROVE  RuleEdit(rules, x, RemoveAt(rules, i), Undo("erase", i, {}), FALSE)
<1>1. PICK new : new = RemoveAt(rules, i)
  OBVIOUS
<1>2. rules[i].scope = x.scope /\ i \in Nat /\ i # 0
  BY FoundRule
<1>3. /\ new \in Seq(Rules) /\ i <= Len(new) + 1
      /\ OneRuleEach(rules) =>
            /\ OneRuleEach(new)
            /\ \A j \in DOMAIN new : new[j].scope # x.scope
            /\ \A y \in Rights : y \in RightsIn(new) <=> y.scope # x.scope /\ y \in RightsIn(rules)
  <2>1. /\ new \in Seq(Rules) /\ Len(new) = Len(rules) - 1 /\ i \in 1 .. Len(rules) /\ Len(rules) \in Nat
        /\ OneRuleEach(rules) =>
              /\ OneRuleEach(new)
              /\ \A j \in DOMAIN new : new[j].scope # rules[i].scope
              /\ \A y \in Rights : y \in RightsIn(new) <=>
                       y.scope # rules[i].scope /\ y \in RightsIn(rules)
    BY <1>1, RemoveRule
  <2>2. i <= Len(new) + 1
    BY <2>1
  <2> QED
    BY <1>2, <2>1, <2>2
<1>4. /\ OneRuleEach(rules) => UndoFits(new, x, Undo("erase", i, {}))
      /\ Undo("erase", i, {}) \in Undos /\ Undo("erase", i, {}).how = "erase"
      /\ Undo("erase", i, {}).place # 0
  BY <1>2, <1>3, UndoHasType DEF UndoFits
<1>5. ASSUME OneRuleEach(rules), NEW y \in Rights
      PROVE  y \in RightsIn(new) <=> IF y = x THEN FALSE ELSE y \in RightsIn(rules)
  <2>1. y.scope = x.scope => (y \in RightsIn(rules) <=> y.permission \in rules[i].permissions)
    BY <1>2, <1>5, RuleSays
  <2>2. y # x /\ y.scope = x.scope => y.permission # x.permission
    BY SameRight
  <2> QED
    BY <1>3, <1>5, <2>1, <2>2
<1> QED
  BY <1>1, <1>3, <1>4, <1>5 DEF RuleEdit

LEMMA RevokeEdits ==
    ASSUME NEW rules \in Seq(Rules), NEW x \in Rights, NEW i \in Find(rules, x.scope), i \in DOMAIN rules
    PROVE  RuleEdit(rules, x, [rules EXCEPT ![i].permissions = @ \ {x.permission}],
                    Undo("revoke", i, rules[i].permissions), FALSE)
<1>1. PICK permissions : permissions = rules[i].permissions \ {x.permission}
  OBVIOUS
<1>2. permissions \in SUBSET Permissions /\ rules[i].permissions \in SUBSET Permissions
  BY <1>1, RuleHasParts
<1>3. PICK new : new = [rules EXCEPT ![i].permissions = permissions]
  OBVIOUS
<1>4. new = [rules EXCEPT ![i].permissions = @ \ {x.permission}]
  BY <1>1, <1>3
<1>5. /\ new \in Seq(Rules) /\ i \in DOMAIN new /\ new[i].scope = x.scope /\ i \in Nat /\ i # 0
      /\ rules[i].scope = x.scope /\ new[i].permissions = permissions
      /\ OneRuleEach(rules) =>
                 /\ OneRuleEach(new)
                 /\ \A y \in Rights : y \in RightsIn(new) <=>
                       IF y.scope = x.scope THEN y.permission \in permissions
                       ELSE y \in RightsIn(rules)
  <2>1. i \in Nat /\ i # 0 /\ rules[i].scope = x.scope
    BY FoundRule
  <2>2. /\ new \in Seq(Rules) /\ DOMAIN new = DOMAIN rules
        /\ \A j \in DOMAIN rules : new[j].scope = rules[j].scope
        /\ SaysOf(rules, new, rules[i].scope, permissions)
    <3>1. new \in Seq(Rules) /\ DOMAIN new = DOMAIN rules
      BY <1>2, <1>3, EditRule
    <3>2. \A j \in DOMAIN rules : new[j].scope = rules[j].scope
      BY <1>2, <1>3, EditRule
    <3>3. SaysOf(rules, new, rules[i].scope, permissions)
      BY <1>2, <1>3, EditRule
    <3> QED
      BY <3>1, <3>2, <3>3
  <2>3. new[i].permissions = permissions
    <3>1. rules[i] \in Rules
      BY RuleHasParts
    <3>2. new[i] = [rules[i] EXCEPT !.permissions = permissions]
      BY <1>3
    <3> QED
      BY <3>1, <3>2 DEF Rules
  <2> QED
    BY <2>1, <2>2, <2>3 DEF SaysOf
<1> DEFINE undo == Undo("revoke", i, rules[i].permissions)
<1>6. undo \in Undos /\ undo.how = "revoke" /\ undo.permissions = rules[i].permissions /\ undo.place # 0
  BY <1>2, <1>5, UndoHasType
<1>7. ASSUME OneRuleEach(rules) PROVE UndoFits(new, x, undo)
  <2>1. \A j \in DOMAIN new : new[j].scope = x.scope => j = i
    BY <1>5, <1>7 DEF OneRuleEach
  <2> QED
    BY <1>1, <1>5, <1>6, <2>1 DEF UndoFits
<1>8. ASSUME OneRuleEach(rules), NEW y \in Rights
      PROVE  y \in RightsIn(new) <=> IF y = x THEN FALSE ELSE y \in RightsIn(rules)
  <2>1. y.scope = x.scope => (y \in RightsIn(rules) <=> y.permission \in rules[i].permissions)
    BY <1>5, <1>8, RuleSays
  <2>2. y # x /\ y.scope = x.scope => y.permission # x.permission
    BY SameRight
  <2> QED
    BY <1>1, <1>5, <1>8, <2>1, <2>2
<1>9. x.permission \in undo.permissions => x \in RightsIn(rules)
  BY <1>5, <1>6, RightHeld
<1> QED
  BY <1>4, <1>5, <1>6, <1>7, <1>8, <1>9 DEF RuleEdit

LEMMA RuleEditFits ==
    ASSUME FilesInv, NEW x \in Rights, NEW new, NEW undo, NEW added \in BOOLEAN,
           RuleEdit(memory["rules"].rules, x, new, undo, added),
           NEW content, content = [memory["rules"] EXCEPT !.rules = new]
    PROVE  /\ EditFits("rules", x, content, undo, FALSE)
           /\ ~misplaced => (x \in Held(content) <=> added)
<1>1. "rules" \in Files /\ memory["rules"] \in Contents /\ memory["rules"].rules \in Seq(Rules)
  BY DEF Files, FilesInv, FilesTypeOK, Contents
<1>2. new \in Seq(Rules) /\ undo \in Undos /\ ItemFits("rules", x, undo)
  BY DEF RuleEdit, ItemFits
<1>3. /\ content \in Contents /\ content.rules = new
      /\ \A y \in Rights : y \in Held(content) <=> y \in RightsIn(new)
  BY <1>1, <1>2, OtherRules
<1>4. \A y \in Rights : y \in Held(memory["rules"]) <=> y \in RightsIn(memory["rules"].rules)
  BY <1>1, HeldSplits
<1>5. ASSUME ~misplaced
      PROVE  /\ OneRuleEach(new) /\ UndoFits(new, x, undo)
             /\ \A y \in Rights : y \in RightsIn(new) <=>
                    IF y = x THEN added ELSE y \in RightsIn(memory["rules"].rules)
  BY <1>1, <1>5 DEF RuleEdit, FilesInv, RulesAreUnique
<1>6. ASSUME ~misplaced, NEW y \in Items, y.file = "rules", y # x
      PROVE  y \in Held(content) <=> y \in Held(memory["rules"])
  BY <1>3, <1>4, <1>5, <1>6, ItemHasFile
<1>7. ~misplaced => (x \in Held(content) <=> added)
  BY <1>3, <1>5
<1> QED
  BY <1>1, <1>2, <1>3, <1>5, <1>6, <1>7 DEF EditFits, Known

LEMMA RulesKeepFilesInv ==
    ASSUME FilesInv, NEW c \in Threads, NEW x \in Rights, NEW new, NEW undo, NEW added \in BOOLEAN,
           RuleEdit(memory["rules"].rules, x, new, undo, added), UpdateRules(c, x, new, undo),
           asked' = IF added THEN asked \union {x} ELSE asked \ {x}
    PROVE  FilesInv'
<1>1. PICK content : content = [memory["rules"] EXCEPT !.rules = new]
  OBVIOUS
<1>2. EditFits("rules", x, content, undo, FALSE) /\ (~misplaced => (x \in Held(content) <=> added))
  BY <1>1, RuleEditFits
<1>3. Update(c, "rules", x, content, undo, FALSE)
  BY <1>1 DEF UpdateRules
<1>4. AskedFits("rules", x, content, asked')
  <2>1. x \in Items /\ asked \subseteq Items
    BY RightHasParts DEF FilesInv, FilesTypeOK
  <2> QED
    BY <1>2, <2>1 DEF AskedFits, Known
<1> QED
  BY <1>2, <1>3, <1>4, UpdateKeepsFilesInv

\* What a GRANT or REVOKE does, as far as it is an update.
Edits(c, x, added) ==
    \E new, undo : /\ RuleEdit(memory["rules"].rules, x, new, undo, added)
                   /\ UpdateRules(c, x, new, undo)

LEMMA GrantIsEdit ==
    ASSUME FilesInv, NEW c \in Threads, NEW scope \in Scopes, NEW p \in Permissions,
           GrantPermission(c, scope, p)
    PROVE  Edits(c, Right(scope, p), TRUE) /\ asked' = asked \union {Right(scope, p)}
<1>1. PICK x : x = Right(scope, p)
  OBVIOUS
<1>2. x \in Rights /\ x.scope = scope /\ x.permission = p
  BY <1>1, RightIsItem
<1>3. PICK rules : rules = memory["rules"].rules
  OBVIOUS
<1>4. rules \in Seq(Rules)
  BY <1>3 DEF FilesInv, FilesTypeOK, Contents, Files
<1>5. PICK i \in Find(rules, scope) :
         IF i \in DOMAIN rules
         THEN UpdateRules(c, x, [rules EXCEPT ![i].permissions = @ \union {p}], Undo("grant", i, {}))
         ELSE UpdateRules(c, x, Append(rules, [scope |-> scope, permissions |-> {p}]), Undo("push", i, {}))
  BY <1>1, <1>3 DEF GrantPermission
<1>6. CASE i \in DOMAIN rules
  <2>1. RuleEdit(rules, x, [rules EXCEPT ![i].permissions = @ \union {p}], Undo("grant", i, {}), TRUE)
    BY <1>2, <1>4, <1>6, GrantEdits
  <2> QED
    BY <1>1, <1>3, <1>5, <1>6, <2>1 DEF Edits, GrantPermission
<1>7. CASE i \notin DOMAIN rules
  <2>1. RuleEdit(rules, x, Append(rules, [scope |-> scope, permissions |-> {p}]),
                 Undo("push", i, {}), TRUE)
    BY <1>2, <1>4, <1>7, PushEdits
  <2> QED
    BY <1>1, <1>3, <1>5, <1>7, <2>1 DEF Edits, GrantPermission
<1> QED
  BY <1>6, <1>7

\* Without a rule for the scope nothing happens.
LEMMA RevokeIsEdit ==
    ASSUME FilesInv, NEW c \in Threads, NEW scope \in Scopes, NEW p \in Permissions,
           RevokePermission(c, scope, p)
    PROVE  /\ asked' = asked \ {Right(scope, p)}
           /\ \/ Edits(c, Right(scope, p), FALSE)
              \/ /\ UNCHANGED <<memory, disk, tmp, saving, failures, doubtful, unsure, misplaced>>
                 /\ Right(scope, p) \notin Held(memory["rules"])
<1>1. PICK x : x = Right(scope, p)
  OBVIOUS
<1>2. x \in Rights /\ x.scope = scope /\ x.permission = p
  BY <1>1, RightIsItem
<1>3. PICK rules : rules = memory["rules"].rules
  OBVIOUS
<1>4. rules \in Seq(Rules) /\ memory["rules"] \in Contents
  BY <1>3 DEF FilesInv, FilesTypeOK, Contents, Files
<1>5. PICK i \in Find(rules, scope) :
         IF i \notin DOMAIN rules
         THEN UNCHANGED <<memory, disk, tmp, saving, failures, doubtful, unsure, misplaced>>
         ELSE IF rules[i].permissions \subseteq {p}
         THEN UpdateRules(c, x, RemoveAt(rules, i), Undo("erase", i, {}))
         ELSE UpdateRules(c, x, [rules EXCEPT ![i].permissions = @ \ {p}],
                               Undo("revoke", i, rules[i].permissions))
  BY <1>1, <1>3 DEF RevokePermission
<1>6. asked' = asked \ {x}
  BY <1>1 DEF RevokePermission
<1>7. CASE i \notin DOMAIN rules
  <2>1. \A j \in DOMAIN rules : rules[j].scope # x.scope
    BY <1>2, <1>4, <1>7, FoundRule
  <2>2. x \notin Held(memory["rules"])
    BY <1>2, <1>3, <1>4, <2>1, RightHeld, HeldSplits
  <2> QED
    BY <1>1, <1>5, <1>6, <1>7, <2>2
<1>8. CASE i \in DOMAIN rules /\ rules[i].permissions \subseteq {p}
  <2>1. RuleEdit(rules, x, RemoveAt(rules, i), Undo("erase", i, {}), FALSE)
    BY <1>2, <1>4, <1>8, EraseEdits
  <2> QED
    BY <1>1, <1>3, <1>5, <1>6, <1>8, <2>1 DEF Edits
<1>9. CASE i \in DOMAIN rules /\ ~(rules[i].permissions \subseteq {p})
  <2>1. RuleEdit(rules, x, [rules EXCEPT ![i].permissions = @ \ {p}],
                 Undo("revoke", i, rules[i].permissions), FALSE)
    BY <1>2, <1>4, <1>9, RevokeEdits
  <2> QED
    BY <1>1, <1>3, <1>5, <1>6, <1>9, <2>1 DEF Edits
<1> QED
  BY <1>7, <1>8, <1>9

LEMMA GrantKeepsFilesInv ==
    ASSUME FilesInv, NEW c \in Threads, NEW scope \in Scopes, NEW p \in Permissions,
           GrantPermission(c, scope, p)
    PROVE  FilesInv'
<1>1. PICK new, undo : /\ RuleEdit(memory["rules"].rules, Right(scope, p), new, undo, TRUE)
                       /\ UpdateRules(c, Right(scope, p), new, undo)
  BY GrantIsEdit DEF Edits
<1>2. asked' = IF TRUE THEN asked \union {Right(scope, p)} ELSE asked \ {Right(scope, p)}
  BY GrantIsEdit
<1>3. Right(scope, p) \in Rights
  BY RightIsItem
<1> QED
  BY <1>1, <1>2, <1>3, RulesKeepFilesInv

LEMMA RevokeKeepsFilesInv ==
    ASSUME FilesInv, NEW c \in Threads, NEW scope \in Scopes, NEW p \in Permissions,
           RevokePermission(c, scope, p)
    PROVE  FilesInv'
<1>1. PICK x : x = Right(scope, p)
  OBVIOUS
<1>2. x \in Rights /\ x \in Items /\ x.file = "rules" /\ asked' = asked \ {x}
  BY <1>1, RightIsItem, RevokeIsEdit
<1>3. CASE Edits(c, x, FALSE)
  <2>1. PICK new, undo : /\ RuleEdit(memory["rules"].rules, x, new, undo, FALSE)
                         /\ UpdateRules(c, x, new, undo)
    BY <1>3 DEF Edits
  <2>2. asked' = IF FALSE THEN asked \union {x} ELSE asked \ {x}
    BY <1>2
  <2> QED
    BY <1>2, <2>1, <2>2, RulesKeepFilesInv
<1>4. CASE /\ UNCHANGED <<memory, disk, tmp, saving, failures, doubtful, unsure, misplaced>>
           /\ x \notin Held(memory["rules"])
  <2>1. /\ FilesTypeOK' /\ (~misplaced' => RulesAreUnique') /\ ItemsFit' /\ OverlapsAreRaced'
    BY <1>2, <1>4
       DEF FilesInv, FilesTypeOK, RulesAreUnique, ItemsFit, OverlapsAreRaced
  <2>2. AloneIsCurrent'
    <3> SUFFICES ASSUME NEW d \in Threads, saving[d] # NoSave, saving[d].alone
                 PROVE  Current(d)'
      BY <1>4 DEF AloneIsCurrent
    <3>1. Current(d)
      BY DEF FilesInv, AloneIsCurrent
    <3>2. ASSUME saving[d].item # NoItem, Known(saving[d].file)
          PROVE  saving[d].item \in Held(saving[d].content) <=> saving[d].item \in asked'
      <4>1. saving[d].item = x => saving[d].file = "rules" /\ saving[d].content = memory["rules"]
        BY <1>2, <3>1, <3>2, SaveHasType DEF Current
      <4> QED
        BY <1>2, <1>4, <3>1, <3>2, <4>1 DEF Current
    <3> QED
      BY <1>4, <3>1, <3>2 DEF Current, Known
  <2>3. FilesAreAsAsked'
    <3> SUFFICES ASSUME NEW y \in Items, y \notin doubtful, ~BeingSaved(y), misplaced => y.file # "rules"
                 PROVE  /\ y \in Held(memory[y.file]) <=> y \in asked'
                        /\ y.file \notin unsure => (y \in Held(disk[y.file].content) <=> y \in asked')
      BY <1>4 DEF FilesAreAsAsked, BeingSaved, Load
    <3>1. /\ y \in Held(memory[y.file]) <=> y \in asked
          /\ y.file \notin unsure => (y \in Held(disk[y.file].content) <=> y \in asked)
      BY DEF FilesInv, FilesAreAsAsked, Load
    <3>2. y \in asked' <=> y \in asked
      BY <1>2, <1>4, <3>1
    <3> QED
      BY <3>1, <3>2
  <2> QED
    BY <2>1, <2>2, <2>3 DEF FilesInv
<1> QED
  BY <1>1, <1>3, <1>4, RevokeIsEdit
-----------------------------------------------------------------------------
(* The steps of Save *)

LEMMA TextFacts ==
    /\ Absent \in Texts /\ Blank \in Texts /\ Garbled \in Texts
    /\ \A content \in Contents : Json(content) \in Texts
    /\ \A content : Json(content).content = content
    /\ Absent.content.rules = <<>> /\ Blank.content.rules = <<>> /\ Garbled.content.rules = <<>>
    /\ OneRuleEach(<<>>)
    /\ Garbled # Blank /\ \A content : Json(content) # Absent
<1>1. NoContent \in Contents /\ NoContent.rules = <<>>
  BY DEF NoContent, Contents
<1>2. OneRuleEach(<<>>)
  BY DEF OneRuleEach
<1> QED
  BY <1>1, <1>2 DEF Texts, Absent, Blank, Garbled, Json

LEMMA IsNoSave ==
    ASSUME NEW s \in Saves
    PROVE  s # NoSave
<1>1. "file" \in DOMAIN s /\ "file" \notin DOMAIN NoSave
  BY DEF Saves, NoSave
<1> QED
  BY <1>1

\* A step of the Save of c by which it stays about what it is about, and by
\* which nothing but the files of it changes.
OwnStep(c, mine) ==
    LET s == saving[c]
        f == s.file
    IN  /\ mine \in Saves
        /\ mine.file = f /\ mine.item = s.item /\ mine.content = s.content /\ mine.undo = s.undo
        /\ mine.alone => s.alone
        /\ saving' = [saving EXCEPT ![c] = mine]
        /\ UNCHANGED <<memory, asked, misplaced>>
        /\ tmp' \in [Files -> Texts] /\ disk' \in [Files -> Texts]
        /\ failures' \in 0 .. MaxFailures
        /\ doubtful \subseteq doubtful' /\ doubtful' \subseteq Items
        /\ unsure \subseteq unsure' /\ unsure' \subseteq Files
        /\ ~mine.alone => (s.item # NoItem => s.item \in doubtful') /\ f \in unsure'
        /\ \A g \in Files \ {f} : tmp'[g] = tmp[g] /\ disk'[g] = disk[g]
        /\ ~misplaced => OneRuleEach(tmp'[f].content.rules) /\ OneRuleEach(disk'[f].content.rules)
        /\ disk'[f] = disk[f] \/ (~mine.alone /\ f \in unsure')
        /\ mine.alone /\ mine.at = "write" => mine.output = "tmp" /\ tmp'[f] = Blank
        /\ mine.alone /\ mine.at = "rename" => tmp'[f] = Json(s.content)

LEMMA OwnStepKeepsFilesInv ==
    ASSUME FilesInv, NEW c \in Threads, saving[c] # NoSave, NEW mine, OwnStep(c, mine)
    PROVE  FilesInv'
<1> DEFINE s == saving[c]
           f == s.file
<1>1. /\ s \in Saves /\ f \in Files
      /\ mine \in Saves /\ mine # NoSave
      /\ mine.file = f /\ mine.item = s.item /\ mine.content = s.content /\ mine.undo = s.undo
      /\ mine.alone => s.alone
  BY SaveHasType, IsNoSave DEF OwnStep
<1>2. /\ saving \in [Threads -> Saves \union {NoSave}]
      /\ saving' \in [Threads -> Saves \union {NoSave}]
      /\ saving'[c] = mine /\ \A d \in Threads \ {c} : saving'[d] = saving[d]
  BY <1>1 DEF OwnStep, FilesInv, FilesTypeOK
<1>3. /\ UNCHANGED <<memory, asked, misplaced>>
      /\ doubtful \subseteq doubtful' /\ unsure \subseteq unsure'
      /\ \A g \in Files \ {f} : tmp'[g] = tmp[g] /\ disk'[g] = disk[g]
      /\ ~mine.alone => (s.item # NoItem => s.item \in doubtful') /\ f \in unsure'
      /\ disk'[f] = disk[f] \/ (~mine.alone /\ f \in unsure')
  BY DEF OwnStep
<1>4. ASSUME NEW d \in Threads, saving'[d] # NoSave
      PROVE  /\ saving[d] # NoSave
             /\ saving'[d].file = saving[d].file /\ saving'[d].item = saving[d].item
             /\ saving'[d].content = saving[d].content /\ saving'[d].undo = saving[d].undo
             /\ saving'[d].alone => saving[d].alone
             /\ d # c => saving'[d] = saving[d]
  BY <1>1, <1>2, <1>4
<1>5. FilesTypeOK'
  BY <1>2, <1>3 DEF FilesInv, FilesTypeOK, OwnStep
<1>6. ~misplaced' => RulesAreUnique'
  <2> SUFFICES ASSUME ~misplaced PROVE RulesAreUnique'
    BY <1>3
  <2>1. RulesAreUnique
    BY DEF FilesInv
  <2>2. ASSUME NEW g \in Files
        PROVE  /\ OneRuleEach(memory'[g].rules) /\ OneRuleEach(disk'[g].content.rules)
               /\ OneRuleEach(tmp'[g].content.rules)
    <3>1. OneRuleEach(tmp'[f].content.rules) /\ OneRuleEach(disk'[f].content.rules)
      BY DEF OwnStep
    <3> QED
      BY <1>3, <2>1, <3>1 DEF RulesAreUnique
  <2>3. ASSUME NEW d \in Threads, saving'[d] # NoSave PROVE OneRuleEach(saving'[d].content.rules)
    BY <1>4, <2>1, <2>3 DEF RulesAreUnique
  <2> QED
    BY <2>2, <2>3 DEF RulesAreUnique
<1>7. ItemsFit'
  <2> SUFFICES ASSUME NEW d \in Threads, saving'[d] # NoSave
               PROVE  ItemFits(saving'[d].file, saving'[d].item, saving'[d].undo)
    BY DEF ItemsFit, ItemFits
  <2> QED
    BY <1>4, SaveHasType
<1>8. OverlapsAreRaced'
  <2>1. ASSUME NEW d \in Threads, NEW e \in Threads, d # e, saving'[d] # NoSave, saving'[e] # NoSave,
               saving'[d].file = saving'[e].file
        PROVE  ~saving'[d].alone
    <3>1. saving[d] # NoSave /\ saving[e] # NoSave /\ saving[d].file = saving[e].file
      BY <1>4, <2>1
    <3>2. ~saving[d].alone
      BY <2>1, <3>1 DEF FilesInv, OverlapsAreRaced
    <3> QED
      BY <1>4, <2>1, <3>2
  <2>2. ASSUME NEW d \in Threads, saving'[d] # NoSave, ~saving'[d].alone
        PROVE  (saving'[d].item # NoItem => saving'[d].item \in doubtful') /\ saving'[d].file \in unsure'
    <3>1. CASE d = c
      BY <1>1, <1>2, <1>3, <2>2, <3>1
    <3>2. CASE d # c
      BY <1>3, <1>4, <2>2, <3>2 DEF FilesInv, OverlapsAreRaced
    <3> QED
      BY <3>1, <3>2
  <2> QED
    BY <2>1, <2>2 DEF OverlapsAreRaced
<1>9. AloneIsCurrent'
  <2> SUFFICES ASSUME NEW d \in Threads, saving'[d] # NoSave, saving'[d].alone
               PROVE  Current(d)'
    BY DEF AloneIsCurrent
  <2>1. saving[d] # NoSave /\ saving[d].alone /\ Current(d)
    BY <1>4 DEF FilesInv, AloneIsCurrent
  <2>2. saving[d].file \in Files
    BY <2>1, SaveHasType
  <2>3. disk'[saving[d].file] = disk[saving[d].file]
    <3>1. CASE d = c
      BY <1>2, <1>3, <3>1
    <3>2. CASE d # c
      <4>1. saving[d].file # f
        BY <2>1, <3>2 DEF FilesInv, OverlapsAreRaced
      <4> QED
        BY <1>3, <2>2, <4>1
    <3> QED
      BY <3>1, <3>2
  <2>4. /\ saving'[d].at = "write" => saving'[d].output = "tmp" /\ tmp'[saving[d].file] = Blank
        /\ saving'[d].at = "rename" => tmp'[saving[d].file] = Json(saving[d].content)
    <3>1. CASE d = c
      BY <1>2, <3>1 DEF OwnStep
    <3>2. CASE d # c
      <4>1. saving[d].file # f
        BY <2>1, <3>2 DEF FilesInv, OverlapsAreRaced
      <4> QED
        BY <1>2, <1>3, <2>1, <2>2, <3>2, <4>1 DEF Current
    <3> QED
      BY <3>1, <3>2
  <2> QED
    BY <1>3, <1>4, <2>1, <2>3, <2>4 DEF Current, Known
<1>10. FilesAreAsAsked'
  <2> SUFFICES ASSUME NEW y \in Items, y \notin doubtful', ~BeingSaved(y)', misplaced => y.file # "rules"
               PROVE  /\ y \in Held(memory[y.file]) <=> y \in asked
                      /\ y.file \notin unsure' => (y \in Held(disk'[y.file].content) <=> y \in asked)
    BY <1>3 DEF FilesAreAsAsked, Load
  <2>1. ~BeingSaved(y)
    <3>1. ASSUME NEW d \in Threads, saving[d] # NoSave, saving[d].item = y PROVE FALSE
      <4>1. saving'[d] # NoSave /\ saving'[d].item = y
        BY <1>1, <1>2, <3>1
      <4> QED
        BY <4>1 DEF BeingSaved
    <3> QED
      BY <3>1 DEF BeingSaved
  <2>2. /\ y \in Held(memory[y.file]) <=> y \in asked
        /\ y.file \notin unsure => (y \in Held(disk[y.file].content) <=> y \in asked)
    BY <1>3, <2>1 DEF FilesInv, FilesAreAsAsked, Load
  <2>3. y.file \notin unsure' => disk'[y.file] = disk[y.file]
    BY <1>3, ItemHasFile
  <2> QED
    BY <1>3, <2>2, <2>3
<1> QED
  BY <1>5, <1>6, <1>7, <1>8, <1>9, <1>10 DEF FilesInv

\* What the stream writes ends up in one of its own two files, and in the .tmp
\* file of a save that is alone.
LEMMA Written ==
    ASSUME FilesInv, NEW c \in Threads, saving[c] # NoSave, saving[c].at = "write",
           NEW text \in Texts, PutInto(c, text),
           ~misplaced => OneRuleEach(text.content.rules)
    PROVE  /\ tmp' \in [Files -> Texts] /\ disk' \in [Files -> Texts]
           /\ \A g \in Files \ {saving[c].file} : tmp'[g] = tmp[g] /\ disk'[g] = disk[g]
           /\ ~misplaced => /\ OneRuleEach(tmp'[saving[c].file].content.rules)
                            /\ OneRuleEach(disk'[saving[c].file].content.rules)
           /\ disk'[saving[c].file] = disk[saving[c].file] \/ (~saving[c].alone /\ saving[c].file \in unsure)
           /\ saving[c].alone => tmp'[saving[c].file] = text /\ Target(c) = Blank
<1> DEFINE f == saving[c].file
<1>1. f \in Files /\ tmp \in [Files -> Texts] /\ disk \in [Files -> Texts]
  BY SaveHasType DEF FilesInv, FilesTypeOK
<1>2. saving[c].alone => saving[c].output = "tmp" /\ tmp[f] = Blank
  BY DEF FilesInv, AloneIsCurrent, Current
<1>3. ~saving[c].alone => f \in unsure
  BY DEF FilesInv, OverlapsAreRaced
<1>4. ~misplaced => OneRuleEach(tmp[f].content.rules) /\ OneRuleEach(disk[f].content.rules)
  BY <1>1 DEF FilesInv, RulesAreUnique
<1>5. /\ tmp' = IF saving[c].output = "tmp" THEN [tmp EXCEPT ![f] = text] ELSE tmp
      /\ disk' = IF saving[c].output = "file" THEN [disk EXCEPT ![f] = text] ELSE disk
  BY DEF PutInto
<1> HIDE DEF f
<1>6. CASE saving[c].output = "tmp"
  <2>1. Target(c) = tmp[f]
    BY <1>6 DEF Target, f
  <2> QED
    BY <1>1, <1>2, <1>3, <1>4, <1>5, <1>6, <2>1 DEF f
<1>7. CASE saving[c].output = "file"
  BY <1>1, <1>2, <1>3, <1>4, <1>5, <1>7 DEF f
<1>8. CASE saving[c].output # "tmp" /\ saving[c].output # "file"
  BY <1>1, <1>2, <1>3, <1>4, <1>5, <1>8 DEF f
<1> QED
  BY <1>6, <1>7, <1>8

LEMMA AtIsSave ==
    ASSUME FilesInv, NEW c \in Threads, NEW at, SavingAt(c, at), at # "none"
    PROVE  saving[c] # NoSave
BY DEF SavingAt, NoSave

LEMMA TargetHasType ==
    ASSUME FilesInv, NEW c \in Threads, saving[c] # NoSave
    PROVE  Target(c) \in Texts /\ (~misplaced => OneRuleEach(Target(c).content.rules))
<1>1. saving[c].file \in Files /\ saving[c].output \in {"closed", "tmp", "file", "gone"}
  BY SaveHasType DEF Saves
<1>2. tmp[saving[c].file] \in Texts /\ disk[saving[c].file] \in Texts
  BY <1>1 DEF FilesInv, FilesTypeOK
<1>3. ~misplaced => /\ OneRuleEach(tmp[saving[c].file].content.rules)
                    /\ OneRuleEach(disk[saving[c].file].content.rules)
  BY <1>1 DEF FilesInv, RulesAreUnique
<1>4. CASE saving[c].output = "tmp"
  BY <1>2, <1>3, <1>4 DEF Target
<1>5. CASE saving[c].output = "file"
  BY <1>2, <1>3, <1>5 DEF Target
<1>6. CASE saving[c].output \in {"gone", "closed"}
  <2>1. Target(c) = Absent
    BY <1>6 DEF Target
  <2> QED
    BY <2>1, TextFacts
<1> QED
  BY <1>1, <1>4, <1>5, <1>6

\* The Save of c goes on at another place.
Moved(c, at, output, alone) == [saving[c] EXCEPT !.at = at, !.output = output, !.alone = alone]

IsMoved(c, mine, at, output, alone) ==
    /\ mine \in Saves /\ mine.at = at /\ mine.output = output /\ mine.alone = alone
    /\ mine.file = saving[c].file /\ mine.item = saving[c].item
    /\ mine.content = saving[c].content /\ mine.undo = saving[c].undo

LEMMA GoesOn ==
    ASSUME FilesInv, NEW c \in Threads, saving[c] # NoSave,
           NEW at \in {"open", "write", "rename", "remove"}, NEW output \in {"closed", "tmp", "file", "gone"},
           NEW alone \in BOOLEAN
    PROVE  IsMoved(c, Moved(c, at, output, alone), at, output, alone)
<1>1. saving[c] \in Saves
  BY SaveHasType
<1> QED
  BY <1>1 DEF Saves, Moved, IsMoved

LEMMA UnlessAlone ==
    ASSUME FilesInv, NEW c \in Threads, saving[c] # NoSave
    PROVE  /\ doubtful \subseteq Items /\ unsure \subseteq Files /\ failures \in 0 .. MaxFailures
           /\ ~saving[c].alone => /\ saving[c].item # NoItem => saving[c].item \in doubtful
                                  /\ saving[c].file \in unsure
BY DEF FilesInv, FilesTypeOK, OverlapsAreRaced

LEMMA FaultIsBounded ==
    ASSUME FilesInv, Fault
    PROVE  failures' \in 0 .. MaxFailures
BY JsonFilesAssumption DEF FilesInv, FilesTypeOK, Fault

LEMMA OpenIsOwn ==
    ASSUME FilesInv, NEW c \in Threads, Open(c)
    PROVE  saving[c] # NoSave /\ \E mine : OwnStep(c, mine)
<1>1. saving[c] # NoSave
  BY AtIsSave DEF Open
<1>2. PICK mine : mine = Moved(c, "write", "tmp", saving[c].alone)
  OBVIOUS
<1>3. saving[c] \in Saves /\ saving[c].alone \in BOOLEAN /\ saving[c].file \in Files
  BY <1>1, SaveHasType
<1>4. IsMoved(c, mine, "write", "tmp", saving[c].alone)
  BY <1>1, <1>2, <1>3, GoesOn
<1>5. saving' = [saving EXCEPT ![c] = mine]
  <2>1. saving' = [saving EXCEPT ![c].at = "write", ![c].output = "tmp"]
    BY DEF Open
  <2>2. [saving[c] EXCEPT !.at = "write", !.output = "tmp"] = mine
    BY <1>2, <1>3 DEF Saves, Moved
  <2> QED
    BY <2>1, <2>2
<1>6. /\ tmp' = [tmp EXCEPT ![saving[c].file] = Blank]
      /\ UNCHANGED <<memory, disk, failures, asked, doubtful, unsure, misplaced>>
  BY DEF Open
<1>7. tmp \in [Files -> Texts] /\ disk \in [Files -> Texts]
  BY DEF FilesInv, FilesTypeOK
<1>8. ~misplaced => OneRuleEach(disk[saving[c].file].content.rules)
  BY <1>3 DEF FilesInv, RulesAreUnique
<1>9. /\ tmp' \in [Files -> Texts] /\ tmp'[saving[c].file] = Blank
      /\ \A g \in Files \ {saving[c].file} : tmp'[g] = tmp[g]
      /\ OneRuleEach(tmp'[saving[c].file].content.rules)
  BY <1>3, <1>6, <1>7, TextFacts
<1>10. OwnStep(c, mine)
  BY <1>1, <1>4, <1>5, <1>6, <1>7, <1>8, <1>9, UnlessAlone DEF OwnStep, IsMoved
<1> QED
  BY <1>1, <1>10

LEMMA ClosesAt ==
    ASSUME FilesInv, NEW c \in Threads, saving[c] # NoSave, NEW at \in {"rename", "remove"}, Close(c, at)
    PROVE  saving' = [saving EXCEPT ![c] = Moved(c, at, "closed", saving[c].alone)]
<1>1. saving[c] \in Saves
  BY SaveHasType
<1>2. [saving[c] EXCEPT !.at = at, !.output = "closed"] = Moved(c, at, "closed", saving[c].alone)
  BY <1>1 DEF Saves, Moved
<1>3. saving' = [saving EXCEPT ![c].at = at, ![c].output = "closed"]
  BY DEF Close
<1> QED
  BY <1>2, <1>3

LEMMA WriteIsOwn ==
    ASSUME FilesInv, NEW c \in Threads, Write(c)
    PROVE  saving[c] # NoSave /\ \E mine : OwnStep(c, mine)
<1>1. saving[c] # NoSave /\ saving[c].at = "write"
  BY AtIsSave DEF Write, SavingAt
<1>2. PICK mine : mine = Moved(c, "rename", "closed", saving[c].alone)
  OBVIOUS
<1>3. saving' = [saving EXCEPT ![c] = mine] /\ IsMoved(c, mine, "rename", "closed", saving[c].alone)
  <2>1. saving[c].alone \in BOOLEAN
    BY <1>1, SaveHasType
  <2> QED
    BY <1>1, <1>2, <2>1, ClosesAt, GoesOn DEF Write
<1>4. PICK text \in Over(Target(c), saving[c].content) : PutInto(c, text)
  BY DEF Write
<1>5. saving[c].content \in Contents /\ (~misplaced => OneRuleEach(saving[c].content.rules))
  BY <1>1, SaveHasType DEF FilesInv, RulesAreUnique
<1>6. text \in {Json(saving[c].content), Garbled} /\ (Target(c) = Blank => text = Json(saving[c].content))
  BY <1>4 DEF Over
<1>7. text \in Texts /\ (~misplaced => OneRuleEach(text.content.rules))
  BY <1>5, <1>6, TextFacts
<1>8. UNCHANGED <<memory, failures, asked, doubtful, unsure, misplaced>>
  BY DEF Write
<1>9. OwnStep(c, mine)
  BY <1>1, <1>3, <1>4, <1>6, <1>7, <1>8, Written, UnlessAlone DEF OwnStep, IsMoved
<1> QED
  BY <1>1, <1>9

\* What a stream leaves that could not write everything.
LEMMA PartlyWritten ==
    ASSUME FilesInv, NEW c \in Threads, saving[c] # NoSave, NEW text \in {Target(c), Garbled}
    PROVE  text \in Texts /\ (~misplaced => OneRuleEach(text.content.rules))
BY TargetHasType, TextFacts

LEMMA WriteIsLostIsOwn ==
    ASSUME FilesInv, NEW c \in Threads, WriteIsLost(c)
    PROVE  saving[c] # NoSave /\ \E mine : OwnStep(c, mine)
<1>1. saving[c] # NoSave /\ saving[c].at = "write"
  BY AtIsSave DEF WriteIsLost, SavingAt
<1>2. PICK mine : mine = Moved(c, "rename", "closed", FALSE)
  OBVIOUS
<1>3. IsMoved(c, mine, "rename", "closed", FALSE)
  BY <1>1, <1>2, GoesOn
<1>4. saving' = [saving EXCEPT ![c] = mine]
  BY <1>2 DEF WriteIsLost, Moved
<1>5. PICK text \in {Target(c), Garbled} : PutInto(c, text)
  BY DEF WriteIsLost
<1>6. text \in Texts /\ (~misplaced => OneRuleEach(text.content.rules))
  BY <1>1, PartlyWritten
<1>7. /\ UNCHANGED <<memory, asked, misplaced>> /\ failures' \in 0 .. MaxFailures
      /\ doubtful' = doubtful \union ({saving[c].item} \ {NoItem})
      /\ unsure' = unsure \union {saving[c].file}
  BY FaultIsBounded DEF WriteIsLost
<1>8. /\ doubtful' \subseteq Items /\ unsure' \subseteq Files
      /\ saving[c].item # NoItem => saving[c].item \in doubtful'
  BY <1>1, <1>7, SaveHasType, UnlessAlone
<1>9. OwnStep(c, mine)
  BY <1>1, <1>3, <1>4, <1>5, <1>6, <1>7, <1>8, Written DEF OwnStep, IsMoved
<1> QED
  BY <1>1, <1>9

LEMMA WriteFailsIsOwn ==
    ASSUME FilesInv, NEW c \in Threads, WriteFails(c)
    PROVE  saving[c] # NoSave /\ \E mine : OwnStep(c, mine)
<1>1. saving[c] # NoSave /\ saving[c].at = "write"
  BY AtIsSave DEF WriteFails, SavingAt
<1>2. PICK mine : mine = Moved(c, "remove", "closed", saving[c].alone)
  OBVIOUS
<1>3. saving' = [saving EXCEPT ![c] = mine] /\ IsMoved(c, mine, "remove", "closed", saving[c].alone)
  <2>1. saving[c].alone \in BOOLEAN
    BY <1>1, SaveHasType
  <2> QED
    BY <1>1, <1>2, <2>1, ClosesAt, GoesOn DEF WriteFails
<1>4. PICK text \in {Target(c), Garbled} : PutInto(c, text)
  BY DEF WriteFails
<1>5. text \in Texts /\ (~misplaced => OneRuleEach(text.content.rules))
  BY <1>1, PartlyWritten
<1>6. UNCHANGED <<memory, asked, doubtful, unsure, misplaced>> /\ failures' \in 0 .. MaxFailures
  BY FaultIsBounded DEF WriteFails
<1>7. OwnStep(c, mine)
  BY <1>1, <1>3, <1>4, <1>5, <1>6, Written, UnlessAlone DEF OwnStep, IsMoved
<1> QED
  BY <1>1, <1>7

LEMMA RenameFailsIsOwn ==
    ASSUME FilesInv, NEW c \in Threads, RenameFails(c)
    PROVE  saving[c] # NoSave /\ \E mine : OwnStep(c, mine)
<1>1. saving[c] # NoSave
  BY AtIsSave DEF RenameFails
<1>2. PICK mine : mine = Moved(c, "remove", "closed", saving[c].alone)
  OBVIOUS
<1>3. saving' = [saving EXCEPT ![c] = mine] /\ IsMoved(c, mine, "remove", "closed", saving[c].alone)
  <2>1. saving[c].alone \in BOOLEAN
    BY <1>1, SaveHasType
  <2> QED
    BY <1>1, <1>2, <2>1, ClosesAt, GoesOn DEF RenameFails
<1>4. /\ UNCHANGED <<memory, disk, tmp, asked, doubtful, unsure, misplaced>>
      /\ failures' \in 0 .. MaxFailures
  BY <1>1, FaultIsBounded, UnlessAlone DEF RenameFails
<1>5. saving[c].file \in Files /\ tmp \in [Files -> Texts] /\ disk \in [Files -> Texts]
  BY <1>1, SaveHasType DEF FilesInv, FilesTypeOK
<1>6. ~misplaced => /\ OneRuleEach(tmp[saving[c].file].content.rules)
                    /\ OneRuleEach(disk[saving[c].file].content.rules)
  BY <1>5 DEF FilesInv, RulesAreUnique
<1>7. OwnStep(c, mine)
  BY <1>1, <1>3, <1>4, <1>5, <1>6, UnlessAlone DEF OwnStep, IsMoved
<1> QED
  BY <1>1, <1>7

LEMMA SavingKeepsFilesInv ==
    ASSUME FilesInv, NEW c \in Threads,
           Open(c) \/ Write(c) \/ WriteIsLost(c) \/ WriteFails(c) \/ RenameFails(c)
    PROVE  FilesInv' /\ saving[c] # NoSave /\ \E mine : OwnStep(c, mine)
<1>1. saving[c] # NoSave /\ \E mine : OwnStep(c, mine)
  BY OpenIsOwn, WriteIsOwn, WriteIsLostIsOwn, WriteFailsIsOwn, RenameFailsIsOwn
<1>2. FilesInv'
  BY <1>1, OwnStepKeepsFilesInv
<1> QED
  BY <1>1, <1>2
-----------------------------------------------------------------------------
(* The end of a Save *)

\* The others stay where they are; their streams may lead elsewhere.
LEMMA EndedSaves ==
    ASSUME FilesInv, NEW c \in Threads, saving[c] # NoSave,
           NEW moved, \A k \in DOMAIN moved : moved[k] \in {"file", "gone"},
           saving' = EndedWith(c, moved)
    PROVE  /\ saving' \in [Threads -> Saves \union {NoSave}]
           /\ saving'[c] = NoSave
           /\ \A d \in Threads \ {c} : saving'[d] # NoSave <=> saving[d] # NoSave
           /\ \A d \in Threads \ {c} : saving[d] # NoSave =>
                 /\ saving'[d].at = saving[d].at /\ saving'[d].file = saving[d].file
                 /\ saving'[d].item = saving[d].item /\ saving'[d].content = saving[d].content
                 /\ saving'[d].undo = saving[d].undo /\ saving'[d].alone = saving[d].alone
                 /\ saving[d].alone => saving[d].file # saving[c].file
           /\ \A d \in Threads \ {c} :
                 saving[d] # NoSave /\ saving[d].file # saving[c].file => saving'[d] = saving[d]
<1> DEFINE same == SavingWith(c, saving[c].file)
           each(d) == IF d = c THEN NoSave
                      ELSE IF d \in same /\ saving[d].output \in DOMAIN moved
                      THEN [saving[d] EXCEPT !.output = moved[@]]
                      ELSE saving[d]
<1>1. saving' = [d \in Threads |-> each(d)]
  BY DEF EndedWith
<1>2. ASSUME NEW d \in Threads \ {c}, saving[d] # NoSave
      PROVE  /\ each(d) \in Saves
             /\ each(d).at = saving[d].at /\ each(d).file = saving[d].file
             /\ each(d).item = saving[d].item /\ each(d).content = saving[d].content
             /\ each(d).undo = saving[d].undo /\ each(d).alone = saving[d].alone
  <2>1. saving[d] \in Saves
    BY <1>2, SaveHasType
  <2>2. CASE saving[d].output \in DOMAIN moved
    <3>1. PICK output : output = moved[saving[d].output]
      OBVIOUS
    <3>2. output \in {"file", "gone"}
      BY <2>2, <3>1
    <3>3. each(d) = [saving[d] EXCEPT !.output = output] \/ each(d) = saving[d]
      BY <3>1
    <3> HIDE DEF each
    <3> QED
      BY <2>1, <3>2, <3>3 DEF Saves
  <2>3. CASE saving[d].output \notin DOMAIN moved
    BY <2>1, <2>3
  <2> QED
    BY <2>2, <2>3
<1>3. ASSUME NEW d \in Threads \ {c}, saving[d] = NoSave PROVE each(d) = NoSave
  BY <1>3 DEF SavingWith
<1>4. ASSUME NEW d \in Threads \ {c}, saving[d] # NoSave, saving[d].file # saving[c].file
      PROVE  each(d) = saving[d]
  BY <1>4 DEF SavingWith
<1>5. ASSUME NEW d \in Threads \ {c}, saving[d] # NoSave, saving[d].alone
      PROVE  saving[d].file # saving[c].file
  BY <1>5 DEF FilesInv, OverlapsAreRaced
<1>6. each(c) = NoSave
  OBVIOUS
<1> HIDE DEF each
<1>7. \A d \in Threads : saving'[d] = each(d)
  BY <1>1
<1>8. saving' \in [Threads -> Saves \union {NoSave}]
  <2> SUFFICES ASSUME NEW d \in Threads PROVE each(d) \in Saves \union {NoSave}
    BY <1>1
  <2> QED
    BY <1>2, <1>3, <1>6
<1>9. \A d \in Threads \ {c} : saving'[d] # NoSave <=> saving[d] # NoSave
  BY <1>2, <1>3, <1>7, IsNoSave
<1>10. \A d \in Threads \ {c} : saving[d] # NoSave =>
                 /\ saving'[d].at = saving[d].at /\ saving'[d].file = saving[d].file
                 /\ saving'[d].item = saving[d].item /\ saving'[d].content = saving[d].content
                 /\ saving'[d].undo = saving[d].undo /\ saving'[d].alone = saving[d].alone
                 /\ saving[d].alone => saving[d].file # saving[c].file
  BY <1>2, <1>5, <1>7
<1>11. \A d \in Threads \ {c} :
                 saving[d] # NoSave /\ saving[d].file # saving[c].file => saving'[d] = saving[d]
  BY <1>4, <1>7
<1>12. saving'[c] = NoSave
  BY <1>6, <1>7
<1> QED
  BY <1>8, <1>9, <1>10, <1>11, <1>12

\* The Save of c ends: what that leaves of the saves.
Ends(c) ==
    /\ saving' \in [Threads -> Saves \union {NoSave}]
    /\ saving'[c] = NoSave
    /\ \A d \in Threads : saving'[d] # NoSave =>
          /\ d # c /\ saving[d] # NoSave
          /\ saving'[d].at = saving[d].at /\ saving'[d].file = saving[d].file
          /\ saving'[d].item = saving[d].item /\ saving'[d].content = saving[d].content
          /\ saving'[d].undo = saving[d].undo /\ saving'[d].alone = saving[d].alone
          /\ saving[d].alone => saving[d].file # saving[c].file /\ saving'[d] = saving[d]
          /\ saving[d].item # NoItem => saving[d].item \in Items /\ saving[d].item.file = saving[d].file
          /\ saving[d].file \in Files
    /\ \A y \in Items : ~BeingSaved(y)' /\ y # saving[c].item => ~BeingSaved(y)

LEMMA SaveEnds ==
    ASSUME FilesInv, NEW c \in Threads, saving[c] # NoSave,
           NEW moved, \A k \in DOMAIN moved : moved[k] \in {"file", "gone"},
           saving' = EndedWith(c, moved)
    PROVE  Ends(c)
<1>1. saving' \in [Threads -> Saves \union {NoSave}] /\ saving'[c] = NoSave
  BY EndedSaves
<1>2. \A d \in Threads \ {c} : saving'[d] # NoSave <=> saving[d] # NoSave
  BY EndedSaves
<1>3. \A d \in Threads \ {c} : saving[d] # NoSave =>
                 /\ saving'[d].at = saving[d].at /\ saving'[d].file = saving[d].file
                 /\ saving'[d].item = saving[d].item /\ saving'[d].content = saving[d].content
                 /\ saving'[d].undo = saving[d].undo /\ saving'[d].alone = saving[d].alone
                 /\ saving[d].alone => saving[d].file # saving[c].file
  BY EndedSaves
<1>4. ASSUME NEW d \in Threads \ {c}, saving[d] # NoSave, saving[d].alone
      PROVE  saving'[d] = saving[d]
  <2>1. saving[d].file # saving[c].file
    BY <1>3, <1>4
  <2>2. d \notin SavingWith(c, saving[c].file)
    BY <2>1 DEF SavingWith
  <2> QED
    BY <1>4, <2>2 DEF EndedWith
<1>5. ASSUME NEW d \in Threads, saving'[d] # NoSave
      PROVE  /\ d # c /\ saving[d] # NoSave
             /\ saving[d].item # NoItem => saving[d].item \in Items /\ saving[d].item.file = saving[d].file
             /\ saving[d].file \in Files
  <2>1. d # c /\ saving[d] # NoSave
    BY <1>1, <1>2, <1>5
  <2> QED
    BY <2>1, SaveHasType
<1>6. ASSUME NEW y \in Items, ~BeingSaved(y)', y # saving[c].item, BeingSaved(y) PROVE FALSE
  <2>1. PICK d \in Threads : saving[d] # NoSave /\ saving[d].item = y
    BY <1>6 DEF BeingSaved
  <2>2. d # c
    BY <1>6, <2>1
  <2>3. saving'[d] # NoSave /\ saving'[d].item = y
    BY <1>2, <1>3, <2>1, <2>2
  <2> QED
    BY <1>6, <2>3 DEF BeingSaved
<1> QED
  BY <1>1, <1>3, <1>4, <1>5, <1>6 DEF Ends

LEMMA EndsKeepItemsFit ==
    ASSUME FilesInv, NEW c \in Threads, Ends(c)
    PROVE  ItemsFit'
<1> SUFFICES ASSUME NEW d \in Threads, saving'[d] # NoSave
             PROVE  ItemFits(saving'[d].file, saving'[d].item, saving'[d].undo)
  BY DEF ItemsFit, ItemFits
<1> QED
  BY SaveHasType DEF Ends

LEMMA EndsKeepOverlaps ==
    ASSUME FilesInv, NEW c \in Threads, Ends(c),
           \A x \in doubtful : x \in doubtful' \/ x = saving[c].item,
           \A f \in unsure : f \in unsure' \/ f = saving[c].file,
           saving[c].alone \/ (doubtful \subseteq doubtful' /\ unsure \subseteq unsure'),
           saving[c] # NoSave
    PROVE  OverlapsAreRaced'
<1>1. ASSUME NEW d \in Threads, NEW e \in Threads, d # e, saving'[d] # NoSave, saving'[e] # NoSave,
             saving'[d].file = saving'[e].file
      PROVE  ~saving'[d].alone
  BY <1>1 DEF Ends, FilesInv, OverlapsAreRaced
<1>2. ASSUME NEW d \in Threads, saving'[d] # NoSave, ~saving'[d].alone
      PROVE  (saving'[d].item # NoItem => saving'[d].item \in doubtful') /\ saving'[d].file \in unsure'
  <2>1. /\ saving[d] # NoSave /\ ~saving[d].alone /\ d # c
        /\ saving'[d].item = saving[d].item /\ saving'[d].file = saving[d].file
        /\ saving[d].item # NoItem => saving[d].item \in Items /\ saving[d].item.file = saving[d].file
    BY <1>2 DEF Ends
  <2>2. (saving[d].item # NoItem => saving[d].item \in doubtful) /\ saving[d].file \in unsure
    BY <2>1 DEF FilesInv, OverlapsAreRaced
  <2>3. CASE saving[c].alone
    <3>1. saving[d].file # saving[c].file
      BY <2>1, <2>3 DEF FilesInv, OverlapsAreRaced
    <3>2. saving[c].item # NoItem => saving[c].item.file = saving[c].file
      BY SaveHasType
    <3> QED
      BY <2>1, <2>2, <3>1, <3>2
  <2>4. CASE doubtful \subseteq doubtful' /\ unsure \subseteq unsure'
    BY <2>1, <2>2, <2>4
  <2> QED
    BY <2>3, <2>4
<1> QED
  BY <1>1, <1>2 DEF OverlapsAreRaced

LEMMA RenameEnds ==
    ASSUME FilesInv, NEW c \in Threads, Rename(c)
    PROVE  Ends(c)
<1>1. saving[c] # NoSave
  BY AtIsSave DEF Rename
<1>2. PICK moved : moved = [tmp |-> "file", file |-> "gone"]
  OBVIOUS
<1>3. \A k \in DOMAIN moved : moved[k] \in {"file", "gone"}
  BY <1>2
<1> QED
  BY <1>1, <1>2, <1>3, SaveEnds DEF Rename

LEMMA RenameKeepsFilesInv ==
    ASSUME FilesInv, NEW c \in Threads, Rename(c)
    PROVE  FilesInv'
<1> DEFINE s == saving[c]
           f == s.file
<1>1. saving[c] # NoSave /\ s.at = "rename"
  BY AtIsSave DEF Rename, SavingAt
<1>2. /\ f \in Files /\ s.content \in Contents
      /\ s.item # NoItem => s.item \in Items /\ s.item.file = f
  BY <1>1, SaveHasType
<1>3. /\ disk' = [disk EXCEPT ![f] = tmp[f]] /\ tmp' = [tmp EXCEPT ![f] = Absent]
      /\ saving' = EndedWith(c, [tmp |-> "file", file |-> "gone"])
      /\ doubtful' = IF s.alone THEN doubtful \ {s.item} ELSE doubtful
      /\ unsure' = IF s.alone THEN unsure \ {f} ELSE unsure
      /\ UNCHANGED <<memory, failures, asked, misplaced>>
  BY DEF Rename
<1>4. Ends(c)
  BY RenameEnds
<1>5. /\ tmp \in [Files -> Texts] /\ disk \in [Files -> Texts]
      /\ doubtful \subseteq Items /\ unsure \subseteq Files
  BY DEF FilesInv, FilesTypeOK
<1>6. /\ disk' \in [Files -> Texts] /\ tmp' \in [Files -> Texts]
      /\ disk'[f] = tmp[f] /\ tmp'[f] = Absent
      /\ \A g \in Files \ {f} : disk'[g] = disk[g] /\ tmp'[g] = tmp[g]
  BY <1>2, <1>3, <1>5, TextFacts
<1>7. s.alone => s.content = memory[f] /\ tmp[f] = Json(s.content)
                 /\ (s.item # NoItem /\ Known(f) => (s.item \in Held(s.content) <=> s.item \in asked))
  BY <1>1 DEF FilesInv, AloneIsCurrent, Current
<1>8. ~s.alone => (s.item # NoItem => s.item \in doubtful) /\ f \in unsure
  BY <1>1 DEF FilesInv, OverlapsAreRaced
<1> HIDE DEF f, s
<1>9. FilesTypeOK'
  BY <1>3, <1>4, <1>5, <1>6 DEF FilesInv, FilesTypeOK, Ends
<1>10. ~misplaced' => RulesAreUnique'
  <2> SUFFICES ASSUME ~misplaced PROVE RulesAreUnique'
    BY <1>3
  <2>1. RulesAreUnique
    BY DEF FilesInv
  <2>2. ASSUME NEW g \in Files
        PROVE  /\ OneRuleEach(memory'[g].rules) /\ OneRuleEach(disk'[g].content.rules)
               /\ OneRuleEach(tmp'[g].content.rules)
    BY <1>3, <1>6, <2>1, TextFacts DEF RulesAreUnique
  <2>3. ASSUME NEW d \in Threads, saving'[d] # NoSave PROVE OneRuleEach(saving'[d].content.rules)
    BY <1>4, <2>1, <2>3 DEF RulesAreUnique, Ends
  <2> QED
    BY <2>2, <2>3 DEF RulesAreUnique
<1>11. ItemsFit'
  BY <1>4, EndsKeepItemsFit
<1>12. OverlapsAreRaced'
  BY <1>1, <1>3, <1>4, EndsKeepOverlaps DEF s, f
<1>13. AloneIsCurrent'
  <2> SUFFICES ASSUME NEW d \in Threads, saving'[d] # NoSave, saving'[d].alone
               PROVE  Current(d)'
    BY DEF AloneIsCurrent
  <2>1. /\ saving[d] # NoSave /\ saving'[d] = saving[d] /\ saving[d].alone /\ saving[d].file \in Files \ {f}
        /\ saving[d].item # NoItem => saving[d].item.file # f
    BY <1>4 DEF Ends, f, s
  <2>2. Current(d)
    BY <2>1 DEF FilesInv, AloneIsCurrent
  <2>3. disk'[saving[d].file] = disk[saving[d].file] /\ tmp'[saving[d].file] = tmp[saving[d].file]
    BY <1>6, <2>1
  <2>4. /\ saving[d].file \notin unsure' => saving[d].file \notin unsure
        /\ saving[d].item # NoItem /\ saving[d].item \notin doubtful' => saving[d].item \notin doubtful
    BY <1>2, <1>3, <2>1
  <2>5. saving[d].file = "accounts" => saving[d].item # NoItem
    <3>1. NoItem \notin Names
      BY NamesAreNoRights, ItemHasFile
    <3> QED
      BY <2>1, <3>1, SaveHasType DEF ItemFits
  <2> QED
    BY <1>3, <2>1, <2>2, <2>3, <2>4, <2>5 DEF Current, Known
<1>14. FilesAreAsAsked'
  <2> SUFFICES ASSUME NEW y \in Items, y \notin doubtful', ~BeingSaved(y)', misplaced => y.file # "rules"
               PROVE  /\ y \in Held(memory[y.file]) <=> y \in asked
                      /\ y.file \notin unsure' => (y \in Held(disk'[y.file].content) <=> y \in asked)
    BY <1>3 DEF FilesAreAsAsked, Load
  <2>1. y # NoItem /\ y.file \in Files
    BY ItemHasFile
  <2>2. CASE y = s.item
    <3>1. s.alone /\ y.file = f /\ Known(f)
      BY <1>2, <1>3, <1>8, <2>1, <2>2 DEF Known
    <3>2. disk'[f].content = memory[f]
      BY <1>6, <1>7, <3>1, TextFacts
    <3> QED
      BY <1>7, <2>1, <2>2, <3>1, <3>2
  <2>3. CASE y # s.item
    <3>1. ~BeingSaved(y) /\ y \notin doubtful
      BY <1>3, <1>4, <2>3 DEF Ends, s
    <3>2. /\ y \in Held(memory[y.file]) <=> y \in asked
          /\ y.file \notin unsure => (y \in Held(disk[y.file].content) <=> y \in asked)
      BY <3>1 DEF FilesInv, FilesAreAsAsked, Load
    <3>3. CASE y.file = f /\ s.alone
      <4>1. disk'[f].content = memory[f]
        BY <1>6, <1>7, <3>3, TextFacts
      <4> QED
        BY <3>2, <3>3, <4>1
    <3>4. CASE y.file = f /\ ~s.alone
      BY <1>3, <1>8, <3>2, <3>4
    <3>5. CASE y.file # f
      BY <1>3, <1>6, <2>1, <3>2, <3>5
    <3> QED
      BY <3>3, <3>4, <3>5
  <2> QED
    BY <2>2, <2>3
<1> QED
  BY <1>9, <1>10, <1>11, <1>12, <1>13, <1>14 DEF FilesInv
-----------------------------------------------------------------------------
(* Failures *)

\* What is undone of the rules in peace is the one right and nothing else; it
\* comes back at most if RevokePermission puts it back.
RulesUndone(rules, s, new) ==
    OneRuleEach(rules) /\ UndoFits(rules, s.item, s.undo) =>
        /\ OneRuleEach(new)
        /\ \A y \in Rights : y # s.item => (y \in RightsIn(new) <=> y \in RightsIn(rules))
        /\ s.item \in RightsIn(new) =>
              \/ s.item \in RightsIn(rules)
              \/ s.undo.how = "revoke" /\ s.item.permission \in s.undo.permissions

\* The save of an edit of the rules.
RulesSave(s) ==
    /\ s.item \in Rights /\ s.undo.how \in {"grant", "push", "erase", "revoke"}
    /\ s.undo.place \in Nat \ {0} /\ s.undo.permissions \in SUBSET Permissions

LEMMA GrantIsUndone ==
    ASSUME NEW rules \in Seq(Rules), NEW s, RulesSave(s), s.undo.how \in {"grant", "push"}, s.alone,
           s.undo.how = "grant" \/ s.undo.how = "push",
           NEW new \in UndoneGrant(s, rules)
    PROVE  new \in Seq(Rules) /\ RulesUndone(rules, s, new)
<1> DEFINE i == s.undo.place
           n == Len(rules)
           x == s.item
<1>1. n \in Nat /\ DOMAIN rules = 1 .. n /\ i \in Nat \ {0} /\ x \in Rights
  BY DEF RulesSave
<1>2. CASE new = rules
  BY <1>2 DEF RulesUndone
<1>3. CASE i <= n /\ new = [rules EXCEPT ![i].permissions = @ \ {x.permission}]
  <2>1. i \in DOMAIN rules
    BY <1>1, <1>3
  <2>2. PICK permissions : permissions = rules[i].permissions \ {x.permission}
    OBVIOUS
  <2>3. permissions \in SUBSET Permissions /\ rules[i].permissions \in SUBSET Permissions
    BY <2>1, <2>2, RuleHasParts
  <2>4. new = [rules EXCEPT ![i].permissions = permissions]
    BY <1>3, <2>2
  <2>5. new \in Seq(Rules) /\ SaysOf(rules, new, rules[i].scope, permissions)
    BY <2>1, <2>3, <2>4, EditRule
  <2>6. ASSUME OneRuleEach(rules), UndoFits(rules, x, s.undo) PROVE rules[i].scope = x.scope
    BY <2>6 DEF UndoFits
  <2>7. ASSUME OneRuleEach(rules), UndoFits(rules, x, s.undo), NEW y \in Rights
        PROVE  /\ y # x => (y \in RightsIn(new) <=> y \in RightsIn(rules))
               /\ y \in RightsIn(new) => y \in RightsIn(rules)
    <3>1. y.scope = x.scope => (y \in RightsIn(rules) <=> y.permission \in rules[i].permissions)
      BY <2>1, <2>6, <2>7, RuleSays
    <3>2. y # x /\ y.scope = x.scope => y.permission # x.permission
      BY <1>1, SameRight
    <3> QED
      BY <2>2, <2>5, <2>6, <2>7, <3>1, <3>2 DEF SaysOf
  <2> QED
    BY <1>1, <2>5, <2>7 DEF RulesUndone, SaysOf
<1>4. CASE ~(i <= n) /\ i = n + 1 /\ n > 0 /\ new = Front(rules)
  <2>1. new \in Seq(Rules)
    BY <1>4, FrontOfRules
  <2>2. ~UndoFits(rules, x, s.undo)
    BY <1>1, <1>4 DEF UndoFits
  <2> QED
    BY <2>1, <2>2 DEF RulesUndone
<1>5. new = rules \/ new = IF i <= n THEN [rules EXCEPT ![i].permissions = @ \ {x.permission}]
                           ELSE IF i = n + 1 /\ n > 0 THEN Front(rules) ELSE rules
  BY DEF UndoneGrant
<1> QED
  BY <1>2, <1>3, <1>4, <1>5

LEMMA EraseIsUndone ==
    ASSUME NEW rules \in Seq(Rules), NEW s, RulesSave(s), s.undo.how = "erase",
           NEW new \in UndoneErase(s, rules)
    PROVE  new \in Seq(Rules) /\ RulesUndone(rules, s, new)
<1> DEFINE i == s.undo.place
           x == s.item
<1>1. Len(rules) \in Nat /\ i \in Nat /\ i # 0 /\ x \in Rights /\ x.scope \in Scopes
  BY RightHasParts DEF RulesSave
<1>2. CASE i <= Len(rules) + 1
  <2>1. new = InsertAt(rules, i, [scope |-> x.scope, permissions |-> {}])
    BY <1>2 DEF UndoneErase
  <2>2. i \in 1 .. Len(rules) + 1
    BY <1>1, <1>2
  <2>3. /\ new \in Seq(Rules)
        /\ \A y \in Rights : y \in RightsIn(new) <=> y \in RightsIn(rules)
        /\ (OneRuleEach(rules) /\ \A j \in DOMAIN rules : rules[j].scope # x.scope) => OneRuleEach(new)
    <3>1. PICK scope : scope = x.scope
      OBVIOUS
    <3>2. scope \in Scopes /\ new = InsertAt(rules, i, [scope |-> scope, permissions |-> {}])
      BY <1>1, <2>1, <3>1
    <3>3. new \in Seq(Rules)
      BY <1>1, <2>2, <3>2, InsertRule
    <3>4. \A y \in Rights : y \in RightsIn(new) <=> y \in RightsIn(rules)
      BY <1>1, <2>2, <3>2, InsertRule
    <3>5. (OneRuleEach(rules) /\ \A j \in DOMAIN rules : rules[j].scope # scope) => OneRuleEach(new)
      BY <1>1, <2>2, <3>2, InsertRule
    <3> QED
      BY <3>1, <3>3, <3>4, <3>5
  <2>4. UndoFits(rules, x, s.undo) => \A j \in DOMAIN rules : rules[j].scope # x.scope
    BY DEF UndoFits
  <2> QED
    BY <1>1, <2>3, <2>4 DEF RulesUndone
<1>3. CASE ~(i <= Len(rules) + 1)
  <2>1. new = rules
    BY <1>3 DEF UndoneErase
  <2> QED
    BY <2>1 DEF RulesUndone
<1> QED
  BY <1>2, <1>3

LEMMA RevokeIsUndone ==
    ASSUME NEW rules \in Seq(Rules), NEW s, RulesSave(s), s.undo.how = "revoke",
           NEW new \in UndoneRevoke(s, rules)
    PROVE  new \in Seq(Rules) /\ RulesUndone(rules, s, new)
<1> DEFINE x == s.item
           permissions == s.undo.permissions
<1>1. x \in Rights /\ permissions \in SUBSET Permissions
  BY DEF RulesSave
<1>2. PICK i \in Find(rules, x.scope) :
         new = IF i \in DOMAIN rules THEN [rules EXCEPT ![i].permissions = permissions] ELSE rules
  BY DEF UndoneRevoke
<1>3. CASE i \notin DOMAIN rules
  <2>1. new = rules
    BY <1>2, <1>3
  <2> QED
    BY <2>1 DEF RulesUndone
<1>4. CASE i \in DOMAIN rules
  <2>1. rules[i].scope = x.scope /\ new = [rules EXCEPT ![i].permissions = permissions]
    BY <1>2, <1>4, FoundRule
  <2>2. new \in Seq(Rules) /\ SaysOf(rules, new, rules[i].scope, permissions)
    BY <1>1, <1>4, <2>1, EditRule
  <2>3. ASSUME OneRuleEach(rules), UndoFits(rules, x, s.undo), NEW y \in Rights
        PROVE  /\ y # x => (y \in RightsIn(new) <=> y \in RightsIn(rules))
               /\ y = x /\ y \in RightsIn(new) => y.permission \in permissions
    <3>1. y.scope = x.scope => (y \in RightsIn(rules) <=> y.permission \in rules[i].permissions)
      BY <1>4, <2>1, <2>3, RuleSays
    <3>2. y # x /\ y.scope = x.scope => y.permission # x.permission
      BY <1>1, SameRight
    <3>3. rules[i].permissions = permissions \ {x.permission}
      BY <1>4, <2>1, <2>3 DEF UndoFits
    <3> QED
      BY <2>1, <2>2, <2>3, <3>1, <3>2, <3>3 DEF SaysOf
  <2> QED
    BY <1>1, <2>2, <2>3 DEF RulesUndone, SaysOf
<1> QED
  BY <1>3, <1>4

LEMMA RulesAreUndone ==
    ASSUME NEW s, RulesSave(s), s.file = "rules", memory["rules"] \in Contents,
           NEW content \in Undone(s)
    PROVE  /\ content \in Contents
           /\ s.alone => RulesUndone(memory["rules"].rules, s, content.rules)
<1>1. PICK rules : rules = memory["rules"].rules
  OBVIOUS
<1>2. rules \in Seq(Rules)
  BY <1>1 DEF Contents
<1>3. \E new : /\ content = [memory["rules"] EXCEPT !.rules = new]
               /\ new \in Seq(Rules) /\ (s.alone => RulesUndone(rules, s, new))
  <2>1. CASE s.undo.how \in {"grant", "push"}
    <3>1. PICK new \in UndoneGrant(s, rules) : content = [memory["rules"] EXCEPT !.rules = new]
      BY <1>1, <2>1 DEF Undone
    <3>2. s.alone => new \in Seq(Rules) /\ RulesUndone(rules, s, new)
      BY <1>2, <2>1, GrantIsUndone
    <3>3. new \in Seq(Rules)
      <4> DEFINE i == s.undo.place
                 n == Len(rules)
      <4>1. n \in Nat /\ DOMAIN rules = 1 .. n /\ i \in Nat \ {0}
        BY <1>2 DEF RulesSave
      <4>2. CASE i <= n
        <5>1. i \in DOMAIN rules
          BY <4>1, <4>2
        <5>2. PICK permissions : permissions = rules[i].permissions \ {s.item.permission}
          OBVIOUS
        <5>3. permissions \in SUBSET Permissions
          BY <1>2, <5>1, <5>2, RuleHasParts
        <5>4. PICK edited : edited = [rules EXCEPT ![i].permissions = permissions]
          OBVIOUS
        <5>5. edited \in Seq(Rules)
          BY <1>2, <5>1, <5>3, <5>4, EditRule
        <5>6. edited = [rules EXCEPT ![i].permissions = @ \ {s.item.permission}]
          BY <5>2, <5>4
        <5> QED
          BY <1>2, <4>2, <5>5, <5>6 DEF UndoneGrant
      <4>3. CASE ~(i <= n)
        BY <1>2, <4>1, <4>3, FrontOfRules DEF UndoneGrant
      <4> QED
        BY <4>2, <4>3
    <3> QED
      BY <3>1, <3>2, <3>3
  <2>2. CASE s.undo.how = "erase"
    <3>1. PICK new \in UndoneErase(s, rules) : content = [memory["rules"] EXCEPT !.rules = new]
      BY <1>1, <2>2 DEF Undone
    <3> QED
      BY <1>2, <2>2, <3>1, EraseIsUndone
  <2>3. CASE s.undo.how = "revoke"
    <3>1. PICK new \in UndoneRevoke(s, rules) : content = [memory["rules"] EXCEPT !.rules = new]
      BY <1>1, <2>3 DEF Undone
    <3> QED
      BY <1>2, <2>3, <3>1, RevokeIsUndone
  <2> QED
    BY <2>1, <2>2, <2>3 DEF RulesSave
<1> QED
  BY <1>1, <1>3, OtherRules

\* What memory may hold after an update has failed.
LEMMA UndoneIsHarmless ==
    ASSUME FilesInv, NEW c \in Threads, saving[c] # NoSave, NEW content \in Undone(saving[c])
    PROVE  /\ content \in Contents
           /\ saving[c].file = "accounts" => saving[c].item \notin Held(content)
           /\ ~misplaced /\ (saving[c].file = "rules" => saving[c].alone) => OneRuleEach(content.rules)
           /\ (saving[c].file = "rules" => saving[c].alone /\ ~misplaced) =>
                 \A y \in Items : y.file = saving[c].file /\ y # saving[c].item =>
                    (y \in Held(content) <=> y \in Held(memory[saving[c].file]))
           /\ saving[c].file = "rules" /\ saving[c].alone /\ ~misplaced
                /\ saving[c].item \in Held(content) =>
                 \/ saving[c].item \in Held(memory["rules"])
                 \/ /\ saving[c].undo.how = "revoke"
                    /\ saving[c].item.permission \in saving[c].undo.permissions
<1> DEFINE s == saving[c]
           f == s.file
<1>1. /\ f \in Files /\ memory[f] \in Contents /\ ItemFits(f, s.item, s.undo) /\ s.undo \in Undos
      /\ s.item # NoItem => s.item \in Items /\ s.item.file = f
  BY SaveHasType
<1>2. ~misplaced => OneRuleEach(memory[f].rules)
  BY <1>1 DEF FilesInv, RulesAreUnique
<1>3. CASE f = "accounts"
  <2>1. content = [memory[f] EXCEPT !.names = @ \ {s.item}] /\ s.item \in Names
    BY <1>1, <1>3 DEF Undone, ItemFits
  <2>2. PICK names : names = memory[f].names \ {s.item}
    OBVIOUS
  <2>6. names \in SUBSET Names /\ content = [memory[f] EXCEPT !.names = names]
    BY <1>1, <2>1, <2>2 DEF Contents
  <2>3. /\ content \in Contents /\ content.rules = memory[f].rules
        /\ \A y \in Names : y \in Held(content) <=> y \in names
    BY <1>1, <2>6, OtherNames
  <2>4. \A y \in Names : y \in Held(memory[f]) <=> y \in memory[f].names
    BY <1>1, HeldSplits
  <2>5. \A y \in Items : y.file = f => y \in Names
    BY <1>3, ItemHasFile
  <2> QED
    BY <1>2, <1>3, <2>1, <2>2, <2>3, <2>4, <2>5
<1>4. CASE f = "databases"
  <2>1. content = memory[f]
    BY <1>1, <1>4 DEF Undone, ItemFits
  <2> QED
    BY <1>1, <1>2, <1>4, <2>1
<1>5. CASE f = "rules"
  <2>1. RulesSave(s)
    BY <1>1, <1>5 DEF RulesSave, ItemFits, Undos
  <2>2. content \in Contents /\ (s.alone => RulesUndone(memory[f].rules, s, content.rules))
    BY <1>1, <1>5, <2>1, RulesAreUndone
  <2>3. s.alone /\ ~misplaced => UndoFits(memory[f].rules, s.item, s.undo)
    BY <1>5 DEF FilesInv, AloneIsCurrent, Current
  <2>4. \A y \in Rights : /\ y \in Held(content) <=> y \in RightsIn(content.rules)
                          /\ y \in Held(memory[f]) <=> y \in RightsIn(memory[f].rules)
    BY <1>1, <2>2, HeldSplits
  <2>5. \A y \in Items : y.file = f => y \in Rights
    BY <1>5, ItemHasFile
  <2>6. s.alone /\ ~misplaced =>
          /\ OneRuleEach(content.rules)
          /\ \A y \in Rights : y # s.item =>
                (y \in RightsIn(content.rules) <=> y \in RightsIn(memory[f].rules))
          /\ s.item \in RightsIn(content.rules) =>
                \/ s.item \in RightsIn(memory[f].rules)
                \/ s.undo.how = "revoke" /\ s.item.permission \in s.undo.permissions
    BY <1>2, <2>2, <2>3 DEF RulesUndone
  <2>7. s.item \in Rights
    BY <2>1 DEF RulesSave
  <2>8. content \in Contents /\ (s.alone /\ ~misplaced => OneRuleEach(content.rules))
    BY <2>2, <2>6
  <2>9. s.alone /\ ~misplaced =>
          \A y \in Items : y.file = f /\ y # s.item => (y \in Held(content) <=> y \in Held(memory[f]))
    BY <2>4, <2>5, <2>6
  <2>10. s.alone /\ ~misplaced /\ s.item \in Held(content) =>
           \/ s.item \in Held(memory[f])
           \/ s.undo.how = "revoke" /\ s.item.permission \in s.undo.permissions
    BY <2>4, <2>6, <2>7
  <2> QED
    BY <1>5, <2>8, <2>9, <2>10
<1> QED
  BY <1>1, <1>3, <1>4, <1>5 DEF Files

\* A failure of the Save of c, which may take the .tmp file with it.
LEMMA FailKeepsFilesInv ==
    ASSUME FilesInv, NEW c \in Threads, saving[c] # NoSave, Fail(c), Ends(c),
           failures' \in 0 .. MaxFailures,
           tmp' = tmp \/ tmp' = [tmp EXCEPT ![saving[c].file] = Absent]
    PROVE  FilesInv'
<1> DEFINE s == saving[c]
           f == s.file
<1>1. /\ f \in Files /\ s.item \in Items \union {NoItem} /\ s.alone \in BOOLEAN
      /\ s.item # NoItem => s.item \in Items /\ s.item.file = f
  BY SaveHasType
<1>2. PICK content \in Undone(s) : memory' = [memory EXCEPT ![f] = content]
  BY DEF Fail
<1>3. /\ asked' = IF f = "accounts" THEN asked \ {s.item} ELSE asked
      /\ doubtful' = IF f = "accounts" THEN doubtful ELSE doubtful \union ({s.item} \ {NoItem})
      /\ misplaced' = (misplaced \/ (f = "rules" /\ ~s.alone))
      /\ UNCHANGED <<disk, unsure>>
  BY DEF Fail
<1>4. /\ content \in Contents
      /\ f = "accounts" => s.item \notin Held(content)
      /\ ~misplaced /\ (f = "rules" => s.alone) => OneRuleEach(content.rules)
      /\ (f = "rules" => s.alone /\ ~misplaced) =>
            \A y \in Items : y.file = f /\ y # s.item =>
                  (y \in Held(content) <=> y \in Held(memory[f]))
  BY UndoneIsHarmless
<1>5. /\ memory \in [Files -> Contents] /\ tmp \in [Files -> Texts]
      /\ doubtful \subseteq Items /\ asked \subseteq Items /\ misplaced \in BOOLEAN
  BY DEF FilesInv, FilesTypeOK
<1>6. memory' \in [Files -> Contents] /\ memory'[f] = content /\ \A g \in Files \ {f} : memory'[g] = memory[g]
  BY <1>1, <1>2, <1>4, <1>5
<1>7. /\ tmp' \in [Files -> Texts]
      /\ \A g \in Files \ {f} : tmp'[g] = tmp[g]
      /\ tmp'[f] = tmp[f] \/ tmp'[f] = Absent
  BY <1>1, <1>5, TextFacts
<1> HIDE DEF f, s
<1>8. misplaced' \in BOOLEAN /\ (misplaced => misplaced') /\ (f = "rules" /\ ~misplaced' => s.alone)
  BY <1>1, <1>3, <1>5
<1>9. FilesTypeOK'
  <2>1. doubtful' \subseteq Items /\ asked' \subseteq Items
    BY <1>1, <1>3, <1>5
  <2> QED
    BY <1>3, <1>6, <1>7, <1>8, <2>1 DEF FilesInv, FilesTypeOK, Ends
<1>10. ~misplaced' => RulesAreUnique'
  <2> SUFFICES ASSUME ~misplaced' PROVE RulesAreUnique'
    OBVIOUS
  <2>1. ~misplaced /\ RulesAreUnique
    BY <1>8 DEF FilesInv
  <2>2. OneRuleEach(content.rules)
    BY <1>4, <1>8, <2>1
  <2>3. ASSUME NEW g \in Files
        PROVE  /\ OneRuleEach(memory'[g].rules) /\ OneRuleEach(disk'[g].content.rules)
               /\ OneRuleEach(tmp'[g].content.rules)
    BY <1>3, <1>6, <1>7, <2>1, <2>2, TextFacts DEF RulesAreUnique
  <2>4. ASSUME NEW d \in Threads, saving'[d] # NoSave PROVE OneRuleEach(saving'[d].content.rules)
    BY <2>1, <2>4 DEF RulesAreUnique, Ends
  <2> QED
    BY <2>3, <2>4 DEF RulesAreUnique
<1>11. ItemsFit'
  BY EndsKeepItemsFit
<1>12. OverlapsAreRaced'
  <2>1. doubtful \subseteq doubtful' /\ unsure \subseteq unsure'
    BY <1>3
  <2> QED
    BY <2>1, EndsKeepOverlaps
<1>13. AloneIsCurrent'
  <2> SUFFICES ASSUME NEW d \in Threads, saving'[d] # NoSave, saving'[d].alone
               PROVE  Current(d)'
    BY DEF AloneIsCurrent
  <2>1. /\ saving[d] # NoSave /\ saving'[d] = saving[d] /\ saving[d].alone /\ saving[d].file \in Files \ {f}
        /\ saving[d].item # NoItem => saving[d].item.file # f
    BY DEF Ends, f, s
  <2>2. Current(d)
    BY <2>1 DEF FilesInv, AloneIsCurrent
  <2>3. memory'[saving[d].file] = memory[saving[d].file] /\ tmp'[saving[d].file] = tmp[saving[d].file]
    BY <1>6, <1>7, <2>1
  <2>4. saving[d].item # NoItem => (saving[d].item \in asked' <=> saving[d].item \in asked)
    BY <1>1, <1>3, <2>1
  <2>5. /\ doubtful \subseteq doubtful'
        /\ Known(saving[d].file)' => Known(saving[d].file)
        /\ ~misplaced' => ~misplaced
    <3>1. Known(saving[d].file)' => Known(saving[d].file)
      BY <1>8, <2>1 DEF Known
    <3> QED
      BY <1>3, <1>8, <3>1
  <2>6. misplaced => misplaced'
    BY <1>8
  <2> QED
    BY <1>3, <2>1, <2>2, <2>3, <2>4, <2>5, <2>6 DEF Current, Known
<1>14. FilesAreAsAsked'
  <2> SUFFICES ASSUME NEW y \in Items, y \notin doubtful', ~BeingSaved(y)', misplaced' => y.file # "rules"
               PROVE  /\ y \in Held(memory'[y.file]) <=> y \in asked'
                      /\ y.file \notin unsure => (y \in Held(disk[y.file].content) <=> y \in asked')
    BY <1>3 DEF FilesAreAsAsked, Load
  <2>1. y # NoItem /\ y.file \in Files /\ y \notin doubtful
    BY <1>3, ItemHasFile
  <2>2. CASE y = s.item
    <3>1. f = "accounts" /\ y.file = f /\ y \notin asked'
      BY <1>1, <1>3, <2>1, <2>2
    <3>2. y \notin Held(memory'[f])
      BY <1>4, <1>6, <2>2, <3>1
    <3>3. ASSUME f \notin unsure PROVE y \notin Held(disk[f].content)
      <4>1. s.alone
        BY <3>3 DEF FilesInv, OverlapsAreRaced, s, f
      <4> QED
        BY <2>1, <2>2, <3>1, <3>3, <4>1 DEF FilesInv, AloneIsCurrent, Current, s, f
    <3> QED
      BY <3>1, <3>2, <3>3
  <2>3. CASE y # s.item
    <3>1. ~BeingSaved(y) /\ (misplaced => y.file # "rules")
      BY <1>8, <2>3 DEF Ends, s
    <3>2. /\ y \in Held(memory[y.file]) <=> y \in asked
          /\ y.file \notin unsure => (y \in Held(disk[y.file].content) <=> y \in asked)
      BY <2>1, <3>1 DEF FilesInv, FilesAreAsAsked, Load
    <3>3. y \in asked' <=> y \in asked
      BY <1>3, <2>3
    <3>4. CASE y.file = f
      <4>1. f = "rules" => s.alone /\ ~misplaced
        BY <1>8, <3>4
      <4> QED
        BY <1>4, <1>6, <2>3, <3>2, <3>3, <3>4, <4>1
    <3>5. CASE y.file # f
      BY <1>6, <2>1, <3>2, <3>3, <3>5
    <3> QED
      BY <3>4, <3>5
  <2> QED
    BY <2>2, <2>3
<1> QED
  BY <1>9, <1>10, <1>11, <1>12, <1>13, <1>14 DEF FilesInv

\* How a Save that fails ends.
LEMMA FailureEnds ==
    ASSUME FilesInv, NEW c \in Threads, OpenFails(c) \/ GiveUp(c)
    PROVE  /\ saving[c] # NoSave /\ Fail(c) /\ Ends(c) /\ failures' \in 0 .. MaxFailures
           /\ tmp' = tmp \/ tmp' = [tmp EXCEPT ![saving[c].file] = Absent]
<1>1. CASE OpenFails(c)
  <2>1. saving[c] # NoSave
    BY <1>1, AtIsSave DEF OpenFails
  <2>2. PICK moved : moved = <<>>
    OBVIOUS
  <2>3. \A k \in DOMAIN moved : moved[k] \in {"file", "gone"}
    BY <2>2
  <2>4. saving' = EndedWith(c, moved)
    BY <1>1, <2>2 DEF OpenFails
  <2> QED
    BY <1>1, <2>1, <2>3, <2>4, SaveEnds, FaultIsBounded DEF OpenFails
<1>2. CASE GiveUp(c)
  <2>1. saving[c] # NoSave
    BY <1>2, AtIsSave DEF GiveUp
  <2>2. PICK moved : moved = [tmp |-> "gone"]
    OBVIOUS
  <2>3. \A k \in DOMAIN moved : moved[k] \in {"file", "gone"}
    BY <2>2
  <2>4. saving' = EndedWith(c, moved)
    BY <1>2, <2>2 DEF GiveUp
  <2>5. failures' \in 0 .. MaxFailures
    BY <1>2 DEF GiveUp, FilesInv, FilesTypeOK
  <2> QED
    BY <1>2, <2>1, <2>3, <2>4, <2>5, SaveEnds DEF GiveUp
<1> QED
  BY <1>1, <1>2

LEMMA FailuresKeepFilesInv ==
    ASSUME FilesInv, NEW c \in Threads, OpenFails(c) \/ GiveUp(c)
    PROVE  FilesInv'
BY FailureEnds, FailKeepsFilesInv
-----------------------------------------------------------------------------
(* Restarts *)

LEMMA ReloadKeepsFilesInv ==
    ASSUME FilesInv, Reload
    PROVE  FilesInv'
<1>1. /\ memory' = [f \in Files |-> disk[f].content] /\ saving' = [c \in Threads |-> NoSave]
      /\ doubtful' = doubtful \union {x \in Items : BeingSaved(x) \/ x.file \in unsure}
      /\ unsure' = {}
      /\ UNCHANGED <<disk, tmp, failures, asked, misplaced>>
  BY DEF Reload, Load
<1>2. \A text \in Texts : text.content \in Contents
  <2>1. NoContent \in Contents
    BY DEF NoContent, Contents
  <2> QED
    BY <2>1 DEF Texts
<1>3. memory' \in [Files -> Contents] /\ \A f \in Files : memory'[f] = disk[f].content
  <2>1. \A f \in Files : disk[f] \in Texts
    BY DEF FilesInv, FilesTypeOK
  <2> QED
    BY <1>1, <1>2, <2>1
<1>4. \A c \in Threads : saving'[c] = NoSave
  BY <1>1
<1>5. FilesTypeOK'
  BY <1>1, <1>3 DEF FilesInv, FilesTypeOK
<1>6. (~misplaced' => RulesAreUnique') /\ ItemsFit' /\ OverlapsAreRaced' /\ AloneIsCurrent'
  BY <1>1, <1>3, <1>4 DEF FilesInv, RulesAreUnique, ItemsFit, OverlapsAreRaced, AloneIsCurrent
<1>7. FilesAreAsAsked'
  <2> SUFFICES ASSUME NEW y \in Items, y \notin doubtful', misplaced => y.file # "rules"
               PROVE  /\ y \in Held(memory'[y.file]) <=> y \in asked
                      /\ y \in Held(disk[y.file].content) <=> y \in asked
    BY <1>1 DEF FilesAreAsAsked, Load
  <2>1. y \notin doubtful /\ ~BeingSaved(y) /\ y.file \notin unsure
    BY <1>1
  <2>2. y \in Held(disk[y.file].content) <=> y \in asked
    BY <2>1 DEF FilesInv, FilesAreAsAsked, Load
  <2> QED
    BY <1>3, <2>2, ItemHasFile
<1> QED
  BY <1>5, <1>6, <1>7 DEF FilesInv

LEMMA StutterKeepsFilesInv ==
    ASSUME FilesInv, UNCHANGED fileVars
    PROVE  FilesInv'
<1>1. UNCHANGED <<memory, disk, tmp, saving, failures, asked, doubtful, unsure, misplaced>>
  BY DEF fileVars
<1>2. FilesTypeOK' /\ (~misplaced' => RulesAreUnique')
  BY <1>1 DEF FilesInv, FilesTypeOK, RulesAreUnique
<1>3. ItemsFit' /\ OverlapsAreRaced'
  BY <1>1 DEF FilesInv, ItemsFit, OverlapsAreRaced
<1>4. AloneIsCurrent'
  BY <1>1 DEF FilesInv, AloneIsCurrent, Current, Known
<1>5. FilesAreAsAsked'
  BY <1>1 DEF FilesInv, FilesAreAsAsked, BeingSaved
<1> QED
  BY <1>2, <1>3, <1>4, <1>5 DEF FilesInv

LEMMA FilesInitially ==
    ASSUME NEW store, IsStore(store), FilesInit(store)
    PROVE  FilesInv
<1>1. /\ memory = store /\ disk = [f \in Files |-> Json(store[f])] /\ tmp = [f \in Files |-> Absent]
      /\ saving = [c \in Threads |-> NoSave] /\ failures = 0
      /\ asked = UNION {Held(store[f]) : f \in Files}
      /\ doubtful = {} /\ unsure = {} /\ misplaced = FALSE
  BY DEF FilesInit
<1>2. /\ memory \in [Files -> Contents]
      /\ \A f \in Files : (\A x \in Held(memory[f]) : x.file = f) /\ OneRuleEach(memory[f].rules)
  BY <1>1 DEF IsStore
<1>3. /\ disk \in [Files -> Texts] /\ tmp \in [Files -> Texts]
      /\ \A f \in Files : disk[f].content = memory[f] /\ tmp[f] = Absent
  <2>1. \A f \in Files : Json(memory[f]) \in Texts /\ Json(memory[f]).content = memory[f]
    BY <1>2, TextFacts
  <2> QED
    BY <1>1, <2>1, TextFacts
<1>4. \A c \in Threads : saving[c] = NoSave
  BY <1>1
<1>5. FilesTypeOK
  <2>1. asked \subseteq Items
    <3>1. \A f \in Files : Held(memory[f]) \subseteq Items
      BY <1>2, HeldSplits
    <3> QED
      BY <1>1, <3>1
  <2> QED
    <3>1. failures \in 0 .. MaxFailures
      BY <1>1, JsonFilesAssumption
    <3>2. saving \in [Threads -> Saves \union {NoSave}]
      BY <1>1
    <3> QED
      BY <1>1, <1>2, <1>3, <2>1, <3>1, <3>2 DEF FilesTypeOK
<1>6. RulesAreUnique /\ ItemsFit /\ OverlapsAreRaced /\ AloneIsCurrent
  BY <1>2, <1>3, <1>4, TextFacts DEF RulesAreUnique, ItemsFit, OverlapsAreRaced, AloneIsCurrent
<1>7. FilesAreAsAsked
  <2> SUFFICES ASSUME NEW y \in Items
               PROVE  /\ y \in Held(memory[y.file]) <=> y \in asked
                      /\ y \in Held(disk[y.file].content) <=> y \in asked
    BY DEF FilesAreAsAsked, Load
  <2>1. y.file \in Files
    BY ItemHasFile
  <2> QED
    BY <1>1, <1>2, <1>3, <2>1
<1> QED
  BY <1>5, <1>6, <1>7 DEF FilesInv
-----------------------------------------------------------------------------
(* What is gone from memory does not come back by itself. *)

\* The right y is neither in memory nor put back there by a failing save.
Gone(y) ==
    ~misplaced =>
        /\ y \notin Held(memory["rules"])
        /\ \A d \in Threads :
              saving[d] # NoSave /\ saving[d].alone /\ saving[d].undo.how = "revoke" /\ saving[d].item = y =>
                  y.permission \notin saving[d].undo.permissions

LEMMA UpdateKeepsGone ==
    ASSUME FilesInv, NEW c \in Threads, NEW f, NEW x, NEW content, NEW undo, NEW again,
           EditFits(f, x, content, undo, again), Update(c, f, x, content, undo, again),
           NEW y \in Rights, Gone(y),
           ~misplaced /\ f = "rules" =>
              /\ y \notin Held(content)
              /\ undo.how = "revoke" /\ x = y => y.permission \notin undo.permissions
    PROVE  Gone(y)'
<1> SUFFICES ASSUME ~misplaced
             PROVE  /\ y \notin Held(memory'["rules"])
                    /\ \A d \in Threads :
                          saving'[d] # NoSave /\ saving'[d].alone /\ saving'[d].undo.how = "revoke"
                            /\ saving'[d].item = y =>
                              y.permission \notin saving'[d].undo.permissions
  BY DEF Gone, Update
<1>1. memory' = [memory EXCEPT ![f] = content] /\ memory \in [Files -> Contents] /\ f \in Files
  BY DEF Update, EditFits, FilesInv, FilesTypeOK
<1>2. f # "rules" => undo.how # "revoke"
  BY DEF EditFits, ItemFits, Files
<1>3. y \notin Held(memory'["rules"])
  BY <1>1 DEF Gone, Files
<1>4. ASSUME NEW d \in Threads, saving'[d] # NoSave, saving'[d].alone, saving'[d].undo.how = "revoke",
             saving'[d].item = y
      PROVE  y.permission \notin saving'[d].undo.permissions
  <2>1. CASE d = c
    <3>1. saving'[c].undo = undo /\ saving'[c].item = x
      BY DEF Update
    <3> QED
      BY <1>2, <1>4, <2>1, <3>1
  <2>2. CASE d # c
    <3>1. d \notin SavingWith(c, f)
      <4> SUFFICES ASSUME d \in SavingWith(c, f) PROVE FALSE
        OBVIOUS
      <4>1. saving'[d] = [saving[d] EXCEPT !.alone = FALSE]
        BY <2>2 DEF Update
      <4>2. saving[d] \in Saves
        BY DEF SavingWith, FilesInv, FilesTypeOK
      <4> QED
        BY <1>4, <4>1, <4>2 DEF Saves
    <3>2. saving'[d] = saving[d]
      BY <2>2, <3>1 DEF Update
    <3> QED
      BY <1>4, <3>2 DEF Gone
  <2> QED
    BY <2>1, <2>2
<1> QED
  BY <1>3, <1>4

LEMMA OthersKeepGone ==
    ASSUME FilesInv, NEW c \in Threads, EditsNames(c) \/ UpdateTables(c), NEW y \in Rights, Gone(y)
    PROVE  Gone(y)'
<1>1. CASE EditsNames(c)
  <2>1. PICK f, x, names, undo, again :
           NameEdit(f, x, names, undo, again) /\ UpdateNames(c, x, names, undo, again)
    BY <1>1 DEF EditsNames
  <2>2. PICK content : content = [memory[f] EXCEPT !.names = names]
    OBVIOUS
  <2>3. EditFits(f, x, content, undo, again) /\ f # "rules"
    BY <2>1, <2>2, NameEditFits DEF NameEdit
  <2>4. Update(c, f, x, content, undo, again)
    BY <2>1, <2>2 DEF UpdateNames, NameEdit
  <2> QED
    BY <2>3, <2>4, UpdateKeepsGone
<1>2. CASE UpdateTables(c)
  <2>1. PICK content : content = memory["databases"]
    OBVIOUS
  <2>2. EditFits("databases", NoItem, content, NoUndo, FALSE)
    BY <1>2, <2>1, TablesEdit
  <2>3. Update(c, "databases", NoItem, content, NoUndo, FALSE)
    BY <1>2, <2>1 DEF UpdateTables
  <2>4. PICK f, x, undo : f = "databases" /\ x = NoItem /\ undo = NoUndo
    OBVIOUS
  <2>5. EditFits(f, x, content, undo, FALSE) /\ Update(c, f, x, content, undo, FALSE)
    BY <2>2, <2>3, <2>4
  <2>6. ~misplaced /\ f = "rules" =>
          /\ y \notin Held(content)
          /\ undo.how = "revoke" /\ x = y => y.permission \notin undo.permissions
    BY <2>4
  <2> QED
    BY <2>5, <2>6, UpdateKeepsGone
<1> QED
  BY <1>1, <1>2

LEMMA EditsKeepGone ==
    ASSUME FilesInv, NEW c \in Threads, NEW x \in Rights, NEW added \in BOOLEAN, Edits(c, x, added),
           NEW y \in Rights, Gone(y), added => y # x
    PROVE  Gone(y)'
<1>1. PICK new, undo : RuleEdit(memory["rules"].rules, x, new, undo, added) /\ UpdateRules(c, x, new, undo)
  BY DEF Edits
<1>2. PICK content : content = [memory["rules"] EXCEPT !.rules = new]
  OBVIOUS
<1>3. EditFits("rules", x, content, undo, FALSE) /\ (~misplaced => (x \in Held(content) <=> added))
  BY <1>1, <1>2, RuleEditFits
<1>4. Update(c, "rules", x, content, undo, FALSE)
  BY <1>1, <1>2 DEF UpdateRules
<1>5. ASSUME ~misplaced
      PROVE  /\ y \notin Held(content)
             /\ undo.how = "revoke" /\ x = y => y.permission \notin undo.permissions
  <2>1. y \notin Held(memory["rules"]) /\ y \in Items /\ y.file = "rules"
    BY <1>5, RightHasParts DEF Gone
  <2>2. y \notin Held(content)
    BY <1>3, <1>5, <2>1 DEF EditFits, Known
  <2>3. memory["rules"] \in Contents
    BY DEF FilesInv, FilesTypeOK, Files
  <2>4. y \notin RightsIn(memory["rules"].rules)
    BY <2>1, <2>3, HeldSplits
  <2> QED
    BY <1>1, <2>2, <2>4 DEF RuleEdit
<1>6. PICK f : f = "rules"
  OBVIOUS
<1>7. ~misplaced /\ f = "rules" =>
        /\ y \notin Held(content)
        /\ undo.how = "revoke" /\ x = y => y.permission \notin undo.permissions
  BY <1>5
<1>8. EditFits(f, x, content, undo, FALSE) /\ Update(c, f, x, content, undo, FALSE)
  BY <1>3, <1>4, <1>6
<1> QED
  BY <1>7, <1>8, UpdateKeepsGone

LEMMA RulesKeepGone ==
    ASSUME FilesInv, NEW c \in Threads, NEW scope \in Scopes, NEW p \in Permissions,
           NEW y \in Rights, Gone(y),
           \/ GrantPermission(c, scope, p) /\ y # Right(scope, p)
           \/ RevokePermission(c, scope, p)
    PROVE  Gone(y)'
<1>1. Right(scope, p) \in Rights
  BY RightIsItem
<1>2. CASE GrantPermission(c, scope, p) /\ y # Right(scope, p)
  BY <1>1, <1>2, GrantIsEdit, EditsKeepGone
<1>3. CASE RevokePermission(c, scope, p) /\ Edits(c, Right(scope, p), FALSE)
  BY <1>1, <1>3, EditsKeepGone
<1>4. CASE UNCHANGED <<memory, saving, misplaced>>
  BY <1>4 DEF Gone
<1> QED
  BY <1>2, <1>3, <1>4, RevokeIsEdit

LEMMA SavingKeepsGone ==
    ASSUME FilesInv, NEW c \in Threads, saving[c] # NoSave, NEW mine, OwnStep(c, mine),
           NEW y \in Rights, Gone(y)
    PROVE  Gone(y)'
<1>1. /\ mine.item = saving[c].item /\ mine.undo = saving[c].undo
      /\ mine.alone => saving[c].alone
      /\ saving' = [saving EXCEPT ![c] = mine] /\ UNCHANGED <<memory, misplaced>>
  BY DEF OwnStep
<1>2. \A d \in Threads \ {c} : saving'[d] = saving[d]
  BY <1>1 DEF FilesInv, FilesTypeOK
<1>3. saving'[c] = mine
  BY <1>1 DEF FilesInv, FilesTypeOK
<1> SUFFICES ASSUME ~misplaced
             PROVE  /\ y \notin Held(memory'["rules"])
                    /\ \A d \in Threads :
                          saving'[d] # NoSave /\ saving'[d].alone /\ saving'[d].undo.how = "revoke"
                            /\ saving'[d].item = y =>
                              y.permission \notin saving'[d].undo.permissions
  BY <1>1 DEF Gone
<1>4. y \notin Held(memory'["rules"])
  BY <1>1 DEF Gone
<1>5. ASSUME NEW d \in Threads, saving'[d] # NoSave, saving'[d].alone, saving'[d].undo.how = "revoke",
             saving'[d].item = y
      PROVE  y.permission \notin saving'[d].undo.permissions
  <2>1. CASE d = c
    <3>1. saving'[d] = mine
      BY <1>3, <2>1
    <3>2. mine.alone
      BY <1>5, <3>1
    <3>3. mine.undo.how = "revoke" /\ mine.item = y
      BY <1>5, <3>1
    <3>4. saving[c].alone /\ saving[c].undo.how = "revoke" /\ saving[c].item = y
      BY <1>1, <3>2, <3>3
    <3>5. y.permission \notin mine.undo.permissions
      BY <1>1, <3>4 DEF Gone
    <3> QED
      BY <3>1, <3>5
  <2>2. CASE d # c
    BY <1>2, <1>5, <2>2 DEF Gone
  <2> QED
    BY <2>1, <2>2
<1> QED
  BY <1>4, <1>5

LEMMA RenameKeepsGone ==
    ASSUME FilesInv, NEW c \in Threads, Rename(c), NEW y \in Rights, Gone(y)
    PROVE  Gone(y)'
<1>1. Ends(c) /\ UNCHANGED <<memory, misplaced>>
  BY RenameEnds DEF Rename
<1> QED
  BY <1>1 DEF Gone, Ends

LEMMA FailuresKeepGone ==
    ASSUME FilesInv, NEW c \in Threads, OpenFails(c) \/ GiveUp(c), NEW y \in Rights, Gone(y)
    PROVE  Gone(y)'
<1> DEFINE s == saving[c]
           f == s.file
<1>1. s # NoSave /\ Fail(c) /\ Ends(c)
  BY FailureEnds
<1>2. f \in Files /\ memory \in [Files -> Contents]
  BY <1>1, SaveHasType DEF FilesInv, FilesTypeOK
<1>3. PICK content \in Undone(s) : memory' = [memory EXCEPT ![f] = content]
  BY <1>1 DEF Fail
<1>4. misplaced' = (misplaced \/ (f = "rules" /\ ~s.alone)) /\ misplaced \in BOOLEAN
  BY <1>1 DEF Fail, FilesInv, FilesTypeOK
<1>5. ASSUME ~misplaced'
      PROVE  y \notin Held(memory'["rules"])
  <2>1. ~misplaced /\ y \notin Held(memory["rules"]) /\ (f = "rules" => s.alone)
    BY <1>4, <1>5 DEF Gone
  <2>2. CASE f # "rules"
    BY <1>2, <1>3, <2>1, <2>2 DEF Files
  <2>3. CASE f = "rules"
    <3>1. memory'["rules"] = content /\ y \in Items /\ y.file = f
      BY <1>2, <1>3, <2>3, RightHasParts
    <3>2. y # s.item => y \notin Held(content)
      BY <1>1, <2>1, <2>3, <3>1, UndoneIsHarmless
    <3>3. y = s.item => y \notin Held(content)
      <4>1. s.item \in Held(content) =>
              \/ s.item \in Held(memory["rules"])
              \/ s.undo.how = "revoke" /\ s.item.permission \in s.undo.permissions
        BY <1>1, <2>1, <2>3, UndoneIsHarmless
      <4> QED
        BY <1>1, <2>1, <2>3, <4>1 DEF Gone
    <3> QED
      BY <3>1, <3>2, <3>3
  <2> QED
    BY <2>2, <2>3
<1>6. ~misplaced' => ~misplaced
  BY <1>4
<1> QED
  BY <1>1, <1>5, <1>6 DEF Gone, Ends

\* What was asked away before all saves under way, and is not in doubt, is gone.
LEMMA AskedAwayIsGone ==
    ASSUME FilesInv, NEW y \in Rights, y \notin asked, y \notin doubtful, ~BeingSaved(y)
    PROVE  Gone(y)
<1>1. y \in Items /\ y.file = "rules"
  BY RightHasParts
<1>2. ~misplaced => y \notin Held(memory["rules"])
  BY <1>1 DEF FilesInv, FilesAreAsAsked
<1> QED
  BY <1>2 DEF Gone, BeingSaved
-----------------------------------------------------------------------------
(* The inductive invariant of Server *)

Setups == [kind : {"setup"}, name : Users, database : {Star}, table : {Star}]
TableKinds == {"select", "select aggregate", "insert", "update", "delete", "revert",
               "create table", "drop table"}

\* The statements that a request may be about.
Executed ==
    [kind : {"create user"}, name : Users]
    \union [kind : {"use", "create database", "drop database"}, database : Databases]
    \union [kind : {"grant", "revoke"}, name : Users, database : Databases \union {Star},
            table : Tables \union {Star}, permissions : Seq(Permissions)]
    \union [kind : TableKinds, database : Databases, table : Tables]
    \union Setups \union {NoStatement}

Requests ==
    [at : {"none", "authorise", "account", "rules", "route", "saving"},
     user : Users \union {Nobody}, statement : Executed, left : Seq(Permissions),
     barred : SUBSET Items]
Tasks == [user : Users, statement : Executed, barred : SUBSET Items, done : BOOLEAN]

ServerTypes ==
    /\ phase \in [Clients -> {"gone", "setup", "login", "ready", "polling"}]
    /\ token \in [Clients -> Users \union {Nobody}]
    /\ session \in [Clients -> Databases \union {NoDatabase}]
    /\ request \in [Clients -> Requests]
    /\ tasks \in Seq(Tasks)
    /\ poll \in [Clients -> [task : 0 .. Len(tasks), attempts : 0 .. MaxAttempts - 1]]
    /\ requests \in 0 .. MaxRequests /\ kills \in 0 .. MaxKills

\* A request is where its statement takes it, and saves nowhere else.
RequestFits(c) ==
    /\ request[c].at # "none" => request[c].user \in Users
    /\ request[c].at = "account" => request[c].statement.kind \in {"create user", "setup"}
    /\ request[c].at = "rules" => request[c].statement.kind \in {"grant", "revoke", "setup"}
    /\ saving[c] # NoSave => request[c].at \in {"saving", "rules"}

RequestsFit == \A c \in Clients : RequestFits(c)

BarredIsGone ==
    /\ \A c \in Clients : \A y \in request[c].barred : y \in Rights /\ Gone(y)
    /\ \A t \in DOMAIN tasks : \A y \in tasks[t].barred : y \in Rights /\ Gone(y)

ServerInv ==
    /\ FilesInv
    /\ ServerTypes
    /\ RequestsFit
    /\ BarredIsGone
    /\ AdmittedWasAllowed
-----------------------------------------------------------------------------
(* Statements and rights *)

LEMMA ExecutedFacts ==
    ASSUME NEW q \in Executed
    PROVE  /\ q.kind \in {"create user", "grant", "revoke", "setup"} => q.name \in Users
           /\ q.kind \in {"grant", "revoke", "setup"} =>
                 q.database \in Databases \union {Star} /\ q.table \in Tables \union {Star}
           /\ q.kind \in {"use", "create database", "drop database"} => q.database \in Databases
           /\ q.kind \in TableKinds => q.database \in Databases /\ q.table \in Tables
           /\ q.kind \in TableKinds \union {"create user", "use", "create database",
                                            "drop database", "grant", "revoke", "setup", "none"}
<1>1. CASE q \in [kind : {"create user"}, name : Users]
  BY <1>1 DEF TableKinds
<1>2. CASE q \in [kind : {"use", "create database", "drop database"}, database : Databases]
  BY <1>2 DEF TableKinds
<1>3. CASE q \in [kind : {"grant", "revoke"}, name : Users, database : Databases \union {Star},
                  table : Tables \union {Star}, permissions : Seq(Permissions)]
  BY <1>3 DEF TableKinds
<1>4. CASE q \in [kind : TableKinds, database : Databases, table : Tables]
  BY <1>4 DEF TableKinds
<1>5. CASE q \in Setups
  BY <1>5 DEF Setups, TableKinds
<1>6. CASE q = NoStatement
  BY <1>6 DEF NoStatement, TableKinds
<1> QED
  BY <1>1, <1>2, <1>3, <1>4, <1>5, <1>6 DEF Executed

LEMMA QualifiedIsExecuted ==
    ASSUME ServerTypes, NEW c \in Clients, NEW q \in StatementType,
           "database" \in DOMAIN q => Qualified(c, q).database # NoDatabase
    PROVE  Qualified(c, q) \in Executed /\ Qualified(c, q).kind = q.kind
<1>1. session[c] \in Databases \union {NoDatabase}
  BY DEF ServerTypes
<1>2. NoDatabase \notin Databases \union {Star}
  BY ServerAssumption
<1>3. CASE q \in [kind : {"create user"}, name : Users]
  <2>1. Qualified(c, q) = q
    BY <1>3 DEF Qualified
  <2> QED
    BY <1>3, <2>1 DEF Executed
<1>4. CASE q \in [kind : {"use", "create database", "drop database"}, database : Databases]
  <2>1. Qualified(c, q) = q
    BY <1>2, <1>4 DEF Qualified
  <2> QED
    BY <1>4, <2>1 DEF Executed
<1>5. CASE q \in [kind : {"grant", "revoke"}, name : Users, database : Databases \union {Star},
                  table : Tables \union {Star}, permissions : Seq(Permissions)]
  <2>1. Qualified(c, q) = q
    BY <1>2, <1>5 DEF Qualified
  <2> QED
    BY <1>5, <2>1 DEF Executed
<1>6. CASE q \in [kind : TableKinds, database : Databases \union {NoDatabase}, table : Tables]
  <2>1. "database" \in DOMAIN q
    BY <1>6
  <2>2. CASE q.database = NoDatabase
    <3>1. Qualified(c, q) = [q EXCEPT !.database = session[c]]
      BY <2>1, <2>2 DEF Qualified
    <3>2. Qualified(c, q).database = session[c] /\ session[c] \in Databases
      BY <1>1, <1>6, <2>1, <3>1
    <3> QED
      BY <1>6, <3>1, <3>2 DEF Executed
  <2>3. CASE q.database # NoDatabase
    <3>1. Qualified(c, q) = q
      BY <2>1, <2>3 DEF Qualified
    <3> QED
      BY <1>6, <2>3, <3>1 DEF Executed
  <2> QED
    BY <2>2, <2>3
<1> QED
  BY <1>3, <1>4, <1>5, <1>6 DEF StatementType, TableKinds

LEMMA RightsForAreRights ==
    ASSUME NEW user \in Users, NEW database \in Databases \union {Star},
           NEW table \in Tables \union {Star}, NEW p \in Permissions,
           NEW y \in RightsFor(user, database, table, p)
    PROVE  y \in Rights
<1>1. PICK scope \in [user : {user, Star}, database : {database, Star}, table : {table, Star}] :
         y = Right(scope, p)
  BY DEF RightsFor
<1>2. scope \in Scopes
  BY <1>1 DEF Scopes
<1> QED
  BY <1>1, <1>2, RightIsItem

LEMMA RightsToRunAreRights ==
    ASSUME NEW user \in Users, NEW q \in Executed, q.kind # "none",
           NEW y \in RightsToRun(user, q)
    PROVE  y \in Rights
<1>1. "CREATE" \in Permissions /\ PermissionFor(q.kind) \in Permissions
  BY DEF Permissions, PermissionFor
<1> DEFINE p == PermissionFor(q.kind)
<1>2. /\ q.kind = "create user" => RightsToRun(user, q) = RightsFor(user, Star, Star, "CREATE")
      /\ q.kind \in {"grant", "revoke"} =>
            RightsToRun(user, q) = RightsFor(user, q.database, q.table, "CREATE")
      /\ q.kind \in {"create database", "drop database"} =>
            RightsToRun(user, q) = RightsFor(user, q.database, Star, p)
      /\ q.kind = "use" => RightsToRun(user, q) = {}
      /\ q.kind \in TableKinds \union {"setup"} =>
            RightsToRun(user, q) = RightsFor(user, q.database, q.table, p)
  BY DEF RightsToRun, IsUse, TableKinds
<1> HIDE DEF p
<1>3. p \in Permissions
  BY <1>1 DEF p
<1>4. CASE q.kind = "create user"
  <2>1. y \in RightsFor(user, Star, Star, "CREATE")
    BY <1>2, <1>4
  <2>2. Star \in Databases \union {Star} /\ Star \in Tables \union {Star}
    BY <1>4, ExecutedFacts
  <2> QED
    BY <1>1, <2>1, <2>2, RightsForAreRights
<1>5. CASE q.kind \in {"grant", "revoke"}
  <2>1. y \in RightsFor(user, q.database, q.table, "CREATE")
    BY <1>2, <1>5
  <2>2. q.database \in Databases \union {Star} /\ q.table \in Tables \union {Star}
    BY <1>5, ExecutedFacts
  <2> QED
    BY <1>1, <2>1, <2>2, RightsForAreRights
<1>6. CASE q.kind \in {"create database", "drop database"}
  <2>1. y \in RightsFor(user, q.database, Star, p)
    BY <1>2, <1>6
  <2>2. q.database \in Databases \union {Star} /\ Star \in Tables \union {Star}
    BY <1>6, ExecutedFacts
  <2> QED
    BY <1>3, <2>1, <2>2, RightsForAreRights
<1>7. CASE q.kind = "use"
  BY <1>2, <1>7
<1>8. CASE q.kind = "setup"
  <2>1. y \in RightsFor(user, q.database, q.table, p)
    BY <1>2, <1>8
  <2>2. q.database \in Databases \union {Star} /\ q.table \in Tables \union {Star}
    BY <1>8, ExecutedFacts
  <2> QED
    BY <1>3, <2>1, <2>2, RightsForAreRights
<1>9. CASE q.kind \in TableKinds
  <2>1. y \in RightsFor(user, q.database, q.table, p)
    BY <1>2, <1>9
  <2>2. q.database \in Databases \union {Star} /\ q.table \in Tables \union {Star}
    BY <1>9, ExecutedFacts
  <2> QED
    BY <1>3, <2>1, <2>2, RightsForAreRights
<1> QED
  BY <1>4, <1>5, <1>6, <1>7, <1>8, <1>9, ExecutedFacts
-----------------------------------------------------------------------------
(* Steps of a request *)

Admitted == {"account", "rules", "route", "saving"}

\* A step that changes the request of one client.
LEMMA RequestStep ==
    ASSUME ServerInv, FilesInv', ServerTypes', UNCHANGED tasks,
           \A y \in Rights : Gone(y) => Gone(y)',
           NEW c \in Clients, NEW r \in Requests,
           request' = [request EXCEPT ![c] = r],
           \A d \in Clients \ {c} : saving'[d] # NoSave => saving[d] # NoSave,
           RequestFits(c)',
           \A y \in r.barred : y \in Rights /\ Gone(y)',
           misplaced => misplaced',
           r.at \in Admitted => misplaced' \/ AdmittedMay(r.user, r.statement, r.barred)
    PROVE  ServerInv'
<1>1. request'[c] = r /\ \A d \in Clients \ {c} : request'[d] = request[d]
  BY DEF ServerInv, ServerTypes
<1>2. /\ \A d \in Clients : request[d].barred \subseteq Items
      /\ \A t \in DOMAIN tasks : tasks[t].barred \subseteq Items
  <2>1. ASSUME NEW d \in Clients PROVE request[d] \in Requests
    BY DEF ServerInv, ServerTypes
  <2>2. ASSUME NEW t \in DOMAIN tasks PROVE tasks[t] \in Tasks
    BY DEF ServerInv, ServerTypes
  <2> QED
    BY <2>1, <2>2 DEF Requests, Tasks
<1>3. RequestsFit'
  <2> SUFFICES ASSUME NEW d \in Clients PROVE RequestFits(d)'
    BY DEF RequestsFit
  <2>1. CASE d # c
    BY <1>1, <2>1 DEF ServerInv, RequestsFit, RequestFits
  <2> QED
    BY <2>1
<1>4. BarredIsGone'
  <2>1. ASSUME NEW d \in Clients, NEW y \in request'[d].barred
        PROVE  y \in Rights /\ Gone(y)'
    <3>1. CASE d = c
      BY <1>1, <2>1, <3>1
    <3>2. CASE d # c
      BY <1>1, <1>2, <2>1, <3>2 DEF ServerInv, BarredIsGone
    <3> QED
      BY <3>1, <3>2
  <2>2. ASSUME NEW t \in DOMAIN tasks, NEW y \in tasks[t].barred
        PROVE  y \in Rights /\ Gone(y)'
    BY <1>2, <2>2 DEF ServerInv, BarredIsGone
  <2> QED
    BY <2>1, <2>2 DEF BarredIsGone
<1>5. AdmittedWasAllowed'
  <2> SUFFICES ASSUME ~misplaced'
               PROVE  /\ \A d \in Clients : request'[d].at \in Admitted =>
                            AdmittedMay(request'[d].user, request'[d].statement, request'[d].barred)
                      /\ \A t \in DOMAIN tasks :
                            AdmittedMay(tasks[t].user, tasks[t].statement, tasks[t].barred)
    BY DEF AdmittedWasAllowed, Admitted
  <2>1. ASSUME NEW d \in Clients, request'[d].at \in Admitted
        PROVE  AdmittedMay(request'[d].user, request'[d].statement, request'[d].barred)
    <3>1. CASE d = c
      BY <1>1, <2>1, <3>1
    <3>2. CASE d # c
      BY <1>1, <2>1, <3>2 DEF ServerInv, AdmittedWasAllowed, Admitted
    <3> QED
      BY <3>1, <3>2
  <2>2. ASSUME NEW t \in DOMAIN tasks
        PROVE  AdmittedMay(tasks[t].user, tasks[t].statement, tasks[t].barred)
    BY DEF ServerInv, AdmittedWasAllowed
  <2> QED
    BY <2>1, <2>2
<1> QED
  BY <1>3, <1>4, <1>5 DEF ServerInv

\* A step that leaves the requests, the tasks and the files alone.
LEMMA ClientOnlyStep ==
    ASSUME ServerInv, ServerTypes', UNCHANGED <<fileVars, request, tasks>>
    PROVE  ServerInv'
<1>1. FilesInv'
  BY StutterKeepsFilesInv DEF ServerInv
<1>2. UNCHANGED <<memory, saving, misplaced, request, tasks>>
  BY DEF fileVars
<1>3. RequestsFit' /\ BarredIsGone'
  BY <1>2 DEF ServerInv, RequestsFit, RequestFits, BarredIsGone, Gone
<1>4. AdmittedWasAllowed'
  BY <1>2 DEF ServerInv, AdmittedWasAllowed
<1> QED
  BY <1>1, <1>3, <1>4 DEF ServerInv

\* A step of the request of c that leaves the tasks and the files alone.
LEMMA RequestOnlyStep ==
    ASSUME ServerInv, ServerTypes', UNCHANGED fileVars, UNCHANGED tasks,
           NEW c \in Clients, NEW r \in Requests,
           request' = [request EXCEPT ![c] = r],
           saving[c] # NoSave => r.at \in {"saving", "rules"},
           r.at # "none" => r.user \in Users,
           r.at = "account" => r.statement.kind \in {"create user", "setup"},
           r.at = "rules" => r.statement.kind \in {"grant", "revoke", "setup"},
           \A y \in r.barred : y \in Rights /\ Gone(y),
           r.at \in Admitted => misplaced \/ AdmittedMay(r.user, r.statement, r.barred)
    PROVE  ServerInv'
<1>1. FilesInv'
  BY StutterKeepsFilesInv DEF ServerInv
<1>2. UNCHANGED <<memory, saving, misplaced>>
  BY DEF fileVars
<1>3. ASSUME NEW y, Gone(y) PROVE Gone(y)'
  BY <1>2, <1>3 DEF Gone
<1>4. request'[c] = r
  BY DEF ServerInv, ServerTypes
<1>5. RequestFits(c)'
  BY <1>2, <1>4 DEF RequestFits
<1>6. \A y \in r.barred : y \in Rights /\ Gone(y)'
  BY <1>3
<1> QED
  BY <1>1, <1>2, <1>3, <1>5, <1>6, RequestStep

\* An answered request.
LEMMA NoRequestTyped == NoRequest \in Requests
BY DEF NoRequest, NoStatement, Requests, Executed

LEMMA AnswerStep ==
    ASSUME ServerInv, ServerTypes', UNCHANGED fileVars, UNCHANGED tasks,
           NEW c \in Clients, Answer(c), saving[c] = NoSave
    PROVE  ServerInv'
<1> DEFINE r == NoRequest
<1>1. request' = [request EXCEPT ![c] = r]
  BY DEF Answer
<1>2. r.at = "none" /\ r.barred = {} /\ r \in Requests
  BY NoRequestTyped DEF NoRequest
<1> HIDE DEF r
<1>3. \A y \in r.barred : y \in Rights /\ Gone(y)
  BY <1>2
<1> QED
  BY <1>1, <1>2, <1>3, RequestOnlyStep DEF Admitted

\* A request that goes on.
LEMMA GoTyped ==
    ASSUME ServerTypes, NEW c \in Clients,
           NEW at \in {"none", "authorise", "account", "rules", "route", "saving"}
    PROVE  /\ [request[c] EXCEPT !.at = at] \in Requests
           /\ [request EXCEPT ![c].at = at] = [request EXCEPT ![c] = [request[c] EXCEPT !.at = at]]
           /\ [request EXCEPT ![c].at = at] \in [Clients -> Requests]
           /\ [request EXCEPT ![c] = NoRequest] \in [Clients -> Requests]
<1>1. request[c] \in Requests
  BY DEF ServerTypes
<1>2. [request[c] EXCEPT !.at = at] \in Requests
  BY <1>1 DEF Requests
<1>3. [request EXCEPT ![c].at = at] = [request EXCEPT ![c] = [request[c] EXCEPT !.at = at]]
  OBVIOUS
<1> QED
  BY <1>2, <1>3, NoRequestTyped DEF ServerTypes

LEMMA AdmittedGoStep ==
    ASSUME ServerInv, ServerTypes', UNCHANGED fileVars, UNCHANGED tasks,
           NEW c \in Clients, NEW at \in {"account", "rules", "route"}, Go(c, at),
           request[c].at \in {"authorise", "saving"}, saving[c] # NoSave => at = "rules",
           at = "account" => request[c].statement.kind \in {"create user", "setup"},
           at = "rules" => request[c].statement.kind \in {"grant", "revoke", "setup"},
           misplaced \/ AdmittedMay(request[c].user, request[c].statement, request[c].barred)
    PROVE  ServerInv'
<1>1. PICK r : r = [request[c] EXCEPT !.at = at]
  OBVIOUS
<1>2. request' = [request EXCEPT ![c] = r] /\ r \in Requests
  BY <1>1, GoTyped DEF Go, ServerInv
<1>3. request[c] \in Requests
  BY DEF ServerInv, ServerTypes
<1>4. /\ r.at = at /\ r.user = request[c].user /\ r.statement = request[c].statement
      /\ r.barred = request[c].barred
  BY <1>1, <1>3 DEF Requests
<1>5. r.user \in Users
  BY <1>4 DEF ServerInv, RequestsFit, RequestFits
<1>6. \A y \in r.barred : y \in Rights /\ Gone(y)
  BY <1>4 DEF ServerInv, BarredIsGone
<1> QED
  BY <1>2, <1>4, <1>5, <1>6, RequestOnlyStep

\* A request is let through by a permission that it may rely on.
LEMMA AllowedIsAdmitted ==
    ASSUME ServerInv, NEW c \in Clients, Allowed(c)
    PROVE  misplaced \/ AdmittedMay(request[c].user, request[c].statement, request[c].barred)
<1>1. PICK y \in RightsToRun(request[c].user, request[c].statement) : y \in Held(memory["rules"])
  BY DEF Allowed, CheckPermission
<1>2. misplaced \/ y \notin request[c].barred
  BY <1>1 DEF ServerInv, BarredIsGone, Gone
<1> QED
  BY <1>1, <1>2 DEF AdmittedMay
-----------------------------------------------------------------------------
(* The client *)

LEMMA Bounds == MaxAttempts \in Nat \ {0} /\ MaxRequests \in Nat /\ MaxKills \in Nat
BY ServerAssumption

LEMMA NoPollTyped ==
    ASSUME NEW n \in Nat
    PROVE  NoPoll \in [task : 0 .. n, attempts : 0 .. MaxAttempts - 1]
BY Bounds DEF NoPoll

\* c: connects, logs in, logs out, exits, or its token expires.
LEMMA SessionSteps ==
    ASSUME ServerInv, NEW c \in Clients,
           \/ Connect(c) \/ Logout(c) \/ Exit(c) \/ TokenExpires(c)
           \/ \E u \in Users, right \in BOOLEAN : Login(c, u, right)
    PROVE  ServerInv'
<1>1. UNCHANGED <<fileVars, request, tasks, poll, kills>>
  BY DEF Connect, Logout, Exit, TokenExpires, Login, LoggedIn, Refused, threadVars, counters
<1>2. requests' \in 0 .. MaxRequests
  BY Bounds DEF Connect, Logout, Exit, TokenExpires, Login, counters, ServerInv, ServerTypes
<1>3. /\ phase' \in [Clients -> {"gone", "setup", "login", "ready", "polling"}]
      /\ token' \in [Clients -> Users \union {Nobody}]
      /\ session' \in [Clients -> Databases \union {NoDatabase}]
  <2>1. CASE Connect(c)
    BY <2>1 DEF Connect, threadVars, ServerInv, ServerTypes
  <2>2. CASE Logout(c)
    BY <2>2 DEF Logout, threadVars, ServerInv, ServerTypes
  <2>3. CASE Exit(c)
    BY <2>3 DEF Exit, ServerInv, ServerTypes
  <2>4. CASE TokenExpires(c)
    BY <2>4 DEF TokenExpires, threadVars, ServerInv, ServerTypes
  <2>5. ASSUME NEW u \in Users, NEW right \in BOOLEAN, Login(c, u, right)
        PROVE  /\ phase' \in [Clients -> {"gone", "setup", "login", "ready", "polling"}]
               /\ token' \in [Clients -> Users \union {Nobody}]
               /\ session' \in [Clients -> Databases \union {NoDatabase}]
    BY <2>5 DEF Login, LoggedIn, Refused, ServerInv, ServerTypes
  <2> QED
    BY <2>1, <2>2, <2>3, <2>4, <2>5
<1>4. ServerTypes'
  BY <1>1, <1>2, <1>3 DEF ServerInv, ServerTypes
<1> QED
  BY <1>1, <1>4, ClientOnlyStep

LEMMA PollStep ==
    ASSUME ServerInv, NEW c \in Clients, PollTask(c)
    PROVE  ServerInv'
<1> DEFINE Polls == [task : 0 .. Len(tasks), attempts : 0 .. MaxAttempts - 1]
<1>1. UNCHANGED <<fileVars, token, session, request, tasks, requests, kills>>
  BY DEF PollTask, threadVars, counters
<1>2. Len(tasks) \in Nat /\ poll[c] \in Polls
  BY DEF ServerInv, ServerTypes
<1>3. NoPoll \in Polls
  BY <1>2, NoPollTyped
<1>4. phase' = [phase EXCEPT ![c] = IF Again(c) THEN "polling" ELSE "ready"]
  BY DEF PollTask
<1>5. ASSUME Again(c) PROVE poll' \in [Clients -> Polls]
  <2>1. poll' = [poll EXCEPT ![c].attempts = poll[c].attempts + 1]
    BY <1>5 DEF PollTask
  <2>2. [poll[c] EXCEPT !.attempts = poll[c].attempts + 1] \in Polls
    BY <1>2, <1>5, Bounds DEF Again
  <2> QED
    BY <2>1, <2>2 DEF ServerInv, ServerTypes
<1>6. poll' \in [Clients -> Polls]
  BY <1>3, <1>5 DEF PollTask, ServerInv, ServerTypes
<1>7. ServerTypes'
  BY <1>1, <1>4, <1>6 DEF ServerInv, ServerTypes
<1> QED
  BY <1>1, <1>7, ClientOnlyStep

LEMMA IdleSavesNothing ==
    ASSUME ServerInv, NEW c \in Clients, request[c] = NoRequest
    PROVE  saving[c] = NoSave
<1>1. request[c].at = "none"
  BY DEF NoRequest
<1>2. RequestFits(c)
  BY DEF ServerInv, RequestsFit
<1> QED
  BY <1>1, <1>2 DEF RequestFits

LEMMA CreateSuperuserStep ==
    ASSUME ServerInv, NEW c \in Clients, NEW u \in Users, CreateSuperuser(c, u)
    PROVE  ServerInv'
<1>1. /\ UNCHANGED <<fileVars, poll, tasks, kills>>
      /\ requests' \in 0 .. MaxRequests /\ request[c] = NoRequest
  BY Bounds DEF CreateSuperuser, ServerInv, ServerTypes
<1>2. CASE NoAccounts
  <2> DEFINE q == [kind |-> "setup", name |-> u, database |-> Star, table |-> Star]
  <2>1. PICK r : r = Request("account", u, q, AllPermissions, {})
    OBVIOUS
  <2>2. request' = [request EXCEPT ![c] = r] /\ UNCHANGED <<phase, token, session>>
    BY <1>2, <2>1 DEF CreateSuperuser
  <2>3. q \in Executed
    BY DEF Executed, Setups
  <2>4. /\ r \in Requests /\ r.at = "account" /\ r.user = u /\ r.statement = q /\ r.barred = {}
    BY <2>1, <2>3, ServerAssumption DEF Request, Requests
  <2>5. ServerTypes'
    BY <1>1, <2>2, <2>4 DEF ServerInv, ServerTypes
  <2>6. AdmittedMay(r.user, r.statement, r.barred) /\ r.statement.kind = "setup"
    BY <2>4 DEF AdmittedMay
  <2>7. saving[c] = NoSave
    BY <1>1, IdleSavesNothing
  <2> QED
    BY <1>1, <2>2, <2>4, <2>5, <2>6, <2>7, RequestOnlyStep
<1>3. CASE ~NoAccounts
  <2>1. Refused(c) /\ UNCHANGED request
    BY <1>3 DEF CreateSuperuser
  <2>2. ServerTypes'
    BY <1>1, <2>1 DEF Refused, ServerInv, ServerTypes
  <2> QED
    BY <1>1, <2>1, <2>2, ClientOnlyStep
<1> QED
  BY <1>2, <1>3

LEMMA AccountMakesUser ==
    ASSUME ServerInv, NEW u \in Users \union {Nobody}, HasAccount(u)
    PROVE  u \in Users
<1>1. Account(u) \in Names /\ Account(u).file = "accounts"
  BY DEF HasAccount, ServerInv, FilesInv, FilesTypeOK, Contents, Files, Account
<1>2. \A d \in Databases : Account(u) # Database(d)
  BY <1>1 DEF Database
<1>3. PICK v \in Users : Account(u) = Account(v)
  BY <1>1, <1>2 DEF Names
<1> QED
  BY <1>3 DEF Account

LEMMA QueryStep ==
    ASSUME ServerInv, NEW c \in Clients, NEW q \in Statements, Query(c, q)
    PROVE  ServerInv'
<1> DEFINE statement == Qualified(c, q)
           named == "database" \in DOMAIN q => statement.database # NoDatabase
           left == IF q.kind \in {"grant", "revoke"} THEN q.permissions ELSE <<>>
           rights == RightsToRun(token[c], statement)
<1>1. /\ UNCHANGED <<fileVars, clientVars, session, tasks, kills>>
      /\ requests' \in 0 .. MaxRequests /\ request[c] = NoRequest
  BY Bounds DEF Query, Idle, ServerInv, ServerTypes
<1>2. UNCHANGED <<phase, token, poll>>
  BY <1>1 DEF clientVars
<1>3. CASE HasAccount(token[c]) /\ named
  <2>1. PICK r : r = Request("authorise", token[c], statement, left, Barred(rights))
    OBVIOUS
  <2>2. request' = [request EXCEPT ![c] = r]
    BY <1>3, <2>1 DEF Query
  <2>3. token[c] \in Users
    BY <1>3, AccountMakesUser DEF ServerInv, ServerTypes
  <2>4. q \in StatementType /\ statement \in Executed /\ statement.kind = q.kind
    BY <1>3, QualifiedIsExecuted, ServerAssumption DEF ServerInv
  <2>5. q.kind # "none"
    BY <2>4 DEF StatementType
  <2>6. ASSUME NEW y \in Barred(rights)
        PROVE  y \in Items /\ y \in Rights /\ Gone(y)
    <3>1. y \in rights /\ y \notin asked /\ y \notin doubtful /\ ~BeingSaved(y)
      BY DEF Barred
    <3>2. y \in Rights
      BY <2>3, <2>4, <2>5, <3>1, RightsToRunAreRights
    <3> QED
      BY <3>1, <3>2, AskedAwayIsGone, RightHasParts DEF ServerInv
  <2>7. left \in Seq(Permissions)
    <3>1. CASE q.kind \in {"grant", "revoke"}
      <4>1. q \in [kind : {"grant", "revoke"}, name : Users, database : Databases \union {Star},
                   table : Tables \union {Star}, permissions : Seq(Permissions)]
        BY <2>4, <3>1 DEF StatementType
      <4> QED
        BY <3>1, <4>1
    <3>2. CASE q.kind \notin {"grant", "revoke"}
      BY <3>2
    <3> QED
      BY <3>1, <3>2
  <2> HIDE DEF statement, left, rights
  <2>8. /\ r \in Requests /\ r.at = "authorise" /\ r.user = token[c] /\ r.barred = Barred(rights)
    BY <2>1, <2>3, <2>4, <2>6, <2>7 DEF Request, Requests
  <2>9. ServerTypes'
    BY <1>1, <1>2, <2>2, <2>8 DEF ServerInv, ServerTypes
  <2>10. saving[c] = NoSave
    BY <1>1, IdleSavesNothing
  <2> QED
    BY <1>1, <2>2, <2>3, <2>6, <2>8, <2>9, <2>10, RequestOnlyStep DEF Admitted
<1>4. CASE ~(HasAccount(token[c]) /\ named)
  <2>1. request' = request
    BY <1>4 DEF Query
  <2>2. ServerTypes'
    BY <1>1, <1>2, <2>1 DEF ServerInv, ServerTypes
  <2> QED
    BY <1>1, <2>1, <2>2, ClientOnlyStep
<1> QED
  BY <1>3, <1>4
-----------------------------------------------------------------------------
(* What the thread of a connection does *)

LEMMA RequestFacts ==
    ASSUME ServerInv, NEW c \in Clients
    PROVE  /\ request[c] \in Requests /\ request[c].statement \in Executed
           /\ request[c].left \in Seq(Permissions)
           /\ request[c].at # "none" => request[c].user \in Users
           /\ request[c].at \notin {"saving", "rules"} => saving[c] = NoSave
<1>1. request[c] \in Requests /\ RequestFits(c)
  BY DEF ServerInv, ServerTypes, RequestsFit
<1> QED
  BY <1>1 DEF Requests, RequestFits

LEMMA AuthoriseSteps ==
    ASSUME ServerInv, NEW c \in Clients,
           UseDatabase(c) \/ Deny(c) \/ AllowCreateUser(c) \/ AllowUpdateRules(c) \/ AllowRoute(c)
    PROVE  ServerInv'
<1>1. /\ request[c].at = "authorise"
      /\ UNCHANGED <<fileVars, clientVars, tasks, counters>>
  BY DEF UseDatabase, Deny, AllowCreateUser, AllowUpdateRules, AllowRoute, Authorising
<1>2. UNCHANGED <<phase, token, poll, requests, kills>>
  BY <1>1 DEF clientVars, counters
<1>3. saving[c] = NoSave
  BY <1>1, RequestFacts
<1>4. ASSUME session' \in [Clients -> Databases \union {NoDatabase}], Answer(c) PROVE ServerInv'
  <2>1. ServerTypes'
    BY <1>1, <1>2, <1>4, GoTyped DEF Answer, ServerInv, ServerTypes
  <2> QED
    BY <1>1, <1>3, <1>4, <2>1, AnswerStep
<1>5. ASSUME UNCHANGED session, NEW at \in {"account", "rules", "route"}, Go(c, at), Allowed(c),
             at = "account" => request[c].statement.kind \in {"create user", "setup"},
             at = "rules" => request[c].statement.kind \in {"grant", "revoke", "setup"}
      PROVE  ServerInv'
  <2>1. ServerTypes'
    BY <1>1, <1>2, <1>5, GoTyped DEF Go, ServerInv, ServerTypes
  <2> QED
    BY <1>1, <1>3, <1>5, <2>1, AllowedIsAdmitted, AdmittedGoStep
<1>6. session \in [Clients -> Databases \union {NoDatabase}]
  BY DEF ServerInv, ServerTypes
<1>7. CASE UseDatabase(c)
  <2>1. request[c].statement.database \in Databases
    BY <1>7, RequestFacts, ExecutedFacts DEF UseDatabase, IsUse
  <2>2. session' \in [Clients -> Databases \union {NoDatabase}]
    BY <1>6, <1>7, <2>1 DEF UseDatabase
  <2> QED
    BY <1>4, <1>7, <2>2 DEF UseDatabase
<1>8. CASE Deny(c)
  BY <1>4, <1>6, <1>8 DEF Deny
<1>9. CASE AllowCreateUser(c)
  BY <1>4, <1>5, <1>6, <1>9 DEF AllowCreateUser
<1>10. CASE AllowUpdateRules(c)
  BY <1>4, <1>5, <1>6, <1>10 DEF AllowUpdateRules
<1>11. CASE AllowRoute(c)
  BY <1>5, <1>11 DEF AllowRoute
<1> QED
  BY <1>7, <1>8, <1>9, <1>10, <1>11

LEMMA RulesUpdatedStep ==
    ASSUME ServerInv, NEW c \in Clients, RulesUpdated(c)
    PROVE  ServerInv'
<1>1. /\ request[c].at = "rules" /\ saving[c] = NoSave /\ Answer(c)
      /\ UNCHANGED <<fileVars, poll, session, tasks, requests, kills>>
  BY DEF RulesUpdated, counters
<1>2. request[c].user \in Users
  BY <1>1, RequestFacts
<1>3. ServerTypes'
  <2>1. /\ phase' \in [Clients -> {"gone", "setup", "login", "ready", "polling"}]
        /\ token' \in [Clients -> Users \union {Nobody}]
    BY <1>2 DEF RulesUpdated, LoggedIn, ServerInv, ServerTypes
  <2>2. request' \in [Clients -> Requests]
    BY <1>1, NoRequestTyped DEF Answer, ServerInv, ServerTypes
  <2> QED
    BY <1>1, <2>1, <2>2 DEF ServerInv, ServerTypes
<1> QED
  BY <1>1, <1>3, AnswerStep

LEMMA SubmitStep ==
    ASSUME ServerInv, NEW c \in Clients, Submit(c)
    PROVE  ServerInv'
<1> DEFINE task == [user |-> request[c].user, statement |-> request[c].statement,
                    barred |-> request[c].barred, done |-> FALSE]
<1>1. /\ request[c].at = "authorise" /\ Allowed(c)
      /\ tasks' = Append(tasks, task)
      /\ request' = [request EXCEPT ![c] = NoRequest]
      /\ phase' = [phase EXCEPT ![c] = "polling"]
      /\ poll' = [poll EXCEPT ![c] = [task |-> Len(tasks) + 1, attempts |-> 0]]
      /\ UNCHANGED <<fileVars, token, session, requests, kills>>
  BY DEF Submit, Authorising, Answer, counters
<1>2. /\ request[c] \in Requests /\ request[c].user \in Users /\ saving[c] = NoSave
  BY <1>1, RequestFacts
<1>3. task \in Tasks
  BY <1>2 DEF Requests, Tasks
<1>4. tasks \in Seq(Tasks) /\ Len(tasks) \in Nat
  BY DEF ServerInv, ServerTypes
<1>5. UNCHANGED <<memory, saving, misplaced>>
  BY <1>1 DEF fileVars
<1> HIDE DEF task
<1>6. /\ tasks' \in Seq(Tasks) /\ Len(tasks') = Len(tasks) + 1
      /\ \A t \in DOMAIN tasks' : \/ t \in DOMAIN tasks /\ tasks'[t] = tasks[t]
                                  \/ tasks'[t] = task
  BY <1>1, <1>3, <1>4
<1>7. ServerTypes'
  <2>1. poll' \in [Clients -> [task : 0 .. Len(tasks'), attempts : 0 .. MaxAttempts - 1]]
    <3> DEFINE Polls == [task : 0 .. Len(tasks'), attempts : 0 .. MaxAttempts - 1]
    <3>1. [task |-> Len(tasks) + 1, attempts |-> 0] \in Polls
      BY <1>4, <1>6, Bounds
    <3>2. ASSUME NEW d \in Clients PROVE poll[d] \in Polls
      <4>1. poll[d] \in [task : 0 .. Len(tasks), attempts : 0 .. MaxAttempts - 1]
        BY DEF ServerInv, ServerTypes
      <4> QED
        BY <1>4, <1>6, <4>1
    <3>3. poll = [d \in Clients |-> poll[d]]
      BY DEF ServerInv, ServerTypes
    <3> HIDE DEF Polls
    <3>4. poll' \in [Clients -> Polls]
      BY <1>1, <3>1, <3>2, <3>3
    <3> QED
      BY <3>4 DEF Polls
  <2>2. request' \in [Clients -> Requests]
    BY <1>1, NoRequestTyped DEF ServerInv, ServerTypes
  <2> QED
    BY <1>1, <1>6, <2>1, <2>2 DEF ServerInv, ServerTypes
<1>8. FilesInv'
  BY <1>1, StutterKeepsFilesInv DEF ServerInv
<1>9. request'[c] = NoRequest /\ \A d \in Clients \ {c} : request'[d] = request[d]
  BY <1>1 DEF ServerInv, ServerTypes
<1>10. NoRequest.at = "none" /\ NoRequest.barred = {}
  BY DEF NoRequest
<1>11. RequestsFit'
  <2> SUFFICES ASSUME NEW d \in Clients PROVE RequestFits(d)'
    BY DEF RequestsFit
  <2>1. RequestFits(d)
    BY DEF ServerInv, RequestsFit
  <2> QED
    BY <1>2, <1>5, <1>9, <1>10, <2>1 DEF RequestFits
<1>12. BarredIsGone'
  <2>1. \A y : Gone(y) => Gone(y)'
    BY <1>5 DEF Gone
  <2>2. task.barred = request[c].barred
    BY DEF task
  <2>3. ASSUME NEW d \in Clients, NEW y \in request'[d].barred PROVE y \in Rights /\ Gone(y)'
    BY <1>9, <1>10, <2>1, <2>3 DEF ServerInv, BarredIsGone
  <2>4. ASSUME NEW t \in DOMAIN tasks', NEW y \in tasks'[t].barred
        PROVE  y \in Rights /\ Gone(y)'
    BY <1>6, <2>1, <2>2, <2>4 DEF ServerInv, BarredIsGone
  <2> QED
    BY <2>3, <2>4 DEF BarredIsGone
<1>13. AdmittedWasAllowed'
  <2> SUFFICES ASSUME ~misplaced
               PROVE  /\ \A d \in Clients : request'[d].at \in Admitted =>
                            AdmittedMay(request'[d].user, request'[d].statement, request'[d].barred)
                      /\ \A t \in DOMAIN tasks' :
                            AdmittedMay(tasks'[t].user, tasks'[t].statement, tasks'[t].barred)
    BY <1>5 DEF AdmittedWasAllowed, Admitted
  <2>1. AdmittedMay(task.user, task.statement, task.barred)
    BY <1>1, AllowedIsAdmitted DEF task
  <2>2. ASSUME NEW d \in Clients, request'[d].at \in Admitted
        PROVE  AdmittedMay(request'[d].user, request'[d].statement, request'[d].barred)
    BY <1>9, <1>10, <2>2 DEF ServerInv, AdmittedWasAllowed, Admitted
  <2>3. ASSUME NEW t \in DOMAIN tasks'
        PROVE  AdmittedMay(tasks'[t].user, tasks'[t].statement, tasks'[t].barred)
    BY <1>6, <2>1 DEF ServerInv, AdmittedWasAllowed
  <2> QED
    BY <2>2, <2>3
<1> QED
  BY <1>7, <1>8, <1>11, <1>12, <1>13 DEF ServerInv
-----------------------------------------------------------------------------
(* What is allowed is done. *)

\* An update of the files by c, after which it saves.
LEMMA UpdateGoesOn ==
    ASSUME ServerInv, FilesInv', NEW c \in Clients, request[c].at \in {"account", "route"},
           \A y \in Rights : Gone(y) => Gone(y)',
           \A d \in Clients \ {c} : saving'[d] # NoSave => saving[d] # NoSave,
           UNCHANGED misplaced, Go(c, "saving"), UNCHANGED <<clientVars, session, tasks, counters>>
    PROVE  ServerInv'
<1>1. UNCHANGED <<phase, token, poll, session, tasks, requests, kills>>
  BY DEF clientVars, counters
<1>2. PICK r : r = [request[c] EXCEPT !.at = "saving"]
  OBVIOUS
<1>3. request' = [request EXCEPT ![c] = r] /\ r \in Requests
  BY <1>2, GoTyped DEF Go, ServerInv
<1>4. request[c] \in Requests /\ request[c].user \in Users
  BY RequestFacts
<1>5. /\ r.at = "saving" /\ r.user = request[c].user /\ r.statement = request[c].statement
      /\ r.barred = request[c].barred /\ r.barred \subseteq Items
  BY <1>2, <1>4 DEF Requests
<1>6. ServerTypes'
  BY <1>1, <1>3 DEF ServerInv, ServerTypes
<1>7. RequestFits(c)'
  <2>1. request'[c] = r
    BY <1>3 DEF ServerInv, ServerTypes
  <2> QED
    BY <1>4, <1>5, <2>1 DEF RequestFits
<1>8. \A y \in r.barred : y \in Rights /\ Gone(y)'
  BY <1>5 DEF ServerInv, BarredIsGone
<1>9. misplaced \/ AdmittedMay(r.user, r.statement, r.barred)
  BY <1>5 DEF ServerInv, AdmittedWasAllowed
<1> QED
  BY <1>1, <1>3, <1>6, <1>7, <1>8, <1>9, RequestStep

\* No other thread begins to save.
LEMMA OnlyOneSaves ==
    ASSUME NEW c \in Threads, NEW f, NEW x, NEW content, NEW undo, NEW again,
           Update(c, f, x, content, undo, again), NEW d \in Threads \ {c}, saving'[d] # NoSave
    PROVE  saving[d] # NoSave
<1>1. d \in SavingWith(c, f) => saving[d] # NoSave
  BY DEF SavingWith
<1>2. d \notin SavingWith(c, f) => saving'[d] = saving[d]
  BY DEF Update
<1> QED
  BY <1>1, <1>2

LEMMA InsertAccountStep ==
    ASSUME ServerInv, NEW c \in Clients, InsertAccount(c)
    PROVE  ServerInv'
<1> DEFINE u == request[c].statement.name
<1>1. /\ request[c].at = "account" /\ CreateAccount(c, u) /\ Go(c, "saving")
      /\ UNCHANGED <<clientVars, session, tasks, counters>>
  BY DEF InsertAccount
<1>2. u \in Users
  BY <1>1, RequestFacts, ExecutedFacts DEF ServerInv, RequestsFit, RequestFits
<1>3. \A d \in Clients \ {c} : saving'[d] # NoSave => saving[d] # NoSave
  BY <1>1, OnlyOneSaves DEF CreateAccount, UpdateNames, Clients
<1> HIDE DEF u
<1>4. EditsNames(c) /\ UNCHANGED misplaced
  <2>1. EditsNames(c)
    BY <1>1, <1>2, CreateAccountEdits DEF Clients, ServerInv
  <2> QED
    BY <1>1, <2>1 DEF CreateAccount, UpdateNames, Update
<1>5. FilesInv' /\ \A y \in Rights : Gone(y) => Gone(y)'
  BY <1>4, NamesKeepFilesInv, OthersKeepGone DEF Clients, ServerInv
<1> QED
  BY <1>1, <1>3, <1>4, <1>5, UpdateGoesOn

LEMMA RouteStep ==
    ASSUME ServerInv, NEW c \in Clients, Route(c)
    PROVE  ServerInv'
<1> DEFINE d == request[c].statement.database
<1>1. request[c].at = "route" /\ UNCHANGED <<clientVars, session, tasks, counters>>
  BY DEF Route
<1>2. \/ /\ request[c].statement.kind \in {"create database", "drop database"}
         /\ CreateDatabase(c, d) \/ DropDatabase(c, d)
         /\ Go(c, "saving")
      \/ UpdateTables(c) /\ Go(c, "saving")
      \/ Answer(c) /\ UNCHANGED fileVars
  BY DEF Route
<1>3. CASE Answer(c) /\ UNCHANGED fileVars
  <2>1. saving[c] = NoSave
    BY <1>1, RequestFacts
  <2>2. ServerTypes'
    BY <1>1, <1>3, NoRequestTyped DEF Answer, clientVars, counters, ServerInv, ServerTypes
  <2> QED
    BY <1>1, <1>3, <2>1, <2>2, AnswerStep
<1>4. ASSUME request[c].statement.kind \in {"create database", "drop database"},
             CreateDatabase(c, d) \/ DropDatabase(c, d), Go(c, "saving")
      PROVE  ServerInv'
  <2>1. d \in Databases
    BY <1>4, RequestFacts, ExecutedFacts
  <2>2. \A e \in Clients \ {c} : saving'[e] # NoSave => saving[e] # NoSave
    BY <1>4, OnlyOneSaves DEF CreateDatabase, DropDatabase, UpdateNames, Clients
  <2> HIDE DEF d
  <2>3. EditsNames(c)
    BY <1>4, <2>1, DatabasesEdit DEF Clients, ServerInv
  <2>4. UNCHANGED misplaced
    BY <1>4 DEF CreateDatabase, DropDatabase, UpdateNames, Update
  <2>5. FilesInv' /\ \A y \in Rights : Gone(y) => Gone(y)'
    BY <2>3, NamesKeepFilesInv, OthersKeepGone DEF Clients, ServerInv
  <2> QED
    BY <1>1, <1>4, <2>2, <2>4, <2>5, UpdateGoesOn
<1>5. CASE UpdateTables(c) /\ Go(c, "saving")
  <2>1. \A e \in Clients \ {c} : saving'[e] # NoSave => saving[e] # NoSave
    BY <1>5, OnlyOneSaves DEF UpdateTables, Clients
  <2>2. FilesInv' /\ \A y \in Rights : Gone(y) => Gone(y)'
    BY <1>5, TablesKeepFilesInv, OthersKeepGone DEF Clients, ServerInv
  <2>3. UNCHANGED misplaced
    BY <1>5 DEF UpdateTables, Update
  <2> QED
    BY <1>1, <1>5, <2>1, <2>2, <2>3, UpdateGoesOn
<1> QED
  BY <1>2, <1>3, <1>4, <1>5

LEMMA SaveGoesOnStep ==
    ASSUME ServerInv, NEW c \in Clients, SaveGoesOn(c)
    PROVE  ServerInv'
<1>1. /\ Open(c) \/ Write(c) \/ WriteIsLost(c) \/ WriteFails(c) \/ RenameFails(c)
      /\ UNCHANGED <<clientVars, threadVars, counters>>
  BY DEF SaveGoesOn
<1>2. FilesInv' /\ saving[c] # NoSave /\ \E mine : OwnStep(c, mine)
  BY <1>1, SavingKeepsFilesInv DEF Clients, ServerInv
<1>3. UNCHANGED <<phase, token, poll, session, request, tasks, requests, kills>>
  BY <1>1 DEF clientVars, threadVars, counters
<1>4. ServerTypes'
  BY <1>3 DEF ServerInv, ServerTypes
<1>5. ASSUME NEW y \in Rights, Gone(y) PROVE Gone(y)'
  BY <1>2, <1>5, SavingKeepsGone DEF Clients, ServerInv
<1>6. UNCHANGED misplaced /\ \A d \in Clients : saving'[d] # NoSave => saving[d] # NoSave
  <2>1. PICK mine : OwnStep(c, mine)
    BY <1>2
  <2>2. saving' = [saving EXCEPT ![c] = mine] /\ UNCHANGED misplaced
    BY <2>1 DEF OwnStep
  <2>3. \A d \in Clients \ {c} : saving'[d] = saving[d]
    BY <2>2 DEF Clients, ServerInv, FilesInv, FilesTypeOK
  <2> QED
    BY <1>2, <2>2, <2>3
<1>7. PICK r : r = request[c]
  OBVIOUS
<1>8. r \in Requests /\ request' = [request EXCEPT ![c] = r]
  BY <1>3, <1>7 DEF ServerInv, ServerTypes
<1>9. RequestFits(c)'
  BY <1>3, <1>6 DEF ServerInv, RequestsFit, RequestFits
<1>10. \A y \in r.barred : y \in Rights /\ Gone(y)'
  BY <1>5, <1>7 DEF ServerInv, BarredIsGone
<1>11. r.at \in Admitted => misplaced \/ AdmittedMay(r.user, r.statement, r.barred)
  BY <1>7 DEF ServerInv, AdmittedWasAllowed, Admitted
<1> QED
  BY <1>2, <1>3, <1>4, <1>5, <1>6, <1>8, <1>9, <1>10, <1>11, RequestStep

\* What a request is after the save of its thread: answered, at the rules of a
\* setup, with the router again, or where it was.
LEMMA ContinueTyped ==
    ASSUME ServerInv, NEW c \in Clients, NEW success \in BOOLEAN, Continue(c, success)
    PROVE  /\ ServerTypes' /\ UNCHANGED tasks
           /\ \/ Answer(c)
              \/ Go(c, "rules") /\ request[c].statement.kind = "setup" /\ request[c].at = "saving"
              \/ Go(c, "route")
              \/ UNCHANGED request
<1>1. UNCHANGED <<poll, tasks, requests, kills>>
  BY DEF Continue, counters
<1>2. \/ Answer(c) /\ Refused(c)
      \/ Answer(c) /\ UNCHANGED <<phase, token, session>>
      \/ /\ Go(c, "rules") /\ request[c].statement.kind = "setup" /\ request[c].at = "saving"
         /\ UNCHANGED <<phase, token, session>>
      \/ Go(c, "route") /\ UNCHANGED <<phase, token, session>>
      \/ UNCHANGED <<request, phase, token, session>>
  BY DEF Continue
<1>3. request' \in [Clients -> Requests]
  <2>1. Answer(c) => request' \in [Clients -> Requests]
    BY NoRequestTyped DEF Answer, ServerInv, ServerTypes
  <2>2. Go(c, "rules") \/ Go(c, "route") => request' \in [Clients -> Requests]
    BY GoTyped DEF Go, ServerInv
  <2>3. UNCHANGED request => request' \in [Clients -> Requests]
    BY DEF ServerInv, ServerTypes
  <2> QED
    BY <1>2, <2>1, <2>2, <2>3
<1>4. /\ phase' \in [Clients -> {"gone", "setup", "login", "ready", "polling"}]
      /\ token' \in [Clients -> Users \union {Nobody}]
      /\ session' \in [Clients -> Databases \union {NoDatabase}]
  BY <1>2 DEF Refused, ServerInv, ServerTypes
<1>5. ServerTypes'
  BY <1>1, <1>3, <1>4 DEF ServerInv, ServerTypes
<1> QED
  BY <1>1, <1>2, <1>5

LEMMA SaveIsOverStep ==
    ASSUME ServerInv, NEW c \in Clients, SaveSucceeds(c) \/ SaveFails(c)
    PROVE  ServerInv'
<1>1. /\ Rename(c) \/ OpenFails(c) \/ GiveUp(c)
      /\ \E success \in BOOLEAN : Continue(c, success)
  BY DEF SaveSucceeds, SaveFails
<1>2. FilesInv'
  BY <1>1, RenameKeepsFilesInv, FailuresKeepFilesInv DEF Clients, ServerInv
<1>3. ASSUME NEW y \in Rights, Gone(y) PROVE Gone(y)'
  BY <1>1, <1>3, RenameKeepsGone, FailuresKeepGone DEF Clients, ServerInv
<1>4. Ends(c) /\ saving[c] # NoSave
  <2>1. Rename(c) => saving[c] # NoSave
    BY AtIsSave DEF Rename, Clients, ServerInv
  <2> QED
    BY <1>1, <2>1, RenameEnds, FailureEnds DEF Clients, ServerInv
<1>5. saving'[c] = NoSave /\ \A d \in Clients \ {c} : saving'[d] # NoSave => saving[d] # NoSave
  BY <1>4 DEF Ends, Clients
<1>5a. misplaced => misplaced'
  BY <1>1 DEF Rename, OpenFails, GiveUp, Fail
<1>6. /\ ServerTypes' /\ UNCHANGED tasks
      /\ \/ Answer(c)
         \/ Go(c, "rules") /\ request[c].statement.kind = "setup" /\ request[c].at = "saving"
         \/ Go(c, "route")
         \/ UNCHANGED request
  BY <1>1, ContinueTyped
<1>7. request[c] \in Requests /\ (request[c].at # "none" => request[c].user \in Users)
  BY RequestFacts
<1>8. /\ \A y \in request[c].barred : y \in Rights /\ Gone(y)
      /\ request[c].at \in Admitted
      /\ misplaced \/ AdmittedMay(request[c].user, request[c].statement, request[c].barred)
      /\ request[c].at = "account" => request[c].statement.kind \in {"create user", "setup"}
      /\ request[c].at = "rules" => request[c].statement.kind \in {"grant", "revoke", "setup"}
  <2>1. RequestFits(c) /\ request[c].at \in Admitted
    BY <1>4 DEF ServerInv, RequestsFit, RequestFits, Admitted
  <2> QED
    BY <2>1 DEF ServerInv, BarredIsGone, AdmittedWasAllowed, Admitted, RequestFits
<1>9. PICK r \in Requests :
        /\ request' = [request EXCEPT ![c] = r]
        /\ \/ r = NoRequest
           \/ /\ r = [request[c] EXCEPT !.at = "rules"]
              /\ request[c].statement.kind = "setup" /\ request[c].at = "saving"
           \/ r = [request[c] EXCEPT !.at = "route"]
           \/ r = request[c]
  <2>1. CASE Answer(c)
    BY <2>1, NoRequestTyped DEF Answer
  <2>2. CASE Go(c, "rules") /\ request[c].statement.kind = "setup" /\ request[c].at = "saving"
    BY <2>2, GoTyped DEF Go, ServerInv
  <2>3. CASE UNCHANGED request
    BY <1>7, <2>3 DEF ServerInv, ServerTypes
  <2>4. CASE Go(c, "route")
    BY <2>4, GoTyped DEF Go, ServerInv
  <2> QED
    BY <1>6, <2>1, <2>2, <2>3, <2>4
<1>10. /\ r.at # "none" => r.user \in Users
       /\ r.at = "account" => r.statement.kind \in {"create user", "setup"}
       /\ r.at = "rules" => r.statement.kind \in {"grant", "revoke", "setup"}
       /\ \A y \in r.barred : y \in Rights /\ Gone(y)
       /\ r.at \in Admitted => misplaced \/ AdmittedMay(r.user, r.statement, r.barred)
  <2>1. CASE r = NoRequest
    BY <2>1 DEF NoRequest, Admitted
  <2>2. CASE r = [request[c] EXCEPT !.at = "rules"] /\ request[c].statement.kind = "setup"
               /\ request[c].at = "saving"
    <3>1. /\ r.at = "rules" /\ r.user = request[c].user /\ r.statement = request[c].statement
          /\ r.barred = request[c].barred
      BY <1>7, <2>2 DEF Requests
    <3> QED
      BY <1>7, <1>8, <2>2, <3>1 DEF Admitted
  <2>3. CASE r = request[c]
    BY <1>7, <1>8, <2>3
  <2>4. CASE r = [request[c] EXCEPT !.at = "route"]
    <3>1. /\ r.at = "route" /\ r.user = request[c].user /\ r.statement = request[c].statement
          /\ r.barred = request[c].barred
      BY <1>7, <2>4 DEF Requests
    <3> QED
      BY <1>7, <1>8, <3>1 DEF Admitted
  <2> QED
    BY <1>9, <2>1, <2>2, <2>3, <2>4
<1>11. RequestFits(c)'
  <2>1. request'[c] = r
    BY <1>9 DEF ServerInv, ServerTypes
  <2> QED
    BY <1>5, <1>10, <2>1 DEF RequestFits
<1>12. \A y \in r.barred : y \in Rights /\ Gone(y)'
  BY <1>3, <1>10 DEF Requests
<1> QED
  BY <1>2, <1>3, <1>5, <1>6, <1>9, <1>10, <1>11, <1>12, <1>5a, RequestStep

LEMMA RunTaskStep ==
    ASSUME ServerInv, NEW t \in DOMAIN tasks, RunTask(t)
    PROVE  ServerInv'
<1>1. /\ tasks' = [tasks EXCEPT ![t].done = TRUE]
      /\ UNCHANGED <<fileVars, clientVars, session, request, counters>>
  BY DEF RunTask
<1>2. UNCHANGED <<memory, saving, misplaced, phase, token, poll, session, request, requests, kills>>
  BY <1>1 DEF fileVars, clientVars, counters
<1>3. tasks \in Seq(Tasks)
  BY DEF ServerInv, ServerTypes
<1>4. ASSUME NEW u \in DOMAIN tasks
      PROVE  /\ tasks'[u] \in Tasks /\ tasks'[u].user = tasks[u].user
             /\ tasks'[u].statement = tasks[u].statement /\ tasks'[u].barred = tasks[u].barred
  <2>1. tasks[u] \in Tasks
    BY <1>3
  <2>2. CASE u = t
    <3>1. tasks'[u] = [tasks[u] EXCEPT !.done = TRUE]
      BY <1>1, <1>3, <2>2
    <3> QED
      BY <2>1, <3>1 DEF Tasks
  <2>3. CASE u # t
    <3>1. tasks'[u] = tasks[u]
      BY <1>1, <1>3, <2>3
    <3> QED
      BY <2>1, <3>1
  <2> QED
    BY <2>2, <2>3
<1>5. tasks' \in Seq(Tasks) /\ Len(tasks') = Len(tasks) /\ DOMAIN tasks' = DOMAIN tasks
  <2> DEFINE n == Len(tasks)
  <2>1. tasks \in [1 .. n -> Tasks] /\ n \in Nat /\ DOMAIN tasks = 1 .. n
    BY <1>3
  <2>2. tasks' \in [1 .. n -> Tasks]
    BY <1>1, <1>4, <2>1
  <2> HIDE DEF n
  <2> QED
    BY <2>1, <2>2 DEF n
<1>6. ServerTypes'
  BY <1>2, <1>5 DEF ServerInv, ServerTypes
<1>7. FilesInv'
  BY <1>1, StutterKeepsFilesInv DEF ServerInv
<1>8. RequestsFit'
  BY <1>2 DEF ServerInv, RequestsFit, RequestFits
<1>9. BarredIsGone'
  <2>1. \A y : Gone(y) => Gone(y)'
    BY <1>2 DEF Gone
  <2> QED
    BY <1>2, <1>4, <1>5, <2>1 DEF ServerInv, BarredIsGone
<1>10. AdmittedWasAllowed'
  BY <1>2, <1>4, <1>5 DEF ServerInv, AdmittedWasAllowed
<1> QED
  BY <1>6, <1>7, <1>8, <1>9, <1>10 DEF ServerInv

LEMMA KillStep ==
    ASSUME ServerInv, Kill
    PROVE  ServerInv'
<1>1. FilesInv'
  BY ReloadKeepsFilesInv DEF Kill, ServerInv
<1>2. ServerTypes'
  <2>1. poll' = [c \in Clients |-> NoPoll] /\ tasks' = <<>>
    BY DEF Kill
  <2>2. poll' \in [Clients -> [task : 0 .. Len(tasks'), attempts : 0 .. MaxAttempts - 1]]
    <3>1. NoPoll \in [task : 0 .. Len(tasks'), attempts : 0 .. MaxAttempts - 1]
      BY <2>1, NoPollTyped
    <3> QED
      BY <2>1, <3>1
  <2>3. tasks' \in Seq(Tasks)
    BY <2>1
  <2>4. request' \in [Clients -> Requests]
    BY NoRequestTyped DEF Kill
  <2> QED
    BY <2>2, <2>3, <2>4, Bounds DEF Kill, ServerInv, ServerTypes
<1>3. \A c \in Clients : request'[c].at = "none" /\ request'[c].barred = {} /\ saving'[c] = NoSave
  BY DEF Kill, Reload, NoRequest, Clients
<1>4. tasks' = <<>>
  BY DEF Kill
<1>5. RequestsFit'
  BY <1>3 DEF RequestsFit, RequestFits
<1>6. DOMAIN tasks' = {}
  BY <1>4
<1>7. BarredIsGone'
  BY <1>3, <1>6 DEF BarredIsGone
<1>8. AdmittedWasAllowed'
  BY <1>3, <1>6 DEF AdmittedWasAllowed
<1> QED
  BY <1>1, <1>2, <1>5, <1>7, <1>8 DEF ServerInv

\* GRANT takes its permission from what is barred, everywhere; what else is
\* barred stays gone.
LEMMA UpdateRuleStep ==
    ASSUME ServerInv, NEW c \in Clients, UpdateRule(c)
    PROVE  ServerInv'
<1> DEFINE q == request[c].statement
           scope == [user |-> q.name, database |-> q.database, table |-> q.table]
           p == Head(request[c].left)
           x == Right(scope, p)
           revoked == q.kind = "revoke"
           without(barred) == IF revoked THEN barred ELSE barred \ {x}
           left(d) == IF d = c THEN Tail(request[d].left) ELSE request[d].left
<1>1. /\ request[c].at = "rules" /\ request[c].left # <<>> /\ saving[c] = NoSave
      /\ IF revoked THEN RevokePermission(c, scope, p) ELSE GrantPermission(c, scope, p)
      /\ request' = [d \in Threads |-> [request[d] EXCEPT !.left = left(d),
                                                           !.barred = without(request[d].barred)]]
      /\ tasks' = [t \in DOMAIN tasks |->
                      [tasks[t] EXCEPT !.barred = without(tasks[t].barred)]]
      /\ UNCHANGED <<clientVars, session, requests, kills>>
  BY DEF UpdateRule, counters
<1>2. /\ q \in Executed /\ q.kind \in {"grant", "revoke", "setup"}
      /\ request[c].left \in Seq(Permissions)
  BY <1>1, RequestFacts DEF ServerInv, RequestsFit, RequestFits
<1>3. scope \in Scopes /\ p \in Permissions /\ Tail(request[c].left) \in Seq(Permissions)
  <2>1. ASSUME NEW s \in Seq(Permissions), s # <<>>
        PROVE  Head(s) \in Permissions /\ Tail(s) \in Seq(Permissions)
    BY <2>1
  <2>2. p \in Permissions /\ Tail(request[c].left) \in Seq(Permissions)
    BY <1>1, <1>2, <2>1
  <2>3. /\ q.name \in Users /\ q.database \in Databases \union {Star}
        /\ q.table \in Tables \union {Star}
    BY <1>2, ExecutedFacts
  <2> QED
    BY <2>2, <2>3 DEF Scopes
<1> HIDE DEF scope, p
<1>4. FilesInv'
  BY <1>1, <1>3, RevokeKeepsFilesInv, GrantKeepsFilesInv DEF Clients, ServerInv
<1>5. ASSUME NEW y \in Rights, Gone(y), revoked \/ y # x PROVE Gone(y)'
  BY <1>1, <1>3, <1>5, RulesKeepGone DEF Clients, ServerInv
<1> HIDE DEF revoked, x
<1>6. ASSUME NEW d \in Clients
      PROVE  /\ request'[d] \in Requests
             /\ request'[d].at = request[d].at /\ request'[d].user = request[d].user
             /\ request'[d].statement = request[d].statement
             /\ request'[d].barred = without(request[d].barred)
  <2>1. request[d] \in Requests
    BY RequestFacts
  <2>2. left(d) \in Seq(Permissions)
    BY <1>3, <2>1 DEF Requests
  <2>3. without(request[d].barred) \in SUBSET Items
    BY <2>1 DEF Requests
  <2> HIDE DEF left, without
  <2>4. request'[d] = [request[d] EXCEPT !.left = left(d), !.barred = without(request[d].barred)]
    BY <1>1 DEF Clients
  <2> QED
    BY <2>1, <2>2, <2>3, <2>4 DEF Requests
<1>7. ASSUME NEW t \in DOMAIN tasks
      PROVE  /\ tasks'[t] \in Tasks /\ tasks'[t].user = tasks[t].user
             /\ tasks'[t].statement = tasks[t].statement
             /\ tasks'[t].barred = without(tasks[t].barred)
             /\ tasks[t].barred \subseteq Items
  <2>1. tasks[t] \in Tasks
    BY DEF ServerInv, ServerTypes
  <2>2. without(tasks[t].barred) \in SUBSET Items
    BY <2>1 DEF Tasks
  <2> HIDE DEF without
  <2>3. tasks'[t] = [tasks[t] EXCEPT !.barred = without(tasks[t].barred)]
    BY <1>1
  <2> QED
    BY <2>1, <2>2, <2>3 DEF Tasks
<1>8. tasks' \in Seq(Tasks) /\ Len(tasks') = Len(tasks) /\ DOMAIN tasks' = DOMAIN tasks
  <2> DEFINE n == Len(tasks)
  <2>1. n \in Nat /\ DOMAIN tasks = 1 .. n
    BY DEF ServerInv, ServerTypes
  <2>2. tasks' \in [1 .. n -> Tasks]
    BY <1>1, <1>7, <2>1
  <2> HIDE DEF n
  <2> QED
    BY <2>1, <2>2 DEF n
<1>9. ServerTypes'
  <2>1. request' \in [Clients -> Requests]
    BY <1>1, <1>6 DEF Clients
  <2>2. UNCHANGED <<phase, token, poll>>
    BY <1>1 DEF clientVars
  <2> QED
    BY <1>1, <1>8, <2>1, <2>2 DEF ServerInv, ServerTypes
<1>10. ASSUME NEW d \in Clients \ {c}, saving'[d] # NoSave PROVE saving[d] # NoSave
  <2>1. CASE UNCHANGED saving
    BY <1>10, <2>1
  <2>2. CASE \E a : Edits(c, Right(scope, p), a)
    <3>1. PICK content, undo : Update(c, "rules", Right(scope, p), content, undo, FALSE)
      BY <2>2 DEF Edits, UpdateRules
    <3> QED
      BY <1>10, <3>1, OnlyOneSaves DEF Clients
  <2> QED
    BY <1>1, <1>3, <2>1, <2>2, GrantIsEdit, RevokeIsEdit DEF Clients, ServerInv
<1>10a. UNCHANGED misplaced
  <2>1. ASSUME NEW a, Edits(c, Right(scope, p), a) PROVE UNCHANGED misplaced
    BY <2>1 DEF Edits, UpdateRules, Update
  <2> QED
    BY <1>1, <1>3, <2>1, GrantIsEdit, RevokeIsEdit DEF Clients, ServerInv
<1>11. RequestsFit'
  <2> SUFFICES ASSUME NEW d \in Clients PROVE RequestFits(d)'
    BY DEF RequestsFit
  <2>1. RequestFits(d)
    BY DEF ServerInv, RequestsFit
  <2> QED
    BY <1>1, <1>6, <1>10, <2>1 DEF RequestFits
<1>12. ASSUME NEW barred, \A y \in barred : y \in Rights /\ Gone(y)
       PROVE  \A y \in without(barred) : y \in Rights /\ Gone(y)'
  BY <1>5, <1>12
<1>13. BarredIsGone'
  <2>1. ASSUME NEW d \in Clients
        PROVE  \A y \in request'[d].barred : y \in Rights /\ Gone(y)'
    BY <1>6, <1>12 DEF ServerInv, BarredIsGone
  <2>2. ASSUME NEW t \in DOMAIN tasks
        PROVE  \A y \in tasks'[t].barred : y \in Rights /\ Gone(y)'
    BY <1>7, <1>12 DEF ServerInv, BarredIsGone
  <2> QED
    BY <1>8, <2>1, <2>2 DEF BarredIsGone
<1>14. ASSUME NEW user, NEW s, NEW barred, AdmittedMay(user, s, barred)
       PROVE  AdmittedMay(user, s, without(barred))
  BY <1>14 DEF AdmittedMay
<1>15. AdmittedWasAllowed'
  <2> SUFFICES ASSUME ~misplaced
               PROVE  /\ \A d \in Clients : request'[d].at \in Admitted =>
                            AdmittedMay(request'[d].user, request'[d].statement, request'[d].barred)
                      /\ \A t \in DOMAIN tasks' :
                            AdmittedMay(tasks'[t].user, tasks'[t].statement, tasks'[t].barred)
    BY <1>10a DEF AdmittedWasAllowed, Admitted
  <2>1. ASSUME NEW d \in Clients, request'[d].at \in Admitted
        PROVE  AdmittedMay(request'[d].user, request'[d].statement, request'[d].barred)
    <3>1. AdmittedMay(request[d].user, request[d].statement, request[d].barred)
      BY <1>6, <2>1 DEF ServerInv, AdmittedWasAllowed, Admitted
    <3>2. AdmittedMay(request[d].user, request[d].statement, without(request[d].barred))
      BY <1>14, <3>1
    <3> HIDE DEF without
    <3> QED
      BY <1>6, <3>2
  <2>2. ASSUME NEW t \in DOMAIN tasks
        PROVE  AdmittedMay(tasks'[t].user, tasks'[t].statement, tasks'[t].barred)
    <3>1. AdmittedMay(tasks[t].user, tasks[t].statement, tasks[t].barred)
      BY DEF ServerInv, AdmittedWasAllowed
    <3>2. AdmittedMay(tasks[t].user, tasks[t].statement, without(tasks[t].barred))
      BY <1>14, <3>1
    <3> HIDE DEF without
    <3> QED
      BY <1>7, <3>2
  <2> QED
    BY <1>8, <2>1, <2>2
<1> QED
  BY <1>4, <1>9, <1>11, <1>13, <1>15 DEF ServerInv
-----------------------------------------------------------------------------
(* Theorems *)

LEMMA InitEstablishes == Init => ServerInv
<1> SUFFICES ASSUME Init PROVE ServerInv
  OBVIOUS
<1>1. FilesInv
  <2>1. PICK store \in Stores : FilesInit(store)
    BY DEF Init
  <2> QED
    BY <2>1, FilesInitially, ServerAssumption
<1>2. ServerTypes
  <2>1. poll \in [Clients -> [task : 0 .. Len(tasks), attempts : 0 .. MaxAttempts - 1]]
    <3>1. tasks = <<>> /\ poll = [c \in Clients |-> NoPoll]
      BY DEF Init
    <3>2. NoPoll \in [task : 0 .. Len(tasks), attempts : 0 .. MaxAttempts - 1]
      BY <3>1, NoPollTyped
    <3> QED
      BY <3>1, <3>2
  <2>2. request \in [Clients -> Requests] /\ tasks \in Seq(Tasks)
    BY NoRequestTyped DEF Init
  <2> QED
    BY <2>1, <2>2, Bounds DEF Init, ServerTypes
<1>3. /\ \A c \in Clients : request[c].at = "none" /\ request[c].barred = {}
      /\ \A c \in Clients : saving[c] = NoSave
      /\ DOMAIN tasks = {}
  BY DEF Init, FilesInit, NoRequest, Clients
<1>4. RequestsFit
  BY <1>3 DEF RequestsFit, RequestFits
<1>5. BarredIsGone
  BY <1>3 DEF BarredIsGone
<1>6. AdmittedWasAllowed
  BY <1>3 DEF AdmittedWasAllowed
<1> QED
  BY <1>1, <1>2, <1>4, <1>5, <1>6 DEF ServerInv

LEMMA NextPreserves == ServerInv /\ [Next]_vars => ServerInv'
<1> SUFFICES ASSUME ServerInv, [Next]_vars PROVE ServerInv'
  OBVIOUS
<1>1. ASSUME NEW c \in Clients, ClientStep(c) PROVE ServerInv'
  BY <1>1, SessionSteps, PollStep, CreateSuperuserStep, QueryStep DEF ClientStep
<1>2. ASSUME NEW c \in Clients, Process(c) PROVE ServerInv'
  BY <1>2, AuthoriseSteps, SubmitStep, InsertAccountStep, UpdateRuleStep, RulesUpdatedStep,
     RouteStep, SaveGoesOnStep, SaveIsOverStep DEF Process
<1>3. ASSUME NEW t \in DOMAIN tasks, RunTask(t) PROVE ServerInv'
  BY <1>3, RunTaskStep
<1>4. CASE Kill
  BY <1>4, KillStep
<1>5. CASE UNCHANGED vars
  <2>1. ServerTypes'
    BY <1>5 DEF vars, clientVars, threadVars, counters, ServerInv, ServerTypes
  <2> QED
    BY <1>5, <2>1, ClientOnlyStep DEF vars, threadVars
<1> QED
  BY <1>1, <1>2, <1>3, <1>4, <1>5 DEF Next

\* The invariant of the Entrypoint and its files holds in every reachable state.
THEOREM ServerInvariant == Spec => []ServerInv
<1> QED
  BY InitEstablishes, NextPreserves, PTL DEF Spec

\* Every variable of the Entrypoint keeps its type.
THEOREM ServerTypeCorrect == Spec => []TypeOK
<1>1. ServerInv => TypeOK
  <2> SUFFICES ASSUME ServerInv PROVE TypeOK
    OBVIOUS
  <2>1. FilesTypeOK
    BY DEF ServerInv, FilesInv
  <2>2. ASSUME NEW c \in Clients
        PROVE  /\ request[c].at \in {"none", "authorise", "account", "rules", "route", "saving"}
               /\ request[c].user \in Users \union {Nobody}
               /\ request[c].barred \subseteq Items
               /\ saving[c] # NoSave => request[c].at \in {"saving", "rules"}
    <3>1. request[c] \in Requests
      BY RequestFacts
    <3> QED
      BY <3>1 DEF Requests, ServerInv, RequestsFit, RequestFits
  <2>3. ASSUME NEW t \in DOMAIN tasks PROVE tasks[t].user \in Users /\ tasks[t].done \in BOOLEAN
    <3>1. tasks[t] \in Tasks
      BY DEF ServerInv, ServerTypes
    <3> QED
      BY <3>1 DEF Tasks
  <2> QED
    BY <2>1, <2>2, <2>3 DEF TypeOK, ServerInv, ServerTypes
<1> QED
  BY <1>1, ServerInvariant, PTL

\* Accounts, permissions and databases are in memory and on disk as they were
\* last asked for, unless their last update failed, was overlapped or cut off,
\* or, for permissions, an update of the rules that was not alone has been
\* undone: AccountStore, RBACManager and Catalog with JsonFile::Save.
THEOREM FilesAreAlwaysAsAsked == Spec => []FilesAreAsAsked
<1>1. ServerInv => FilesAreAsAsked
  BY DEF ServerInv, FilesInv
<1> QED
  BY <1>1, ServerInvariant, PTL

\* A request that is let through has a permission that was not revoked when it
\* arrived, as long as no update of the rules that was not alone has been
\* undone: Application::HandleExecute and RBACManager::CheckPermission.
THEOREM AdmittedWasAlwaysAllowed == Spec => []AdmittedWasAllowed
<1>1. ServerInv => AdmittedWasAllowed
  BY DEF ServerInv
<1> QED
  BY <1>1, ServerInvariant, PTL
=============================================================================
