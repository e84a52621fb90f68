------------------------------ MODULE JsonFiles ------------------------------
(***************************************************************************)
(* The three things the server keeps in memory and in a JSON file each:    *)
(* the accounts (AccountStore), the access rules (RBACManager) and the     *)
(* databases (Catalog; its tables are in module Cluster).                  *)
(*                                                                         *)
(* An update changes the memory first.  JsonFile::Save then writes the     *)
(* whole of it, as it was when Save was called, into <file>.tmp: it opens  *)
(* that file, which empties it, writes, and renames it to <file>.  When a  *)
(* step fails the accounts and the rules undo their change, each in its    *)
(* own way.  There is no lock: while a thread saves, others read the       *)
(* memory, update it and save, through the same .tmp file.                 *)
(*                                                                         *)
(* What a file is about is a set of items: an account, a permission on a   *)
(* scope, a database.  The permissions are in a vector of rules, which is  *)
(* searched from its front, and which Save is called in the middle of      *)
(* editing: what undoes an edit still holds a place in it.                 *)
(***************************************************************************)
EXTENDS Naturals, SequencesExt

CONSTANTS Threads,    \* client threads
          Users, Databases, Tables,
          Star,       \* "*" in a rule
          MaxFailures \* bound: calls of the file system that fail

ASSUME JsonFilesAssumption == Star \notin Users \union Databases \union Tables /\ MaxFailures \in Nat

VARIABLES
    memory,   \* accounts_, rules_ and the databases of data_
    disk,     \* their files
    tmp,      \* the .tmp files
    saving,   \* the Save that each thread is in
    failures, \* auxiliary: calls that have failed
    asked,    \* auxiliary: the items that the last request about them asked for
    doubtful, \* auxiliary: those whose last update failed, was overlapped by
              \* another save of the file, or was cut off by a kill
    unsure,   \* auxiliary: the files that saves have overlapped in, until one
              \* that is alone succeeds
    misplaced \* auxiliary: an edit of the rules has been undone that another
              \* one had overlapped, so that its place may be another rule's

fileVars == <<memory, disk, tmp, saving, failures, asked, doubtful, unsure, misplaced>>

Permissions == {"READ", "WRITE", "CREATE", "DELETE"}

Scopes == [user : Users \union {Star}, database : Databases \union {Star},
           table : Tables \union {Star}]

Files == {"accounts", "rules", "databases"}

Account(u) == [file |-> "accounts", name |-> u]
Database(d) == [file |-> "databases", name |-> d]
Right(scope, p) == [file |-> "rules", scope |-> scope, permission |-> p]

Names == {Account(u) : u \in Users} \union {Database(d) : d \in Databases}
Rights == {Right(scope, p) : scope \in Scopes, p \in Permissions}
Items == Names \union Rights
NoItem == [file |-> "none"]

\* AccessRule
Rules == [scope : Scopes, permissions : SUBSET Permissions]

\* What a store holds, in memory or written down: names, or a vector of rules.
Contents == [names : SUBSET Names, rules : Seq(Rules)]
NoContent == [names |-> {}, rules |-> <<>>]

RightsIn(rules) == UNION {{Right(rules[i].scope, p) : p \in rules[i].permissions} : i \in DOMAIN rules}
Held(content) == content.names \union RightsIn(content.rules)

OneRuleEach(rules) ==
    \A i, j \in DOMAIN rules : rules[i].scope = rules[j].scope => i = j

\* A file.  What cannot be parsed is for Load as if nothing were there.
Texts == [is : {"json"}, content : Contents]
         \union [is : {"absent", "blank", "garbled"}, content : {NoContent}]
Json(content) == [is |-> "json", content |-> content]
Absent == [is |-> "absent", content |-> NoContent]
Blank == [is |-> "blank", content |-> NoContent]
Garbled == [is |-> "garbled", content |-> NoContent]
Load(text) == text.content

\* How an update is undone: what the code has in its local variables.
Undos == [how : {"none", "account", "grant", "push", "erase", "revoke"},
          place : Nat, permissions : SUBSET Permissions]
Undo(how, place, permissions) == [how |-> how, place |-> place, permissions |-> permissions]
NoUndo == Undo("none", 0, {})

Saves == [at : {"open", "write", "rename", "remove"}, file : Files, item : Items \union {NoItem},
          content : Contents, undo : Undos,
          output : {"closed", "tmp", "file", "gone"}, \* where the open stream writes
          alone : BOOLEAN] \* auxiliary: no other save of the file has overlapped it,
                           \* and nothing of it was lost unnoticed
NoSave == [at |-> "none"]
BeingSaved(x) == \E c \in Threads : saving[c] # NoSave /\ saving[c].item = x

\* What the files may hold when the server is first started.
IsStore(store) ==
    /\ store \in [Files -> Contents]
    /\ \A f \in Files : /\ \A x \in Held(store[f]) : x.file = f
                        /\ OneRuleEach(store[f].rules)

FilesInit(store) ==
    /\ memory = store
    /\ disk = [f \in Files |-> Json(store[f])]
    /\ tmp = [f \in Files |-> Absent]
    /\ saving = [c \in Threads |-> NoSave]
    /\ failures = 0
    /\ asked = UNION {Held(store[f]) : f \in Files}
    /\ doubtful = {}
    /\ unsure = {}
    /\ misplaced = FALSE
-----------------------------------------------------------------------------
(* An update: the change in memory and the call of Save. *)

\* Other threads that save the file f.
SavingWith(c, f) == {d \in Threads \ {c} : saving[d] # NoSave /\ saving[d].file = f}

\* The thread c makes content of what the file f is about, for the item x.
\* again: x was there although c had found that it was not.
Update(c, f, x, content, undo, again) ==
    LET others == SavingWith(c, f)
        alone == others = {} /\ ~again
    IN  /\ saving[c] = NoSave
        /\ memory' = [memory EXCEPT ![f] = content]
        /\ saving' = [d \in Threads |->
                        IF d = c THEN [at |-> "open", file |-> f, item |-> x, content |-> content,
                                       undo |-> undo, output |-> "closed", alone |-> alone]
                        ELSE IF d \in others THEN [saving[d] EXCEPT !.alone = FALSE]
                        ELSE saving[d]]
        /\ doubtful' = IF alone THEN doubtful
                       ELSE doubtful \union (({x} \union {saving[d].item : d \in others}) \ {NoItem})
        /\ unsure' = IF alone THEN unsure ELSE unsure \union {f}
        /\ UNCHANGED <<disk, tmp, failures, misplaced>>

UpdateNames(c, x, names, undo, again) ==
    Update(c, x.file, x, [memory[x.file] EXCEPT !.names = names], undo, again)

\* AccountStore::CreateAccount, once the password is hashed: the account may
\* have come into being meanwhile.
CreateAccount(c, u) ==
    LET x == Account(u)
        accounts == memory["accounts"].names
    IN  /\ UpdateNames(c, x, accounts \union {x}, Undo("account", 0, {}), x \in accounts)
        /\ asked' = asked \union {x}

CreateDatabase(c, d) ==
    LET x == Database(d) IN
    /\ UpdateNames(c, x, memory["databases"].names \union {x}, NoUndo, FALSE)
    /\ asked' = asked \union {x}

DropDatabase(c, d) ==
    LET x == Database(d) IN
    /\ UpdateNames(c, x, memory["databases"].names \ {x}, NoUndo, FALSE)
    /\ asked' = asked \ {x}

\* Catalog::CreateTable and DropTable save the databases too.
UpdateTables(c) ==
    /\ Update(c, "databases", NoItem, memory["databases"], NoUndo, FALSE)
    /\ UNCHANGED asked

\* The place of the first rule for the scope, or the place after the last one.
Find(rules, scope) ==
    {i \in 1 .. Len(rules) + 1 : /\ i \in DOMAIN rules => rules[i].scope = scope
                                 /\ \A j \in 1 .. i - 1 : rules[j].scope # scope}

UpdateRules(c, x, rules, undo) ==
    Update(c, "rules", x, [memory["rules"] EXCEPT !.rules = rules], undo, FALSE)

GrantPermission(c, scope, p) ==
    LET rules == memory["rules"].rules
        x == Right(scope, p)
    IN  /\ \E i \in Find(rules, scope) :
              IF i \in DOMAIN rules
              THEN UpdateRules(c, x, [rules EXCEPT ![i].permissions = @ \union {p}], Undo("grant", i, {}))
              ELSE UpdateRules(c, x, Append(rules, [scope |-> scope, permissions |-> {p}]),
                               Undo("push", i, {}))
        /\ asked' = asked \union {x}

\* A rule that is left without permissions is erased; without a rule nothing is
\* saved.
RevokePermission(c, scope, p) ==
    LET rules == memory["rules"].rules
        x == Right(scope, p)
    IN  /\ \E i \in Find(rules, scope) :
              IF i \notin DOMAIN rules
              THEN UNCHANGED <<memory, disk, tmp, saving, failures, doubtful, unsure, misplaced>>
              ELSE IF rules[i].permissions \subseteq {p}
              THEN UpdateRules(c, x, RemoveAt(rules, i), Undo("erase", i, {}))
              ELSE UpdateRules(c, x, [rules EXCEPT ![i].permissions = @ \ {p}],
                               Undo("revoke", i, rules[i].permissions))
        /\ asked' = asked \ {x}
-----------------------------------------------------------------------------
(* JsonFile::Save *)

SavingAt(c, at) == saving[c].at = at

\* The Save of c is over.  moved: what the streams that others have into the
\* .tmp file, or into the file, lead to now.
EndedWith(c, moved) ==
    [d \in Threads |->
        IF d = c THEN NoSave
        ELSE IF d \in SavingWith(c, saving[c].file) /\ saving[d].output \in DOMAIN moved
        THEN [saving[d] EXCEPT !.output = moved[@]]
        ELSE saving[d]]

Fault == failures < MaxFailures /\ failures' = failures + 1

\* std::ios::trunc: also when another thread writes into it.
Open(c) ==
    /\ SavingAt(c, "open")
    /\ tmp' = [tmp EXCEPT ![saving[c].file] = Blank]
    /\ saving' = [saving EXCEPT ![c].at = "write", ![c].output = "tmp"]
    /\ UNCHANGED <<memory, disk, failures, asked, doubtful, unsure, misplaced>>

\* What a file may be once content is written over it: when it was longer, its
\* end remains.
Over(text, content) ==
    {Json(content)} \union (IF text \in {Blank, Json(content)} THEN {} ELSE {Garbled})

\* The stream of c writes into whatever its file has become.
Target(c) == CASE saving[c].output = "tmp" -> tmp[saving[c].file]
               [] saving[c].output = "file" -> disk[saving[c].file]
               [] saving[c].output \in {"gone", "closed"} -> Absent
PutInto(c, text) ==
    /\ tmp' = IF saving[c].output = "tmp" THEN [tmp EXCEPT ![saving[c].file] = text] ELSE tmp
    /\ disk' = IF saving[c].output = "file" THEN [disk EXCEPT ![saving[c].file] = text] ELSE disk

Close(c, next) == saving' = [saving EXCEPT ![c].at = next, ![c].output = "closed"]

Write(c) ==
    /\ SavingAt(c, "write")
    /\ \E text \in Over(Target(c), saving[c].content) : PutInto(c, text)
    /\ Close(c, "rename")
    /\ UNCHANGED <<memory, failures, asked, doubtful, unsure, misplaced>>

\* The .tmp file becomes the file, whoever wrote it last.
Rename(c) ==
    LET f == saving[c].file IN
    /\ SavingAt(c, "rename") /\ tmp[f].is # "absent"
    /\ disk' = [disk EXCEPT ![f] = tmp[f]]
    /\ tmp' = [tmp EXCEPT ![f] = Absent]
    /\ saving' = EndedWith(c, [tmp |-> "file", file |-> "gone"])
    /\ doubtful' = IF saving[c].alone THEN doubtful \ {saving[c].item} ELSE doubtful
    /\ unsure' = IF saving[c].alone THEN unsure \ {f} ELSE unsure
    /\ UNCHANGED <<memory, failures, asked, misplaced>>
-----------------------------------------------------------------------------
(* When it fails *)

\* What was in the buffer of the stream is written when it is closed, after
\* Save has looked whether all is well.
WriteIsLost(c) ==
    /\ SavingAt(c, "write") /\ Fault
    /\ \E text \in {Target(c), Garbled} : PutInto(c, text)
    /\ saving' = [saving EXCEPT ![c].at = "rename", ![c].output = "closed", ![c].alone = FALSE]
    /\ doubtful' = doubtful \union ({saving[c].item} \ {NoItem})
    /\ unsure' = unsure \union {saving[c].file}
    /\ UNCHANGED <<memory, asked, misplaced>>

\* What is longer than the buffer is not written.
WriteFails(c) ==
    /\ SavingAt(c, "write") /\ Fault
    /\ \E text \in {Target(c), Garbled} : PutInto(c, text)
    /\ Close(c, "remove")
    /\ UNCHANGED <<memory, asked, doubtful, unsure, misplaced>>

\* Also when another thread's rename has taken the .tmp file away.
RenameFails(c) ==
    /\ SavingAt(c, "rename")
    /\ Fault \/ (tmp[saving[c].file].is = "absent" /\ UNCHANGED failures)
    /\ Close(c, "remove")
    /\ UNCHANGED <<memory, disk, tmp, asked, doubtful, unsure, misplaced>>

\* The rules after GrantPermission has failed: it tests and follows an iterator
\* that it took before Save, and which leads nowhere once the vector has grown.
UndoneGrant(s, rules) ==
    LET i == s.undo.place
        n == Len(rules)
    IN  {IF i <= n THEN [rules EXCEPT ![i].permissions = @ \ {s.item.permission}]
         ELSE IF i = n + 1 /\ n > 0 THEN Front(rules) ELSE rules}
        \union (IF s.undo.how = "push" \/ ~s.alone THEN {rules} ELSE {})

\* A rule that RevokePermission has erased is put back where it was, as it was
\* when it was erased: empty.
UndoneErase(s, rules) ==
    LET i == s.undo.place IN
    {IF i <= Len(rules) + 1 THEN InsertAt(rules, i, [scope |-> s.item.scope, permissions |-> {}])
     ELSE rules}

\* Otherwise the first rule for the scope gets the permissions from before.
UndoneRevoke(s, rules) ==
    {IF i \in DOMAIN rules THEN [rules EXCEPT ![i].permissions = s.undo.permissions] ELSE rules :
        i \in Find(rules, s.item.scope)}

\* Mutant: keeps an account that could not be saved.
UndoneExceptAccounts(s) == {memory[s.file]}

\* What memory may hold after the update of s is undone.  The databases are not
\* undone.
Undone(s) ==
    LET content == memory[s.file] IN
    CASE s.undo.how = "none" -> {content}
      [] s.undo.how = "account" -> {[content EXCEPT !.names = @ \ {s.item}]}
      [] s.undo.how \in {"grant", "push"} ->
            {[content EXCEPT !.rules = rules] : rules \in UndoneGrant(s, content.rules)}
      [] s.undo.how = "erase" ->
            {[content EXCEPT !.rules = rules] : rules \in UndoneErase(s, content.rules)}
      [] s.undo.how = "revoke" ->
            {[content EXCEPT !.rules = rules] : rules \in UndoneRevoke(s, content.rules)}

\* Save returns false.  Only CreateAccount tells its caller.
Fail(c) ==
    LET s == saving[c] IN
    /\ \E content \in Undone(s) : memory' = [memory EXCEPT ![s.file] = content]
    /\ asked' = IF s.file = "accounts" THEN asked \ {s.item} ELSE asked
    /\ doubtful' = IF s.file = "accounts" THEN doubtful
                   ELSE doubtful \union ({s.item} \ {NoItem})
    /\ misplaced' = (misplaced \/ (s.file = "rules" /\ ~s.alone))
    /\ UNCHANGED <<disk, unsure>>

OpenFails(c) ==
    /\ SavingAt(c, "open") /\ Fault
    /\ Fail(c)
    /\ saving' = EndedWith(c, <<>>)
    /\ UNCHANGED tmp

\* The .tmp file is removed, whoever's it is.
GiveUp(c) ==
    /\ SavingAt(c, "remove")
    /\ Fail(c)
    /\ saving' = EndedWith(c, [tmp |-> "gone"])
    /\ tmp' = [tmp EXCEPT ![saving[c].file] = Absent]
    /\ UNCHANGED failures

\* The server is killed and started again: Load.
Reload ==
    /\ memory' = [f \in Files |-> Load(disk[f])]
    /\ saving' = [c \in Threads |-> NoSave]
    /\ doubtful' = doubtful \union {x \in Items : BeingSaved(x) \/ x.file \in unsure}
    /\ unsure' = {}
    /\ UNCHANGED <<disk, tmp, failures, asked, misplaced>>
-----------------------------------------------------------------------------
(* Properties *)

\* Whatever has been done in between, with failing writes, kills and updates
\* that overlap: an item that is not in doubt is in memory if and only if the
\* last request about it asked for it, and in the file that the next start
\* reads too, once a save has been alone with the file.  Of the rules nothing is
\* said any more once an update of them that was not alone has been undone.
\* apps/server/tests/rbac_test.cpp and auth_test.cpp (Persistence): what was
\* granted or created is there after a restart.
FilesAreAsAsked ==
    \A x \in Items \ doubtful : ~BeingSaved(x) /\ (misplaced => x.file # "rules") =>
        /\ x \in Held(memory[x.file]) <=> x \in asked
        /\ x.file \notin unsure => (x \in Held(Load(disk[x.file])) <=> x \in asked)

FilesTypeOK ==
    /\ memory \in [Files -> Contents]
    /\ disk \in [Files -> Texts] /\ tmp \in [Files -> Texts]
    /\ saving \in [Threads -> Saves \union {NoSave}]
    /\ failures \in 0 .. MaxFailures
    /\ asked \subseteq Items /\ doubtful \subseteq Items
    /\ unsure \subseteq Files
    /\ misplaced \in BOOLEAN
=============================================================================
