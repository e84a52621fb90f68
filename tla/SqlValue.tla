------------------------------ MODULE SqlValue ------------------------------
(***************************************************************************)
(* Values, literals and three-valued truth of qdb-storage: classes Value   *)
(* and Interner and enum SqlBool.                                          *)
(*                                                                         *)
(* A text is the number of its place in the order of texts.  A string      *)
(* value holds a StringId, which is a place in the pool of the Interner:   *)
(* the sequence of texts in the order in which they were first interned.   *)
(* What the code throws is the value Thrown, or the truth "throws".        *)
(***************************************************************************)
EXTENDS Naturals, Sequences

CONSTANT MaxInt \* the largest int32, scaled down

ASSUME MaxIntAssumption == MaxInt \in Nat

Null == [type |-> "null", n |-> 0]
IntValue(i) == [type |-> "int", n |-> i]
StringValue(id) == [type |-> "string", n |-> id]
Thrown == [type |-> "thrown", n |-> 0]

IsNull(x) == x.type = "null"
IsString(x) == x.type = "string"
-----------------------------------------------------------------------------
(* SqlBool.  Overloaded && and || evaluate both sides, so a side that      *)
(* throws is never skipped.                                                *)

SqlBool == {"FALSE", "TRUE", "UNKNOWN"}

SqlAnd(x, y) ==
    IF "throws" \in {x, y} THEN "throws"
    ELSE IF "FALSE" \in {x, y} THEN "FALSE"
    ELSE IF "UNKNOWN" \in {x, y} THEN "UNKNOWN"
    ELSE "TRUE"

SqlOr(x, y) ==
    IF "throws" \in {x, y} THEN "throws"
    ELSE IF "TRUE" \in {x, y} THEN "TRUE"
    ELSE IF "UNKNOWN" \in {x, y} THEN "UNKNOWN"
    ELSE "FALSE"

SqlNot(x) ==
    CASE x = "TRUE"  -> "FALSE"
      [] x = "FALSE" -> "TRUE"
      [] OTHER       -> x

Truth(holds) == IF holds THEN "TRUE" ELSE "FALSE"
-----------------------------------------------------------------------------
(* Value's operators: strings are compared by their StringIds. *)

\* What every comparison does first.
Compared(x, y, holds) ==
    IF IsNull(x) \/ IsNull(y) THEN "UNKNOWN"
    ELSE IF x.type # y.type THEN "throws"
    ELSE Truth(holds)

Equal(x, y) == Compared(x, y, x.n = y.n)
Less(x, y) == Compared(x, y, x.n < y.n)
LessEqual(x, y) == SqlOr(Less(x, y), Equal(x, y))
Greater(x, y) == SqlNot(LessEqual(x, y))
GreaterEqual(x, y) == SqlNot(Less(x, y))
NotEqual(x, y) == SqlNot(Equal(x, y))

CompareValues(x, op, y) ==
    CASE op = "==" -> Equal(x, y)
      [] op = "!=" -> NotEqual(x, y)
      [] op = "<"  -> Less(x, y)
      [] op = ">"  -> Greater(x, y)
      [] op = "<=" -> LessEqual(x, y)
      [] op = ">=" -> GreaterEqual(x, y)
-----------------------------------------------------------------------------
(* The Interner *)

StringIds(pool) == DOMAIN pool
View(pool, id) == pool[id]
IdOf(pool, text) == CHOOSE id \in StringIds(pool) : pool[id] = text
IsInterned(pool, text) == \E id \in StringIds(pool) : pool[id] = text

Intern(pool, text) == IF IsInterned(pool, text) THEN pool ELSE Append(pool, text)

\* A literal is [type, n], n being a number or a text.  std::stoi throws for a
\* number out of range.
LiteralPool(literal, pool) ==
    IF literal.type = "string" THEN Intern(pool, literal.n) ELSE pool

LiteralValue(literal, pool) ==
    CASE literal.type = "null"   -> Null
      [] literal.type = "int"    -> IF literal.n > MaxInt THEN Thrown ELSE IntValue(literal.n)
      [] literal.type = "string" -> StringValue(IdOf(Intern(pool, literal.n), literal.n))
=============================================================================
