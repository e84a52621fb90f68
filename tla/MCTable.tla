------------------------------ MODULE MCTable ------------------------------
(* Table for TLC: one INDEXED column k and one plain nullable column v.     *)
EXTENDS Table

CONSTANTS null, absent, a, b

MCColumns == {"k", "v"}
MCIndexed == {"k"}
MCRow(k, v) == "k" :> k @@ "v" :> v
MCRows == {MCRow(a, null), MCRow(b, null), MCRow(a, b), MCRow(null, a)}
=============================================================================
