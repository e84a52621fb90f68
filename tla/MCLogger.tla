------------------------------ MODULE MCLogger ------------------------------
(* Logger with three queries, whose lines are below the limit of a file, just *)
(* at it and above it.                                                        *)
EXTENDS Logger, TLC

CONSTANTS e1, e2, e3

MCEntries == {e1, e2, e3}
MCLineSize == e1 :> 1 @@ e2 :> 2 @@ e3 :> 3
=============================================================================
