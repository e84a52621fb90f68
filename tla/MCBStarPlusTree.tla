-------------------------- MODULE MCBStarPlusTree --------------------------
(* BStarPlusTree with pages for a few keys. *)
EXTENDS BStarPlusTree
=============================================================================
