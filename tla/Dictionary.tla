---------------------------- MODULE Dictionary ----------------------------
(***************************************************************************)
(* What the storage engine takes a tree for: each key leads to one value,  *)
(* until it is removed, updated or moved.  BStarPlusTree shows that its    *)
(* pages keep this for calls that insert a key only if it is not there;    *)
(* Table shows that the id tree and every column index are called so.      *)
(***************************************************************************)
CONSTANTS Keys, Values

VARIABLE entries \* what a search for each key finds

Init == entries = <<>>

\* The keys are these, and all but those in changed have the values they had.
Becomes(keys, changed) ==
    /\ entries' \in [keys -> Values]
    /\ \A key \in keys \ changed : entries'[key] = entries[key]

Insert(key) ==
    /\ key \notin DOMAIN entries
    /\ Becomes(DOMAIN entries \union {key}, {key})

Update(key) ==
    /\ key \in DOMAIN entries
    /\ Becomes(DOMAIN entries, {key})

Remove(key) ==
    /\ key \in DOMAIN entries
    /\ Becomes(DOMAIN entries \ {key}, {})

\* A Remove and an Insert, between which nobody searches.
Move(old, new) ==
    /\ old \in DOMAIN entries /\ new \notin DOMAIN entries \ {old}
    /\ Becomes((DOMAIN entries \ {old}) \union {new}, {new})

\* The tree goes with its file.
Discard == entries' = <<>>

Next ==
    \/ \E key \in Keys : Insert(key) \/ Update(key) \/ Remove(key)
    \/ \E old, new \in Keys : Move(old, new)
    \/ Discard

Spec == Init /\ [][Next]_entries
=============================================================================
