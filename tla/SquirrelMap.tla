----------------------------- MODULE SquirrelMap -----------------------------
(***************************************************************************)
(* What a table promises: a map from keys to values.  A clone and a table  *)
(* that was rehashed hold the same map.                                    *)
(***************************************************************************)
CONSTANTS Key, Value, null

VARIABLES
    map,
    op      \* the operation last performed

vars == <<map, op>>

Did(name, k, v) == op' = [name |-> name, key |-> k, val |-> v, result |-> TRUE]

With(k, v) == [j \in DOMAIN map \cup {k} |-> IF j = k THEN v ELSE map[j]]

Without(k) == [j \in DOMAIN map \ {k} |-> map[j]]

None == [k \in {} |-> null]

Init == map = None /\ op = [name |-> "clear", key |-> null, val |-> null, result |-> TRUE]

Next ==
    \/ \E k \in Key, v \in Value :
        \/ Did("newslot", k, v) /\ map' = With(k, v)
        \/ Did("set", k, v) /\ map' = IF k \in DOMAIN map THEN With(k, v) ELSE map
    \/ \E k \in Key : Did("remove", k, null) /\ map' = Without(k)
    \/ Did("clear", null, null) /\ map' = None
    \/ Did("clone", null, null) /\ map' = map

Spec == Init /\ [][Next]_vars
=============================================================================
