------------------------------- MODULE LinkMap -------------------------------
(***************************************************************************)
(* What the link store promises its users: a map from keys to targets in   *)
(* which no target has two keys, and in which a published key keeps its    *)
(* target until somebody retargets or deletes it. A transaction publishes  *)
(* several keys at once or none.                                           *)
(***************************************************************************)
CONSTANTS Keys, Targets, NoTarget

VARIABLE map

Injective(m) ==
    \A j, k \in Keys : m[j] = m[k] /\ m[j] # NoTarget => j = k

Init == map = [k \in Keys |-> NoTarget]

\* Any number of free keys get targets that had none.
Publish ==
    /\ map' \in [Keys -> Targets \cup {NoTarget}]
    /\ \A k \in Keys : map[k] # NoTarget => map'[k] = map[k]
    /\ Injective(map')

Retarget(k, t) ==
    /\ map[k] # NoTarget
    /\ \A j \in Keys : map[j] # t
    /\ map' = [map EXCEPT ![k] = t]

Remove(k) ==
    /\ map[k] # NoTarget
    /\ map' = [map EXCEPT ![k] = NoTarget]

Next ==
    \/ Publish
    \/ \E k \in Keys : Remove(k) \/ \E t \in Targets : Retarget(k, t)

Spec == Init /\ [][Next]_map
=============================================================================
