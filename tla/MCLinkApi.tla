------------------------------ MODULE MCLinkApi ------------------------------
(* Keys in byte order: 1 and 2 under /a/, 3 under /c/, 4 and 5 under /d/,  *)
(* 6 at the root; 2 and 6 are random keys. "ann" owns /a/ and /d/, so that *)
(* her list of everything is filtered; "bob" is an admin without a         *)
(* namespace. Target "y" has a hash rule whose prefixes fall into /a/ and  *)
(* /c/ before its full key in /d/; the other targets match no rule.        *)
EXTENDS LinkApi

MCKeys == 1..6
MCTargets == {"w", "x", "y", "z"}
MCClients == {"ann", "bob"}
MCAdmins == {"bob"}
MCNamespaces == [c \in MCClients |-> IF c = "ann" THEN <<{1, 2}, {4, 5}>> ELSE <<>>]
MCRuleKeys == [t \in MCTargets |-> IF t = "y" THEN <<1, 3, 4>> ELSE <<>>]
MCRandomPool == [c \in MCClients |-> IF c = "ann" THEN {2} ELSE {6}]

\* A database with these targets at the keys 1, 2, ...; "" leaves a key free.
Seed(at) ==
    [links |-> [k \in MCKeys |-> IF k \in DOMAIN at /\ at[k] # "" THEN at[k] ELSE NoTarget],
     targets |-> [t \in MCTargets |->
                    IF \E k \in DOMAIN at : at[k] = t
                    THEN CHOOSE k \in DOMAIN at : at[k] = t ELSE 0]]

MCSeeds == {Seed(<<"x">>), Seed(<<"z", "", "y", "x", "w">>)}

Ask(t, k) == [target |-> t, key |-> k]

MCLists == {<<Ask("y", 0)>>, <<Ask("z", 0), Ask("y", 4)>>, <<Ask("y", 0), Ask("y", 1)>>}
=============================================================================
