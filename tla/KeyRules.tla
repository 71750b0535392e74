------------------------------ MODULE KeyRules ------------------------------
(***************************************************************************)
(* The mapping rules, the random fallback and the client namespaces of     *)
(* urlshort: which keys a create request may be given.                     *)
(*                                                                         *)
(* A key is a positive number; numbers are ordered as the byte strings of  *)
(* the code are, so a namespace (all keys with one prefix) is an interval. *)
(* The regular expressions and templates of the configuration are the      *)
(* constant RuleKeys: for each canonical target the keys its first         *)
(* matching rule renders, from the shortest hash prefix to the full hash.  *)
(***************************************************************************)
EXTENDS Naturals, Sequences

CONSTANTS
    Keys,        \* the keys that can be stored
    Targets,     \* canonical target URLs
    Clients,     \* API clients, by name
    Admins,      \* the clients with admin = true
    Namespaces,  \* per client, its configured namespaces in order
    RuleKeys,    \* per target, its rule's candidate keys; <<>> matches no rule
    RandomPool   \* per client, the keys "<first namespace>~<id>"; {} without one

ASSUME KeyRulesAssumption ==
    /\ Keys \subseteq Nat \ {0}
    /\ Admins \subseteq Clients
    /\ Namespaces \in [Clients -> Seq(SUBSET Keys)]
    /\ RandomPool \in [Clients -> SUBSET Keys]
    /\ RuleKeys \in [Targets -> Seq(Keys \ UNION {RandomPool[c] : c \in Clients})]

NoKey == 0

\* ValidateKey: no explicit or rule key holds a segment that starts with "~".
ValidKeys == Keys \ UNION {RandomPool[c] : c \in Clients}

CanAccess(c, k) ==
    \/ c \in Admins
    \/ \E i \in DOMAIN Namespaces[c] : k \in Namespaces[c][i]

MatchesRule(t) == RuleKeys[t] # <<>>

\* The key rendered with the whole hash, which prepareCreate checks first.
FullKey(t) == RuleKeys[t][Len(RuleKeys[t])]

\* GenerateKey: the first candidate that is free, none when all are taken.
FirstFree(cands, free) ==
    {cands[i] : i \in {j \in DOMAIN cands :
                        cands[j] \in free /\ \A h \in 1..(j - 1) : cands[h] \notin free}}

-----------------------------------------------------------------------------
(* What a create request holds: a target, an explicit key or none, the     *)
(* client that asks. Without an explicit key the target's rule, or the     *)
(* random fallback, generates one.                                         *)
Request == [target : Targets, key : ValidKeys \cup {NoKey}, client : Clients]

\* The keys the generator may return, given the free keys: the rule's first
\* free candidate, or any free random key.
GenKeys(r, free) ==
    IF MatchesRule(r.target) THEN FirstFree(RuleKeys[r.target], free)
    ELSE RandomPool[r.client] \cap free

\* When it may give up: every candidate is taken, or ten random draws collide.
GenGivesUp(r, free) ==
    IF MatchesRule(r.target) THEN FirstFree(RuleKeys[r.target], free) = {}
    ELSE \E k \in RandomPool[r.client] : k \notin free
=============================================================================
