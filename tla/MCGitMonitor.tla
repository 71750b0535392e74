----------------------------- MODULE MCGitMonitor -----------------------------
(* A history with a merge: 2 after 1, 3 and 4 after 2, and 5 merges them.   *)
EXTENDS GitMonitor

MCParents == <<{}, {1}, {2}, {2}, {3, 4}>>

MCTarget == [o \in TagObjects |-> 1]

\* Two short texts fit into a message; the merge's alone does not.
MCSize == <<1, 1, 2, 1, 3>>
Pushes(ks) == [kinds |-> ks, heads |-> Commits, objects |-> {}]

Tagging(ks) == [kinds |-> ks, heads |-> {1, 2}, objects |-> {1, 2} \cup TagObjects]

\* One thing goes wrong.
MCScenarios == {Pushes({k}) : k \in Kinds} \cup {Tagging({k}) : k \in Kinds}

MCCalm == {Tagging({})}
=============================================================================
