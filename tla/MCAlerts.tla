------------------------------- MODULE MCAlerts -------------------------------
(* Two results in a row declare a change; thresholds of one day and of     *)
(* none; series of two builds at most; a feed of two activities.  One or   *)
(* two things go wrong.                                                    *)
EXTENDS Alerts

MCWebScenarios == {{k} : k \in WebKinds} \cup {{}}

MCJobScenarios ==
    {{k} : k \in {"crash", "unsaved", "badstate", "unread", "overtake", "pruned"}}
    \cup {{"rest", k} : k \in {"unread", "overtake"}}
    \cup {{w, k} : w \in {"node", "queue"}, k \in {"crash", "unsaved", "badstate", "rest"}}
    \cup {{"queue", "several"}}
    \cup {{}}

MCWantedSets == {Actions, Actions \ {"close"}}

MCFeedScenarios ==
    {{k} : k \in {"crash", "unsaved", "badstate"}}
    \cup {{"block", k} : k \in {"crash", "unsaved", "badstate"}}
    \cup {{}}

MCCalm == {{}}

MCAny == {Actions}
===============================================================================
