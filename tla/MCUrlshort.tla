----------------------------- MODULE MCUrlshort ------------------------------
(* Keys in byte order: 1 and 2 under /a/, 3 under /c/, 4 under /d/, 5 at   *)
(* the root; 2 and 5 are random keys. Target "x" has a hash rule inside    *)
(* /a/ and /c/, target "y" a hash rule whose prefixes fall into /a/ and    *)
(* /c/ before its full key in /d/, target "z" matches no rule.  Backups    *)
(* over three days of three instants, with one kind of fault at a time,    *)
(* and four records logged by two callers over three days and a restart.   *)
(* Seven requests for three keys, of which two are tracked.                *)
EXTENDS Urlshort

MCBackupScenarios ==
    {[onStart |-> b, kinds |-> {k}] : b \in BOOLEAN, k \in BackupKinds}

MCKeys == 1..5
MCTargets == {"x", "y", "z"}
MCClients == {"ann", "bob"}
MCAdmins == {"bob"}
MCNamespaces == [c \in MCClients |-> IF c = "ann" THEN <<{1, 2}, {4}>> ELSE <<>>]
MCRuleKeys == [t \in MCTargets |-> CASE t = "x" -> <<1, 3>>
                                     [] t = "y" -> <<1, 3, 4>>
                                     [] t = "z" -> <<>>]
MCRandomPool == [c \in MCClients |-> IF c = "ann" THEN {2} ELSE {5}]
=============================================================================
