-------------------------------- MODULE Alerts --------------------------------
(***************************************************************************)
(* The monitors of a web, of a Jenkins job and of a Redmine project.  They *)
(* are processes that share nothing, so a behaviour of the model follows   *)
(* one of them while the others have not been started.                     *)
(***************************************************************************)
EXTENDS WebMonitor, JenkinsMonitor, RedmineMonitor

VARIABLE watched     \* the process that this behaviour follows

vars == <<webVars, jobVars, feedVars, watched>>

Processes == {"web", "jenkins", "redmine"}

Init ==
    /\ WebInit
    /\ JobInit
    /\ FeedInit
    /\ watched \in Processes
    /\ watched # "web" => webMay = {} /\ served = Least(Certs)
    /\ watched # "jenkins" => jobMay = {}
    /\ watched # "redmine" => feedMay = {} /\ wanted = Actions /\ old

Next ==
    /\ \/ watched = "web" /\ WebNext /\ UNCHANGED <<jobVars, feedVars>>
       \/ watched = "jenkins" /\ JobNext /\ UNCHANGED <<webVars, feedVars>>
       \/ watched = "redmine" /\ FeedNext /\ UNCHANGED <<webVars, jobVars>>
    /\ UNCHANGED watched

Spec == Init /\ [][Next]_vars

-----------------------------------------------------------------------------
\* No monitor gives the same notice over and over, also across restarts: of a
\* certificate, of a node or a queue item, of a block.
NoticesOnce == CertWarnedOnce /\ WatchersSayOnce /\ BlockWarnedOnce
=============================================================================
