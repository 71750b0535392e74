-------------------------------- MODULE Urlshort --------------------------------
(***************************************************************************)
(* The process urlshort under its HTTP handlers: the link store, the       *)
(* maintenance that backs it up, the logs, and the rate limiter.  A backup *)
(* copies one committed state of the store, a log takes opaque lines and   *)
(* the limiter knows names only, so that they share no state but the       *)
(* database being closed under a run, and a behaviour of the model follows *)
(* one of them.                                                            *)
(***************************************************************************)
EXTENDS LinkStore, Maintenance, DailyLog, RateLimiter

VARIABLE followed     \* the part that this behaviour follows

urlVars == <<storeVars, backupVars, logVars, rateVars, followed>>

UrlParts == {"store", "backup", "log", "rate"}

UrlInit ==
    /\ StoreInit
    /\ BackupInit
    /\ LogInit
    /\ RateInit
    /\ followed \in UrlParts
    /\ followed # "backup" => backupCase = CHOOSE c \in BackupScenarios : TRUE

UrlNext ==
    /\ \/ followed = "store" /\ StoreNext /\ UNCHANGED <<backupVars, logVars, rateVars>>
       \/ followed = "backup" /\ BackupNext /\ UNCHANGED <<storeVars, logVars, rateVars>>
       \/ followed = "log" /\ LogNext /\ UNCHANGED <<storeVars, backupVars, rateVars>>
       \/ followed = "rate" /\ RateNext /\ UNCHANGED <<storeVars, backupVars, logVars>>
    /\ UNCHANGED followed

UrlSpec == UrlInit /\ [][UrlNext]_urlVars
=================================================================================
