------------------------------ MODULE Maintenance ------------------------------
(***************************************************************************)
(* The backups of urlshort: one goroutine copies the live database every   *)
(* day at the configured hour, and when the process starts, verifies the   *)
(* copy, publishes it by a rename, removes what is too old, and records    *)
(* how it went; the process may be stopped or killed at any step.          *)
(*                                                                         *)
(* Time is counted in instants, DayLen to a day.  What a copy holds is     *)
(* abstracted to whether it passes verification.                           *)
(***************************************************************************)
EXTENDS Naturals, FiniteSets

CONSTANTS
    DayLen, Hour,     \* instants in a day; backup.hour_utc
    RetentionDays,    \* backup.retention_days, 0 keeps all
    StartupCount,     \* backup.startup_retention_count, 0 keeps all
    MaxInstant,       \* bound of the model: the last instant
    MaxRun,           \* bound of the model: the instants one run may take
    MaxBoots,         \* bound of the model: how often the process starts
    BackupScenarios   \* bounds of the model, one of which a behaviour has:
                      \* run_on_start, and what may go wrong

BackupKinds == {"fails", "damaged", "undeleted", "unlisted", "killed"}

ASSUME MaintenanceAssumption ==
    /\ DayLen \in Nat \ {0} /\ Hour \in 0..(DayLen - 1)
    /\ RetentionDays \in Nat /\ StartupCount \in Nat
    /\ MaxInstant \in Nat /\ MaxRun \in Nat /\ MaxBoots \in Nat
    /\ BackupScenarios \subseteq [onStart : BOOLEAN, kinds : SUBSET BackupKinds]

\* A run is over before retention would remove what it made.
ASSUME RetentionAssumption ==
    RetentionDays = 0 \/ Hour + MaxRun <= RetentionDays * DayLen

VARIABLES
    instant,     \* the clock
    dir,         \* the .db files of the backup directory
    parts,       \* its .part files
    running,     \* whether the process runs
    stopping,    \* Stop was called: "no", "asked", and when it waits no longer "closed"
    job,         \* the run under way
    next,        \* what the loop's timer is set to
    status,      \* MaintenanceStatus
    wrote,       \* history: the backup that the last good run made or found
    unlisted,    \* history: the same, if the directory could not be read after that
    since,       \* history: when the process started
    boots,       \* history: how often
    ran,         \* history: when its last run began and ended, and if any failed
    backupCase   \* the bounds of this behaviour

backupHist == <<wrote, unlisted, since, boots, ran>>
backupVars == <<instant, dir, parts, running, stopping, job, next, status,
                backupHist, backupCase>>

\* The date in a name: the second of a startup backup, midnight of a daily one.
Names == [startup : BOOLEAN, date : 0..MaxInstant]

Backups == [name : Names, good : BOOLEAN]

NoName == [startup |-> FALSE, date |-> MaxInstant + 1]

Midnight(t) == t - (t % DayLen)

Jobs == [at : {"idle", "startup", "compact", "verify", "rename", "cleanup", "record"},
         name : Names \cup {NoName}, err : BOOLEAN]

Idle == [at |-> "idle", name |-> NoName, err |-> FALSE]

Unknown == [ok |-> FALSE, file |-> NoName]

NoRun == [begun |-> 0, ended |-> 0, failed |-> FALSE]

BackupInit ==
    /\ instant = 0
    /\ dir = {}
    /\ parts = {}
    /\ running = FALSE
    /\ stopping = "no"
    /\ job = Idle
    /\ next = 0
    /\ status = Unknown
    /\ wrote = NoName /\ unlisted = {}
    /\ since = 0
    /\ boots = 0
    /\ ran = NoRun
    /\ backupCase \in BackupScenarios

Fault(kind) == kind \in backupCase.kinds

\* Mutation of NextRun: always tomorrow.
NextRunTomorrow(t) == Midnight(t) + DayLen + Hour

\* The next time it is backup.hour_utc, strictly after t.
NextRun(t) ==
    IF Midnight(t) + Hour > t THEN Midnight(t) + Hour ELSE Midnight(t) + DayLen + Hour

-----------------------------------------------------------------------------
(* cleanup: retention.                                                     *)

TooOld(name) == RetentionDays > 0 /\ name.date + RetentionDays * DayLen < instant

\* Mutation of Excess: the newest go.
ExcessNewest(fs) ==
    {f \in fs : Cardinality({g \in fs : g.name.date < f.name.date}) >= StartupCount}

\* The startup backups beyond the cap, oldest first.
Excess(fs) ==
    {f \in fs : Cardinality({g \in fs : g.name.date > f.name.date}) >= StartupCount}

\* What retention removes: what is too old and, of the startup backups that are
\* left, those beyond the cap.
Doomed ==
    LET old == {f \in dir : TooOld(f.name)} IN
    old \cup IF StartupCount = 0 THEN {} ELSE Excess({f \in dir \ old : f.name.startup})

\* It may find no file to remove as it cannot read the directory, now or before it
\* looks for temporary files, and a deletion may fail; it only logs that.
Cleanup ==
    /\ \E kept \in SUBSET Doomed :
        /\ kept = {} \/ Fault("undeleted") \/ (kept = Doomed /\ Fault("unlisted"))
        /\ dir' = (dir \ Doomed) \cup kept
    /\ \/ parts' = {p \in parts : p.born + DayLen >= instant}
       \/ (Fault("undeleted") \/ Fault("unlisted")) /\ UNCHANGED parts

-----------------------------------------------------------------------------
(* The run.                                                                *)

\* The copy begins under its temporary name; what was there goes.
BeginCopy(name) ==
    /\ job' = [at |-> "compact", name |-> name, err |-> FALSE]
    /\ parts' = {p \in parts : p.name # name} \cup {[name |-> name, born |-> instant, good |-> FALSE]}

\* Start, and the loop up to its first timer: retention, and the startup backup.
Boot ==
    /\ ~running /\ boots < MaxBoots
    /\ running' = TRUE
    /\ boots' = boots + 1
    /\ since' = instant
    /\ ran' = [ran EXCEPT !.begun = instant]
    /\ Cleanup
    /\ IF backupCase.onStart
       THEN job' = [at |-> "startup", name |-> NoName, err |-> FALSE] /\ UNCHANGED next
       ELSE job' = Idle /\ next' = NextRun(instant)
    /\ UNCHANGED <<instant, stopping, status, wrote, unlisted, backupCase>>

RunStartup ==
    /\ job.at = "startup"
    /\ BeginCopy([startup |-> TRUE, date |-> instant])
    /\ UNCHANGED <<instant, dir, running, stopping, next, status, backupHist, backupCase>>

\* The timer: a daily backup that exists and verifies is not made again.
RunScheduled ==
    /\ running /\ job.at = "idle"
    /\ instant >= next
    /\ LET name == [startup |-> FALSE, date |-> Midnight(instant)] IN
       IF [name |-> name, good |-> TRUE] \in dir
       THEN job' = [at |-> "cleanup", name |-> name, err |-> FALSE] /\ UNCHANGED parts
       ELSE BeginCopy(name)
    /\ ran' = [ran EXCEPT !.begun = instant]
    /\ UNCHANGED <<instant, dir, running, stopping, next, status, wrote, unlisted,
                   since, boots, backupCase>>

\* The file at the temporary name is removed when a step fails.
Fails ==
    /\ job' = [at |-> "cleanup", name |-> job.name, err |-> TRUE]
    /\ parts' = {p \in parts : p.name # job.name}
    /\ UNCHANGED dir

\* CompactTo: it copies a snapshot of the live database, well or not, or fails,
\* as it must when the store has been closed.
Compact ==
    /\ job.at = "compact"
    /\ \/ /\ stopping # "closed"
          /\ \E good \in IF Fault("damaged") THEN BOOLEAN ELSE {TRUE} :
               parts' = {p \in parts : p.name # job.name}
                        \cup {[name |-> job.name, born |-> instant, good |-> good]}
          /\ job' = [job EXCEPT !.at = "verify"]
          /\ UNCHANGED dir
       \/ (Fault("fails") \/ stopping = "closed") /\ Fails
    /\ UNCHANGED <<instant, running, stopping, next, status, backupHist, backupCase>>

PartIsGood == \E p \in parts : p.name = job.name /\ p.good

\* Mutation of Verify: the copy is not opened again.
VerifyNothing ==
    /\ job.at = "verify"
    /\ job' = [job EXCEPT !.at = "rename"]
    /\ UNCHANGED <<instant, dir, parts, running, stopping, next, status, backupHist, backupCase>>

Verify ==
    /\ job.at = "verify"
    /\ IF PartIsGood
       THEN job' = [job EXCEPT !.at = "rename"] /\ UNCHANGED <<dir, parts>>
       ELSE Fails
    /\ UNCHANGED <<instant, running, stopping, next, status, backupHist, backupCase>>

\* The rename replaces a file of that name; what is published is then looked
\* at, which may fail, too.
Publish ==
    /\ job.at = "rename"
    /\ \/ /\ dir' = {f \in dir : f.name # job.name} \cup {[name |-> job.name, good |-> PartIsGood]}
          /\ parts' = {p \in parts : p.name # job.name}
          /\ \E err \in BOOLEAN :
               /\ err => Fault("fails")
               /\ job' = [at |-> "cleanup", name |-> job.name, err |-> err]
       \/ Fault("fails") /\ Fails
    /\ UNCHANGED <<instant, running, stopping, next, status, backupHist, backupCase>>

\* Retention follows whether or not the backup was made.
Retain ==
    /\ job.at = "cleanup"
    /\ Cleanup
    /\ job' = [job EXCEPT !.at = "record"]
    /\ UNCHANGED <<instant, running, stopping, next, status, backupHist, backupCase>>

\* The newest by the dates in the names, of those listed.
Latest(file) == \A f \in dir : f.name.date <= file.name.date

\* After a good run record lists the directory for the newest; when it cannot, or
\* finds nothing, the status is good and goes on naming what it named.
RecordGood ==
    /\ wrote' = job.name
    /\ \/ /\ dir = {} \/ Fault("unlisted")
          /\ status' = [ok |-> TRUE, file |-> status.file]
          /\ unlisted' = {job.name}
       \/ /\ \E f \in dir : Latest(f) /\ status' = [ok |-> TRUE, file |-> f.name]
          /\ unlisted' = {}

\* record, and the loop sets its timer again.
Record ==
    /\ job.at = "record"
    /\ IF job.err
       THEN status' = [ok |-> FALSE, file |-> status.file] /\ UNCHANGED <<wrote, unlisted>>
       ELSE RecordGood
    /\ ran' = [ran EXCEPT !.ended = instant, !.failed = @ \/ job.err]
    /\ job' = Idle
    /\ next' = NextRun(instant)
    /\ UNCHANGED <<instant, dir, parts, running, stopping, since, boots, backupCase>>

-----------------------------------------------------------------------------
(* The process.                                                            *)

\* The memory of the process is gone.
Gone ==
    /\ running' = FALSE /\ stopping' = "no" /\ job' = Idle /\ next' = 0
    /\ status' = Unknown /\ wrote' = NoName /\ unlisted' = {} /\ ran' = NoRun /\ since' = 0
    /\ UNCHANGED <<instant, dir, parts, boots, backupCase>>

Stop ==
    /\ running /\ stopping = "no"
    /\ stopping' = "asked"
    /\ UNCHANGED <<instant, dir, parts, running, job, next, status, backupHist, backupCase>>

\* The loop returns between two runs, and the process ends.
LoopEnds == running /\ stopping = "asked" /\ job.at = "idle" /\ Gone

\* Stop waits no longer, and main closes the store under the run.
CloseStore ==
    /\ stopping = "asked" /\ job.at # "idle"
    /\ stopping' = "closed"
    /\ UNCHANGED <<instant, dir, parts, running, job, next, status, backupHist, backupCase>>

\* The process ends under the run.
Exit == stopping = "closed" /\ Gone

Killed == running /\ Fault("killed") /\ Gone

\* The timer fires when it is due, and a run takes far less than a day.
Pass ==
    /\ instant < MaxInstant
    /\ running => instant < IF job.at = "idle" THEN next ELSE ran.begun + MaxRun
    /\ instant' = instant + 1
    /\ UNCHANGED <<dir, parts, running, stopping, job, next, status, backupHist, backupCase>>

BackupNext ==
    \/ Boot \/ RunStartup \/ RunScheduled
    \/ Compact \/ Verify \/ Publish \/ Retain \/ Record
    \/ Stop \/ LoopEnds \/ CloseStore \/ Exit \/ Killed
    \/ Pass

BackupSpec == BackupInit /\ [][BackupNext]_backupVars

-----------------------------------------------------------------------------
(* Properties.                                                             *)

BackupTypeOK ==
    /\ instant \in 0..MaxInstant
    /\ dir \subseteq Backups
    /\ \A p \in parts : p.name \in Names /\ p.born \in 0..MaxInstant
    /\ running \in BOOLEAN
    /\ stopping \in {"no", "asked", "closed"}
    /\ job \in Jobs
    /\ job.at \in {"compact", "verify", "rename"} => job.name \in Names

\* Every file that looks like a backup is one that can be restored, wherever
\* the process was stopped or killed and whatever failed (C21, C22: the copy is
\* verified under its temporary name and renamed).
BackupsRestorable == \A f \in dir : f.good

\* Between two runs a good status stands for a backup that is there, and names the
\* newest of the day of the last good run; after failed runs what is named is still
\* there, unless these went on for retention_days (record, cleanup: retention
\* follows failed runs, too).  A good run after which the directory cannot be read
\* leaves the name as it was: that file is there only for retention_days, too.
StatusNamesBackup ==
    job.at = "idle" /\ status.file # NoName =>
        /\ \/ \E f \in dir : f.name = status.file
           \/ /\ ~status.ok \/ unlisted # {}
              /\ status.file.date + RetentionDays * DayLen < ran.ended
        /\ status.ok => \E f \in dir : f.name = wrote
        /\ status.ok /\ unlisted = {} =>
              /\ \E f \in dir : f.name = status.file /\ Latest(f)
              /\ Midnight(status.file.date) = Midnight(wrote.date)

\* The last time before now that it was backup.hour_utc.
LastHour == NextRun(instant) - DayLen

\* A process that was up at the hour, and waits for the next one, has a backup
\* of that day or a later one, unless a run failed, or one that began the day
\* before was still under way at the hour (loop, NextRun).
DayHasBackup ==
    (running /\ job.at = "idle" /\ instant < next /\ instant >= Hour /\ since < LastHour)
    => \/ \E f \in dir : f.name.date >= Midnight(LastHour)
       \/ ran.failed
       \/ ran.begun < Midnight(LastHour) /\ ran.ended >= LastHour
=============================================================================
