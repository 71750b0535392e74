---------------------------- MODULE UrlshortProofs ----------------------------
(***************************************************************************)
(* What the process urlshort keeps true under its handlers, but for the    *)
(* link store: its backups, for every schedule and retention and wherever  *)
(* a run fails or the process is stopped or killed; its rate limiter, for  *)
(* any number of keys and handlers; and its logs, for any callers, days,   *)
(* capacity and restarts.                                                  *)
(***************************************************************************)
EXTENDS Urlshort, OrderProofs, SequenceTheorems

-----------------------------------------------------------------------------
(* That every published backup can be restored: what is renamed was        *)
(* verified under its temporary name, and nothing changes that file in     *)
(* between.                                                                *)

\* The file about to be renamed was verified.
RenamesVerified == job.at = "rename" => PartIsGood

BackupInv == BackupTypeOK /\ BackupsRestorable /\ RenamesVerified

-----------------------------------------------------------------------------
LEMMA MidnightTyped == ASSUME NEW t \in 0..MaxInstant PROVE Midnight(t) \in 0..MaxInstant
<1>1. DayLen \in Nat /\ DayLen > 0 /\ MaxInstant \in Nat /\ t \in Nat
  BY MaintenanceAssumption
<1>2. t % DayLen \in 0..(DayLen - 1)
  BY <1>1
<1>3. t % DayLen <= t
  <2>1. CASE t < DayLen
    BY <1>1, <2>1
  <2>2. CASE t >= DayLen
    BY <1>1, <1>2, <2>2
  <2> QED
    BY <1>1, <2>1, <2>2
<1> QED
  BY <1>1, <1>2, <1>3 DEF Midnight

\* Retention removes files, and changes none.
LEMMA CleanupRemoves ==
    ASSUME BackupTypeOK, Cleanup
    PROVE  dir' \subseteq dir /\ parts' \subseteq parts
<1>1. Doomed \subseteq dir
  BY DEF Doomed, Excess
<1>2. PICK kept \in SUBSET Doomed : dir' = (dir \ Doomed) \cup kept
  BY DEF Cleanup
<1>3. dir' \subseteq dir
  BY <1>1, <1>2
<1>4. parts' \subseteq parts
  BY DEF Cleanup
<1> QED
  BY <1>3, <1>4

LEMMA BackupInitInv == BackupInit => BackupInv
<1> SUFFICES ASSUME BackupInit PROVE BackupInv
  OBVIOUS
<1>1. job = [at |-> "idle", name |-> NoName, err |-> FALSE]
  BY DEF BackupInit, Idle
<1>2. job \in Jobs
  BY <1>1 DEF Jobs
<1>r. running \in BOOLEAN
  BY Zenon DEF BackupInit
<1>3. BackupTypeOK
  <2>1. instant \in 0..MaxInstant /\ dir \subseteq Backups /\ parts = {}
    BY MaintenanceAssumption DEF BackupInit
  <2>2. stopping \in {"no", "asked", "closed"}
    BY DEF BackupInit
  <2> QED
    BY <1>1, <1>2, <1>r, <2>1, <2>2 DEF BackupTypeOK
<1> QED
  BY <1>1, <1>3 DEF BackupInit, BackupInv, BackupsRestorable, RenamesVerified

\* A run goes on to another step, and may have failed.
LEMMA StepOfJob ==
    ASSUME NEW j \in Jobs, NEW e \in BOOLEAN,
           NEW a \in {"verify", "rename", "cleanup", "record"}
    PROVE  /\ [j EXCEPT !.at = a] \in Jobs
           /\ [j EXCEPT !.at = a].at = a /\ [j EXCEPT !.at = a].name = j.name
           /\ [at |-> a, name |-> j.name, err |-> e] \in Jobs
BY DEF Jobs

\* The parts of the invariant that a step leaves alone when it changes no file.
LEMMA JobChanges ==
    ASSUME BackupInv, job' \in Jobs, job'.at # "rename",
           job'.at \in {"compact", "verify"} => job'.name \in Names,
           instant' \in 0..MaxInstant, running' \in BOOLEAN,
           stopping' \in {"no", "asked", "closed"},
           dir' \subseteq dir,
           \A p \in parts' : p \in parts \/ (p.name \in Names /\ p.born \in 0..MaxInstant)
    PROVE  BackupInv'
<1>1. BackupTypeOK'
  BY DEF BackupInv, BackupTypeOK
<1> QED
  BY <1>1 DEF BackupInv, BackupsRestorable, RenamesVerified

LEMMA RunFails ==
    ASSUME BackupInv, Fails, UNCHANGED <<instant, running, stopping>>
    PROVE  BackupInv'
<1>1. job \in Jobs
  BY DEF BackupInv, BackupTypeOK
<1>2. job' \in Jobs /\ job'.at = "cleanup"
  BY <1>1, StepOfJob DEF Fails
<1>3. parts' \subseteq parts /\ dir' = dir
  BY DEF Fails
<1>4. instant' \in 0..MaxInstant /\ stopping' \in {"no", "asked", "closed"}
  BY DEF BackupInv, BackupTypeOK
<1>5. running' \in BOOLEAN
  BY Zenon DEF BackupInv, BackupTypeOK
<1> QED
  BY <1>2, <1>3, <1>4, <1>5, JobChanges

LEMMA CopyBegins ==
    ASSUME BackupInv, NEW name \in Names, BeginCopy(name),
           UNCHANGED <<instant, dir, running, stopping>>
    PROVE  BackupInv'
<1>1. job' = [at |-> "compact", name |-> name, err |-> FALSE]
  BY DEF BeginCopy
<1>2. job' \in Jobs /\ job'.at = "compact" /\ job'.name \in Names
  BY <1>1 DEF Jobs
<1>3. ASSUME NEW p \in parts'
      PROVE  p \in parts \/ p = [name |-> name, born |-> instant, good |-> FALSE]
  BY <1>3 DEF BeginCopy
<1>4. /\ instant \in 0..MaxInstant /\ instant' = instant /\ dir' = dir
      /\ stopping' \in {"no", "asked", "closed"}
  BY DEF BackupInv, BackupTypeOK
<1>5. running' \in BOOLEAN
  BY Zenon DEF BackupInv, BackupTypeOK
<1>6. \A p \in parts' : p \in parts \/ (p.name \in Names /\ p.born \in 0..MaxInstant)
  BY <1>3, <1>4
<1> QED
  BY <1>2, <1>4, <1>5, <1>6, JobChanges

-----------------------------------------------------------------------------
LEMMA BootInv == ASSUME BackupInv, Boot PROVE BackupInv'
<1>1. dir' \subseteq dir /\ parts' \subseteq parts
  BY CleanupRemoves DEF Boot, BackupInv
<1>2. job' \in Jobs /\ job'.at \in {"idle", "startup"}
  <2>1. CASE backupCase.onStart
    <3>1. job' = [at |-> "startup", name |-> NoName, err |-> FALSE]
      BY <2>1 DEF Boot
    <3> QED
      BY <3>1 DEF Jobs
  <2>2. CASE ~backupCase.onStart
    <3>1. job' = [at |-> "idle", name |-> NoName, err |-> FALSE]
      BY <2>2 DEF Boot, Idle
    <3> QED
      BY <3>1 DEF Jobs
  <2> QED
    BY <2>1, <2>2
<1>3. instant' \in 0..MaxInstant /\ stopping' \in {"no", "asked", "closed"}
  BY DEF Boot, BackupInv, BackupTypeOK
<1>4. running' \in BOOLEAN
  BY Zenon DEF Boot
<1> QED
  BY <1>1, <1>2, <1>3, <1>4, JobChanges

LEMMA ScheduledInv == ASSUME BackupInv, RunScheduled PROVE BackupInv'
<1> DEFINE name == [startup |-> FALSE, date |-> Midnight(instant)]
<1>1. instant \in 0..MaxInstant
  BY DEF BackupInv, BackupTypeOK
<1>2. name \in Names
  BY <1>1, MidnightTyped DEF Names
<1>3. UNCHANGED <<instant, dir, running, stopping>>
  BY DEF RunScheduled
<1>4. CASE [name |-> name, good |-> TRUE] \in dir
  <2>1. job' = [at |-> "cleanup", name |-> name, err |-> FALSE] /\ parts' = parts
    BY <1>4 DEF RunScheduled
  <2>2. job' \in Jobs /\ job'.at = "cleanup"
    BY <1>2, <2>1 DEF Jobs
  <2>3. stopping' \in {"no", "asked", "closed"} /\ instant' \in 0..MaxInstant
    BY <1>1, <1>3 DEF BackupInv, BackupTypeOK
  <2>4. running' \in BOOLEAN
    BY <1>3, Zenon DEF BackupInv, BackupTypeOK
  <2> QED
    BY <1>3, <2>1, <2>2, <2>3, <2>4, JobChanges
<1>5. CASE [name |-> name, good |-> TRUE] \notin dir
  <2>1. BeginCopy(name)
    BY <1>5 DEF RunScheduled
  <2> QED
    BY <1>2, <1>3, <2>1, CopyBegins
<1> QED
  BY <1>4, <1>5

LEMMA CompactInv == ASSUME BackupInv, Compact PROVE BackupInv'
<1>1. UNCHANGED <<instant, running, stopping>> /\ job.at = "compact"
  BY DEF Compact
<1>2. CASE Fails
  BY <1>1, <1>2, RunFails
<1>3. ASSUME NEW good \in BOOLEAN,
             parts' = {p \in parts : p.name # job.name}
                      \cup {[name |-> job.name, born |-> instant, good |-> good]},
             job' = [job EXCEPT !.at = "verify"], UNCHANGED dir
      PROVE  BackupInv'
  <2>1. job \in Jobs /\ job.name \in Names /\ instant \in 0..MaxInstant
    BY <1>1 DEF BackupInv, BackupTypeOK
  <2>2. job' \in Jobs /\ job'.at = "verify" /\ job'.name = job.name
    BY <1>3, <2>1, StepOfJob
  <2>3. \A p \in parts' : p \in parts \/ (p.name \in Names /\ p.born \in 0..MaxInstant)
    BY <1>3, <2>1
  <2>4. stopping' \in {"no", "asked", "closed"} /\ instant' \in 0..MaxInstant
    BY <1>1, <2>1 DEF BackupInv, BackupTypeOK
  <2>5. running' \in BOOLEAN
    BY <1>1, Zenon DEF BackupInv, BackupTypeOK
  <2> QED
    BY <1>3, <2>1, <2>2, <2>3, <2>4, <2>5, JobChanges
<1> QED
  BY <1>2, <1>3 DEF Compact

LEMMA VerifyInv == ASSUME BackupInv, Verify PROVE BackupInv'
<1>1. UNCHANGED <<instant, running, stopping>> /\ job.at = "verify"
  BY DEF Verify
<1>2. CASE ~PartIsGood
  BY <1>1, <1>2, RunFails DEF Verify
<1>3. CASE PartIsGood
  <2>1. job' = [job EXCEPT !.at = "rename"] /\ dir' = dir /\ parts' = parts
    BY <1>3 DEF Verify
  <2>2. job \in Jobs /\ job.name \in Names
    BY <1>1 DEF BackupInv, BackupTypeOK
  <2>3. job' \in Jobs /\ job'.at = "rename" /\ job'.name = job.name
    BY <2>1, <2>2, StepOfJob
  <2>4. PartIsGood'
    BY <1>3, <2>1, <2>3 DEF PartIsGood
  <2>5. running' \in BOOLEAN
    BY <1>1, Zenon DEF BackupInv, BackupTypeOK
  <2>6. BackupTypeOK'
    BY <1>1, <2>1, <2>2, <2>3, <2>5 DEF BackupInv, BackupTypeOK
  <2> QED
    BY <2>1, <2>4, <2>6 DEF BackupInv, BackupsRestorable, RenamesVerified
<1> QED
  BY <1>2, <1>3

\* What is renamed was verified.
LEMMA PublishInv == ASSUME BackupInv, Publish PROVE BackupInv'
<1>1. UNCHANGED <<instant, running, stopping>> /\ job.at = "rename"
  BY DEF Publish
<1>2. CASE Fails
  BY <1>1, <1>2, RunFails
<1>3. ASSUME NEW err \in BOOLEAN,
             dir' = {f \in dir : f.name # job.name} \cup {[name |-> job.name, good |-> PartIsGood]},
             parts' = {p \in parts : p.name # job.name},
             job' = [at |-> "cleanup", name |-> job.name, err |-> err]
      PROVE  BackupInv'
  <2>1. job \in Jobs /\ job.name \in Names /\ PartIsGood
    BY <1>1 DEF BackupInv, BackupTypeOK, RenamesVerified
  <2>2. job' \in Jobs /\ job'.at = "cleanup"
    BY <1>3, <2>1 DEF Jobs
  <2>3. PartIsGood = TRUE
    BY <2>1, Zenon DEF PartIsGood
  <2>4. dir' = {f \in dir : f.name # job.name} \cup {[name |-> job.name, good |-> TRUE]}
    BY <1>3, <2>3
  <2>5. [name |-> job.name, good |-> TRUE] \in Backups
    BY <2>1 DEF Backups
  <2>6. \A f \in dir' : f \in Backups /\ f.good
    <3> SUFFICES ASSUME NEW f \in dir' PROVE f \in Backups /\ f.good
      OBVIOUS
    <3>1. CASE f \in dir
      BY <3>1 DEF BackupInv, BackupTypeOK, BackupsRestorable
    <3>2. CASE f = [name |-> job.name, good |-> TRUE]
      BY <2>5, <3>2
    <3> QED
      BY <2>4, <3>1, <3>2
  <2>7. running' \in BOOLEAN
    BY <1>1, Zenon DEF BackupInv, BackupTypeOK
  <2>8. BackupTypeOK'
    BY <1>1, <1>3, <2>2, <2>6, <2>7 DEF BackupInv, BackupTypeOK
  <2> QED
    BY <2>2, <2>6, <2>8 DEF BackupInv, BackupsRestorable, RenamesVerified
<1> QED
  BY <1>2, <1>3 DEF Publish

\* A step that leaves the files and the run alone.
LEMMA FilesStay ==
    ASSUME BackupInv, UNCHANGED <<dir, parts, job>>, instant' \in 0..MaxInstant,
           running' \in BOOLEAN, stopping' \in {"no", "asked", "closed"}
    PROVE  BackupInv'
<1>1. BackupTypeOK'
  BY DEF BackupInv, BackupTypeOK
<1>2. PartIsGood' <=> PartIsGood
  BY DEF PartIsGood
<1> QED
  BY <1>1, <1>2 DEF BackupInv, BackupsRestorable, RenamesVerified

LEMMA RetainInv == ASSUME BackupInv, Retain PROVE BackupInv'
<1>1. dir' \subseteq dir /\ parts' \subseteq parts
  BY CleanupRemoves DEF Retain, BackupInv
<1>2. job' = [job EXCEPT !.at = "record"] /\ UNCHANGED <<instant, running, stopping>>
  BY DEF Retain
<1>3. job \in Jobs
  BY DEF BackupInv, BackupTypeOK
<1>4. job' \in Jobs /\ job'.at = "record"
  BY <1>2, <1>3, StepOfJob
<1>5. instant' \in 0..MaxInstant /\ stopping' \in {"no", "asked", "closed"}
  BY <1>2 DEF BackupInv, BackupTypeOK
<1>6. running' \in BOOLEAN
  BY <1>2, Zenon DEF BackupInv, BackupTypeOK
<1> QED
  BY <1>1, <1>4, <1>5, <1>6, JobChanges

\* The run is over, or the process is.
LEMMA IdleInv ==
    ASSUME BackupInv, job' = Idle, UNCHANGED <<instant, dir, parts>>,
           running' \in BOOLEAN, stopping' \in {"no", "asked", "closed"}
    PROVE  BackupInv'
<1>1. job' = [at |-> "idle", name |-> NoName, err |-> FALSE]
  BY DEF Idle
<1>2. job' \in Jobs /\ job'.at = "idle"
  BY <1>1 DEF Jobs
<1>3. instant' \in 0..MaxInstant
  BY DEF BackupInv, BackupTypeOK
<1> QED
  BY <1>2, <1>3, JobChanges

LEMMA GoneInv == ASSUME BackupInv, Gone PROVE BackupInv'
<1>1. running' \in BOOLEAN
  BY Zenon DEF Gone
<1>2. job' = Idle /\ UNCHANGED <<instant, dir, parts>> /\ stopping' = "no"
  BY DEF Gone
<1> QED
  BY <1>1, <1>2, IdleInv

LEMMA BackupStep == BackupInv /\ [BackupNext]_backupVars => BackupInv'
<1> SUFFICES ASSUME BackupInv, [BackupNext]_backupVars PROVE BackupInv'
  OBVIOUS
<1>a. instant \in 0..MaxInstant /\ stopping \in {"no", "asked", "closed"}
  BY DEF BackupInv, BackupTypeOK
<1>b. running \in BOOLEAN
  BY DEF BackupInv, BackupTypeOK
<1>1. CASE Boot
  BY <1>1, BootInv
<1>2. CASE RunStartup
  <2> DEFINE name == [startup |-> TRUE, date |-> instant]
  <2>1. name \in Names
    BY <1>a DEF Names
  <2>2. BeginCopy(name) /\ UNCHANGED <<instant, dir, running, stopping>>
    BY <1>2 DEF RunStartup
  <2> QED
    BY <2>1, <2>2, CopyBegins
<1>3. CASE RunScheduled
  BY <1>3, ScheduledInv
<1>4. CASE Compact
  BY <1>4, CompactInv
<1>5. CASE Verify
  BY <1>5, VerifyInv
<1>6. CASE Publish
  BY <1>6, PublishInv
<1>7. CASE Retain
  BY <1>7, RetainInv
<1>8. CASE Record
  <2>1. job' = Idle /\ UNCHANGED <<instant, dir, parts, running, stopping>>
    BY <1>8 DEF Record
  <2>2. running' \in BOOLEAN
    BY <2>1, <1>b, Zenon
  <2> QED
    BY <1>a, <2>1, <2>2, IdleInv
<1>9. CASE Stop
  <2>1. stopping' = "asked" /\ UNCHANGED <<instant, dir, parts, running, job>>
    BY <1>9 DEF Stop
  <2>2. running' \in BOOLEAN
    BY <2>1, <1>b, Zenon
  <2> QED
    BY <1>a, <2>1, <2>2, FilesStay
<1>10. CASE CloseStore
  <2>1. stopping' = "closed" /\ UNCHANGED <<instant, dir, parts, running, job>>
    BY <1>10 DEF CloseStore
  <2>2. running' \in BOOLEAN
    BY <2>1, <1>b, Zenon
  <2> QED
    BY <1>a, <2>1, <2>2, FilesStay
<1>11. CASE LoopEnds \/ Exit \/ Killed
  BY <1>11, GoneInv DEF LoopEnds, Exit, Killed
<1>12. CASE Pass
  <2>1. instant' \in 0..MaxInstant /\ UNCHANGED <<dir, parts, running, stopping, job>>
    BY <1>12, <1>a, MaintenanceAssumption DEF Pass
  <2>2. running' \in BOOLEAN
    BY <2>1, <1>b, Zenon
  <2> QED
    BY <1>a, <2>1, <2>2, FilesStay
<1>13. CASE UNCHANGED backupVars
  <2>1. UNCHANGED <<instant, dir, parts, running, stopping, job>>
    BY <1>13 DEF backupVars
  <2>2. running' \in BOOLEAN
    BY <2>1, <1>b, Zenon
  <2> QED
    BY <1>a, <2>1, <2>2, FilesStay
<1> QED
  BY <1>1, <1>2, <1>3, <1>4, <1>5, <1>6, <1>7, <1>8, <1>9, <1>10, <1>11, <1>12, <1>13
     DEF BackupNext

-----------------------------------------------------------------------------
\* The state stays typed, and what is renamed is what was verified.
THEOREM BackupHolds == BackupSpec => []BackupInv
<1>1. BackupInit => BackupInv
  BY BackupInitInv
<1>2. BackupInv /\ [BackupNext]_backupVars => BackupInv'
  BY BackupStep
<1> QED
  BY <1>1, <1>2, PTL DEF BackupSpec

\* Every file that looks like a backup passes verification (Maintenance.backup:
\* the copy is verified under its temporary name, then renamed).
THEOREM BackupRestorable == BackupSpec => []BackupsRestorable
<1>1. BackupInv => BackupsRestorable
  BY DEF BackupInv
<1> QED
  BY <1>1, BackupHolds, PTL

-----------------------------------------------------------------------------
(* Days.                                                                   *)

LEMMA Clockwork ==
    /\ DayLen \in Nat /\ DayLen >= 1 /\ Hour \in Nat /\ Hour < DayLen
    /\ MaxInstant \in Nat /\ MaxRun \in Nat /\ RetentionDays \in Nat /\ StartupCount \in Nat
    /\ RetentionDays > 0 => Hour + MaxRun <= RetentionDays * DayLen
BY MaintenanceAssumption, RetentionAssumption

LEMMA DayOf ==
    ASSUME NEW t \in Nat
    PROVE  \E d \in Nat : /\ Midnight(t) = d * DayLen /\ d * DayLen \in Nat
                          /\ Midnight(t) <= t /\ t < Midnight(t) + DayLen
<1>1. t \div DayLen \in Nat /\ t % DayLen \in 0..(DayLen - 1)
      /\ t = DayLen * (t \div DayLen) + (t % DayLen)
  BY Clockwork
<1>2. Midnight(t) = DayLen * (t \div DayLen)
  BY <1>1, Clockwork DEF Midnight
<1>3. DayLen * (t \div DayLen) = (t \div DayLen) * DayLen
      /\ (t \div DayLen) * DayLen \in Nat
  BY <1>1, Clockwork
<1> QED  BY <1>1, <1>2, <1>3, Clockwork

\* Whole days are a day apart.
LEMMA DaysApart ==
    ASSUME NEW d \in Nat, NEW e \in Nat, d < e
    PROVE  d * DayLen + DayLen <= e * DayLen
<1>1. (d + 1) * DayLen <= e * DayLen
  BY Clockwork
<1>2. (d + 1) * DayLen = d * DayLen + DayLen
  BY Clockwork
<1> QED  BY <1>1, <1>2

LEMMA SameDay ==
    ASSUME NEW t \in Nat, NEW d \in Nat, d * DayLen <= t, t < d * DayLen + DayLen
    PROVE  Midnight(t) = d * DayLen
<1>1. PICK e \in Nat : /\ Midnight(t) = e * DayLen /\ e * DayLen \in Nat
                       /\ Midnight(t) <= t /\ t < Midnight(t) + DayLen
  BY DayOf
<1>2. d * DayLen \in Nat /\ DayLen \in Nat
  BY Clockwork
<1>3. ~(d < e)
  BY <1>1, <1>2, DaysApart
<1>4. ~(e < d)
  BY <1>1, <1>2, DaysApart
<1> QED  BY <1>1, <1>3, <1>4

LEMMA Midnights ==
    ASSUME NEW t \in Nat, NEW u \in Nat, t <= u
    PROVE  /\ Midnight(t) \in Nat /\ Midnight(t) <= t /\ t < Midnight(t) + DayLen
           /\ Midnight(t) <= Midnight(u) /\ Midnight(Midnight(t)) = Midnight(t)
<1>1. PICK d \in Nat : /\ Midnight(t) = d * DayLen /\ d * DayLen \in Nat
                       /\ Midnight(t) <= t /\ t < Midnight(t) + DayLen
  BY DayOf
<1>2. PICK e \in Nat : /\ Midnight(u) = e * DayLen /\ e * DayLen \in Nat
                       /\ Midnight(u) <= u /\ u < Midnight(u) + DayLen
  BY DayOf
<1>3. ~(e < d)
  BY <1>1, <1>2, DaysApart, Clockwork
<1>4. d = e \/ d < e
  BY <1>3
<1>5. Midnight(t) <= Midnight(u)
  <2>1. CASE d = e
    BY <1>1, <1>2, <2>1
  <2>2. CASE d < e
    BY <1>1, <1>2, <2>2, DaysApart, Clockwork
  <2> QED  BY <1>4, <2>1, <2>2
<1>6. Midnight(Midnight(t)) = Midnight(t)
  <2> DEFINE m == Midnight(t)
  <2>1. m \in Nat /\ d * DayLen <= m /\ m < d * DayLen + DayLen
    BY <1>1, Clockwork
  <2> HIDE DEF m
  <2>2. Midnight(m) = d * DayLen
    BY <2>1, SameDay
  <2> QED  BY <1>1, <2>2 DEF m
<1> QED  BY <1>1, <1>5, <1>6

\* It is the hour.
AtHour(t) == t = Midnight(t) + Hour

\* NextRun: the first time after t that it is the hour.
LEMMA NextHour ==
    ASSUME NEW t \in Nat
    PROVE  /\ NextRun(t) \in Nat /\ NextRun(t) > t /\ AtHour(NextRun(t))
           /\ \A u \in Nat : u > t /\ AtHour(u) => NextRun(t) <= u
           /\ NextRun(t) - DayLen <= t
           /\ t >= Hour => NextRun(t) - DayLen \in Nat /\ AtHour(NextRun(t) - DayLen)
<1> DEFINE m == Midnight(t)
           n == NextRun(t)
<1>0. DayLen \in Nat /\ DayLen >= 1 /\ Hour \in Nat /\ Hour < DayLen
  BY Clockwork
<1>1. PICK d \in Nat : m = d * DayLen /\ m \in Nat /\ m <= t /\ t < m + DayLen
  BY DayOf
<1>2. n = IF m + Hour > t THEN m + Hour ELSE m + DayLen + Hour
  BY DEF NextRun
<1> HIDE DEF m, n
<1>3. n \in Nat /\ n > t /\ n - DayLen <= t
  BY <1>0, <1>1, <1>2
<1>4. ASSUME NEW e \in Nat
      PROVE  e * DayLen \in Nat /\ Midnight(e * DayLen + Hour) = e * DayLen
  <2> DEFINE h == e * DayLen + Hour
  <2>1. e * DayLen \in Nat
    BY <1>0
  <2>2. h \in Nat /\ e * DayLen <= h /\ h < e * DayLen + DayLen
    BY <1>0, <2>1
  <2> HIDE DEF h
  <2>3. Midnight(h) = e * DayLen
    BY <2>2, SameDay
  <2> QED  BY <2>1, <2>3 DEF h
<1>5. (d + 1) * DayLen = m + DayLen
  BY <1>0, <1>1
<1>6. AtHour(n)
  <2>1. CASE m + Hour > t
    BY <1>1, <1>2, <1>4, <2>1 DEF AtHour
  <2>2. CASE ~(m + Hour > t)
    <3>1. n = (d + 1) * DayLen + Hour
      BY <1>0, <1>1, <1>2, <1>5, <2>2
    <3>2. Midnight((d + 1) * DayLen + Hour) = (d + 1) * DayLen
      BY <1>4
    <3> QED  BY <3>1, <3>2 DEF AtHour
  <2> QED  BY <2>1, <2>2
<1>7. ASSUME NEW u \in Nat, u > t, AtHour(u)
      PROVE  n <= u
  <2>1. PICK e \in Nat : Midnight(u) = e * DayLen /\ e * DayLen \in Nat
    BY DayOf
  <2>2. u = e * DayLen + Hour
    BY <1>7, <2>1 DEF AtHour
  <2>3. ~(e < d)
    BY <1>0, <1>1, <1>7, <2>1, <2>2, DaysApart
  <2>4. CASE e = d
    BY <1>0, <1>1, <1>2, <1>7, <2>2, <2>4
  <2>5. CASE d < e
    BY <1>0, <1>1, <1>2, <2>1, <2>2, <2>5, DaysApart
  <2> QED  BY <2>3, <2>4, <2>5
<1>8. ASSUME t >= Hour
      PROVE  n - DayLen \in Nat /\ AtHour(n - DayLen)
  <2>1. CASE m + Hour > t
    <3>1. d # 0
      <4>1. d = 0 => m = 0
        BY <1>0, <1>1
      <4> QED  BY <1>0, <1>8, <2>1, <4>1
    <3>2. d - 1 \in Nat /\ (d - 1) * DayLen = m - DayLen
      BY <1>0, <1>1, <3>1
    <3>3. n - DayLen = (d - 1) * DayLen + Hour
      BY <1>0, <1>1, <1>2, <2>1, <3>2
    <3>4. (d - 1) * DayLen \in Nat /\ Midnight((d - 1) * DayLen + Hour) = (d - 1) * DayLen
      BY <1>4, <3>2
    <3> QED  BY <1>0, <3>3, <3>4 DEF AtHour
  <2>2. CASE ~(m + Hour > t)
    <3>1. n - DayLen = d * DayLen + Hour /\ n - DayLen \in Nat
      BY <1>0, <1>1, <1>2, <2>2
    <3> QED  BY <1>4, <3>1 DEF AtHour
  <2> QED  BY <2>1, <2>2
<1> QED  BY <1>3, <1>6, <1>7, <1>8 DEF n

-----------------------------------------------------------------------------
(* The schedule, and what the status says of it.                           *)

\* The steps of a run that has a name.
During == {"compact", "verify", "rename", "cleanup", "record"}

ScheduleTypes ==
    /\ status \in [ok : BOOLEAN, file : Names \cup {NoName}]
    /\ ran \in [begun : Nat, ended : Nat, failed : BOOLEAN]
    /\ next \in Nat /\ since \in Nat

\* Nothing is of the future.
Past ==
    /\ ran.begun <= instant /\ ran.ended <= instant /\ since <= instant
    /\ \A f \in dir : f.name.date <= instant

\* A process that is not there makes no run and reports none.
DownIsIdle == ~running => job.at = "idle" /\ status.file = NoName

\* A run is named for the day it began.
RunDated ==
    /\ job.at # "idle" => instant <= ran.begun + MaxRun
    /\ job.at \in During =>
         /\ job.name \in Names /\ job.name.date <= instant
         /\ Midnight(ran.begun) <= job.name.date /\ ran.begun <= job.name.date + Hour

\* No backup is newer than the one under way.
RunNewest ==
    job.at \in During =>
        \A f \in dir : /\ Midnight(f.name.date) <= Midnight(job.name.date)
                       /\ job.name.startup => f.name.date <= job.name.date

\* Its backup is there when it made it.
RunMade == job.at \in {"cleanup", "record"} /\ ~job.err => \E f \in dir : f.name = job.name

\* The startup backup comes before the first report.
StartupFirst ==
    job.at = "startup" \/ (job.at \in During /\ job.name.startup) => status.file = NoName

\* No startup backup is newer than the one reported.
StatusTops ==
    status.file # NoName =>
        \A f \in dir : f.name.startup => f.name.date <= status.file.date

\* The one reported is there, or was too old when a run failed or the directory
\* could not be read.
StatusThere ==
    status.file # NoName =>
        \/ \E f \in dir : f.name = status.file
        \/ /\ ~status.ok \/ unlisted # {}
           /\ status.file.date + RetentionDays * DayLen < ran.ended
        \/ job.at = "record" /\ TooOld(status.file)

\* After a good run the one reported is the newest, and of the day of the run.
StatusGood ==
    job.at = "idle" /\ status.file # NoName /\ status.ok =>
        /\ \E f \in dir : f.name = wrote
        /\ unlisted = {} =>
              /\ \E f \in dir : f.name = status.file /\ Latest(f)
              /\ Midnight(status.file.date) = Midnight(wrote.date)

\* There is a backup of the day the last run began, or a run failed.
HasDayOf == ran.failed \/ \E f \in dir : f.name.date >= Midnight(ran.begun)

\* The loop waits for the first hour after its last run, or its start.
Waits ==
    running /\ job.at = "idle" =>
        /\ instant <= next
        /\ \/ next = NextRun(since)
           \/ next = NextRun(ran.ended) /\ HasDayOf

RunInv == DownIsIdle /\ RunDated /\ RunNewest /\ RunMade
StatusInv == StartupFirst /\ StatusTops /\ StatusThere /\ StatusGood

ScheduleInv == BackupInv /\ ScheduleTypes /\ Past /\ RunInv /\ StatusInv /\ Waits

LEMMA NameFacts ==
    /\ \A x \in Names : x.date \in Nat
    /\ NoName \notin Names
    /\ During \subseteq {"compact", "verify", "rename", "cleanup", "record"}
    /\ "idle" \notin During /\ "startup" \notin During
BY Clockwork DEF Names, NoName, During

LEMMA StateFacts ==
    ASSUME ScheduleInv
    PROVE  /\ instant \in Nat
           /\ \A f \in dir : f \in Backups /\ f.name \in Names /\ f.name.date \in Nat
           /\ status.file \in Names \cup {NoName}
           /\ ran.begun \in Nat /\ ran.ended \in Nat
           /\ job \in Jobs
<1>1. BackupTypeOK /\ ScheduleTypes
  BY DEF ScheduleInv, BackupInv
<1>2. \A f \in dir : f \in Backups /\ f.name \in Names
  BY <1>1 DEF BackupTypeOK, Backups
<1> QED  BY <1>1, <1>2, NameFacts, Clockwork DEF BackupTypeOK, ScheduleTypes

LEMMA ScheduleInitInv == BackupInit => ScheduleInv
<1> SUFFICES ASSUME BackupInit PROVE ScheduleInv
  OBVIOUS
<1>1. BackupInv
  BY BackupInitInv
<1>2. job.at = "idle" /\ status.file = NoName /\ instant = 0 /\ dir = {} /\ next = 0 /\ since = 0
  BY DEF BackupInit, Idle, Unknown
<1>r. ~running
  BY Zenon DEF BackupInit
<1>3. ScheduleTypes
  <2>1. status = [ok |-> FALSE, file |-> NoName] /\ ran = [begun |-> 0, ended |-> 0, failed |-> FALSE]
    BY DEF BackupInit, Unknown, NoRun
  <2> QED  BY <1>2, <2>1 DEF ScheduleTypes
<1>4. Past
  BY <1>2 DEF Past, BackupInit, NoRun
<1>5. RunInv
  BY <1>2, NameFacts DEF RunInv, DownIsIdle, RunDated, RunNewest, RunMade
<1>6. StatusInv
  BY <1>2, NameFacts DEF StatusInv, StartupFirst, StatusTops, StatusThere, StatusGood
<1>7. Waits
  BY <1>r DEF Waits
<1> QED  BY <1>1, <1>3, <1>4, <1>5, <1>6, <1>7 DEF ScheduleInv

\* What retention leaves alone: what is not too old, if it is not a startup
\* backup older than another.
LEMMA CleanupKeeps ==
    ASSUME Cleanup, NEW f \in dir, ~TooOld(f.name),
           f.name.startup => \A g \in dir : g.name.startup => g.name.date <= f.name.date,
           \A g \in dir : g.name.date \in Nat
    PROVE  f \in dir'
<1> DEFINE old == {g \in dir : TooOld(g.name)}
           fs == {g \in dir \ old : g.name.startup}
<1>1. f \notin Excess(fs) \/ StartupCount = 0
  <2> SUFFICES ASSUME f \in Excess(fs), StartupCount # 0 PROVE FALSE
    OBVIOUS
  <2> DEFINE newer == {g \in fs : g.name.date > f.name.date}
  <2>1. f \in fs /\ Cardinality(newer) >= StartupCount
    BY DEF Excess
  <2>2. newer = {}
    BY <2>1
  <2>3. Cardinality(newer) = 0
    BY <2>2, FS_EmptySet
  <2> QED  BY <2>1, <2>3, Clockwork
<1>2. f \notin Doomed
  BY <1>1 DEF Doomed
<1> QED  BY <1>2 DEF Cleanup

-----------------------------------------------------------------------------
(* The parts of the invariant, for the steps that change others.           *)

LEMMA TypesStay ==
    ASSUME ScheduleInv, UNCHANGED <<status, ran, next, since>>,
           instant' \in Nat, instant <= instant',
           \A f \in dir' : f \in dir \/ (f.name.date \in Nat /\ f.name.date <= instant)
    PROVE  ScheduleTypes' /\ Past'
<1>1. ScheduleTypes'
  BY DEF ScheduleInv, ScheduleTypes
<1>2. instant \in Nat /\ ran.begun \in Nat /\ ran.ended \in Nat /\ since \in Nat
  BY StateFacts DEF ScheduleInv, ScheduleTypes
<1>3. ASSUME NEW f \in dir'
      PROVE  f.name.date <= instant'
  <2>1. f.name.date <= instant /\ f.name.date \in Nat
    BY StateFacts DEF ScheduleInv, Past
  <2> QED  BY <2>1, <1>2
<1>4. Past'
  BY <1>2, <1>3 DEF ScheduleInv, Past
<1> QED  BY <1>1, <1>4

LEMMA StatusStays ==
    ASSUME ScheduleInv, status' = status, unlisted' = unlisted, ran'.ended = ran.ended, instant' \in Nat, instant <= instant',
           \A f \in dir' : f.name.startup => (\E g \in dir : g.name = f.name) \/ status.file = NoName,
           (\E f \in dir : f.name = status.file) =>
               (\E f \in dir' : f.name = status.file)
               \/ (job'.at = "record" /\ RetentionDays > 0
                   /\ status.file.date + RetentionDays * DayLen < instant'),
           job.at = "record" => job'.at = "record",
           job'.at = "idle" => job.at = "idle" /\ dir' = dir /\ wrote' = wrote,
           job'.at = "startup" \/ (job'.at \in During /\ job'.name.startup) => status.file = NoName
    PROVE  StatusInv'
<1>0. instant \in Nat /\ StatusInv
  BY StateFacts DEF ScheduleInv
<1>1. StartupFirst'
  BY DEF StartupFirst
<1>2. StatusTops'
  BY <1>0 DEF StatusInv, StatusTops
<1>3. StatusThere'
  <2> SUFFICES ASSUME status.file # NoName
               PROVE  \/ \E f \in dir' : f.name = status.file
                      \/ /\ ~status.ok \/ unlisted # {}
                         /\ status.file.date + RetentionDays * DayLen < ran.ended
                      \/ job'.at = "record" /\ RetentionDays > 0
                         /\ status.file.date + RetentionDays * DayLen < instant'
    BY DEF StatusThere, TooOld
  <2>0. status.file.date + RetentionDays * DayLen \in Nat
    BY StateFacts, NameFacts, Clockwork
  <2>1. CASE \E f \in dir : f.name = status.file
    BY <2>1
  <2>2. CASE /\ ~status.ok \/ unlisted # {}
             /\ status.file.date + RetentionDays * DayLen < ran.ended
    BY <2>2
  <2>3. CASE job.at = "record" /\ TooOld(status.file)
    <3>1. RetentionDays > 0 /\ status.file.date + RetentionDays * DayLen < instant
      BY <2>3 DEF TooOld
    <3> QED  BY <1>0, <2>0, <2>3, <3>1
  <2> QED  BY <1>0, <2>1, <2>2, <2>3 DEF StatusInv, StatusThere
<1>4. StatusGood'
  BY <1>0 DEF StatusInv, StatusGood, Latest
<1> QED  BY <1>1, <1>2, <1>3, <1>4 DEF StatusInv

LEMMA StatusNone == ASSUME status'.file = NoName PROVE StatusInv'
BY DEF StatusInv, StartupFirst, StatusTops, StatusThere, StatusGood

LEMMA RunIdle ==
    ASSUME job'.at = "idle", running' \/ status'.file = NoName
    PROVE  RunInv'
BY NameFacts DEF RunInv, DownIsIdle, RunDated, RunNewest, RunMade

\* A run goes on.
LEMMA RunOn ==
    ASSUME ScheduleInv, job.at \in During, job'.at \in During, job'.name = job.name,
           UNCHANGED <<instant, ran, running>>,
           \A f \in dir' : f.name = job.name \/ \E g \in dir : g.name = f.name,
           job'.at \in {"cleanup", "record"} /\ ~job'.err => \E f \in dir' : f.name = job.name
    PROVE  RunInv'
<1>0. RunInv /\ job.at # "idle"
  BY NameFacts DEF ScheduleInv
<1>1. DownIsIdle'
  BY <1>0 DEF RunInv, DownIsIdle
<1>2. RunDated'
  BY <1>0 DEF RunInv, RunDated
<1>3. RunNewest'
  <2>1. \A f \in dir : /\ Midnight(f.name.date) <= Midnight(job.name.date)
                       /\ job.name.startup => f.name.date <= job.name.date
    BY <1>0 DEF RunInv, RunNewest
  <2>2. job.name.date \in Nat /\ Midnight(job.name.date) \in Nat
    BY <1>0, NameFacts, Midnights DEF RunInv, RunDated
  <2> QED  BY <2>1, <2>2 DEF RunNewest
<1>4. RunMade'
  BY DEF RunMade
<1> QED  BY <1>1, <1>2, <1>3, <1>4 DEF RunInv

\* A run begins.
LEMMA RunStarts ==
    ASSUME ScheduleInv, running, UNCHANGED <<instant, dir, running>>, NEW name \in Names,
           job'.at \in During, job'.name = name, name.date <= instant,
           Midnight(name.date) = Midnight(instant), name.startup => name.date = instant,
           ran'.begun \in Nat, instant <= ran'.begun + MaxRun,
           Midnight(ran'.begun) <= name.date, ran'.begun <= name.date + Hour,
           job'.at \in {"cleanup", "record"} => \E f \in dir : f.name = name
    PROVE  RunInv'
<1>0. instant \in Nat
  BY StateFacts
<1>1. DownIsIdle'
  BY DEF DownIsIdle
<1>2. RunDated'
  BY NameFacts DEF RunDated
<1>3. RunNewest'
  <2>1. ASSUME NEW f \in dir
        PROVE  Midnight(f.name.date) <= Midnight(instant) /\ f.name.date <= instant
    <3>1. f.name.date \in Nat /\ f.name.date <= instant
      BY StateFacts DEF ScheduleInv, Past
    <3> QED  BY <1>0, <3>1, Midnights
  <2> QED  BY <2>1 DEF RunNewest
<1>4. RunMade'
  BY DEF RunMade
<1> QED  BY <1>1, <1>2, <1>3, <1>4 DEF RunInv

\* A step that leaves the files, the run and what is known of it alone.
LEMMA QuietInv ==
    ASSUME ScheduleInv, BackupInv',
           UNCHANGED <<instant, dir, running, job, next, status, backupHist>>
    PROVE  ScheduleInv'
<1>0. instant \in Nat /\ UNCHANGED <<wrote, unlisted, since, ran>> /\ instant' \in Nat /\ instant <= instant'
  BY StateFacts DEF backupHist
<1>1. ScheduleTypes' /\ Past'
  BY <1>0, TypesStay
<1>2. RunInv'
  BY <1>0 DEF ScheduleInv, RunInv, DownIsIdle, RunDated, RunNewest, RunMade
<1>3. StatusInv'
  <2>1. StartupFirst
    BY DEF ScheduleInv, StatusInv
  <2> QED  BY <1>0, <2>1, StatusStays DEF StartupFirst
<1>4. Waits'
  BY <1>0 DEF ScheduleInv, Waits, HasDayOf
<1> QED  BY <1>1, <1>2, <1>3, <1>4 DEF ScheduleInv

-----------------------------------------------------------------------------
(* The steps.                                                              *)

\* No time passes, and no backup comes that was not there but the one under way.
LEMMA WithinRun ==
    ASSUME ScheduleInv, BackupInv', job.at \in During, job'.at \in During, job'.name = job.name,
           UNCHANGED <<instant, running, next, status, backupHist>>,
           \A f \in dir' : f \in dir \/ f.name = job.name,
           job'.at \in {"cleanup", "record"} /\ ~job'.err => \E f \in dir' : f.name = job.name,
           (\E f \in dir : f.name = status.file) =>
               (\E f \in dir' : f.name = status.file)
               \/ (job'.at = "record" /\ RetentionDays > 0
                   /\ status.file.date + RetentionDays * DayLen < instant),
           job.at # "record"
    PROVE  ScheduleInv'
<1>0. /\ instant \in Nat /\ UNCHANGED <<wrote, unlisted, since, ran>> /\ instant' \in Nat /\ instant <= instant'
      /\ job.name \in Names /\ job.name.date \in Nat /\ job.name.date <= instant
      /\ job'.at # "idle" /\ job'.at # "startup"
  BY StateFacts, NameFacts DEF backupHist, ScheduleInv, RunInv, RunDated
<1>1. ScheduleTypes' /\ Past'
  BY <1>0, TypesStay
<1>2. RunInv'
  BY <1>0, RunOn
<1>3. StatusInv'
  <2>1. job.name.startup => status.file = NoName
    BY DEF ScheduleInv, StatusInv, StartupFirst
  <2> QED  BY <1>0, <2>1, StatusStays
<1>4. Waits'
  BY <1>0 DEF Waits
<1> QED  BY <1>1, <1>2, <1>3, <1>4 DEF ScheduleInv

LEMMA AtDuring ==
    ASSUME NEW j, j.at \in {"compact", "verify", "rename", "cleanup", "record"}
    PROVE  j.at \in During
BY DEF During

LEMMA FailsSchedule ==
    ASSUME ScheduleInv, BackupInv', Fails, job.at \in {"compact", "verify", "rename"},
           UNCHANGED <<instant, running, next, status, backupHist>>
    PROVE  ScheduleInv'
<1>1. job' = [at |-> "cleanup", name |-> job.name, err |-> TRUE] /\ dir' = dir
  BY DEF Fails
<1>2. job'.at = "cleanup" /\ job'.name = job.name /\ job'.err
  BY <1>1
<1>3. job.at \in During /\ job'.at \in During
  BY <1>2 DEF During
<1> QED  BY <1>1, <1>2, <1>3, WithinRun

LEMMA CompactSchedule == ASSUME ScheduleInv, BackupInv', Compact PROVE ScheduleInv'
<1>1. UNCHANGED <<instant, running, next, status, backupHist>> /\ job.at = "compact"
  BY DEF Compact
<1>2. CASE Fails
  BY <1>1, <1>2, FailsSchedule
<1>3. CASE job' = [job EXCEPT !.at = "verify"] /\ dir' = dir
  <2>1. job'.at = "verify" /\ job'.name = job.name
    BY <1>3, StateFacts, StepOfJob
  <2>2. job.at \in During /\ job'.at \in During
    BY <1>1, <2>1 DEF During
  <2> QED  BY <1>1, <1>3, <2>1, <2>2, WithinRun
<1> QED  BY <1>2, <1>3 DEF Compact

LEMMA VerifySchedule == ASSUME ScheduleInv, BackupInv', Verify PROVE ScheduleInv'
<1>1. UNCHANGED <<instant, running, next, status, backupHist>> /\ job.at = "verify"
  BY DEF Verify
<1>2. CASE ~PartIsGood
  BY <1>1, <1>2, FailsSchedule DEF Verify
<1>3. CASE PartIsGood
  <2>0. job' = [job EXCEPT !.at = "rename"] /\ dir' = dir
    BY <1>3 DEF Verify
  <2>1. job'.at = "rename" /\ job'.name = job.name
    BY <2>0, StateFacts, StepOfJob
  <2>2. job.at \in During /\ job'.at \in During
    BY <1>1, <2>1 DEF During
  <2> QED  BY <1>1, <2>0, <2>1, <2>2, WithinRun
<1> QED  BY <1>2, <1>3

LEMMA PublishSchedule == ASSUME ScheduleInv, BackupInv', Publish PROVE ScheduleInv'
<1>1. UNCHANGED <<instant, running, next, status, backupHist>> /\ job.at = "rename"
  BY DEF Publish
<1>2. CASE Fails
  BY <1>1, <1>2, FailsSchedule
<1>3. ASSUME NEW err \in BOOLEAN,
             dir' = {f \in dir : f.name # job.name} \cup {[name |-> job.name, good |-> PartIsGood]},
             job' = [at |-> "cleanup", name |-> job.name, err |-> err]
      PROVE  ScheduleInv'
  <2>1. job'.at = "cleanup" /\ job'.name = job.name
    BY <1>3
  <2>2. job.at \in During /\ job'.at \in During
    BY <1>1, <2>1 DEF During
  <2> DEFINE made == [name |-> job.name, good |-> PartIsGood]
  <2>3. made.name = job.name /\ made \in dir'
    BY <1>3
  <2>4. \A f \in dir' : f \in dir \/ f = made
    BY <1>3
  <2>5. \A f \in dir : f.name # job.name => f \in dir'
    BY <1>3
  <2> HIDE DEF made
  <2>6. (\E f \in dir : f.name = status.file) => \E f \in dir' : f.name = status.file
    BY <2>3, <2>5
  <2> QED  BY <1>1, <2>1, <2>2, <2>3, <2>4, <2>6, WithinRun
<1> QED  BY <1>2, <1>3 DEF Publish

\* Retention removes neither what the run made nor what the status names, unless
\* that is too old.
LEMMA RetainSchedule == ASSUME ScheduleInv, BackupInv', Retain PROVE ScheduleInv'
<1>1. UNCHANGED <<instant, running, next, status, backupHist>> /\ job.at = "cleanup" /\ Cleanup
  BY DEF Retain
<1>2. job' = [job EXCEPT !.at = "record"] /\ job \in Jobs
  BY StateFacts DEF Retain
<1>3. job'.at = "record" /\ job'.name = job.name /\ (job'.err <=> job.err)
  BY <1>2, StepOfJob DEF Jobs
<1>4. job.at \in During /\ job'.at \in During
  BY <1>1, <1>3 DEF During
<1>5. dir' \subseteq dir
  BY <1>1, CleanupRemoves DEF ScheduleInv, BackupInv
<1>6. /\ instant \in Nat /\ ran.begun \in Nat
      /\ \A f \in dir : f.name \in Names /\ f.name.date \in Nat
  BY StateFacts
<1>7. ASSUME ~job.err
      PROVE  \E f \in dir' : f.name = job.name
  <2>1. PICK f \in dir : f.name = job.name
    BY <1>1, <1>7 DEF ScheduleInv, RunInv, RunMade
  <2>2. /\ instant <= ran.begun + MaxRun /\ ran.begun <= f.name.date + Hour
        /\ f.name.startup => \A g \in dir : g.name.date <= f.name.date
    BY <1>4, <2>1, NameFacts DEF ScheduleInv, RunInv, RunDated, RunNewest
  <2>3. ~TooOld(f.name)
    <3> SUFFICES ASSUME RetentionDays > 0, f.name.date + RetentionDays * DayLen < instant
                 PROVE  FALSE
      BY DEF TooOld
    <3> DEFINE R == RetentionDays * DayLen
    <3>1. R \in Nat /\ Hour + MaxRun <= R /\ Hour \in Nat /\ MaxRun \in Nat /\ f.name.date \in Nat
      BY <1>6, Clockwork
    <3>2. f.name.date + R < instant
      OBVIOUS
    <3> HIDE DEF R
    <3> QED  BY <1>6, <2>2, <3>1, <3>2
  <2>4. f \in dir'
    BY <1>1, <1>6, <2>2, <2>3, CleanupKeeps
  <2> QED  BY <2>1, <2>4
<1>8. ASSUME NEW f \in dir, f.name = status.file
      PROVE  f \in dir' \/ TooOld(f.name)
  <2>1. status.file # NoName
    BY <1>6, <1>8, NameFacts
  <2>2. \A g \in dir : g.name.startup => g.name.date <= f.name.date
    BY <1>8, <2>1 DEF ScheduleInv, StatusInv, StatusTops
  <2> QED  BY <1>1, <1>6, <2>2, CleanupKeeps
<1>9. (\E f \in dir : f.name = status.file) =>
          (\E f \in dir' : f.name = status.file)
          \/ (job'.at = "record" /\ RetentionDays > 0
              /\ status.file.date + RetentionDays * DayLen < instant)
  BY <1>3, <1>8 DEF TooOld
<1> QED  BY <1>1, <1>3, <1>4, <1>5, <1>7, <1>9, WithinRun

\* A run begins: what it leaves alone.
LEMMA StartSchedule ==
    ASSUME ScheduleInv, BackupInv', RunInv', ScheduleTypes', ran'.begun <= instant,
           ran'.ended = ran.ended,
           UNCHANGED <<instant, dir, running, next, status, wrote, unlisted, since>>,
           job.at \in {"idle", "startup"}, job'.at \in During,
           job'.name.startup => status.file = NoName
    PROVE  ScheduleInv'
<1>0. instant \in Nat /\ job'.at # "idle" /\ job'.at # "startup" /\ job.at # "record"
  BY StateFacts, NameFacts
<1>1. Past'
  BY DEF ScheduleInv, Past
<1>2. StatusInv'
  <2>1. instant' \in Nat /\ instant <= instant'
    BY <1>0
  <2> QED  BY <1>0, <2>1, StatusStays
<1>3. Waits'
  BY <1>0 DEF Waits
<1> QED  BY <1>1, <1>2, <1>3 DEF ScheduleInv

LEMMA StartupSchedule == ASSUME ScheduleInv, BackupInv', RunStartup PROVE ScheduleInv'
<1> DEFINE name == [startup |-> TRUE, date |-> instant]
<1>1. /\ UNCHANGED <<instant, dir, running, next, status, backupHist>>
      /\ job.at = "startup" /\ job' = [at |-> "compact", name |-> name, err |-> FALSE]
  BY DEF RunStartup, BeginCopy
<1>2. job'.at = "compact" /\ job'.name = name /\ job'.at \in During
  BY <1>1 DEF During
<1>3. UNCHANGED <<wrote, unlisted, since, ran>>
  BY <1>1 DEF backupHist
<1>4. /\ instant \in Nat /\ instant \in 0..MaxInstant /\ ran.begun \in Nat /\ ran.begun <= instant
      /\ instant <= ran.begun + MaxRun
  BY <1>1, StateFacts DEF ScheduleInv, BackupInv, BackupTypeOK, Past, RunInv, RunDated
<1>5. name \in Names /\ name.date = instant /\ name.startup
  BY <1>4 DEF Names
<1>6. running
  BY <1>1 DEF ScheduleInv, RunInv, DownIsIdle
<1>7. /\ Midnight(ran.begun) \in Nat /\ Midnight(ran.begun) <= ran.begun
  BY <1>4, Midnights
<1> HIDE DEF name
<1>8. RunInv'
  <2>1. Midnight(ran'.begun) <= name.date /\ ran'.begun <= name.date + Hour
    BY <1>3, <1>4, <1>5, <1>7, Clockwork
  <2>2. name.date <= instant /\ Midnight(name.date) = Midnight(instant)
        /\ ran'.begun \in Nat /\ instant <= ran'.begun + MaxRun
    BY <1>3, <1>4, <1>5
  <2>3. UNCHANGED <<instant, dir, running>> /\ job'.at \notin {"cleanup", "record"}
    BY <1>1, <1>2
  <2> QED  BY <1>2, <1>5, <1>6, <2>1, <2>2, <2>3, RunStarts
<1>9. ScheduleTypes'
  BY <1>1, <1>3 DEF ScheduleInv, ScheduleTypes
<1>10. status.file = NoName
  BY <1>1 DEF ScheduleInv, StatusInv, StartupFirst
<1> QED  BY <1>1, <1>2, <1>3, <1>4, <1>8, <1>9, <1>10, StartSchedule

\* The run begins at the hour.
LEMMA ScheduledSchedule == ASSUME ScheduleInv, BackupInv', RunScheduled PROVE ScheduleInv'
<1> DEFINE name == [startup |-> FALSE, date |-> Midnight(instant)]
<1>1. /\ UNCHANGED <<instant, dir, running, next, status, wrote, unlisted, since>>
      /\ running /\ job.at = "idle" /\ instant >= next
      /\ ran' = [ran EXCEPT !.begun = instant]
  BY DEF RunScheduled
<1>2. /\ instant \in Nat /\ instant \in 0..MaxInstant /\ next \in Nat /\ since \in Nat
      /\ ran \in [begun : Nat, ended : Nat, failed : BOOLEAN]
  BY StateFacts DEF ScheduleInv, BackupInv, BackupTypeOK, ScheduleTypes
<1>3. instant = next /\ AtHour(next)
  <2>1. instant <= next /\ (next = NextRun(since) \/ next = NextRun(ran.ended))
    BY <1>1 DEF ScheduleInv, Waits
  <2>2. AtHour(NextRun(since)) /\ AtHour(NextRun(ran.ended))
    BY <1>2, NextHour
  <2> QED  BY <1>1, <1>2, <2>1, <2>2
<1>4. Midnight(instant) \in 0..MaxInstant /\ Midnight(instant) <= instant
      /\ Midnight(Midnight(instant)) = Midnight(instant) /\ instant = Midnight(instant) + Hour
  BY <1>2, <1>3, MidnightTyped, Midnights DEF AtHour
<1>5. name \in Names /\ name.date = Midnight(instant) /\ ~name.startup
  BY <1>4 DEF Names
<1>6. job'.at \in {"cleanup", "compact"} /\ job'.name = name
      /\ (job'.at = "cleanup" => \E f \in dir : f.name = name)
  <2>1. CASE [name |-> name, good |-> TRUE] \in dir
    <3>1. job' = [at |-> "cleanup", name |-> name, err |-> FALSE]
      BY <2>1 DEF RunScheduled
    <3>2. [name |-> name, good |-> TRUE].name = name
      OBVIOUS
    <3> HIDE DEF name
    <3> QED  BY <2>1, <3>1, <3>2
  <2>2. CASE [name |-> name, good |-> TRUE] \notin dir
    <3>1. job' = [at |-> "compact", name |-> name, err |-> FALSE]
      BY <2>2 DEF RunScheduled, BeginCopy
    <3> HIDE DEF name
    <3> QED  BY <3>1
  <2> QED  BY <2>1, <2>2
<1>7. job'.at \in During
  BY <1>6 DEF During
<1>8. ran'.begun = instant /\ ran'.ended = ran.ended
      /\ ran' \in [begun : Nat, ended : Nat, failed : BOOLEAN]
  BY <1>1, <1>2
<1>9. ScheduleTypes'
  BY <1>1, <1>8 DEF ScheduleInv, ScheduleTypes
<1> HIDE DEF name
<1>10. RunInv'
  <2>1. Midnight(ran'.begun) <= name.date /\ ran'.begun <= name.date + Hour
    BY <1>2, <1>4, <1>5, <1>8, Clockwork
  <2>2. name.date <= instant /\ Midnight(name.date) = Midnight(instant)
        /\ ran'.begun \in Nat /\ instant <= ran'.begun + MaxRun
    BY <1>2, <1>4, <1>5, <1>8, Clockwork
  <2>3. job'.at \in {"cleanup", "record"} => \E f \in dir : f.name = name
    BY <1>6
  <2> QED  BY <1>1, <1>5, <1>6, <1>7, <2>1, <2>2, <2>3, RunStarts
<1>11. ~job'.name.startup
  BY <1>5, <1>6
<1> QED  BY <1>1, <1>2, <1>7, <1>8, <1>9, <1>10, <1>11, StartSchedule

LEMMA RecordSchedule == ASSUME ScheduleInv, BackupInv', Record PROVE ScheduleInv'
<1>1. /\ UNCHANGED <<instant, dir, running, since>>
      /\ job.at = "record" /\ job' = Idle /\ next' = NextRun(instant)
      /\ ran' = [ran EXCEPT !.ended = instant, !.failed = @ \/ job.err]
  BY DEF Record
<1>2. /\ instant \in Nat /\ status \in [ok : BOOLEAN, file : Names \cup {NoName}]
      /\ ran \in [begun : Nat, ended : Nat, failed : BOOLEAN] /\ job \in Jobs
      /\ \A f \in dir : f.name \in Names /\ f.name.date \in Nat
  BY StateFacts DEF ScheduleInv, ScheduleTypes
<1>3. job'.at = "idle" /\ job.at # "idle" /\ running /\ job.at \in During
  BY <1>1 DEF Idle, ScheduleInv, RunInv, DownIsIdle, During
<1>4. /\ ran'.begun = ran.begun /\ ran'.ended = instant /\ (job.err => ran'.failed)
      /\ ran' \in [begun : Nat, ended : Nat, failed : BOOLEAN]
  <2> DEFINE r == [begun |-> ran.begun, ended |-> instant, failed |-> ran.failed \/ job.err]
  <2>1. ran = [begun |-> ran.begun, ended |-> ran.ended, failed |-> ran.failed]
        /\ ran.begun \in Nat /\ ran.ended \in Nat
    BY <1>2
  <2>2. ran' = r
    BY <1>1, <2>1
  <2>3. (ran.failed \/ job.err) \in BOOLEAN
    OBVIOUS
  <2>4. r \in [begun : Nat, ended : Nat, failed : BOOLEAN]
    BY <1>2, <2>1, <2>3
  <2> QED  BY <2>2, <2>4
<1>r. job.err \/ (~job.err /\ RecordGood)
  BY DEF Record
<1>5. RunInv'
  BY <1>1, <1>3, RunIdle
<1>6. NextRun(instant) \in Nat /\ NextRun(instant) > instant
  BY <1>2, NextHour
<1>7. job.name \in Names /\ job.name.date \in Nat /\ Midnight(ran.begun) <= job.name.date
      /\ \A f \in dir : Midnight(f.name.date) <= Midnight(job.name.date)
  BY <1>3, NameFacts DEF ScheduleInv, RunInv, RunDated, RunNewest
<1>8. ~job.err => \E f \in dir : f.name = job.name
  BY <1>1 DEF ScheduleInv, RunInv, RunMade
<1>9. Waits'
  <2>1. job.err \/ \E f \in dir : f.name.date >= Midnight(ran.begun)
    BY <1>7, <1>8
  <2>2. HasDayOf'
    BY <1>1, <1>4, <2>1 DEF HasDayOf
  <2>3. next' = NextRun(ran.ended)'
    BY <1>1, <1>4 DEF NextRun, Midnight
  <2> QED  BY <1>1, <1>2, <1>6, <2>2, <2>3 DEF Waits
<1>10. CASE job.err
  <2>1. status' = [ok |-> FALSE, file |-> status.file]
    BY <1>10 DEF Record
  <2>2. status'.file = status.file /\ ~status'.ok
        /\ status' \in [ok : BOOLEAN, file : Names \cup {NoName}]
    BY <2>1, StateFacts
  <2>3. ScheduleTypes' /\ Past'
    BY <1>1, <1>2, <1>4, <1>6, <2>2 DEF ScheduleInv, ScheduleTypes, Past
  <2>4. StatusInv'
    <3>1. StartupFirst' /\ StatusGood'
      BY <1>3, <2>2, NameFacts DEF StartupFirst, StatusGood
    <3>2. StatusTops'
      BY <1>1, <2>2 DEF StatusTops, ScheduleInv, StatusInv
    <3>3. StatusThere'
      <4> SUFFICES ASSUME status.file # NoName
                   PROVE  \/ \E f \in dir : f.name = status.file
                          \/ status.file.date + RetentionDays * DayLen < instant
        BY <1>1, <1>4, <2>2 DEF StatusThere
      <4>1. status.file.date + RetentionDays * DayLen \in Nat
        BY <1>2, NameFacts, Clockwork
      <4>2. ran.ended <= instant /\ ran.ended \in Nat
        BY <1>2 DEF ScheduleInv, Past
      <4> QED  BY <1>2, <4>1, <4>2 DEF ScheduleInv, StatusInv, StatusThere, TooOld
    <3> QED  BY <3>1, <3>2, <3>3 DEF StatusInv
  <2> QED  BY <1>5, <1>9, <2>3, <2>4 DEF ScheduleInv
<1>11. ASSUME ~job.err, RecordGood PROVE ScheduleInv'
  <2>0. wrote' = job.name /\ ~job.err
    BY <1>11 DEF RecordGood
  <2>1. PICK w \in dir : w.name = job.name
    BY <1>8, <2>0
  <2>2. CASE status' = [ok |-> TRUE, file |-> status.file] /\ unlisted' = {job.name}
    <3>1. status'.file = status.file /\ status'.ok /\ unlisted' # {}
          /\ status' \in [ok : BOOLEAN, file : Names \cup {NoName}]
      BY <2>2, StateFacts
    <3>2. ScheduleTypes' /\ Past'
      BY <1>1, <1>2, <1>4, <1>6, <3>1 DEF ScheduleInv, ScheduleTypes, Past
    <3>3. StartupFirst'
      BY <1>3, NameFacts DEF StartupFirst
    <3>4. StatusTops'
      BY <1>1, <3>1 DEF StatusTops, ScheduleInv, StatusInv
    <3>5. StatusThere'
      <4> SUFFICES ASSUME status.file # NoName
                   PROVE  \/ \E f \in dir : f.name = status.file
                          \/ status.file.date + RetentionDays * DayLen < instant
        BY <1>1, <1>4, <3>1 DEF StatusThere
      <4>1. status.file.date + RetentionDays * DayLen \in Nat
        BY <1>2, NameFacts, Clockwork
      <4>2. ran.ended <= instant /\ ran.ended \in Nat
        BY <1>2 DEF ScheduleInv, Past
      <4> QED  BY <1>2, <4>1, <4>2 DEF ScheduleInv, StatusInv, StatusThere, TooOld
    <3>6. StatusGood'
      BY <1>1, <2>0, <2>1, <3>1 DEF StatusGood
    <3>7. StatusInv'
      BY <3>3, <3>4, <3>5, <3>6 DEF StatusInv
    <3> QED  BY <1>5, <1>9, <3>2, <3>7 DEF ScheduleInv
  <2>3. ASSUME NEW f \in dir, Latest(f), status' = [ok |-> TRUE, file |-> f.name], unlisted' = {}
        PROVE  ScheduleInv'
    <3>1. status'.file = f.name /\ f.name \in Names
          /\ status' \in [ok : BOOLEAN, file : Names \cup {NoName}]
      <4>1. f.name \in Names \cup {NoName} /\ f.name \in Names
        BY <1>2
      <4> QED  BY <2>3, <4>1
    <3>2. ScheduleTypes' /\ Past'
      BY <1>1, <1>2, <1>4, <1>6, <3>1 DEF ScheduleInv, ScheduleTypes, Past
    <3>3. \A g \in dir : g.name.date <= f.name.date
      BY <2>3 DEF Latest
    <3>4. Midnight(f.name.date) = Midnight(job.name.date)
      <4>1. job.name.date <= f.name.date /\ f.name.date \in Nat /\ job.name.date \in Nat
        BY <1>2, <1>7, <2>1, <3>3
      <4>2. Midnight(job.name.date) <= Midnight(f.name.date)
            /\ Midnight(job.name.date) \in Nat /\ Midnight(f.name.date) \in Nat
        BY <4>1, Midnights
      <4> QED  BY <1>7, <4>2
    <3>5. StartupFirst'
      BY <1>3, NameFacts DEF StartupFirst
    <3>6. StatusTops'
      BY <1>1, <3>1, <3>3 DEF StatusTops
    <3>7. StatusThere'
      BY <1>1, <3>1 DEF StatusThere
    <3>8. StatusGood'
      <4>1. \E g \in dir : g.name = job.name
        BY <2>1
      <4>2. \E g \in dir : g.name = f.name /\ \A h \in dir : h.name.date <= g.name.date
        BY <3>3
      <4> QED  BY <1>1, <2>0, <3>1, <3>4, <4>1, <4>2 DEF StatusGood, Latest
    <3>9. StatusInv'
      BY <3>5, <3>6, <3>7, <3>8 DEF StatusInv
    <3> QED  BY <1>5, <1>9, <3>2, <3>9 DEF ScheduleInv
  <2> QED  BY <1>11, <2>2, <2>3 DEF RecordGood
<1> QED  BY <1>10, <1>11, <1>r

LEMMA BootSchedule == ASSUME ScheduleInv, BackupInv', Boot PROVE ScheduleInv'
<1>1. /\ ~running /\ running' /\ since' = instant /\ ran' = [ran EXCEPT !.begun = instant]
      /\ Cleanup /\ UNCHANGED <<instant, stopping, status, wrote, unlisted>>
  BY DEF Boot
<1>2. /\ instant \in Nat /\ ran \in [begun : Nat, ended : Nat, failed : BOOLEAN] /\ next \in Nat
  BY StateFacts DEF ScheduleInv, ScheduleTypes
<1>3. dir' \subseteq dir
  BY <1>1, CleanupRemoves DEF ScheduleInv, BackupInv
<1>4. status.file = NoName
  BY <1>1 DEF ScheduleInv, RunInv, DownIsIdle
<1>5. StatusInv'
  BY <1>1, <1>4, StatusNone
<1>6. ran'.begun = instant /\ ran'.ended = ran.ended
      /\ ran' \in [begun : Nat, ended : Nat, failed : BOOLEAN]
  BY <1>1, <1>2
<1>7. Past'
  BY <1>1, <1>2, <1>3, <1>6 DEF ScheduleInv, Past
<1>8. CASE backupCase.onStart
  <2>1. job' = [at |-> "startup", name |-> NoName, err |-> FALSE] /\ next' = next
    BY <1>8 DEF Boot
  <2>2. job'.at = "startup"
    BY <2>1
  <2>3. ScheduleTypes'
    BY <1>1, <1>2, <1>6, <2>1 DEF ScheduleInv, ScheduleTypes
  <2>4. RunInv'
    <3>1. instant <= instant + MaxRun
      BY <1>2, Clockwork
    <3> QED  BY <1>1, <1>6, <2>2, <3>1, NameFacts DEF RunInv, DownIsIdle, RunDated, RunNewest, RunMade
  <2>5. Waits'
    BY <2>2 DEF Waits
  <2> QED  BY <1>5, <1>7, <2>3, <2>4, <2>5 DEF ScheduleInv
<1>9. CASE ~backupCase.onStart
  <2>1. job'.at = "idle" /\ next' = NextRun(instant)
    BY <1>9 DEF Boot, Idle
  <2>2. next' \in Nat /\ next' > instant
    BY <1>2, <2>1, NextHour
  <2>3. ScheduleTypes'
    BY <1>1, <1>2, <1>6, <2>2 DEF ScheduleInv, ScheduleTypes
  <2>4. RunInv'
    BY <1>1, <2>1, RunIdle
  <2>5. Waits'
    <3>1. next' = NextRun(since)'
      BY <1>1, <2>1 DEF NextRun, Midnight
    <3> QED  BY <1>1, <1>2, <2>2, <3>1 DEF Waits
  <2> QED  BY <1>5, <1>7, <2>3, <2>4, <2>5 DEF ScheduleInv
<1> QED  BY <1>8, <1>9

LEMMA GoneSchedule == ASSUME ScheduleInv, BackupInv', Gone PROVE ScheduleInv'
<1>1. job'.at = "idle" /\ status'.file = NoName /\ UNCHANGED <<instant, dir>>
      /\ status' = [ok |-> FALSE, file |-> NoName] /\ next' = 0 /\ since' = 0
      /\ ran' = [begun |-> 0, ended |-> 0, failed |-> FALSE]
  BY DEF Gone, Idle, Unknown, NoRun
<1>r. ~running'
  BY Zenon DEF Gone
<1>2. instant \in Nat
  BY StateFacts
<1>3. ScheduleTypes' /\ Past'
  <2>1. ran'.begun = 0 /\ ran'.ended = 0
    BY <1>1
  <2> QED  BY <1>1, <1>2, <2>1 DEF ScheduleInv, ScheduleTypes, Past
<1>4. RunInv' /\ StatusInv'
  BY <1>1, RunIdle, StatusNone
<1>5. Waits'
  BY <1>r DEF Waits
<1> QED  BY <1>3, <1>4, <1>5 DEF ScheduleInv

LEMMA PassSchedule == ASSUME ScheduleInv, BackupInv', Pass PROVE ScheduleInv'
<1>1. /\ running => instant < IF job.at = "idle" THEN next ELSE ran.begun + MaxRun
      /\ instant' = instant + 1
      /\ UNCHANGED <<dir, running, job, next, status, backupHist>>
  BY DEF Pass
<1>2. /\ instant \in Nat /\ instant' \in Nat /\ instant <= instant' /\ next \in Nat
      /\ UNCHANGED <<wrote, unlisted, since, ran>> /\ ran.begun \in Nat
  BY <1>1, StateFacts DEF backupHist, ScheduleInv, ScheduleTypes
<1>3. ScheduleTypes' /\ Past'
  BY <1>1, <1>2, TypesStay
<1>4. RunInv'
  <2>1. DownIsIdle' /\ RunNewest' /\ RunMade'
    BY <1>1 DEF ScheduleInv, RunInv, DownIsIdle, RunNewest, RunMade
  <2>2. RunDated'
    <3>1. job.at # "idle" => instant' <= ran.begun + MaxRun
      BY <1>1, <1>2, Clockwork DEF ScheduleInv, RunInv, DownIsIdle
    <3>2. job.at \in During =>
             /\ job.name \in Names /\ job.name.date <= instant /\ job.name.date \in Nat
             /\ Midnight(ran.begun) <= job.name.date /\ ran.begun <= job.name.date + Hour
      BY NameFacts DEF ScheduleInv, RunInv, RunDated
    <3>3. job.at \in During => job.name.date <= instant'
      BY <1>1, <1>2, <3>2
    <3>4. Midnight(ran.begun)' = Midnight(ran.begun)
      BY <1>2 DEF Midnight
    <3> QED  BY <1>1, <1>2, <3>1, <3>2, <3>3, <3>4 DEF RunDated
  <2> QED  BY <2>1, <2>2 DEF RunInv
<1>5. StatusInv'
  <2>1. StartupFirst
    BY DEF ScheduleInv, StatusInv
  <2> QED  BY <1>1, <1>2, <2>1, StatusStays DEF StartupFirst
<1>6. Waits'
  <2> SUFFICES ASSUME running, job.at = "idle"
               PROVE  /\ instant' <= next
                      /\ \/ next = NextRun(since)
                         \/ next = NextRun(ran.ended) /\ HasDayOf
    BY <1>1, <1>2 DEF Waits, HasDayOf
  <2>1. instant' <= next
    BY <1>1, <1>2
  <2> QED  BY <2>1 DEF ScheduleInv, Waits
<1> QED  BY <1>3, <1>4, <1>5, <1>6 DEF ScheduleInv

LEMMA ScheduleStep == ScheduleInv /\ [BackupNext]_backupVars => ScheduleInv'
<1> SUFFICES ASSUME ScheduleInv, [BackupNext]_backupVars PROVE ScheduleInv'
  OBVIOUS
<1>0. BackupInv'
  BY BackupStep DEF ScheduleInv
<1>1. CASE Boot
  BY <1>0, <1>1, BootSchedule
<1>2. CASE RunStartup
  BY <1>0, <1>2, StartupSchedule
<1>3. CASE RunScheduled
  BY <1>0, <1>3, ScheduledSchedule
<1>4. CASE Compact
  BY <1>0, <1>4, CompactSchedule
<1>5. CASE Verify
  BY <1>0, <1>5, VerifySchedule
<1>6. CASE Publish
  BY <1>0, <1>6, PublishSchedule
<1>7. CASE Retain
  BY <1>0, <1>7, RetainSchedule
<1>8. CASE Record
  BY <1>0, <1>8, RecordSchedule
<1>9. CASE Stop \/ CloseStore \/ UNCHANGED backupVars
  <2>1. UNCHANGED <<instant, dir, running, job, next, status, backupHist>>
    BY <1>9 DEF Stop, CloseStore, backupVars
  <2> QED  BY <1>0, <2>1, QuietInv
<1>10. CASE LoopEnds \/ Exit \/ Killed
  BY <1>0, <1>10, GoneSchedule DEF LoopEnds, Exit, Killed
<1>11. CASE Pass
  BY <1>0, <1>11, PassSchedule
<1> QED
  BY <1>1, <1>2, <1>3, <1>4, <1>5, <1>6, <1>7, <1>8, <1>9, <1>10, <1>11 DEF BackupNext

\* The loop waits for the hour, a run is over before its backup is too old, and
\* the status is of a backup that retention left (loop, backup, cleanup, record).
THEOREM ScheduleHolds == BackupSpec => []ScheduleInv
<1>1. BackupInit => ScheduleInv
  BY ScheduleInitInv
<1>2. ScheduleInv /\ [BackupNext]_backupVars => ScheduleInv'
  BY ScheduleStep
<1> QED
  BY <1>1, <1>2, PTL DEF BackupSpec

\* Between two runs the status names the newest backup there was after the last
\* good run, of the day of that run, and it is there, but for a run after which the
\* directory could not be listed, which leaves the older name (record, cleanup).
THEOREM StatusIsTrue == BackupSpec => []StatusNamesBackup
<1>1. ScheduleInv => StatusNamesBackup
  <2> SUFFICES ASSUME ScheduleInv, job.at = "idle", status.file # NoName
               PROVE  /\ \/ \E f \in dir : f.name = status.file
                         \/ /\ ~status.ok \/ unlisted # {}
                            /\ status.file.date + RetentionDays * DayLen < ran.ended
                      /\ status.ok => \E f \in dir : f.name = wrote
                      /\ status.ok /\ unlisted = {} =>
                            /\ \E f \in dir : f.name = status.file /\ Latest(f)
                            /\ Midnight(status.file.date) = Midnight(wrote.date)
    BY DEF StatusNamesBackup
  <2> QED  BY DEF ScheduleInv, StatusInv, StatusThere, StatusGood
<1> QED
  BY <1>1, ScheduleHolds, PTL

\* A process that was up at the hour has a backup of that day, unless a run failed
\* or one of the day before was still under way (loop, NextRun).
THEOREM EveryDayHasBackup == BackupSpec => []DayHasBackup
<1>1. ScheduleInv => DayHasBackup
  <2> SUFFICES ASSUME ScheduleInv, running, job.at = "idle", instant < next, instant >= Hour,
                      since < LastHour
               PROVE  \/ \E f \in dir : f.name.date >= Midnight(LastHour)
                      \/ ran.failed
                      \/ ran.begun < Midnight(LastHour) /\ ran.ended >= LastHour
    BY DEF DayHasBackup
  <2> DEFINE L == LastHour
  <2>1. instant \in Nat /\ since \in Nat /\ next \in Nat /\ ran.begun \in Nat /\ ran.ended \in Nat
    BY StateFacts DEF ScheduleInv, ScheduleTypes
  <2>2. L \in Nat /\ AtHour(L) /\ L <= instant
    BY <2>1, NextHour DEF LastHour
  <2> HIDE DEF L
  <2>3. ASSUME NEW t \in Nat, next = NextRun(t)
        PROVE  L <= t
    <3>1. L > t => NextRun(t) <= L
      BY <2>2, NextHour
    <3> QED  BY <2>1, <2>2, <2>3, <3>1
  <2>4. next # NextRun(since)
    <3>1. since < L
      BY DEF L
    <3> QED  BY <2>1, <2>2, <2>3, <3>1
  <2>5. next = NextRun(ran.ended) /\ HasDayOf
    BY <2>4 DEF ScheduleInv, Waits
  <2>6. L <= ran.ended
    BY <2>1, <2>3, <2>5
  <2>7. Midnight(L) \in Nat /\ Midnight(ran.begun) \in Nat
        /\ (Midnight(L) <= ran.begun => Midnight(L) <= Midnight(ran.begun))
    <3> DEFINE m == Midnight(L)
    <3>1. m \in Nat /\ Midnight(m) = m
      BY <2>2, Midnights
    <3> HIDE DEF m
    <3>2. m <= ran.begun => Midnight(m) <= Midnight(ran.begun)
      BY <2>1, <3>1, Midnights
    <3>3. Midnight(ran.begun) \in Nat
      BY <2>1, Midnights
    <3> QED  BY <3>1, <3>2, <3>3 DEF m
  <2>8. CASE ran.begun < Midnight(L)
    BY <2>1, <2>2, <2>6, <2>8 DEF L
  <2>9. CASE ~(ran.begun < Midnight(L))
    <3>1. Midnight(L) <= Midnight(ran.begun)
      BY <2>1, <2>7, <2>9
    <3>2. ran.failed \/ \E f \in dir : f.name.date >= Midnight(ran.begun) /\ f.name.date \in Nat
      BY <2>5, StateFacts DEF HasDayOf
    <3>3. ran.failed \/ \E f \in dir : f.name.date >= Midnight(L)
      BY <2>7, <3>1, <3>2
    <3> QED  BY <3>3 DEF L
  <2> QED  BY <2>8, <2>9
<1> QED
  BY <1>1, ScheduleHolds, PTL

-----------------------------------------------------------------------------
(* The rate limiter.                                                       *)

\* Whose bucket is at a place of the order.
Owner(p) == bucket[order[p]].key

RateBuckets == [key : RateKeys \cup {"nobody"}, tokens : 0..Burst]

RateTypes ==
    /\ second \in Nat
    /\ order \in Seq(BucketIds)
    /\ bucket \in [BucketIds -> RateBuckets]
    /\ holds \in [Handlers -> BucketIds \cup {0}]
    /\ others \in [RateKeys -> SUBSET RateKeys]
    /\ fresh \in [RateKeys -> Nat]
    /\ allowed \in [RateKeys -> Nat]

\* Not too many are tracked, and a key once.
OneBucketEach ==
    /\ Len(order) <= MaxTracked
    /\ \A p \in 1..Len(order) : Owner(p) \in RateKeys
    /\ \A p, q \in 1..Len(order) : Owner(p) = Owner(q) => p = q

\* Those in front of a key asked after it.
LaterInFront == \A p, q \in 1..Len(order) : p < q => Owner(p) \in others[Owner(q)]

IsOwner(k) == \E p \in 1..Len(order) : Owner(p) = k

\* A key that asks next starts afresh.
StartsAfresh(k) == k \in others[k] \/ Cardinality(others[k]) >= MaxTracked

ForgottenForMany == \A k \in RateKeys : IsOwner(k) \/ StartsAfresh(k)

Credit(f, s) == Burst * f + Rate * s

\* What a key took, and may still take from its bucket.
WithinCredit ==
    /\ \A k \in RateKeys : allowed[k] <= Credit(fresh[k], second)
    /\ \A p \in 1..Len(order) :
         allowed[Owner(p)] + bucket[order[p]].tokens <= Credit(fresh[Owner(p)], second)

RateInv == RateTypes /\ OneBucketEach /\ LaterInFront /\ ForgottenForMany /\ WithinCredit

LEMMA CreditGrows ==
    ASSUME NEW f \in Nat, NEW s \in Nat
    PROVE  /\ Credit(f, s) \in Nat
           /\ Credit(f + 1, s) = Credit(f, s) + Burst
           /\ Credit(f, s + 1) = Credit(f, s) + Rate
BY RateLimiterAssumption DEF Credit

LEMMA BucketMade ==
    ASSUME NEW o \in RateKeys \cup {"nobody"}, NEW t \in 0..Burst
    PROVE  [key |-> o, tokens |-> t] \in RateBuckets
<1> DEFINE K == RateKeys \cup {"nobody"}
           T == 0..Burst
<1>1. o \in K /\ t \in T /\ RateBuckets = [key : K, tokens : T]
  BY DEF RateBuckets
<1> HIDE DEF K, T
<1> QED  BY <1>1

LEMMA BucketRead ==
    ASSUME NEW b \in RateBuckets
    PROVE  /\ b = [key |-> b.key, tokens |-> b.tokens]
           /\ b.key \in RateKeys \cup {"nobody"} /\ b.tokens \in 0..Burst /\ b.tokens \in Nat
<1> DEFINE K == RateKeys \cup {"nobody"}
           T == 0..Burst
<1>1. RateBuckets = [key : K, tokens : T]
  BY DEF RateBuckets
<1>2. T \subseteq Nat
  BY RateLimiterAssumption
<1> HIDE DEF K, T
<1>3. b = [key |-> b.key, tokens |-> b.tokens] /\ b.key \in K /\ b.tokens \in T
  BY <1>1
<1> QED  BY <1>2, <1>3 DEF K, T

LEMMA RateInitInv == RateInit => RateInv
<1> SUFFICES ASSUME RateInit PROVE RateInv
  OBVIOUS
<1>0. MaxTracked \in Nat /\ Burst \in Nat
  BY RateLimiterAssumption
<1>a. order = <<>> /\ second = 0
  BY Zenon DEF RateInit
<1>1. RateTypes
  <2>1. [key |-> "nobody", tokens |-> 0] \in RateBuckets
    BY <1>0 DEF RateBuckets
  <2>2. order \in Seq(BucketIds)
    BY <1>a
  <2> HIDE DEF RateBuckets
  <2> QED  BY <2>1, <2>2 DEF RateInit, RateTypes
<1>2. Len(order) = 0 /\ 1..Len(order) = {}
  BY <1>a
<1>3. OneBucketEach /\ LaterInFront
  BY <1>0, <1>2 DEF OneBucketEach, LaterInFront
<1>4. ForgottenForMany
  BY DEF RateInit, ForgottenForMany, StartsAfresh
<1>5. WithinCredit
  <2>1. ASSUME NEW k \in RateKeys
        PROVE  allowed[k] <= Credit(fresh[k], second)
    <3>1. Credit(0, 0) \in Nat
      BY CreditGrows
    <3>2. allowed[k] = 0 /\ fresh[k] = 0
      BY DEF RateInit
    <3> QED  BY <1>a, <3>1, <3>2
  <2> QED  BY <1>2, <2>1 DEF WithinCredit
<1> QED  BY <1>1, <1>3, <1>4, <1>5 DEF RateInv

LEMMA TrackedAt ==
    ASSUME order \in Seq(BucketIds)
    PROVE  /\ DOMAIN order = 1..Len(order)
           /\ \A p \in 1..Len(order) : order[p] \in Tracked /\ order[p] \in BucketIds
           /\ \A i \in Tracked : \E p \in 1..Len(order) : order[p] = i
<1>1. DOMAIN order = 1..Len(order)
  OBVIOUS
<1>2. \A p \in 1..Len(order) : order[p] \in BucketIds
  OBVIOUS
<1> QED  BY <1>1, <1>2 DEF Tracked

\* There is a bucket for another key.
LEMMA SpareBucket ==
    ASSUME RateInv, NEW h \in Handlers, holds[h] = 0
    PROVE  \E i \in BucketIds : i \notin Tracked /\ \A g \in Handlers : holds[g] # i
<1> DEFINE InUse == {holds[g] : g \in Handlers \ {h}}
           n == Len(order)
           C == Cardinality(Handlers)
<1>0. /\ order \in Seq(BucketIds) /\ n \in Nat /\ n <= MaxTracked
      /\ MaxTracked \in Nat /\ IsFiniteSet(Handlers)
  BY RateLimiterAssumption DEF RateInv, RateTypes, OneBucketEach
<1>1. C \in Nat /\ C >= 1 /\ IsFiniteSet(Handlers \ {h})
      /\ Cardinality(Handlers \ {h}) = C - 1
  <2>1. C \in Nat /\ Cardinality(Handlers \ {h}) = C - 1
    BY <1>0, FS_CardinalityType, FS_RemoveElement
  <2>2. IsFiniteSet(Handlers \ {h})
    BY <1>0, FS_RemoveElement
  <2>3. Cardinality(Handlers \ {h}) \in Nat
    BY <2>2, FS_CardinalityType
  <2> QED  BY <2>1, <2>2, <2>3
<1>2. IsFiniteSet(Tracked) /\ Cardinality(Tracked) <= n
  <2> DEFINE D == 1..n
             f == [p \in D |-> order[p]]
  <2>1. IsFiniteSet(D) /\ Cardinality(D) = n
    <3> HIDE DEF n
    <3>0. 1 \in Int /\ n \in Int
      BY <1>0
    <3>1. Cardinality(1..n) = IF 1 > n THEN 0 ELSE n - 1 + 1
      BY <3>0, FS_Interval
    <3>2. IsFiniteSet(1..n)
      BY <3>0, FS_Interval
    <3> QED  BY <1>0, <3>1, <3>2
  <2>2. f \in Surjection(D, Tracked)
    <3>1. f \in [D -> Tracked] /\ \A p \in D : f[p] = order[p]
      BY <1>0, TrackedAt
    <3>2. \A i \in Tracked : \E p \in D : f[p] = i
      BY <1>0, <3>1, TrackedAt
    <3> HIDE DEF f, D
    <3> QED  BY <3>1, <3>2 DEF Surjection
  <2> HIDE DEF f, D
  <2> QED  BY <2>1, <2>2, FS_Surjection
<1>3. IsFiniteSet(InUse) /\ Cardinality(InUse) <= C - 1
  <2> DEFINE D == Handlers \ {h}
             f == [g \in D |-> holds[g]]
  <2>1. f \in Surjection(D, InUse)
    BY DEF Surjection
  <2>2. IsFiniteSet(D) /\ Cardinality(D) = C - 1
    BY <1>1
  <2> HIDE DEF f, D, InUse, C
  <2> QED  BY <2>1, <2>2, FS_Surjection
<1>4. IsFiniteSet(Tracked \cup InUse) /\ Cardinality(Tracked \cup InUse) <= n + (C - 1)
  <2>1. IsFiniteSet(Tracked \cup InUse) /\ Cardinality(Tracked \cup InUse)
          = Cardinality(Tracked) + Cardinality(InUse) - Cardinality(Tracked \cap InUse)
    <3> HIDE DEF InUse
    <3> QED  BY <1>2, <1>3, FS_Union
  <2>2. Cardinality(Tracked \cap InUse) \in Nat /\ Cardinality(Tracked) \in Nat
        /\ Cardinality(InUse) \in Nat
    <3> HIDE DEF InUse
    <3>1. IsFiniteSet(Tracked \cap InUse)
      BY <1>2, FS_Intersection
    <3> QED  BY <1>2, <1>3, <3>1, FS_CardinalityType
  <2> HIDE DEF InUse, C, n
  <2> QED  BY <1>0, <1>1, <1>2, <1>3, <2>1, <2>2
<1>5. Cardinality(BucketIds) = MaxTracked + C
  <2>1. MaxTracked + C \in Nat /\ C \in Nat
    BY <1>0, <1>1
  <2>2. Cardinality(1..(MaxTracked + C)) = MaxTracked + C
    BY <1>0, <1>1, <2>1, FS_Interval
  <2> QED  BY <2>2 DEF BucketIds
<1>6. ~(BucketIds \subseteq Tracked \cup InUse)
  <2> SUFFICES ASSUME BucketIds \subseteq Tracked \cup InUse PROVE FALSE
    OBVIOUS
  <2> HIDE DEF InUse, C, n
  <2>1. Cardinality(BucketIds) <= Cardinality(Tracked \cup InUse)
    BY <1>4, FS_Subset
  <2>2. Cardinality(Tracked \cup InUse) \in Nat
    BY <1>4, FS_CardinalityType
  <2> QED  BY <1>0, <1>1, <1>4, <1>5, <2>1, <2>2
<1>7. PICK i \in BucketIds : i \notin Tracked /\ i \notin InUse
  <2> HIDE DEF InUse
  <2> QED  BY <1>6
<1>8. i # 0
  BY <1>0, <1>1 DEF BucketIds
<1> QED  BY <1>7, <1>8

\* What asking does to the order: the key comes to the front, and of the others
\* some stay, one behind the other as they were.
Moved(i, k, n, src) ==
    /\ order' \in Seq(BucketIds) /\ Len(order') = n
    /\ order'[1] = i /\ bucket'[i].key = k
    /\ \A p \in 2..n :
         /\ src[p] \in 1..Len(order)
         /\ order'[p] = order[src[p]]
         /\ bucket'[order'[p]] = bucket[order'[p]]
         /\ Owner(src[p]) # k
    /\ \A p, q \in 2..n : p < q => src[p] < src[q]

\* The histories of a request.
Noted(k) ==
    /\ fresh' = [fresh EXCEPT ![k] = IF StartsAfresh(k) THEN @ + 1 ELSE @]
    /\ others' = [o \in RateKeys |-> IF o = k THEN {} ELSE others[o] \cup {k}]
    /\ UNCHANGED <<second, allowed>>

LEMMA MovedOrder ==
    ASSUME RateInv, NEW k \in RateKeys, NEW i \in BucketIds, NEW n \in 1..MaxTracked, NEW src,
           Moved(i, k, n, src), Noted(k)
    PROVE  OneBucketEach' /\ LaterInFront'
<1>0. n \in Nat /\ MaxTracked \in Nat /\ Len(order) \in Nat
  BY RateLimiterAssumption DEF RateInv, RateTypes
<1>1. Len(order') = n /\ n >= 1 /\ n <= MaxTracked
  BY <1>0 DEF Moved
<1>2. Owner(1)' = k
  BY DEF Moved, Owner
<1>3. ASSUME NEW p \in 1..n
      PROVE  p = 1 \/ (p \in 2..n /\ src[p] \in 1..Len(order) /\ Owner(p)' = Owner(src[p])
                       /\ Owner(p)' # k /\ Owner(p)' \in RateKeys)
  <2>1. p = 1 \/ p \in 2..n
    BY <1>0
  <2>2. CASE p \in 2..n
    <3>1. /\ src[p] \in 1..Len(order) /\ order'[p] = order[src[p]]
          /\ bucket'[order'[p]] = bucket[order'[p]] /\ Owner(src[p]) # k
      BY <2>2 DEF Moved
    <3>2. Owner(src[p]) \in RateKeys
      BY <3>1 DEF RateInv, OneBucketEach
    <3>3. Owner(p)' = Owner(src[p])
      BY <3>1 DEF Owner
    <3> QED  BY <2>2, <3>1, <3>2, <3>3
  <2> QED  BY <2>1, <2>2
<1>4. \A p \in 1..n : Owner(p)' \in RateKeys
  BY <1>2, <1>3
<1>5. ASSUME NEW p \in 1..n, NEW q \in 1..n, p < q
      PROVE  /\ Owner(p)' # Owner(q)'
             /\ Owner(p)' \in (others')[Owner(q)']
  <2>1. q # 1 /\ q \in Nat /\ p \in Nat
    BY <1>0, <1>5
  <2>2. /\ src[q] \in 1..Len(order) /\ Owner(q)' = Owner(src[q]) /\ q \in 2..n
        /\ Owner(q)' # k /\ Owner(q)' \in RateKeys
    BY <1>3, <2>1
  <2>3. (others')[Owner(q)'] = others[Owner(src[q])] \cup {k}
    BY <2>2 DEF Noted
  <2>4. CASE p = 1
    BY <1>2, <2>2, <2>3, <2>4
  <2>5. CASE p # 1
    <3>1. src[p] \in 1..Len(order) /\ Owner(p)' = Owner(src[p]) /\ p \in 2..n
      BY <1>3, <2>5
    <3>2. src[p] < src[q] /\ src[p] \in Nat /\ src[q] \in Nat
      BY <1>0, <1>5, <2>2, <3>1 DEF Moved
    <3>3. Owner(src[p]) # Owner(src[q]) /\ Owner(src[p]) \in others[Owner(src[q])]
      BY <2>2, <3>1, <3>2 DEF RateInv, OneBucketEach, LaterInFront
    <3> QED  BY <2>2, <2>3, <3>1, <3>3
  <2> QED  BY <2>4, <2>5
<1>6. ASSUME NEW p \in 1..n, NEW q \in 1..n, Owner(p)' = Owner(q)'
      PROVE  p = q
  <2>1. p < q \/ q < p \/ p = q
    BY <1>0
  <2> QED  BY <1>5, <1>6, <2>1
<1>7. OneBucketEach'
  BY <1>1, <1>4, <1>6 DEF OneBucketEach
<1>8. LaterInFront'
  BY <1>1, <1>5 DEF LaterInFront
<1> QED  BY <1>7, <1>8

\* Find: the tracked bucket of a key moves to the front.
LEMMA FindMoves ==
    ASSUME RateInv, NEW h \in Handlers, NEW k \in RateKeys, Find(h, k)
    PROVE  /\ \E i \in BucketIds : \E src :
                /\ Moved(i, k, Len(order), src) /\ Len(order) \in 1..MaxTracked
                /\ holds' = [holds EXCEPT ![h] = i]
           /\ IsOwner(k) /\ bucket' = bucket
           /\ \A p \in 1..Len(order) : \E q \in 1..Len(order) : order'[q] = order[p]
<1>0. order \in Seq(BucketIds) /\ DOMAIN order = 1..Len(order) /\ Len(order) \in Nat
      /\ Len(order) <= MaxTracked /\ MaxTracked \in Nat
  BY RateLimiterAssumption DEF RateInv, RateTypes, OneBucketEach
<1>1. PICK i \in Tracked : bucket[i].key = k /\ order' = ToFront(i)
                           /\ holds' = [holds EXCEPT ![h] = i] /\ bucket' = bucket
  BY DEF Find
<1> DEFINE place == CHOOSE p \in DOMAIN order : order[p] = i
           n == Len(order)
           src == [p \in 1..n |-> IF p <= place THEN p - 1 ELSE p]
<1>2. place \in 1..n /\ order[place] = i
  BY <1>0, <1>1 DEF Tracked
<1>3. i \in BucketIds /\ n \in 1..MaxTracked /\ n \in Nat
  BY <1>0, <1>2
<1>4. order' = [p \in 1..n |-> IF p = 1 THEN i ELSE order[IF p <= place THEN p - 1 ELSE p]]
  BY <1>0, <1>1 DEF ToFront
<1> HIDE DEF place
<1>5. order' \in Seq(BucketIds) /\ Len(order') = n
  <2>1. ASSUME NEW p \in 1..n, p # 1
        PROVE  order[IF p <= place THEN p - 1 ELSE p] \in BucketIds
    <3>1. (IF p <= place THEN p - 1 ELSE p) \in 1..n
      BY <1>2, <1>3, <2>1
    <3> QED  BY <1>0, <3>1
  <2>2. order' \in [1..n -> BucketIds]
    <3> HIDE DEF n
    <3> QED  BY <1>3, <1>4, <2>1
  <2> HIDE DEF n
  <2> QED  BY <1>3, <2>2
<1>6. Owner(place) = k /\ IsOwner(k)
  BY <1>1, <1>2 DEF Owner, IsOwner
<1>7. ASSUME NEW p \in 2..n
      PROVE  /\ src[p] \in 1..n /\ src[p] # place
             /\ order'[p] = order[src[p]]
  <2>1. p \in 1..n /\ p # 1 /\ p \in Nat
    BY <1>3
  <2>2. src[p] = IF p <= place THEN p - 1 ELSE p
    BY <2>1
  <2>3. src[p] \in 1..n /\ src[p] # place
    <3> HIDE DEF src, n
    <3> QED  BY <1>2, <1>3, <2>1, <2>2
  <2> QED  BY <1>4, <2>1, <2>2, <2>3
<1>8. \A p \in 2..n : Owner(src[p]) # k
  BY <1>2, <1>6, <1>7 DEF RateInv, OneBucketEach
<1>9. ASSUME NEW p \in 2..n, NEW q \in 2..n, p < q
      PROVE  src[p] < src[q]
  <2>1. p \in 1..n /\ q \in 1..n /\ p \in Nat /\ q \in Nat /\ place \in Nat
    BY <1>2, <1>3
  <2>2. src[p] = (IF p <= place THEN p - 1 ELSE p) /\ src[q] = (IF q <= place THEN q - 1 ELSE q)
    BY <2>1
  <2> HIDE DEF src
  <2> QED  BY <1>9, <2>1, <2>2
<1>10. order'[1] = i
  BY <1>3, <1>4
<1>11. Moved(i, k, n, src)
  <2>1. \A p \in 2..n : src[p] \in 1..Len(order) /\ order'[p] = order[src[p]]
                       /\ bucket'[order'[p]] = bucket[order'[p]] /\ Owner(src[p]) # k
    <3> HIDE DEF src
    <3> QED  BY <1>1, <1>7, <1>8
  <2>2. bucket'[i].key = k
    BY <1>1
  <2> HIDE DEF src, n
  <2> QED  BY <1>5, <1>9, <1>10, <2>1, <2>2 DEF Moved
<1>12. ASSUME NEW p \in 1..n
       PROVE  \E q \in 1..n : order'[q] = order[p]
  <2> DEFINE q == IF p = place THEN 1 ELSE IF p < place THEN p + 1 ELSE p
  <2>1. q \in 1..n
    BY <1>2, <1>3
  <2>2. p # place => q # 1 /\ (IF q <= place THEN q - 1 ELSE q) = p
    BY <1>2, <1>3
  <2>3. order'[q] = IF q = 1 THEN i ELSE order[IF q <= place THEN q - 1 ELSE q]
    BY <1>4, <2>1
  <2>4. order'[q] = order[p]
    <3>1. CASE p = place
      BY <1>2, <1>10, <3>1
    <3>2. CASE p # place
      <4> HIDE DEF q
      <4> QED  BY <2>2, <2>3, <3>2
    <3> QED  BY <3>1, <3>2
  <2> HIDE DEF q
  <2> QED  BY <2>1, <2>4
<1> HIDE DEF n
<1>13. \E j \in BucketIds : \E s :
           Moved(j, k, n, s) /\ n \in 1..MaxTracked /\ holds' = [holds EXCEPT ![h] = j]
  <2> HIDE DEF src
  <2> QED  BY <1>1, <1>3, <1>11
<1> QED  BY <1>1, <1>6, <1>12, <1>13 DEF n

\* Make: a bucket in front of the tracked ones, but the last when they are many.
LEMMA MakeMoves ==
    ASSUME RateInv, NEW h \in Handlers, NEW k \in RateKeys, holds[h] = 0, Make(h, k)
    PROVE  \E i \in BucketIds, n \in 1..MaxTracked :
             /\ Moved(i, k, n, [p \in 1..n |-> p - 1])
             /\ n = IF Len(order) >= MaxTracked THEN Len(order) ELSE Len(order) + 1
             /\ holds' = [holds EXCEPT ![h] = i] /\ ~IsOwner(k)
             /\ bucket' = [bucket EXCEPT ![i] = [key |-> k, tokens |-> Burst]]
             /\ \A p \in 1..(n - 1) : order'[p + 1] = order[p]
<1>0. order \in Seq(BucketIds) /\ DOMAIN order = 1..Len(order) /\ Len(order) \in Nat
      /\ Len(order) <= MaxTracked /\ MaxTracked \in Nat /\ MaxTracked >= 1
  BY RateLimiterAssumption DEF RateInv, RateTypes, OneBucketEach
<1> DEFINE i == CHOOSE i \in BucketIds : i \notin Tracked /\ \A g \in Handlers : holds[g] # i
           m == IF Len(order) >= MaxTracked THEN Len(order) - 1 ELSE Len(order)
           n == m + 1
           front == SubSeq(order, 1, m)
<1>1. i \in BucketIds /\ i \notin Tracked
  BY SpareBucket
<1>2. /\ order' = <<i>> \o front
      /\ bucket' = [bucket EXCEPT ![i] = [key |-> k, tokens |-> Burst]]
      /\ holds' = [holds EXCEPT ![h] = i]
      /\ \A j \in Tracked : bucket[j].key # k
  BY DEF Make
<1> HIDE DEF i
<1>3. m \in Nat /\ m <= Len(order) /\ n \in 1..MaxTracked /\ n \in Nat
      /\ n = IF Len(order) >= MaxTracked THEN Len(order) ELSE Len(order) + 1
  BY <1>0
<1> HIDE DEF m
<1>4. front \in Seq(BucketIds) /\ Len(front) = m /\ \A p \in 1..m : front[p] = order[p]
  <2>1. \A p \in 1..m : p \in 1..Len(order) /\ order[p] \in BucketIds
    BY <1>0, <1>3
  <2>2. front = [p \in 1..m |-> order[p]]
    BY <1>0, <1>3
  <2>3. front \in [1..m -> BucketIds]
    BY <1>0, <2>1, <2>2
  <2> HIDE DEF front
  <2> QED  BY <1>3, <2>2, <2>3
<1> HIDE DEF front
<1>5. order' \in Seq(BucketIds) /\ Len(order') = n /\ order'[1] = i
      /\ \A p \in 2..n : order'[p] = front[p - 1]
  BY <1>1, <1>2, <1>3, <1>4
<1>6. ASSUME NEW p \in 1..Len(order)
      PROVE  Owner(p) # k /\ order[p] # i /\ order[p] \in BucketIds
  <2>1. order[p] \in Tracked /\ order[p] \in BucketIds
    BY <1>0, TrackedAt
  <2> QED  BY <1>1, <1>2, <2>1 DEF Owner
<1>7. ~IsOwner(k)
  BY <1>6 DEF IsOwner
<1>8. bucket \in [BucketIds -> RateBuckets]
  BY DEF RateInv, RateTypes
<1>9. bucket'[i].key = k /\ \A j \in BucketIds : j # i => bucket'[j] = bucket[j]
  BY <1>1, <1>2, <1>8
<1>10. ASSUME NEW p \in 2..n
       PROVE  /\ [q \in 1..n |-> q - 1][p] = p - 1 /\ p - 1 \in 1..m /\ p - 1 \in 1..Len(order)
              /\ order'[p] = order[p - 1]
  <2>1. p \in 1..n /\ p - 1 \in 1..m /\ p - 1 \in 1..Len(order)
    BY <1>0, <1>3
  <2> HIDE DEF n
  <2> QED  BY <1>4, <1>5, <2>1
<1> DEFINE src == [p \in 1..n |-> p - 1]
<1>11. \A p \in 2..n : src[p] \in 1..Len(order) /\ order'[p] = order[src[p]]
                       /\ bucket'[order'[p]] = bucket[order'[p]] /\ Owner(src[p]) # k
  <2> HIDE DEF n
  <2> QED  BY <1>6, <1>9, <1>10, ZenonT(40)
<1>12. ASSUME NEW p \in 2..n, NEW q \in 2..n, p < q
       PROVE  src[p] < src[q]
  <2>1. src[p] = p - 1 /\ src[q] = q - 1 /\ p \in Nat /\ q \in Nat
    BY <1>3, <1>10
  <2> HIDE DEF src
  <2> QED  BY <1>12, <2>1
<1>13. Moved(i, k, n, src)
  <2> HIDE DEF src, n
  <2> QED  BY <1>5, <1>9, <1>11, <1>12 DEF Moved
<1>14. ASSUME NEW p \in 1..(n - 1)
       PROVE  order'[p + 1] = order[p]
  <2>1. p + 1 \in 2..n /\ p = (p + 1) - 1
    BY <1>3
  <2> QED  BY <1>10, <2>1
<1> HIDE DEF n
<1> QED  BY <1>1, <1>2, <1>3, <1>7, <1>13, <1>14

\* Of n places with as many keys there are n keys.
LEMMA KeysOfPlaces ==
    ASSUME RateInv, NEW n \in Nat, n <= Len(order)
    PROVE  /\ IsFiniteSet({Owner(p) : p \in 1..n})
           /\ Cardinality({Owner(p) : p \in 1..n}) = n
<1> DEFINE D == 1..n
           K == {Owner(p) : p \in D}
           f == [p \in D |-> Owner(p)]
<1>1. IsFiniteSet(D) /\ Cardinality(D) = n
  <2>1. 1 \in Int /\ n \in Int
    OBVIOUS
  <2>2. IsFiniteSet(1..n) /\ Cardinality(1..n) = IF 1 > n THEN 0 ELSE n - 1 + 1
    BY <2>1, FS_Interval
  <2> QED  BY <2>2
<1>2. ASSUME NEW p \in D, NEW q \in D, Owner(p) = Owner(q)
      PROVE  p = q
  <2>1. Len(order) \in Nat
    BY DEF RateInv, RateTypes
  <2>2. p \in 1..Len(order) /\ q \in 1..Len(order)
    BY <2>1
  <2> QED  BY <1>2, <2>2 DEF RateInv, OneBucketEach
<1>3. f \in Bijection(D, K)
  <2>1. f \in Surjection(D, K)
    BY DEF Surjection
  <2>2. f \in [D -> K]
    OBVIOUS
  <2>3. \A p, q \in D : f[p] = f[q] => p = q
    BY <1>2
  <2> HIDE DEF f, K, D
  <2> QED  BY <2>1, <2>2, <2>3 DEF Bijection, Injection, IsInjective
<1>4. ExistsBijection(D, K)
  <2> HIDE DEF f, K, D
  <2> QED  BY <1>3 DEF ExistsBijection
<1>5. IsFiniteSet(K) /\ Cardinality(K) = n
  <2> HIDE DEF K, D
  <2> QED  BY <1>1, <1>4, FS_Bijection
<1> QED  BY <1>5

\* The requests of others count for a key until it asks.
LEMMA OthersGrow ==
    ASSUME RateInv, NEW k \in RateKeys, NEW o \in RateKeys, o # k, Noted(k), StartsAfresh(o)
    PROVE  StartsAfresh(o)'
<1>1. others'[o] = others[o] \cup {k} /\ others[o] \subseteq RateKeys
  BY DEF Noted, RateInv, RateTypes
<1>2. IsFiniteSet(RateKeys) /\ MaxTracked \in Nat
  BY RateLimiterAssumption
<1>3. Cardinality(others[o]) <= Cardinality(others'[o])
      /\ Cardinality(others[o]) \in Nat /\ Cardinality(others'[o]) \in Nat
  <2>1. others'[o] \subseteq RateKeys /\ others[o] \subseteq others'[o]
    BY <1>1
  <2>2. IsFiniteSet(others'[o]) /\ IsFiniteSet(others[o])
    BY <1>1, <1>2, <2>1, FS_Subset
  <2> QED  BY <2>1, <2>2, FS_Subset, FS_CardinalityType
<1> QED  BY <1>1, <1>2, <1>3 DEF StartsAfresh

\* A key whose bucket goes has as many others that asked since.
LEMMA LastForgotten ==
    ASSUME RateInv, NEW k \in RateKeys, Noted(k), ~IsOwner(k), Len(order) >= MaxTracked,
           NEW o, o = Owner(Len(order))
    PROVE  StartsAfresh(o)'
<1> DEFINE n == Len(order)
           K == {Owner(p) : p \in 1..(n - 1)}
<1>1. MaxTracked \in Nat /\ MaxTracked >= 1 /\ n \in Nat /\ n = MaxTracked /\ IsFiniteSet(RateKeys)
  BY RateLimiterAssumption DEF RateInv, RateTypes, OneBucketEach
<1>2. n - 1 \in Nat /\ n - 1 <= n /\ n \in 1..n
  BY <1>1
<1>3. IsFiniteSet(K) /\ Cardinality(K) = n - 1
  <2> DEFINE j == n - 1
  <2>1. j \in Nat /\ j <= Len(order)
    BY <1>2
  <2> HIDE DEF j
  <2>2. IsFiniteSet({Owner(p) : p \in 1..j}) /\ Cardinality({Owner(p) : p \in 1..j}) = j
    BY <2>1, KeysOfPlaces
  <2> QED  BY <2>2 DEF j
<1>4. o \in RateKeys /\ o # k
  BY <1>2 DEF RateInv, OneBucketEach, IsOwner
<1>5. K \subseteq others[o] /\ k \notin K
  <2> SUFFICES ASSUME NEW p \in 1..(n - 1) PROVE Owner(p) \in others[o] /\ Owner(p) # k
    OBVIOUS
  <2>1. p \in 1..n /\ p < n
    BY <1>1
  <2> QED  BY <1>2, <2>1 DEF RateInv, LaterInFront, IsOwner
<1>6. others'[o] = others[o] \cup {k} /\ others'[o] \subseteq RateKeys
  BY <1>4 DEF Noted, RateInv, RateTypes
<1>7. IsFiniteSet(K \cup {k}) /\ Cardinality(K \cup {k}) = n
  <2> HIDE DEF K, n
  <2>1. IsFiniteSet(K \cup {k}) /\ Cardinality(K \cup {k}) = Cardinality(K) + 1
    BY <1>3, <1>5, FS_AddElement
  <2> QED  BY <1>1, <1>3, <2>1
<1>8. K \cup {k} \subseteq others'[o] /\ IsFiniteSet(others'[o])
  BY <1>1, <1>5, <1>6, FS_Subset
<1>9. n <= Cardinality(others'[o]) /\ Cardinality(others'[o]) \in Nat
  <2> HIDE DEF K, n
  <2> QED  BY <1>7, <1>8, FS_Subset, FS_CardinalityType
<1> QED  BY <1>1, <1>9 DEF StartsAfresh

\* What a request leaves as it was, with its histories.
LEMMA NotedTypes ==
    ASSUME RateInv, NEW h \in Handlers, NEW k \in RateKeys, NEW i \in BucketIds, Noted(k),
           order' \in Seq(BucketIds), holds' = [holds EXCEPT ![h] = i],
           bucket' \in [BucketIds -> RateBuckets]
    PROVE  /\ RateTypes'
           /\ allowed' = allowed
           /\ \A o \in RateKeys :
                /\ Credit(fresh[o], second) \in Nat
                /\ Credit(fresh[o], second) <= Credit(fresh'[o], second')
           /\ StartsAfresh(k) => Credit(fresh'[k], second') = Credit(fresh[k], second) + Burst
<1>0. RateTypes /\ Burst \in Nat /\ second \in Nat /\ second' = second
  BY RateLimiterAssumption DEF RateInv, RateTypes, Noted
<1>1. fresh' \in [RateKeys -> Nat] /\ \A o \in RateKeys : fresh'[o] \in {fresh[o], fresh[o] + 1}
  BY <1>0 DEF RateTypes, Noted
<1>2. StartsAfresh(k) => fresh'[k] = fresh[k] + 1
  BY <1>0 DEF RateTypes, Noted
<1>3. others' \in [RateKeys -> SUBSET RateKeys]
  BY <1>0 DEF RateTypes, Noted
<1>4. holds' \in [Handlers -> BucketIds \cup {0}]
  BY <1>0 DEF RateTypes
<1>5. RateTypes'
  BY <1>0, <1>1, <1>3, <1>4 DEF RateTypes, Noted
<1>6. \A o \in RateKeys : /\ fresh[o] \in Nat
                          /\ Credit(fresh[o], second) \in Nat
                          /\ Credit(fresh[o] + 1, second) = Credit(fresh[o], second) + Burst
  BY <1>0, CreditGrows DEF RateTypes
<1>7. ASSUME NEW o \in RateKeys
      PROVE  Credit(fresh[o], second) <= Credit(fresh'[o], second')
  <2>1. CASE fresh'[o] = fresh[o]
    BY <1>0, <1>6, <2>1
  <2>2. CASE fresh'[o] = fresh[o] + 1
    <3>1. Credit(fresh'[o], second') = Credit(fresh[o], second) + Burst
      BY <1>0, <1>6, <2>2
    <3>2. Credit(fresh[o], second) \in Nat
      BY <1>6
    <3> QED  BY <1>0, <3>1, <3>2
  <2> QED  BY <1>1, <2>1, <2>2
<1>8. StartsAfresh(k) => Credit(fresh'[k], second') = Credit(fresh[k], second) + Burst
  BY <1>0, <1>2, <1>6
<1> QED  BY <1>5, <1>6, <1>7, <1>8 DEF Noted

LEMMA FindInv ==
    ASSUME RateInv, NEW h \in Handlers, NEW k \in RateKeys, Find(h, k), Noted(k)
    PROVE  RateInv'
<1>a. PICK i \in BucketIds : \E src :
           /\ Moved(i, k, Len(order), src) /\ Len(order) \in 1..MaxTracked
           /\ holds' = [holds EXCEPT ![h] = i]
  BY FindMoves
<1>1. PICK src :
           /\ Moved(i, k, Len(order), src) /\ Len(order) \in 1..MaxTracked
           /\ holds' = [holds EXCEPT ![h] = i]
  BY <1>a
<1>2. /\ IsOwner(k) /\ bucket' = bucket
      /\ \A p \in 1..Len(order) : \E q \in 1..Len(order) : order'[q] = order[p]
  BY FindMoves
<1>3. order' \in Seq(BucketIds) /\ Len(order') = Len(order)
  BY <1>1 DEF Moved
<1>4. bucket' \in [BucketIds -> RateBuckets]
  BY <1>2 DEF RateInv, RateTypes
<1>5. /\ RateTypes' /\ allowed' = allowed
      /\ \A o \in RateKeys :
           Credit(fresh[o], second) \in Nat /\ Credit(fresh[o], second) <= Credit(fresh'[o], second')
  BY <1>1, <1>3, <1>4, NotedTypes
<1>6. OneBucketEach' /\ LaterInFront'
  <2> DEFINE n == Len(order)
  <2>1. n \in 1..MaxTracked /\ Moved(i, k, n, src)
    BY <1>1
  <2> HIDE DEF n
  <2> QED  BY <2>1, MovedOrder
<1>7. ForgottenForMany'
  <2> SUFFICES ASSUME NEW o \in RateKeys, ~StartsAfresh(o)' PROVE IsOwner(o)'
    BY DEF ForgottenForMany
  <2>1. o # k => ~StartsAfresh(o)
    BY OthersGrow
  <2>2. IsOwner(o)
    BY <1>2, <2>1 DEF RateInv, ForgottenForMany
  <2>3. PICK p \in 1..Len(order) : Owner(p) = o
    BY <2>2 DEF IsOwner
  <2>4. PICK q \in 1..Len(order) : order'[q] = order[p]
    BY <1>2
  <2>5. Owner(q)' = o
    BY <1>2, <2>3, <2>4 DEF Owner
  <2> QED  BY <1>3, <2>5 DEF IsOwner
<1>8. ASSUME NEW q \in 1..Len(order)
      PROVE  \E p \in 1..Len(order) : order[p] = order'[q]
  <2>0. Len(order) \in Nat
    BY DEF RateInv, RateTypes
  <2>1. CASE q = 1
    <3>1. PICK p \in 1..Len(order) : Owner(p) = k
      BY <1>2 DEF IsOwner
    <3>2. PICK r \in 1..Len(order) : order'[r] = order[p]
      BY <1>2
    <3>3. bucket[order'[1]].key = k /\ Owner(r)' = k
      BY <1>1, <1>2, <3>1, <3>2 DEF Owner, Moved
    <3>4. Owner(1)' = Owner(r)'
      BY <1>2, <3>3 DEF Owner
    <3>5. r = 1
      BY <1>3, <1>6, <2>0, <2>1, <3>4 DEF OneBucketEach
    <3> QED  BY <2>1, <3>2, <3>5
  <2>2. CASE q # 1
    BY <1>1, <2>0, <2>2 DEF Moved
  <2> QED  BY <2>1, <2>2
<1>9. WithinCredit'
  <2>1. \A o \in RateKeys : allowed[o] \in Nat /\ Credit(fresh'[o], second') \in Nat
    BY <1>5, CreditGrows DEF RateTypes, RateInv
  <2>2. \A o \in RateKeys : allowed'[o] <= Credit(fresh'[o], second')
    BY <1>5, <2>1 DEF RateInv, WithinCredit
  <2>3. ASSUME NEW q \in 1..Len(order')
        PROVE  allowed'[Owner(q)'] + (bucket')[order'[q]].tokens <= Credit((fresh')[Owner(q)'], second')
    <3>1. PICK p \in 1..Len(order) : order[p] = order'[q]
      BY <1>3, <1>8
    <3>2. Owner(q)' = Owner(p) /\ (bucket')[order'[q]] = bucket[order[p]]
      BY <1>2, <3>1 DEF Owner
    <3>3. Owner(p) \in RateKeys
          /\ allowed[Owner(p)] + bucket[order[p]].tokens <= Credit(fresh[Owner(p)], second)
      BY DEF RateInv, OneBucketEach, WithinCredit
    <3>4. bucket[order[p]].tokens \in Nat
      <4>1. order[p] \in BucketIds
        BY DEF RateInv, RateTypes
      <4>2. bucket[order[p]] \in RateBuckets
        BY <4>1 DEF RateInv, RateTypes
      <4>3. bucket[order[p]].tokens \in 0..Burst
        BY <4>2 DEF RateBuckets
      <4> QED  BY <4>3
    <3> QED  BY <1>5, <2>1, <3>2, <3>3, <3>4
  <2> QED  BY <2>2, <2>3 DEF WithinCredit
<1> QED  BY <1>5, <1>6, <1>7, <1>9 DEF RateInv

LEMMA MakeInv ==
    ASSUME RateInv, NEW h \in Handlers, NEW k \in RateKeys, holds[h] = 0, Make(h, k), Noted(k)
    PROVE  RateInv'
<1>0. Len(order) \in Nat /\ Len(order) <= MaxTracked /\ MaxTracked \in Nat /\ Burst \in Nat
  BY RateLimiterAssumption DEF RateInv, RateTypes, OneBucketEach
<1>1. PICK i \in BucketIds, n \in 1..MaxTracked :
           /\ Moved(i, k, n, [p \in 1..n |-> p - 1])
           /\ n = IF Len(order) >= MaxTracked THEN Len(order) ELSE Len(order) + 1
           /\ holds' = [holds EXCEPT ![h] = i] /\ ~IsOwner(k)
           /\ bucket' = [bucket EXCEPT ![i] = [key |-> k, tokens |-> Burst]]
           /\ \A p \in 1..(n - 1) : order'[p + 1] = order[p]
  BY MakeMoves
<1>2. order' \in Seq(BucketIds) /\ Len(order') = n /\ order'[1] = i /\ n \in Nat
  BY <1>0, <1>1 DEF Moved
<1>3. [key |-> k, tokens |-> Burst] \in RateBuckets
  <2>1. Burst \in 0..Burst /\ k \in RateKeys \cup {"nobody"}
    BY <1>0
  <2> QED  BY <2>1, BucketMade
<1>4. bucket \in [BucketIds -> RateBuckets]
  BY DEF RateInv, RateTypes
<1>5. bucket' \in [BucketIds -> RateBuckets] /\ bucket'[i] = [key |-> k, tokens |-> Burst]
  <2> HIDE DEF RateBuckets
  <2> QED  BY <1>1, <1>3, <1>4
<1>6. /\ RateTypes' /\ allowed' = allowed
      /\ \A o \in RateKeys :
           Credit(fresh[o], second) \in Nat /\ Credit(fresh[o], second) <= Credit(fresh'[o], second')
      /\ StartsAfresh(k) => Credit(fresh'[k], second') = Credit(fresh[k], second) + Burst
  BY <1>1, <1>2, <1>5, NotedTypes
<1>7. OneBucketEach' /\ LaterInFront'
  <2> DEFINE src == [p \in 1..n |-> p - 1]
  <2>1. Moved(i, k, n, src)
    BY <1>1
  <2> HIDE DEF src
  <2> QED  BY <2>1, MovedOrder
<1>8. StartsAfresh(k)
  BY <1>1 DEF RateInv, ForgottenForMany
<1>9. ASSUME NEW p \in 1..(n - 1)
      PROVE  /\ p \in 1..Len(order) /\ p + 1 \in 2..n /\ order'[p + 1] = order[p]
             /\ bucket'[order'[p + 1]] = bucket[order[p]]
  <2>1. p + 1 \in 2..n /\ p \in 1..Len(order) /\ order'[p + 1] = order[p]
    BY <1>0, <1>1, <1>2
  <2>2. bucket'[order'[p + 1]] = bucket[order'[p + 1]]
    BY <1>1, <2>1 DEF Moved
  <2> QED  BY <2>1, <2>2
<1>10. ForgottenForMany'
  <2> SUFFICES ASSUME NEW o \in RateKeys, ~StartsAfresh(o)' PROVE IsOwner(o)'
    BY DEF ForgottenForMany
  <2>1. CASE o = k
    <3>1. Owner(1)' = k
      BY <1>2, <1>5 DEF Owner
    <3> QED  BY <1>2, <2>1, <3>1 DEF IsOwner
  <2>2. CASE o # k
    <3>1. IsOwner(o)
      BY <2>2, OthersGrow DEF RateInv, ForgottenForMany
    <3>2. PICK p \in 1..Len(order) : Owner(p) = o
      BY <3>1 DEF IsOwner
    <3>3. p \in 1..(n - 1)
      <4>1. Len(order) >= MaxTracked => p # Len(order)
        BY <1>1, <3>2, LastForgotten
      <4> QED  BY <1>0, <1>1, <4>1
    <3>4. Owner(p + 1)' = o /\ p + 1 \in 1..Len(order')
      BY <1>2, <1>9, <3>2, <3>3 DEF Owner
    <3> QED  BY <3>4 DEF IsOwner
  <2> QED  BY <2>1, <2>2
<1>11. WithinCredit'
  <2>1. \A o \in RateKeys : allowed[o] \in Nat /\ Credit(fresh'[o], second') \in Nat
    BY <1>6, CreditGrows DEF RateTypes, RateInv
  <2>2. \A o \in RateKeys : allowed'[o] <= Credit(fresh'[o], second')
    BY <1>6, <2>1 DEF RateInv, WithinCredit
  <2>3. ASSUME NEW q \in 1..Len(order')
        PROVE  allowed'[Owner(q)'] + (bucket')[order'[q]].tokens <= Credit((fresh')[Owner(q)'], second')
    <3>1. CASE q = 1
      <4>1. Owner(q)' = k /\ (bucket')[order'[q]].tokens = Burst
        BY <1>2, <1>5, <3>1 DEF Owner
      <4>2. allowed[k] <= Credit(fresh[k], second)
        BY DEF RateInv, WithinCredit
      <4> QED  BY <1>0, <1>6, <1>8, <2>1, <4>1, <4>2
    <3>2. CASE q # 1
      <4>1. q - 1 \in 1..(n - 1) /\ q = (q - 1) + 1
        BY <1>2, <3>2
      <4> DEFINE p == q - 1
      <4>2. p \in 1..Len(order) /\ Owner(q)' = Owner(p) /\ (bucket')[order'[q]] = bucket[order[p]]
        BY <1>9, <4>1 DEF Owner
      <4> HIDE DEF p
      <4>3. Owner(p) \in RateKeys
            /\ allowed[Owner(p)] + bucket[order[p]].tokens <= Credit(fresh[Owner(p)], second)
        BY <4>2 DEF RateInv, OneBucketEach, WithinCredit
      <4>4. bucket[order[p]].tokens \in Nat
        <5>1. order[p] \in BucketIds
          BY <4>2 DEF RateInv, RateTypes
        <5>2. bucket[order[p]] \in RateBuckets
          BY <1>4, <5>1
        <5>3. bucket[order[p]].tokens \in 0..Burst
          BY <5>2 DEF RateBuckets
        <5> QED  BY <5>3
      <4> QED  BY <1>6, <2>1, <4>2, <4>3, <4>4
    <3> QED  BY <3>1, <3>2
  <2> QED  BY <2>2, <2>3 DEF WithinCredit
<1> QED  BY <1>6, <1>7, <1>10, <1>11 DEF RateInv

LEMMA AskInv ==
    ASSUME RateInv, NEW h \in Handlers, NEW k \in RateKeys, Ask(h, k)
    PROVE  RateInv'
<1>1. Noted(k) /\ holds[h] = 0
  BY DEF Ask, Noted, StartsAfresh
<1> QED  BY <1>1, FindInv, MakeInv DEF Ask

\* A step that leaves the order and the histories of requests alone.
LEMMA SameOrder ==
    ASSUME RateInv, UNCHANGED <<order, others, fresh>>,
           \A j \in BucketIds : bucket'[j].key = bucket[j].key
    PROVE  OneBucketEach' /\ LaterInFront' /\ ForgottenForMany'
           /\ \A p \in 1..Len(order) : Owner(p)' = Owner(p)
<1>0. order \in Seq(BucketIds)
  BY DEF RateInv, RateTypes
<1>1. \A p \in 1..Len(order) : Owner(p)' = Owner(p)
  BY <1>0 DEF Owner
<1>2. OneBucketEach'
  BY <1>1 DEF RateInv, OneBucketEach
<1>3. LaterInFront'
  BY <1>1 DEF RateInv, LaterInFront
<1>4. ForgottenForMany'
  BY <1>1 DEF RateInv, ForgottenForMany, StartsAfresh, IsOwner
<1> QED  BY <1>1, <1>2, <1>3, <1>4

LEMMA TakeInv == ASSUME RateInv, NEW h \in Handlers, TakeToken(h) PROVE RateInv'
<1> DEFINE i == holds[h]
<1>0. /\ UNCHANGED <<second, order, asks, others, fresh>>
      /\ holds' = [holds EXCEPT ![h] = 0] /\ i \in BucketIds
      /\ RateTypes /\ Burst \in Nat
  BY RateLimiterAssumption DEF TakeToken, RateInv, RateTypes
<1>1. holds' \in [Handlers -> BucketIds \cup {0}]
  BY <1>0 DEF RateTypes
<1>2. CASE bucket[i].tokens = 0
  <2>1. UNCHANGED <<bucket, allowed>>
    BY <1>2 DEF TakeToken
  <2>2. RateTypes'
    BY <1>0, <1>1, <2>1 DEF RateTypes
  <2>3. OneBucketEach' /\ LaterInFront' /\ ForgottenForMany'
        /\ \A p \in 1..Len(order) : Owner(p)' = Owner(p)
    BY <1>0, <2>1, SameOrder
  <2>4. WithinCredit'
    BY <1>0, <2>1, <2>3 DEF RateInv, WithinCredit
  <2> QED  BY <2>2, <2>3, <2>4 DEF RateInv
<1>3. CASE bucket[i].tokens # 0
  <2> DEFINE t == bucket[i].tokens
             o == bucket[i].key
  <2>0. bucket[i] \in RateBuckets
    BY <1>0 DEF RateTypes
  <2>1. /\ bucket' = [bucket EXCEPT ![i].tokens = @ - 1]
        /\ allowed' = [allowed EXCEPT ![o] = IF i \in Tracked THEN @ + 1 ELSE @]
    BY <1>3 DEF TakeToken
  <2>2. t \in 1..Burst /\ t \in Nat /\ t - 1 \in 0..Burst /\ o \in RateKeys \cup {"nobody"}
    <3>1. t \in 0..Burst /\ t \in Nat /\ o \in RateKeys \cup {"nobody"}
      BY <2>0, BucketRead
    <3> HIDE DEF t, o
    <3>2. t # 0
      BY <1>3 DEF t
    <3> QED  BY <1>0, <3>1, <3>2
  <2>3. bucket'[i] = [bucket[i] EXCEPT !.tokens = t - 1]
        /\ \A j \in BucketIds : j # i => bucket'[j] = bucket[j]
    BY <1>0, <2>1 DEF RateTypes
  <2>4. bucket[i] = [key |-> o, tokens |-> t]
    BY <2>0, BucketRead
  <2>5. bucket'[i] = [key |-> o, tokens |-> t - 1]
    BY <2>3, <2>4
  <2>6. bucket'[i] \in RateBuckets
    <3> HIDE DEF t, o
    <3> QED  BY <2>2, <2>5, BucketMade
  <2>7. bucket' \in [BucketIds -> RateBuckets]
    <3>1. \A j \in BucketIds : bucket'[j] \in RateBuckets
      BY <1>0, <2>3, <2>6 DEF RateTypes
    <3>2. bucket' = [j \in BucketIds |-> bucket'[j]]
      BY <1>0, <2>1 DEF RateTypes
    <3> QED  BY <3>1, <3>2
  <2>8. \A j \in BucketIds : bucket'[j].key = bucket[j].key
    BY <2>3, <2>5
  <2>9. OneBucketEach' /\ LaterInFront' /\ ForgottenForMany'
        /\ \A p \in 1..Len(order) : Owner(p)' = Owner(p)
    BY <1>0, <2>8, SameOrder
  <2>10. /\ allowed' \in [RateKeys -> Nat]
         /\ \A k \in RateKeys : k # o \/ i \notin Tracked => allowed'[k] = allowed[k]
         /\ \A k \in RateKeys : k = o /\ i \in Tracked => allowed'[k] = allowed[k] + 1
    <3>0. allowed \in [RateKeys -> Nat]
      BY <1>0 DEF RateTypes
    <3> HIDE DEF o, i
    <3>1. \A k \in RateKeys :
             allowed'[k] = IF k = o /\ i \in Tracked THEN allowed[k] + 1 ELSE allowed[k]
      BY <2>1, <3>0
    <3>2. allowed' = [k \in RateKeys |-> allowed'[k]]
      BY <2>1, <3>0
    <3>3. \A k \in RateKeys : allowed'[k] \in Nat
      BY <3>0, <3>1
    <3>4. allowed' \in [RateKeys -> Nat]
      BY <3>2, <3>3
    <3> QED  BY <3>1, <3>4
  <2>11. RateTypes'
    BY <1>0, <1>1, <2>7, <2>10 DEF RateTypes
  <2>12. \A k \in RateKeys : allowed[k] \in Nat /\ Credit(fresh[k], second) \in Nat
    BY <1>0, CreditGrows DEF RateTypes
  <2>13. ASSUME NEW p \in 1..Len(order)
         PROVE  allowed'[Owner(p)] + bucket'[order[p]].tokens <= Credit(fresh[Owner(p)], second)
    <3>1. /\ Owner(p) \in RateKeys /\ order[p] \in BucketIds /\ order[p] \in Tracked
          /\ allowed[Owner(p)] + bucket[order[p]].tokens <= Credit(fresh[Owner(p)], second)
      <4>1. order[p] \in BucketIds /\ order[p] \in Tracked
        BY <1>0, TrackedAt DEF RateTypes
      <4> QED  BY <1>0, <4>1 DEF RateInv, OneBucketEach, WithinCredit
    <3>2. CASE order[p] = i
      <4>1. Owner(p) = o /\ allowed'[o] = allowed[o] + 1
        BY <2>10, <3>1, <3>2 DEF Owner
      <4>2. bucket'[order[p]].tokens = t - 1 /\ bucket[order[p]].tokens = t
        BY <2>5, <3>2
      <4>3. t \in Nat /\ allowed[o] \in Nat /\ Credit(fresh[o], second) \in Nat
        BY <2>2, <2>12, <3>1, <4>1
      <4>4. allowed[o] + t <= Credit(fresh[o], second)
        BY <3>1, <4>1, <4>2
      <4>5. (allowed[o] + 1) + (t - 1) <= Credit(fresh[o], second)
        <5> HIDE DEF t, o
        <5> QED  BY <4>3, <4>4
      <4> QED  BY <4>1, <4>2, <4>5
    <3>3. CASE order[p] # i
      <4>1. bucket'[order[p]] = bucket[order[p]]
        BY <2>3, <3>1, <3>3
      <4>2. i \in Tracked => Owner(p) # o
        <5> SUFFICES ASSUME i \in Tracked, Owner(p) = o PROVE FALSE
          OBVIOUS
        <5>1. PICK q \in 1..Len(order) : order[q] = i
          BY <1>0 DEF RateTypes, Tracked
        <5>2. Owner(q) = Owner(p)
          BY <5>1 DEF Owner
        <5> QED  BY <3>3, <5>1, <5>2 DEF RateInv, OneBucketEach
      <4>3. allowed'[Owner(p)] = allowed[Owner(p)]
        <5> HIDE DEF o, i
        <5> QED  BY <2>10, <3>1, <4>2
      <4> QED  BY <3>1, <4>1, <4>3
    <3> QED  BY <3>2, <3>3
  <2>14. ASSUME NEW k \in RateKeys
         PROVE  allowed'[k] <= Credit(fresh[k], second)
    <3>1. CASE k = o /\ i \in Tracked
      <4>1. PICK q \in 1..Len(order) : order[q] = i
        BY <1>0, <3>1 DEF RateTypes, Tracked
      <4>2. allowed[k] + t <= Credit(fresh[k], second)
        BY <3>1, <4>1 DEF RateInv, WithinCredit, Owner
      <4>3. allowed'[k] = allowed[k] + 1
        BY <2>10, <3>1
      <4>4. t \in Nat /\ t # 0 /\ allowed[k] \in Nat /\ Credit(fresh[k], second) \in Nat
        BY <1>3, <2>2, <2>12
      <4> HIDE DEF t, o, i
      <4>5. allowed[k] + 1 <= Credit(fresh[k], second)
        BY <4>2, <4>4
      <4> QED  BY <4>3, <4>5
    <3>2. CASE ~(k = o /\ i \in Tracked)
      BY <2>10, <3>2 DEF RateInv, WithinCredit
    <3> QED  BY <3>1, <3>2
  <2>15. WithinCredit'
    BY <1>0, <2>9, <2>13, <2>14 DEF WithinCredit
  <2> QED  BY <2>9, <2>11, <2>15 DEF RateInv
<1> QED  BY <1>2, <1>3

LEMMA RefillInv == ASSUME RateInv, Refill PROVE RateInv'
<1>0. /\ UNCHANGED <<order, holds, others, fresh, allowed>> /\ second' = second + 1
      /\ RateTypes /\ Burst \in Nat /\ Rate \in Nat
  BY RateLimiterAssumption DEF Refill, RateInv
<1> DEFINE filled(t) == IF t + Rate > Burst THEN Burst ELSE t + Rate
<1>1. ASSUME NEW j \in BucketIds
      PROVE  /\ bucket[j] \in RateBuckets /\ bucket[j].tokens \in 0..Burst
             /\ bucket'[j].key = bucket[j].key
             /\ bucket'[j].tokens = filled(bucket[j].tokens)
             /\ bucket'[j] \in RateBuckets
  <2>1. bucket[j] \in RateBuckets
    BY <1>0 DEF RateTypes
  <2>2. bucket'[j] = [bucket[j] EXCEPT !.tokens = filled(bucket[j].tokens)]
    BY DEF Refill
  <2>3. bucket[j] = [key |-> bucket[j].key, tokens |-> bucket[j].tokens]
        /\ bucket[j].key \in RateKeys \cup {"nobody"} /\ bucket[j].tokens \in 0..Burst
    BY <2>1, BucketRead
  <2>4. filled(bucket[j].tokens) \in 0..Burst
    <3>1. ASSUME NEW t \in 0..Burst PROVE filled(t) \in 0..Burst
      BY <1>0
    <3> HIDE DEF filled
    <3> QED  BY <2>3, <3>1
  <2> HIDE DEF filled
  <2>5. bucket'[j] = [key |-> bucket[j].key, tokens |-> filled(bucket[j].tokens)]
    BY <2>2, <2>3
  <2>6. bucket'[j] \in RateBuckets
    BY <2>3, <2>4, <2>5, BucketMade
  <2>7. bucket'[j].key = bucket[j].key
        /\ bucket'[j].tokens = filled(bucket[j].tokens)
    BY <2>5
  <2> QED  BY <2>1, <2>3, <2>5, <2>6, <2>7
<1>2. bucket' = [j \in BucketIds |-> bucket'[j]]
  BY DEF Refill
<1>3. RateTypes'
  BY <1>0, <1>1, <1>2 DEF RateTypes
<1> HIDE DEF filled
<1>4. OneBucketEach' /\ LaterInFront' /\ ForgottenForMany'
      /\ \A p \in 1..Len(order) : Owner(p)' = Owner(p)
  <2>1. \A j \in BucketIds : bucket'[j].key = bucket[j].key
    BY <1>1
  <2> QED  BY <1>0, <2>1, SameOrder
<1>5. \A k \in RateKeys : /\ allowed[k] \in Nat /\ Credit(fresh[k], second) \in Nat
                          /\ Credit(fresh[k], second + 1) = Credit(fresh[k], second) + Rate
  BY <1>0, CreditGrows DEF RateTypes
<1>6. \A k \in RateKeys : allowed[k] <= Credit(fresh[k], second + 1)
  BY <1>0, <1>5 DEF RateInv, WithinCredit
<1>7. ASSUME NEW p \in 1..Len(order)
      PROVE  allowed[Owner(p)] + bucket'[order[p]].tokens <= Credit(fresh[Owner(p)], second + 1)
  <2>1. /\ Owner(p) \in RateKeys /\ order[p] \in BucketIds
        /\ allowed[Owner(p)] + bucket[order[p]].tokens <= Credit(fresh[Owner(p)], second)
    BY <1>0 DEF RateInv, RateTypes, OneBucketEach, WithinCredit
  <2>2. bucket'[order[p]].tokens = filled(bucket[order[p]].tokens)
        /\ bucket[order[p]].tokens \in Nat
    <3>1. ASSUME NEW j \in BucketIds
          PROVE  bucket'[j].tokens = filled(bucket[j].tokens) /\ bucket[j].tokens \in Nat
      BY <1>1, BucketRead
    <3> QED  BY <2>1, <3>1
  <2>3. bucket'[order[p]].tokens <= bucket[order[p]].tokens + Rate
        /\ bucket'[order[p]].tokens \in Nat /\ bucket[order[p]].tokens \in Nat
    BY <1>0, <2>2 DEF filled
  <2> DEFINE a == allowed[Owner(p)]
             b == bucket[order[p]].tokens
             c == bucket'[order[p]].tokens
             C == Credit(fresh[Owner(p)], second)
             D == Credit(fresh[Owner(p)], second + 1)
  <2>4. a \in Nat /\ C \in Nat /\ D = C + Rate /\ a + b <= C
    BY <1>5, <2>1
  <2>5. c <= b + Rate /\ c \in Nat /\ b \in Nat
    BY <2>3
  <2> HIDE DEF a, b, c, C, D
  <2>6. a + c <= D
    BY <1>0, <2>4, <2>5
  <2> QED  BY <2>6 DEF a, c, D
<1>8. WithinCredit'
  BY <1>0, <1>4, <1>6, <1>7 DEF WithinCredit
<1> QED  BY <1>3, <1>4, <1>8 DEF RateInv

LEMMA RateStep == RateInv /\ [RateNext]_rateVars => RateInv'
<1> SUFFICES ASSUME RateInv, [RateNext]_rateVars PROVE RateInv'
  OBVIOUS
<1>1. ASSUME NEW h \in Handlers, NEW k \in RateKeys, Ask(h, k) PROVE RateInv'
  BY <1>1, AskInv
<1>2. ASSUME NEW h \in Handlers, TakeToken(h) PROVE RateInv'
  BY <1>2, TakeInv
<1>3. CASE Refill
  BY <1>3, RefillInv
<1>4. CASE UNCHANGED rateVars
  <2>1. UNCHANGED <<second, order, bucket, holds, others, fresh, allowed>>
    BY <1>4 DEF rateVars
  <2>2. OneBucketEach' /\ LaterInFront' /\ ForgottenForMany'
        /\ \A p \in 1..Len(order) : Owner(p)' = Owner(p)
    BY <2>1, SameOrder
  <2>3. RateTypes'
    BY <2>1 DEF RateInv, RateTypes
  <2>4. WithinCredit'
    BY <2>1, <2>2 DEF RateInv, WithinCredit
  <2> QED  BY <2>2, <2>3, <2>4 DEF RateInv
<1> QED  BY <1>1, <1>2, <1>3, <1>4 DEF RateNext

\* The tracked buckets are those of the keys that asked last, one for each
\* (RateLimiter.Allow).
THEOREM RateHolds == RateSpec => []RateInv
<1>1. RateInit => RateInv
  BY RateInitInv
<1>2. RateInv /\ [RateNext]_rateVars => RateInv'
  BY RateStep
<1> QED  BY <1>1, <1>2, PTL DEF RateSpec

\* A key gets no more than its burst and its rate, and a new burst only when it
\* never asked or MaxTracked other keys did since (RateLimiter.Allow).
THEOREM RateIsHeld == RateSpec => []RateHeld
<1>1. RateInv => RateHeld
  BY DEF RateInv, WithinCredit, RateHeld, Credit
<1> QED  BY <1>1, RateHolds, PTL

-----------------------------------------------------------------------------
(* Sequences of records that rise.                                         *)

LEMMA NoRecords == Records(<<>>) = {} /\ Increasing(<<>>) /\ <<>> \in Seq(Nat)
BY DEF Records, Increasing

LEMMA OneRecord ==
    ASSUME NEW x \in Nat
    PROVE  Records(<<x>>) = {x} /\ Increasing(<<x>>) /\ <<x>> \in Seq(Nat)
BY DEF Records, Increasing

LEMMA RecordsJoined ==
    ASSUME NEW s \in Seq(Nat), NEW t \in Seq(Nat)
    PROVE  /\ s \o t \in Seq(Nat)
           /\ Records(s \o t) = Records(s) \cup Records(t)
           /\ Increasing(s) /\ Increasing(t) /\ AllBefore(s, t) => Increasing(s \o t)
<1> DEFINE m == Len(s)
           n == Len(t)
           u == s \o t
<1>1. /\ u \in Seq(Nat) /\ Len(u) = m + n /\ m \in Nat /\ n \in Nat
      /\ \A i \in 1..(m + n) : u[i] = IF i <= m THEN s[i] ELSE t[i - m]
  OBVIOUS
<1>2. DOMAIN u = 1..(m + n) /\ DOMAIN s = 1..m /\ DOMAIN t = 1..n
  BY <1>1
<1> HIDE DEF m, n, u
<1>3. ASSUME NEW i \in 1..(m + n)
      PROVE  \/ i \in 1..m /\ u[i] = s[i]
             \/ i - m \in 1..n /\ i > m /\ u[i] = t[i - m]
  BY <1>1
<1>4. Records(u) \subseteq Records(s) \cup Records(t)
  BY <1>2, <1>3 DEF Records
<1>a. ASSUME NEW i \in 1..m
      PROVE  i \in 1..(m + n) /\ u[i] = s[i]
  <2>1. i \in 1..(m + n) /\ i <= m
    BY <1>1
  <2>2. u[i] = s[i]
    BY <1>1, <2>1
  <2> QED  BY <2>1, <2>2
<1>5. Records(s) \subseteq Records(u)
  <2>1. \A i \in DOMAIN s : s[i] \in Records(u)
    BY <1>2, <1>a DEF Records
  <2> QED  BY <2>1 DEF Records
<1>6. ASSUME NEW j \in 1..n
      PROVE  t[j] \in Records(u)
  <2>1. m + j \in 1..(m + n) /\ (m + j) - m = j /\ ~(m + j <= m)
    BY <1>1
  <2>2. u[m + j] = t[j]
    BY <1>1, <2>1
  <2> QED  BY <1>2, <2>1, <2>2 DEF Records
<1>7. Records(t) \subseteq Records(u)
  BY <1>2, <1>6 DEF Records
<1>8. ASSUME Increasing(s), Increasing(t), AllBefore(s, t), NEW i \in 1..(m + n), NEW j \in 1..(m + n), i < j
      PROVE  u[i] < u[j]
  <2>1. CASE i \in 1..m /\ j \in 1..m
    <3>1. u[i] = s[i] /\ u[j] = s[j]
      BY <1>a, <2>1
    <3> QED  BY <1>2, <1>8, <2>1, <3>1 DEF Increasing
  <2>2. CASE i \in 1..m /\ ~(j \in 1..m)
    <3>0. u[i] = s[i] /\ j - m \in 1..n /\ u[j] = t[j - m]
      BY <1>3, <1>a, <2>2
    <3>1. u[i] \in Records(s) /\ u[j] \in Records(t)
      BY <1>2, <2>2, <3>0 DEF Records
    <3> QED  BY <1>8, <3>1 DEF AllBefore
  <2>3. CASE ~(i \in 1..m)
    <3>1. i - m \in 1..n /\ j - m \in 1..n /\ i - m < j - m /\ u[i] = t[i - m] /\ u[j] = t[j - m]
      BY <1>1, <1>3, <1>8, <2>3
    <3> QED  BY <1>2, <1>8, <3>1 DEF Increasing
  <2> QED  BY <2>1, <2>2, <2>3
<1>9. Increasing(s) /\ Increasing(t) /\ AllBefore(s, t) => Increasing(u)
  BY <1>2, <1>8 DEF Increasing
<1> QED  BY <1>1, <1>4, <1>5, <1>7, <1>9 DEF u

LEMMA RecordAdded ==
    ASSUME NEW s \in Seq(Nat), NEW x \in Nat, Increasing(s), \A y \in Records(s) : y < x
    PROVE  /\ Append(s, x) \in Seq(Nat) /\ Increasing(Append(s, x))
           /\ Records(Append(s, x)) = Records(s) \cup {x}
<1>1. Append(s, x) = s \o <<x>>
  OBVIOUS
<1>2. AllBefore(s, <<x>>)
  BY OneRecord DEF AllBefore
<1> QED  BY <1>1, <1>2, OneRecord, RecordsJoined

LEMMA RecordTaken ==
    ASSUME NEW s \in Seq(Nat), s # <<>>, Increasing(s)
    PROVE  /\ Head(s) \in Nat /\ Tail(s) \in Seq(Nat) /\ Increasing(Tail(s))
           /\ Records(s) = {Head(s)} \cup Records(Tail(s))
           /\ \A x \in Records(Tail(s)) : Head(s) < x
<1> DEFINE n == Len(s)
           t == Tail(s)
<1>1. /\ n \in Nat /\ n >= 1 /\ Head(s) = s[1] /\ s[1] \in Nat
      /\ t \in Seq(Nat) /\ Len(t) = n - 1 /\ \A i \in 1..(n - 1) : t[i] = s[i + 1]
  OBVIOUS
<1>2. DOMAIN s = 1..n /\ DOMAIN t = 1..(n - 1)
  BY <1>1
<1> HIDE DEF n, t
<1>3. ASSUME NEW i \in 1..(n - 1)
      PROVE  i + 1 \in 1..n /\ t[i] = s[i + 1] /\ s[1] < t[i]
  <2>1. i + 1 \in 1..n /\ 1 \in 1..n /\ 1 < i + 1
    BY <1>1
  <2> QED  BY <1>1, <1>2, <2>1 DEF Increasing
<1>4. ASSUME NEW i \in 1..n
      PROVE  s[i] = s[1] \/ s[i] \in Records(t)
  <2>1. i = 1 \/ (i - 1 \in 1..(n - 1) /\ (i - 1) + 1 = i)
    BY <1>1
  <2> QED  BY <1>1, <1>2, <2>1 DEF Records
<1>5. Increasing(t)
  <2>1. ASSUME NEW i \in 1..(n - 1), NEW j \in 1..(n - 1), i < j
        PROVE  t[i] < t[j]
    <3>1. i + 1 < j + 1
      BY <1>1, <2>1
    <3> QED  BY <1>2, <1>3, <3>1 DEF Increasing
  <2> QED  BY <1>2, <2>1 DEF Increasing
<1>6. Records(t) \subseteq Records(s) /\ \A x \in Records(t) : s[1] < x
  BY <1>2, <1>3 DEF Records
<1>7. s[1] \in Records(s) /\ Records(s) \subseteq {s[1]} \cup Records(t)
  <2>1. 1 \in 1..n
    BY <1>1
  <2>2. s[1] \in Records(s)
    BY <1>2, <2>1 DEF Records
  <2>3. \A x \in Records(s) : x = s[1] \/ x \in Records(t)
    BY <1>2, <1>4 DEF Records
  <2> QED  BY <2>2, <2>3
<1> QED  BY <1>1, <1>5, <1>6, <1>7 DEF t

-----------------------------------------------------------------------------
(* The records of some files, a buffer and a channel.                      *)

\* The records of the files D.
InFiles(D) == UNION {Records(D[d]) : d \in Days}

InOrder(D, b, c) ==
    /\ D \in [Days -> Seq(Nat)] /\ b \in Seq(Nat) /\ c \in Seq(Nat)
    /\ \A d \in Days : Increasing(D[d]) /\ AllBefore(D[d], b) /\ AllBefore(D[d], c)
    /\ \A d, e \in Days : d < e => AllBefore(D[d], D[e])
    /\ Increasing(b) /\ Increasing(c) /\ AllBefore(b, c)

\* Of n records accepted, all but those in g are there, and in order.
AllThere(D, b, c, n, g) ==
    /\ n \in Nat /\ g \subseteq 1..n
    /\ InFiles(D) \cup Records(b) \cup Records(c) = (1..n) \ g

\* A file is appended to, and some are removed.
Lengthened(D, day, b) == [D EXCEPT ![day] = @ \o b]
Without(D, gone) == [d \in Days |-> IF d \in gone THEN <<>> ELSE D[d]]
RecordsIn(D, gone) == UNION {Records(D[d]) : d \in gone}

\* The buffer goes to the end of a file after which none has records.
LEMMA FlushKeeps ==
    ASSUME NEW D, NEW b, NEW c, NEW day \in Days, InOrder(D, b, c),
           \A e \in Days : e > day => D[e] = <<>>,
           NEW F, F = Lengthened(D, day, b)
    PROVE  /\ InOrder(F, <<>>, c) /\ InFiles(F) = InFiles(D) \cup Records(b)
           /\ \A d \in Days : Records(F[d]) = Records(D[d]) \cup IF d = day THEN Records(b) ELSE {}
           /\ \A e \in Days : e > day => F[e] = <<>>
<1>0. F = [D EXCEPT ![day] = @ \o b]
  BY DEF Lengthened
<1>1. D \in [Days -> Seq(Nat)] /\ b \in Seq(Nat) /\ D[day] \in Seq(Nat)
  BY DEF InOrder
<1>2. F[day] = D[day] \o b /\ \A d \in Days : d # day => F[d] = D[d]
  BY <1>0, <1>1
<1>3. /\ F[day] \in Seq(Nat) /\ Increasing(F[day]) /\ Records(F[day]) = Records(D[day]) \cup Records(b)
  BY <1>1, <1>2, RecordsJoined DEF InOrder
<1>4. F \in [Days -> Seq(Nat)]
  BY <1>0, <1>1, <1>2, <1>3
<1>5. \A d \in Days : Records(F[d]) = Records(D[d]) \cup IF d = day THEN Records(b) ELSE {}
  BY <1>2, <1>3
<1>6. \A e \in Days : e > day => F[e] = <<>>
  <2>1. \A e \in Days : e \in Nat
    BY DEF Days
  <2> QED  BY <1>2, <2>1
<1>7. ASSUME NEW d \in Days, NEW e \in Days, d < e
      PROVE  AllBefore(F[d], F[e])
  <2>1. d \in Nat /\ e \in Nat
    BY DEF Days
  <2>2. CASE d = day
    <3>1. F[e] = <<>>
      BY <1>6, <1>7, <2>1, <2>2
    <3> QED  BY <3>1, NoRecords DEF AllBefore
  <2>3. CASE d # day
    <3>1. Records(F[d]) = Records(D[d])
      BY <1>5, <2>3
    <3>2. AllBefore(D[d], D[e]) /\ AllBefore(D[d], b)
      BY <1>7 DEF InOrder
    <3>3. Records(F[e]) \subseteq Records(D[e]) \cup Records(b)
      BY <1>5
    <3> QED  BY <3>1, <3>2, <3>3 DEF AllBefore
  <2> QED  BY <2>2, <2>3
<1>8. ASSUME NEW d \in Days
      PROVE  Increasing(F[d]) /\ AllBefore(F[d], <<>>) /\ AllBefore(F[d], c)
  <2>1. Increasing(F[d])
    BY <1>2, <1>3 DEF InOrder
  <2>2. AllBefore(F[d], <<>>)
    BY NoRecords DEF AllBefore
  <2>3. Records(F[d]) \subseteq Records(D[d]) \cup Records(b)
    BY <1>5
  <2> QED  BY <2>1, <2>2, <2>3 DEF InOrder, AllBefore
<1>9. InOrder(F, <<>>, c)
  <2>1. AllBefore(<<>>, c)
    BY NoRecords DEF AllBefore
  <2> QED  BY <1>4, <1>7, <1>8, <2>1, NoRecords DEF InOrder
<1>10. InFiles(F) = InFiles(D) \cup Records(b)
  BY <1>5 DEF InFiles
<1> QED  BY <1>5, <1>6, <1>9, <1>10

\* Some files are removed.
LEMMA AgingKeeps ==
    ASSUME NEW D, NEW b, NEW c, NEW gone \in SUBSET Days, InOrder(D, b, c),
           NEW F, F = Without(D, gone), NEW old, old = RecordsIn(D, gone)
    PROVE  /\ InOrder(F, b, c)
           /\ \A d \in Days : D[d] = <<>> => F[d] = <<>>
           /\ InFiles(D) = InFiles(F) \cup old
           /\ InFiles(F) \cap old = {} /\ Records(b) \cap old = {} /\ Records(c) \cap old = {}
<1>0. F = [d \in Days |-> IF d \in gone THEN <<>> ELSE D[d]]
      /\ old = UNION {Records(D[d]) : d \in gone}
  BY DEF Without, RecordsIn
<1>1. \A d \in Days : F[d] = IF d \in gone THEN <<>> ELSE D[d]
  BY <1>0
<1>2. F \in [Days -> Seq(Nat)]
  <2>1. \A d \in Days : (IF d \in gone THEN <<>> ELSE D[d]) \in Seq(Nat)
    BY NoRecords DEF InOrder
  <2> QED  BY <1>0, <2>1
<1>3. \A d \in Days : Records(F[d]) \subseteq Records(D[d]) /\ Increasing(F[d])
  BY <1>1, NoRecords DEF InOrder
<1>4. \A d, e \in Days : d < e => AllBefore(F[d], F[e])
  BY <1>3 DEF InOrder, AllBefore
<1>5. \A d \in Days : AllBefore(F[d], b) /\ AllBefore(F[d], c)
  BY <1>3 DEF InOrder, AllBefore
<1>6. InOrder(F, b, c)
  BY <1>2, <1>3, <1>4, <1>5 DEF InOrder
<1>7. InFiles(D) = InFiles(F) \cup old
  <2>1. InFiles(F) \subseteq InFiles(D)
    BY <1>3 DEF InFiles
  <2>2. old \subseteq InFiles(D)
    BY <1>0 DEF InFiles
  <2>3. ASSUME NEW d \in Days, NEW x \in Records(D[d])
        PROVE  x \in InFiles(F) \/ x \in old
    BY <1>0, <1>1, <2>3 DEF InFiles
  <2> QED  BY <2>1, <2>2, <2>3 DEF InFiles
<1>8. ASSUME NEW x \in old
      PROVE  x \notin InFiles(F) /\ x \notin Records(b) /\ x \notin Records(c)
  <2>1. PICK d \in gone : x \in Records(D[d])
    BY <1>0
  <2>2. x \in Nat
    BY <2>1 DEF InOrder, Records
  <2>3. ~(x < x)
    BY <2>2
  <2>4. x \notin Records(b) /\ x \notin Records(c)
    BY <2>1, <2>3 DEF InOrder, AllBefore
  <2>5. ASSUME NEW e \in Days, x \in Records(F[e])
        PROVE  FALSE
    <3>1. e \notin gone /\ x \in Records(D[e])
      BY <1>1, <2>5, NoRecords
    <3>2. d < e \/ e < d
      BY <2>1, <3>1 DEF Days
    <3> QED  BY <2>1, <2>3, <3>1, <3>2 DEF InOrder, AllBefore
  <2> QED  BY <2>4, <2>5 DEF InFiles
<1> QED  BY <1>1, <1>6, <1>7, <1>8

\* The oldest record of the channel leaves it.
LEMMA TakingKeeps ==
    ASSUME NEW D, NEW b, NEW c, NEW n, NEW g, InOrder(D, b, c), AllThere(D, b, c, n, g), c # <<>>
    PROVE  /\ InOrder(D, Append(b, Head(c)), Tail(c)) /\ InOrder(D, b, Tail(c))
           /\ AllThere(D, Append(b, Head(c)), Tail(c), n, g)
           /\ AllThere(D, b, Tail(c), n, g \cup {Head(c)})
<1> DEFINE h == Head(c)
           t == Tail(c)
           a == Append(b, h)
<1>1. /\ h \in Nat /\ t \in Seq(Nat) /\ Increasing(t) /\ Records(c) = {h} \cup Records(t)
      /\ \A x \in Records(t) : h < x
  BY RecordTaken DEF InOrder
<1> HIDE DEF h, t
<1>2. a \in Seq(Nat) /\ Increasing(a) /\ Records(a) = Records(b) \cup {h}
  <2>1. \A x \in Records(b) : x < h
    BY <1>1 DEF InOrder, AllBefore
  <2>2. b \in Seq(Nat) /\ Increasing(b)
    BY DEF InOrder
  <2> QED  BY <1>1, <2>1, <2>2, RecordAdded
<1> HIDE DEF a
<1>3. /\ AllBefore(a, t) /\ AllBefore(b, t)
      /\ \A d \in Days : AllBefore(D[d], a) /\ AllBefore(D[d], t)
  BY <1>1, <1>2 DEF InOrder, AllBefore
<1>4. InOrder(D, a, t) /\ InOrder(D, b, t)
  BY <1>1, <1>2, <1>3 DEF InOrder
<1>5. InFiles(D) \cup Records(a) \cup Records(t) = (1..n) \ g
  BY <1>1, <1>2 DEF AllThere
<1>6. h \notin InFiles(D) /\ h \notin Records(b) /\ h \notin Records(t)
  <2>1. ~(h < h)
    BY <1>1
  <2> QED  BY <1>1, <2>1 DEF InOrder, AllBefore, InFiles
<1>7. g \cup {h} \subseteq 1..n /\ InFiles(D) \cup Records(b) \cup Records(t) = (1..n) \ (g \cup {h})
  BY <1>1, <1>6 DEF AllThere
<1> QED  BY <1>4, <1>5, <1>7 DEF AllThere, h, t, a

\* The channel takes a record.
LEMMA PuttingKeeps ==
    ASSUME NEW D, NEW b, NEW c, NEW n, NEW g, InOrder(D, b, c), AllThere(D, b, c, n, g)
    PROVE  InOrder(D, b, Append(c, n + 1)) /\ AllThere(D, b, Append(c, n + 1), n + 1, g)
           /\ Records(Append(c, n + 1)) = Records(c) \cup {n + 1}
<1> DEFINE a == Append(c, n + 1)
<1>1. n \in Nat /\ n + 1 \in Nat /\ g \subseteq 1..n
  BY DEF AllThere
<1>2. \A x \in InFiles(D) \cup Records(b) \cup Records(c) : x \in Nat /\ x < n + 1
  BY <1>1 DEF AllThere
<1>3. a \in Seq(Nat) /\ Increasing(a) /\ Records(a) = Records(c) \cup {n + 1}
  <2>1. c \in Seq(Nat) /\ Increasing(c)
    BY DEF InOrder
  <2> QED  BY <1>1, <1>2, <2>1, RecordAdded
<1> HIDE DEF a
<1>4. AllBefore(b, a) /\ \A d \in Days : AllBefore(D[d], a)
  BY <1>2, <1>3 DEF InOrder, AllBefore, InFiles
<1>5. InOrder(D, b, a)
  BY <1>3, <1>4 DEF InOrder
<1>6. 1..(n + 1) = (1..n) \cup {n + 1} /\ n + 1 \notin g /\ g \subseteq 1..(n + 1)
  BY <1>1
<1>7. AllThere(D, b, a, n + 1, g)
  BY <1>1, <1>3, <1>6 DEF AllThere
<1> QED  BY <1>3, <1>5, <1>7 DEF a

\* What follows the first k records of a buffer.
After(b, k) == {b[i] : i \in k + 1..Len(b)}

\* Only the first k records of the buffer are kept.
LEMMA CutKeeps ==
    ASSUME NEW D, NEW b, NEW c, NEW n, NEW g, InOrder(D, b, c), AllThere(D, b, c, n, g),
           NEW k \in 0..Len(b), NEW h, h = SubSeq(b, 1, k)
    PROVE  InOrder(D, h, c) /\ AllThere(D, h, c, n, g \cup After(b, k))
<1> DEFINE m == Len(b)
           t == After(b, k)
<1>1. b \in Seq(Nat) /\ Increasing(b) /\ m \in Nat /\ k \in Nat /\ k <= m /\ DOMAIN b = 1..m
  BY DEF InOrder
<1>2. h \in Seq(Nat) /\ Len(h) = k /\ \A i \in 1..k : h[i] = b[i]
  <2>1. \A i \in 1..k : b[i] \in Nat
    BY <1>1, ElementOfSeq
  <2> QED  BY <1>1, <2>1, SubSeqProperties
<1>3. DOMAIN h = 1..k /\ \A i \in 1..k : i \in 1..m
  BY <1>1, <1>2
<1>6. \A x : x \in Records(h) <=> \E i \in 1..k : x = b[i]
  BY <1>2, <1>3 DEF Records
<1>7. \A x : x \in t <=> \E i \in k + 1..m : x = b[i]
  BY DEF After
<1>8. \A x : x \in Records(b) <=> \E i \in 1..m : x = b[i]
  BY <1>1 DEF Records
<1> HIDE DEF m, t
<1>9. Records(b) = Records(h) \cup t
  <2>1. 1..m = (1..k) \cup (k + 1..m)
    BY <1>1
  <2> QED  BY <1>6, <1>7, <1>8, <2>1
<1>10. ASSUME NEW x \in Records(h), NEW y \in t
       PROVE  x < y
  <2>1. PICK i \in 1..k : x = b[i]
    BY <1>6
  <2>2. PICK j \in k + 1..m : y = b[j]
    BY <1>7
  <2>3. i \in 1..m /\ j \in 1..m /\ i < j
    BY <1>1
  <2> QED  BY <1>1, <2>1, <2>2, <2>3 DEF Increasing
<1>11. Increasing(h)
  <2>1. ASSUME NEW i \in 1..k, NEW j \in 1..k, i < j
        PROVE  h[i] < h[j]
    <3>1. i \in 1..m /\ j \in 1..m /\ h[i] = b[i] /\ h[j] = b[j]
      BY <1>2, <1>3
    <3> QED  BY <1>1, <2>1, <3>1 DEF Increasing
  <2> QED  BY <1>3, <2>1 DEF Increasing
<1>12. InOrder(D, h, c)
  <2>1. AllBefore(h, c) /\ \A d \in Days : AllBefore(D[d], h)
    BY <1>9 DEF InOrder, AllBefore
  <2> QED  BY <1>2, <1>11, <2>1 DEF InOrder
<1>13. ASSUME NEW x \in t
       PROVE  x \notin InFiles(D) /\ x \notin Records(h) /\ x \notin Records(c)
  <2>1. x \in Nat /\ x \in Records(b)
    BY <1>1, <1>9 DEF Records
  <2>2. ~(x < x)
    BY <2>1
  <2> QED  BY <1>10, <2>1, <2>2 DEF InOrder, AllBefore, InFiles
<1>14. g \cup t \subseteq 1..n /\ InFiles(D) \cup Records(h) \cup Records(c) = (1..n) \ (g \cup t)
  BY <1>9, <1>13 DEF AllThere
<1>15. AllThere(D, h, c, n, g \cup t)
  BY <1>14 DEF AllThere
<1> QED  BY <1>12, <1>15 DEF t

\* What is in memory is lost.
LEMMA CrashKeeps ==
    ASSUME NEW D, NEW b, NEW c, NEW n, NEW g, InOrder(D, b, c), AllThere(D, b, c, n, g)
    PROVE  /\ InOrder(D, <<>>, <<>>)
           /\ AllThere(D, <<>>, <<>>, n, g \cup Records(b) \cup Records(c))
<1>1. InOrder(D, <<>>, <<>>)
  BY NoRecords DEF InOrder, AllBefore
<1>2. ASSUME NEW x \in Records(b) \cup Records(c)
      PROVE  x \notin InFiles(D)
  <2>1. x \in Nat
    BY DEF InOrder, Records
  <2>2. ~(x < x)
    BY <2>1
  <2> QED  BY <1>2, <2>2 DEF InOrder, AllBefore, InFiles
<1>3. InFiles(D) = (1..n) \ (g \cup Records(b) \cup Records(c))
      /\ g \cup Records(b) \cup Records(c) \subseteq 1..n
  BY <1>2 DEF AllThere
<1> QED  BY <1>1, <1>3, NoRecords DEF AllThere

\* Files that are removed take their records with them.
LEMMA AgedAll ==
    ASSUME NEW D, NEW F, NEW b, NEW c, NEW n, NEW g, NEW old, AllThere(D, b, c, n, g),
           InFiles(D) = InFiles(F) \cup old,
           InFiles(F) \cap old = {}, Records(b) \cap old = {}, Records(c) \cap old = {}
    PROVE  AllThere(F, b, c, n, g \cup old)
BY DEF AllThere

-----------------------------------------------------------------------------
(* The log.                                                                *)

LogTypes ==
    /\ today \in Days
    /\ file \in [day : 0..MaxDay, buf : Seq(Nat)]
    /\ early \in Nat /\ early <= accepted

\* The open file is the last that has records, and none is of tomorrow.
OpenIsLast ==
    /\ file.day <= today
    /\ file.day = 0 => file.buf = <<>>
    /\ \A e \in Days : (file.day # 0 /\ e > file.day) \/ e > today => disk[e] = <<>>

\* After the writer is done nothing that was accepted before is in memory.
DoneIsWritten ==
    /\ closing = "returned" => writer = "done"
    /\ writer = "done" => file = NoFile /\ \A x \in Records(ch) : x > early

KeptInOrder ==
    /\ InOrder(disk, file.buf, ch)
    /\ AllThere(disk, file.buf, ch, accepted, lost \cup aged)

LogInv == LogTypes /\ OpenIsLast /\ DoneIsWritten /\ KeptInOrder

LEMMA NextKept ==
    ASSUME NEW D, NEW b, NEW c, NEW n, NEW g, InOrder(D, b, c), AllThere(D, b, c, n, g),
           disk' = D, file'.buf = b, ch' = c, accepted' = n, lost' \cup aged' = g
    PROVE  KeptInOrder'
BY DEF KeptInOrder, InOrder, AllThere, InFiles

LEMMA LogInitInv == LogInit => LogInv
<1> SUFFICES ASSUME LogInit PROVE LogInv
  OBVIOUS
<1>0. MaxDay \in Nat /\ MaxDay >= 1
  BY DailyLogAssumption
<1>1. /\ today = 1 /\ ch = <<>> /\ file = [day |-> 0, buf |-> <<>>] /\ accepted = 0 /\ early = 0
      /\ lost = {} /\ aged = {} /\ closing = "open" /\ writer = "dead"
      /\ disk = [d \in Days |-> <<>>]
  BY DEF LogInit, NoFile
<1>2. file.day = 0 /\ file.buf = <<>> /\ \A d \in Days : disk[d] = <<>>
  BY <1>1
<1>3. LogTypes
  <2>1. file \in [day : 0..MaxDay, buf : Seq(Nat)]
    BY <1>0, <1>1, NoRecords
  <2> QED  BY <1>0, <1>1, <2>1 DEF LogTypes, Days
<1>4. OpenIsLast /\ DoneIsWritten
  BY <1>1, <1>2 DEF OpenIsLast, DoneIsWritten
<1>5. disk \in [Days -> Seq(Nat)]
  BY <1>1, NoRecords
<1>6. InOrder(disk, file.buf, ch)
  BY <1>1, <1>2, <1>5, NoRecords DEF InOrder, AllBefore
<1>7. InFiles(disk) = {}
  BY <1>2, NoRecords DEF InFiles
<1>8. AllThere(disk, file.buf, ch, accepted, lost \cup aged)
  BY <1>1, <1>2, <1>7, NoRecords DEF AllThere
<1> QED  BY <1>3, <1>4, <1>6, <1>8 DEF LogInv, KeptInOrder

LEMMA LogFacts ==
    ASSUME LogInv
    PROVE  /\ today \in Days /\ Days = 1..MaxDay /\ today \in Nat /\ MaxDay \in Nat
           /\ file.day \in 0..MaxDay /\ file.buf \in Seq(Nat) /\ file.day \in Nat
           /\ file = [day |-> file.day, buf |-> file.buf]
           /\ accepted \in Nat /\ early \in Nat
           /\ \A d \in Days : d \in Nat
BY DailyLogAssumption DEF LogInv, KeptInOrder, LogTypes, Days, AllThere

\* The buffer is written out as far as it goes.
LEMMA FlushedKeeps ==
    ASSUME LogInv, NEW n \in Reach
    PROVE  /\ InOrder(FlushedTo(n), <<>>, ch)
           /\ AllThere(FlushedTo(n), <<>>, ch, accepted, (lost \cup aged) \cup Unwritten(n))
           /\ n = Len(file.buf) => Unwritten(n) = {}
           /\ \A e \in Days : (file.day # 0 /\ e > file.day) \/ e > today => FlushedTo(n)[e] = <<>>
<1> DEFINE h == SubSeq(file.buf, 1, n)
           g == (lost \cup aged) \cup Unwritten(n)
<1>h. h = SubSeq(file.buf, 1, n) /\ Unwritten(n) = After(file.buf, n) /\ n \in 0..Len(file.buf)
  BY DEF Reach, Unwritten, After
<1>0. InOrder(disk, file.buf, ch) /\ AllThere(disk, file.buf, ch, accepted, lost \cup aged)
  BY DEF LogInv, KeptInOrder
<1> HIDE DEF h
<1>c. /\ InOrder(disk, h, ch) /\ AllThere(disk, h, ch, accepted, g)
      /\ n = 0 => h = <<>>
      /\ n = Len(file.buf) => Unwritten(n) = {}
  <2> DEFINE b == file.buf
             l == lost \cup aged
  <2>0. /\ InOrder(disk, b, ch) /\ AllThere(disk, b, ch, accepted, l)
        /\ n \in 0..Len(b) /\ h = SubSeq(b, 1, n)
    BY <1>0, <1>h
  <2>h. b = file.buf /\ l = lost \cup aged
    OBVIOUS
  <2> HIDE DEF b, l
  <2>1. /\ InOrder(disk, h, ch) /\ AllThere(disk, h, ch, accepted, l \cup After(b, n))
    BY <2>0, CutKeeps
  <2>2. n = 0 => h = <<>>
    BY <1>h, SubSeqEmpty
  <2>3. n = Len(file.buf) => Unwritten(n) = {}
    <3>1. Len(file.buf) \in Nat
      BY LogFacts
    <3>2. n = Len(file.buf) => n + 1..Len(file.buf) = {}
      BY <3>1
    <3> QED  BY <3>2 DEF Unwritten
  <2> QED  BY <1>h, <2>h, <2>1, <2>2, <2>3 DEF g
<1> HIDE DEF g
<1>1. CASE file.day = 0
  <2>1. FlushedTo(n) = disk /\ file.buf = <<>>
    BY <1>1 DEF FlushedTo, LogInv, OpenIsLast
  <2>2. n = 0
    BY <1>h, <2>1
  <2> QED  BY <1>1, <1>c, <2>1, <2>2 DEF LogInv, OpenIsLast, g
<1>2. CASE file.day # 0
  <2> DEFINE day == file.day
             F == Lengthened(disk, day, h)
  <2>1. day \in Days /\ FlushedTo(n) = F /\ day \in Nat /\ today \in Nat /\ day <= today
    BY <1>2, LogFacts DEF FlushedTo, Lengthened, LogInv, OpenIsLast, h
  <2>2. \A e \in Days : e > day => disk[e] = <<>>
    BY <1>2 DEF LogInv, OpenIsLast
  <2> HIDE DEF day
  <2> HIDE DEF F
  <2>f. F = Lengthened(disk, day, h)
    BY DEF F
  <2>3. /\ InOrder(F, <<>>, ch) /\ InFiles(F) = InFiles(disk) \cup Records(h)
        /\ \A e \in Days : e > day => F[e] = <<>>
    BY <1>c, <2>1, <2>2, <2>f, FlushKeeps
  <2>5. AllThere(F, <<>>, ch, accepted, g)
    BY <1>c, <2>3, NoRecords DEF AllThere
  <2>6. ASSUME NEW e \in Days, e > day \/ e > today
        PROVE  F[e] = <<>>
    <3>1. e > day
      BY <2>1, <2>6, LogFacts
    <3> QED  BY <2>3, <3>1
  <2> QED  BY <1>c, <2>1, <2>3, <2>5, <2>6 DEF day, g
<1> QED  BY <1>1, <1>2

\* That, and the oldest record of the channel goes to an empty buffer, or is lost.
LEMMA FlushedTakes ==
    ASSUME LogInv, NEW n \in Reach, ch # <<>>
    PROVE  /\ InOrder(FlushedTo(n), <<Head(ch)>>, Tail(ch)) /\ InOrder(FlushedTo(n), <<>>, Tail(ch))
           /\ AllThere(FlushedTo(n), <<Head(ch)>>, Tail(ch), accepted, (lost \cup aged) \cup Unwritten(n))
           /\ AllThere(FlushedTo(n), <<>>, Tail(ch), accepted,
                        ((lost \cup aged) \cup Unwritten(n)) \cup {Head(ch)})
<1> DEFINE F == FlushedTo(n)
           g == (lost \cup aged) \cup Unwritten(n)
<1>1. InOrder(F, <<>>, ch) /\ AllThere(F, <<>>, ch, accepted, g)
  BY FlushedKeeps
<1> HIDE DEF F, g
<1>2. Append(<<>>, Head(ch)) = <<Head(ch)>>
  OBVIOUS
<1>3. /\ InOrder(F, Append(<<>>, Head(ch)), Tail(ch)) /\ InOrder(F, <<>>, Tail(ch))
      /\ AllThere(F, Append(<<>>, Head(ch)), Tail(ch), accepted, g)
      /\ AllThere(F, <<>>, Tail(ch), accepted, g \cup {Head(ch)})
  BY <1>1, TakingKeeps
<1> QED  BY <1>2, <1>3 DEF F, g

LEMMA NewLogInv == ASSUME LogInv, NewDailyLog PROVE LogInv'
<1>0. PICK gone \in SUBSET Expired :
        disk' = Without(disk, gone) /\ aged' = aged \cup RecordsIn(disk, gone)
  BY DEF NewDailyLog, Held, Without, RecordsIn
<1>1. /\ writer = "dead" /\ writer' = "running"
      /\ UNCHANGED <<today, ch, closing, file, accepted, early, lost>>
  BY DEF NewDailyLog
<1>2. gone \in SUBSET Days
  BY DEF Expired
<1>3. InOrder(disk, file.buf, ch) /\ AllThere(disk, file.buf, ch, accepted, lost \cup aged)
  BY DEF LogInv, KeptInOrder
<1> DEFINE F == Without(disk, gone)
           old == RecordsIn(disk, gone)
<1>4. F = Without(disk, gone) /\ old = RecordsIn(disk, gone)
      /\ disk' = F /\ aged' = aged \cup old
  BY <1>0
<1> HIDE DEF F, old
<1>5. /\ InOrder(F, file.buf, ch)
      /\ \A d \in Days : disk[d] = <<>> => F[d] = <<>>
      /\ InFiles(disk) = InFiles(F) \cup old
      /\ InFiles(F) \cap old = {} /\ Records(file.buf) \cap old = {} /\ Records(ch) \cap old = {}
  BY <1>2, <1>3, <1>4, AgingKeeps
<1>6. AllThere(F, file.buf, ch, accepted, (lost \cup aged) \cup old)
  BY <1>3, <1>5, AgedAll
<1>7. lost' \cup aged' = (lost \cup aged) \cup old /\ disk' = F /\ file'.buf = file.buf
  BY <1>1, <1>4
<1>8. KeptInOrder'
  BY <1>1, <1>5, <1>6, <1>7, NextKept
<1>9. LogTypes' /\ OpenIsLast' /\ DoneIsWritten'
  BY <1>1, <1>5, <1>7 DEF LogInv, LogTypes, OpenIsLast, DoneIsWritten
<1> QED  BY <1>8, <1>9 DEF LogInv

LEMMA EnqueueInv == ASSUME LogInv, NEW c \in Callers, Enqueue(c) PROVE LogInv'
<1>1. UNCHANGED <<today, closing, writer, file, disk, early, lost, aged>>
  BY DEF Enqueue
<1>2. InOrder(disk, file.buf, ch) /\ AllThere(disk, file.buf, ch, accepted, lost \cup aged)
  BY DEF LogInv, KeptInOrder
<1>3. CASE UNCHANGED <<ch, accepted>>
  <2>1. LogTypes' /\ OpenIsLast' /\ DoneIsWritten'
    BY <1>1, <1>3 DEF LogInv, LogTypes, OpenIsLast, DoneIsWritten
  <2>2. KeptInOrder'
    BY <1>1, <1>2, <1>3, NextKept
  <2> QED  BY <2>1, <2>2 DEF LogInv
<1>4. CASE ch' = Append(ch, accepted + 1) /\ accepted' = accepted + 1
  <2>1. /\ InOrder(disk, file.buf, ch') /\ AllThere(disk, file.buf, ch', accepted', lost \cup aged)
        /\ Records(ch') = Records(ch) \cup {accepted + 1}
    BY <1>2, <1>4, PuttingKeeps
  <2>2. KeptInOrder'
    BY <1>1, <2>1, NextKept
  <2>3. accepted \in Nat /\ early \in Nat /\ early <= accepted
    BY LogFacts DEF LogInv, LogTypes
  <2>4. LogTypes'
    BY <1>1, <1>4, <2>3 DEF LogInv, LogTypes
  <2>5. OpenIsLast'
    BY <1>1 DEF LogInv, OpenIsLast
  <2>6. DoneIsWritten'
    <3>1. accepted + 1 > early
      BY <2>3
    <3>2. Records(ch)' = Records(ch) \cup {accepted + 1}
      BY <2>1 DEF Records
    <3> QED  BY <1>1, <3>1, <3>2 DEF LogInv, DoneIsWritten
  <2> QED  BY <2>2, <2>4, <2>5, <2>6 DEF LogInv
<1> QED  BY <1>3, <1>4 DEF Enqueue

\* A record is buffered behind the others.
LEMMA BufferedInv ==
    ASSUME LogInv, WriteRecord, file.day = today, Buffered
    PROVE  LogInv'
<1>0. /\ writer \in {"running", "draining"} /\ ch # <<>> /\ ch' = Tail(ch)
      /\ UNCHANGED <<today, closing, writer, accepted, early, aged, disk, lost>>
      /\ file' = [file EXCEPT !.buf = Append(@, Head(ch))]
  BY DEF WriteRecord, Buffered
<1>1. DoneIsWritten'
  BY <1>0 DEF LogInv, DoneIsWritten
<1>2. InOrder(disk, file.buf, ch) /\ AllThere(disk, file.buf, ch, accepted, lost \cup aged)
  BY DEF LogInv, KeptInOrder
<1>3. Head(ch) \in Nat
  BY <1>0, <1>2, RecordTaken DEF InOrder
<1>4. file' = [day |-> file.day, buf |-> Append(file.buf, Head(ch))]
  BY <1>0, LogFacts
<1>5. file'.day = file.day /\ file'.buf = Append(file.buf, Head(ch))
  BY <1>4
<1> DEFINE b == Append(file.buf, Head(ch))
<1>6. InOrder(disk, b, Tail(ch)) /\ AllThere(disk, b, Tail(ch), accepted, lost \cup aged)
  BY <1>0, <1>2, TakingKeeps
<1>7. file'.buf = b
  BY <1>5
<1> HIDE DEF b
<1>8. InOrder(disk, file'.buf, ch') /\ AllThere(disk, file'.buf, ch', accepted, lost \cup aged)
  BY <1>0, <1>6, <1>7
<1>9. KeptInOrder'
  BY <1>0, <1>8, NextKept
<1>10. LogTypes'
  <2>1. Append(file.buf, Head(ch)) \in Seq(Nat)
    BY <1>3, LogFacts
  <2>2. file' \in [day : 0..MaxDay, buf : Seq(Nat)]
    BY <1>4, <2>1, LogFacts
  <2> QED  BY <1>0, <2>2 DEF LogInv, LogTypes
<1>11. file.day # 0
  BY LogFacts DEF Days
<1>12. OpenIsLast'
  BY <1>0, <1>5, <1>11 DEF LogInv, OpenIsLast
<1> QED  BY <1>1, <1>9, <1>10, <1>12 DEF LogInv

\* A record goes to an empty buffer of today's file, or is lost.
LEMMA WrittenOutInv ==
    ASSUME LogInv, WriteRecord, NEW n \in Reach, disk' = FlushedTo(n),
           NEW day \in {0, today}, NEW b, file' = [day |-> day, buf |-> b],
           \/ day = today /\ b = <<Head(ch)>> /\ lost' = lost \cup Unwritten(n)
           \/ b = <<>> /\ lost' = lost \cup Unwritten(n) \cup {Head(ch)}
    PROVE  LogInv'
<1>0. /\ writer \in {"running", "draining"} /\ ch # <<>> /\ ch' = Tail(ch)
      /\ UNCHANGED <<today, closing, writer, accepted, early, aged>>
  BY DEF WriteRecord
<1>1. DoneIsWritten'
  BY <1>0 DEF LogInv, DoneIsWritten
<1>2. Head(ch) \in Nat
  BY <1>0, RecordTaken DEF LogInv, KeptInOrder, InOrder
<1>3. file'.day = day /\ file'.buf = b
  OBVIOUS
<1>4. b \in Seq(Nat) /\ day \in 0..MaxDay
  <2>1. b \in Seq(Nat)
    BY <1>2, OneRecord, NoRecords
  <2>2. today \in 1..MaxDay /\ MaxDay \in Nat
    BY LogFacts
  <2> QED  BY <2>1, <2>2
<1>5. LogTypes'
  BY <1>0, <1>4 DEF LogInv, LogTypes
<1> DEFINE F == FlushedTo(n)
<1>6. \A e \in Days : (file.day # 0 /\ e > file.day) \/ e > today => F[e] = <<>>
  BY FlushedKeeps
<1>7. /\ InOrder(F, <<Head(ch)>>, Tail(ch)) /\ InOrder(F, <<>>, Tail(ch))
      /\ AllThere(F, <<Head(ch)>>, Tail(ch), accepted, (lost \cup aged) \cup Unwritten(n))
      /\ AllThere(F, <<>>, Tail(ch), accepted, ((lost \cup aged) \cup Unwritten(n)) \cup {Head(ch)})
  BY <1>0, FlushedTakes
<1>8. disk' = F
  OBVIOUS
<1> HIDE DEF F
<1>9. InOrder(F, b, ch') /\ AllThere(F, b, ch', accepted', lost' \cup aged')
  <2>1. CASE b = <<Head(ch)>> /\ lost' = lost \cup Unwritten(n)
    <3>1. lost' \cup aged' = (lost \cup aged) \cup Unwritten(n)
      BY <1>0, <2>1
    <3> QED  BY <1>0, <1>7, <2>1, <3>1
  <2>2. CASE b = <<>> /\ lost' = lost \cup Unwritten(n) \cup {Head(ch)}
    <3>1. lost' \cup aged' = ((lost \cup aged) \cup Unwritten(n)) \cup {Head(ch)}
      BY <1>0, <2>2
    <3> QED  BY <1>0, <1>7, <2>2, <3>1
  <2> QED  BY <2>1, <2>2
<1>10. KeptInOrder'
  BY <1>3, <1>8, <1>9, NextKept
<1>11. OpenIsLast'
  <2>1. day <= today /\ (day = 0 => b = <<>>)
    BY LogFacts DEF Days
  <2>2. \A e \in Days : (day # 0 /\ e > day) \/ e > today => F[e] = <<>>
    BY <1>6, LogFacts
  <2> QED  BY <1>0, <1>3, <1>8, <2>1, <2>2 DEF OpenIsLast
<1> QED  BY <1>1, <1>5, <1>10, <1>11 DEF LogInv

LEMMA WriteRecordInv == ASSUME LogInv, WriteRecord PROVE LogInv'
<1>1. ASSUME NEW n \in Reach, Opened(n) PROVE LogInv'
  BY <1>1, WrittenOutInv DEF Opened
<1>2. ASSUME NEW n \in Reach, NotOpened(n) PROVE LogInv'
  BY <1>2, WrittenOutInv DEF NotOpened, NoFile
<1>3. CASE file.day = today /\ Buffered
  BY <1>3, BufferedInv
<1>4. ASSUME file.day = today, Spilled PROVE LogInv'
  <2>1. Len(file.buf) \in Reach
    BY LogFacts DEF Reach
  <2>2. Unwritten(Len(file.buf)) = {}
    BY <2>1, FlushedKeeps
  <2>3. file' = [day |-> today, buf |-> <<Head(ch)>>]
    BY <1>4, LogFacts DEF Spilled
  <2>4. disk' = FlushedTo(Len(file.buf)) /\ lost' = lost \cup Unwritten(Len(file.buf))
    BY <1>4, <2>2 DEF Spilled
  <2> QED  BY <2>1, <2>3, <2>4, WrittenOutInv
<1>5. ASSUME file.day = today, NEW n \in Reach, WriteFails(n) PROVE LogInv'
  <2>1. file' = [day |-> today, buf |-> <<>>]
    BY <1>5, LogFacts DEF WriteFails
  <2> QED  BY <1>5, <2>1, WrittenOutInv DEF WriteFails
<1> QED  BY <1>1, <1>2, <1>3, <1>4, <1>5 DEF WriteRecord

LEMMA TickInv == ASSUME LogInv, Tick PROVE LogInv'
<1>0. PICK n \in Reach, gone \in SUBSET Expired :
        /\ disk' = Without(FlushedTo(n), gone)
        /\ lost' = lost \cup Unwritten(n)
        /\ aged' = aged \cup RecordsIn(FlushedTo(n), gone)
  BY DEF Tick, Without, Held, RecordsIn
<1> DEFINE F == FlushedTo(n)
           G == Without(F, gone)
           old == RecordsIn(F, gone)
           g == (lost \cup aged) \cup Unwritten(n)
<1>1. /\ writer = "running" /\ file' = [file EXCEPT !.buf = <<>>]
      /\ disk' = G
      /\ UNCHANGED <<today, ch, closing, writer, accepted, early>>
  BY <1>0 DEF Tick
<1>2. gone \in SUBSET Days
  BY DEF Expired
<1>3. /\ InOrder(F, <<>>, ch) /\ AllThere(F, <<>>, ch, accepted, g)
      /\ \A e \in Days : (file.day # 0 /\ e > file.day) \/ e > today => F[e] = <<>>
  BY FlushedKeeps
<1>4. lost' \cup aged' = g \cup old
  BY <1>0
<1>5. G = Without(F, gone) /\ old = RecordsIn(F, gone)
  OBVIOUS
<1> HIDE DEF F, G, old, g
<1>6. /\ InOrder(G, <<>>, ch) /\ \A d \in Days : F[d] = <<>> => G[d] = <<>>
      /\ InFiles(F) = InFiles(G) \cup old
      /\ InFiles(G) \cap old = {} /\ Records(<<>>) \cap old = {} /\ Records(ch) \cap old = {}
  BY <1>2, <1>3, <1>5, AgingKeeps
<1>7. AllThere(G, <<>>, ch, accepted, g \cup old)
  BY <1>3, <1>6, AgedAll
<1>8. file' = [day |-> file.day, buf |-> <<>>] /\ file'.day = file.day /\ file'.buf = <<>>
  BY <1>1, LogFacts
<1>9. KeptInOrder'
  BY <1>1, <1>4, <1>6, <1>7, <1>8, NextKept
<1>10. LogTypes'
  <2>1. file' \in [day : 0..MaxDay, buf : Seq(Nat)]
    BY <1>8, LogFacts, NoRecords
  <2> QED  BY <1>1, <2>1 DEF LogInv, LogTypes
<1>11. OpenIsLast' /\ DoneIsWritten'
  BY <1>1, <1>3, <1>6, <1>8 DEF LogInv, OpenIsLast, DoneIsWritten
<1> QED  BY <1>9, <1>10, <1>11 DEF LogInv

LEMMA DrainedInv == ASSUME LogInv, Drained PROVE LogInv'
<1>0. PICK n \in Reach : disk' = FlushedTo(n) /\ lost' = lost \cup Unwritten(n)
  BY DEF Drained
<1> DEFINE F == FlushedTo(n)
           g == (lost \cup aged) \cup Unwritten(n)
<1>1. /\ ch = <<>> /\ writer' = "done" /\ disk' = F /\ file' = NoFile
      /\ lost' \cup aged' = g
      /\ UNCHANGED <<today, ch, closing, accepted, early, aged>>
  BY <1>0 DEF Drained
<1>2. /\ InOrder(F, <<>>, ch) /\ AllThere(F, <<>>, ch, accepted, g)
      /\ \A e \in Days : (file.day # 0 /\ e > file.day) \/ e > today => F[e] = <<>>
  BY FlushedKeeps
<1> HIDE DEF F, g
<1>3. file' = [day |-> 0, buf |-> <<>>] /\ file'.day = 0 /\ file'.buf = <<>>
  BY <1>1 DEF NoFile
<1>4. KeptInOrder'
  BY <1>1, <1>2, <1>3, NextKept
<1>5. LogTypes'
  <2>1. file' \in [day : 0..MaxDay, buf : Seq(Nat)]
    BY <1>3, LogFacts, NoRecords
  <2> QED  BY <1>1, <2>1 DEF LogInv, LogTypes
<1>6. OpenIsLast'
  BY <1>1, <1>2, <1>3, LogFacts DEF OpenIsLast
<1>7. DoneIsWritten'
  <2>1. Records(ch)' = {}
    BY <1>1, NoRecords
  <2> QED  BY <1>1, <2>1 DEF DoneIsWritten
<1> QED  BY <1>4, <1>5, <1>6, <1>7 DEF LogInv

LEMMA LogGoneInv == ASSUME LogInv, LogGone PROVE LogInv'
<1>1. /\ writer' = "dead" /\ closing' = "open" /\ ch' = <<>> /\ file' = NoFile
      /\ lost' = lost \cup Records(ch) \cup Records(file.buf)
      /\ UNCHANGED <<today, disk, accepted, early, aged>>
  BY DEF LogGone
<1>2. file' = [day |-> 0, buf |-> <<>>] /\ file'.day = 0 /\ file'.buf = <<>>
  BY <1>1 DEF NoFile
<1>3. InOrder(disk, file.buf, ch) /\ AllThere(disk, file.buf, ch, accepted, lost \cup aged)
  BY DEF LogInv, KeptInOrder
<1>4. /\ InOrder(disk, <<>>, <<>>)
      /\ AllThere(disk, <<>>, <<>>, accepted, (lost \cup aged) \cup Records(file.buf) \cup Records(ch))
  BY <1>3, CrashKeeps
<1>5. lost' \cup aged' = (lost \cup aged) \cup Records(file.buf) \cup Records(ch)
  BY <1>1
<1>6. KeptInOrder'
  BY <1>1, <1>2, <1>4, <1>5, NextKept
<1>7. LogTypes'
  <2>1. file' \in [day : 0..MaxDay, buf : Seq(Nat)]
    BY <1>2, LogFacts, NoRecords
  <2> QED  BY <1>1, <2>1 DEF LogInv, LogTypes
<1>8. OpenIsLast' /\ DoneIsWritten'
  BY <1>1, <1>2, LogFacts DEF LogInv, OpenIsLast, DoneIsWritten
<1> QED  BY <1>6, <1>7, <1>8 DEF LogInv

\* The other steps leave the records where they are.
LEMMA RestInv ==
    ASSUME LogInv,
           \/ \E c \in Callers : StartWrite(c)
           \/ SeeStop \/ SetClosed \/ CloseStop \/ CloseReturns \/ DayPasses
    PROVE  LogInv'
<1>1. UNCHANGED <<ch, file, disk, accepted, lost, aged>>
  BY DEF StartWrite, SeeStop, SetClosed, CloseStop, CloseReturns, DayPasses
<1>2. KeptInOrder'
  BY <1>1, NextKept DEF LogInv, KeptInOrder
<1>3. today' \in Days /\ today' >= today
  BY LogFacts DEF StartWrite, SeeStop, SetClosed, CloseStop, CloseReturns, DayPasses
<1>4. early' \in Nat /\ early' <= accepted
  BY LogFacts DEF LogInv, LogTypes, StartWrite, SeeStop, SetClosed, CloseStop, CloseReturns, DayPasses
<1>5. LogTypes'
  BY <1>1, <1>3, <1>4 DEF LogInv, LogTypes
<1>6. OpenIsLast'
  <2>1. today' \in Nat /\ file.day <= today'
    BY <1>3, LogFacts DEF LogInv, OpenIsLast
  <2>2. \A e \in Days : e > today' => e > today
    BY <1>3, LogFacts
  <2> QED  BY <1>1, <2>1, <2>2 DEF LogInv, OpenIsLast
<1>7. DoneIsWritten'
  BY <1>1 DEF LogInv, DoneIsWritten, StartWrite, SeeStop, SetClosed, CloseStop, CloseReturns, DayPasses
<1> QED  BY <1>2, <1>5, <1>6, <1>7 DEF LogInv

LEMMA LogStep == LogInv /\ [LogNext]_logVars => LogInv'
<1> SUFFICES ASSUME LogInv, [LogNext]_logVars PROVE LogInv'
  OBVIOUS
<1>1. CASE NewDailyLog  BY <1>1, NewLogInv
<1>2. ASSUME NEW c \in Callers, Enqueue(c) PROVE LogInv'  BY <1>2, EnqueueInv
<1>3. CASE WriteRecord  BY <1>3, WriteRecordInv
<1>4. CASE Tick  BY <1>4, TickInv
<1>5. CASE Drained  BY <1>5, DrainedInv
<1>6. CASE LogGone  BY <1>6, LogGoneInv
<1>7. CASE \/ \E c \in Callers : StartWrite(c)
           \/ SeeStop \/ SetClosed \/ CloseStop \/ CloseReturns \/ DayPasses
  BY <1>7, RestInv
<1>8. CASE UNCHANGED logVars
  <2>1. UNCHANGED <<today, ch, closing, writer, file, disk, accepted, early, lost, aged>>
    BY <1>8 DEF logVars
  <2>2. KeptInOrder'
    BY <2>1, NextKept DEF LogInv, KeptInOrder
  <2> QED  BY <2>1, <2>2 DEF LogInv, LogTypes, OpenIsLast, DoneIsWritten
<1> QED  BY <1>1, <1>2, <1>3, <1>4, <1>5, <1>6, <1>7, <1>8 DEF LogNext

\* Every record the channel took is where it should be or was lost to a failed
\* write, a file that could not be opened or a kill, whatever the callers, the
\* rotation, the retention and the restarts do (DailyLog.run, cleanup, Close).
THEOREM LogHolds == LogSpec => []LogInv
<1>1. LogInit => LogInv  BY LogInitInv
<1>2. LogInv /\ [LogNext]_logVars => LogInv'  BY LogStep
<1> QED  BY <1>1, <1>2, PTL DEF LogSpec

\* The files from the oldest, the buffer and the channel are one queue.
LEMMA KeptIsComplete == LogInv => LogComplete
<1> SUFFICES ASSUME LogInv PROVE LogComplete
  OBVIOUS
<1> DEFINE m == MaxDay
           q == Queue
<1>0. m \in Nat /\ Days = 1..m
  BY LogFacts
<1>1. /\ DOMAIN q = 1..(m + 2)
      /\ \A n \in Days : n \in DOMAIN q /\ q[n] = disk[n]
      /\ m + 1 \in DOMAIN q /\ q[m + 1] = file.buf
      /\ m + 2 \in DOMAIN q /\ q[m + 2] = ch
  BY <1>0 DEF Queue
<1>2. \A n \in DOMAIN q : n \in Days \/ n = m + 1 \/ n = m + 2
  BY <1>0, <1>1
<1> HIDE DEF q
<1>3. InOrder(disk, file.buf, ch) /\ AllThere(disk, file.buf, ch, accepted, lost \cup aged)
  BY DEF LogInv, KeptInOrder
<1>4. \A n \in DOMAIN q : Increasing(q[n])
  BY <1>1, <1>2, <1>3 DEF InOrder
<1>5. ASSUME NEW n \in DOMAIN q, NEW k \in DOMAIN q, n < k
      PROVE  AllBefore(q[n], q[k])
  <2>1. CASE k \in Days
    <3>1. n \in Days
      BY <1>0, <1>1, <1>5, <2>1
    <3> QED  BY <1>1, <1>3, <1>5, <2>1, <3>1 DEF InOrder
  <2>2. CASE k = m + 1
    <3>1. n \in Days
      BY <1>0, <1>1, <1>5, <2>2
    <3> QED  BY <1>1, <1>3, <2>2, <3>1 DEF InOrder
  <2>3. CASE k = m + 2
    <3>1. n \in Days \/ n = m + 1
      BY <1>0, <1>1, <1>5, <2>3
    <3> QED  BY <1>1, <1>3, <2>3, <3>1 DEF InOrder
  <2> QED  BY <1>2, <2>1, <2>2, <2>3
<1>6. UNION {Records(q[n]) : n \in DOMAIN q} = (1..accepted) \ (lost \cup aged)
  <2> DEFINE U == UNION {Records(q[n]) : n \in DOMAIN q}
  <2>1. \A x : x \in U <=> \E n \in DOMAIN q : x \in Records(q[n])
    OBVIOUS
  <2>2. \A x : x \in InFiles(disk) <=> \E d \in Days : x \in Records(disk[d])
    BY DEF InFiles
  <2> HIDE DEF U
  <2>3. \A x : x \in U <=> x \in InFiles(disk) \/ x \in Records(file.buf) \/ x \in Records(ch)
    BY <1>1, <1>2, <2>1, <2>2
  <2>4. U = InFiles(disk) \cup Records(file.buf) \cup Records(ch)
    BY <2>3
  <2> QED  BY <1>3, <2>4 DEF AllThere, U
<1>7. ASSUME closing = "returned"
      PROVE  file.buf = <<>> /\ \A i \in 1..Len(ch) : ch[i] > early
  <2>1. file.buf = <<>> /\ \A x \in Records(ch) : x > early
    BY <1>7 DEF LogInv, DoneIsWritten, NoFile
  <2>2. DOMAIN ch = 1..Len(ch)
    BY <1>3 DEF InOrder
  <2>3. \A i \in DOMAIN ch : ch[i] \in Records(ch)
    BY DEF Records
  <2> QED  BY <2>1, <2>2, <2>3
<1> QED  BY <1>4, <1>5, <1>6, <1>7 DEF LogComplete, q

\* The log is in order and complete but for what aged or was lost to a failed write,
\* a file that could not be opened or a kill (DailyLog.run), and nothing accepted
\* before Close is in memory when Close has returned (Close).
THEOREM LogIsComplete == LogSpec => []LogComplete
BY LogHolds, KeptIsComplete, PTL

-----------------------------------------------------------------------------
(* The three are parts of one process, as the runs follow them.            *)

\* A behaviour of urlshort is one of each of its parts (main, in urlshort).
THEOREM UrlshortParts == UrlSpec => BackupSpec /\ LogSpec /\ RateSpec
<1>1. UrlInit => BackupInit /\ LogInit /\ RateInit
  BY DEF UrlInit
<1>2. [UrlNext]_urlVars => [BackupNext]_backupVars
  BY DEF UrlNext, urlVars, backupVars
<1>3. [UrlNext]_urlVars => [LogNext]_logVars
  BY DEF UrlNext, urlVars, logVars
<1>4. [UrlNext]_urlVars => [RateNext]_rateVars
  BY DEF UrlNext, urlVars, rateVars
<1> QED  BY <1>1, <1>2, <1>3, <1>4, PTL DEF UrlSpec, BackupSpec, LogSpec, RateSpec
===============================================================================
