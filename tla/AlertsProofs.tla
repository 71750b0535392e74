----------------------------- MODULE AlertsProofs -----------------------------
(***************************************************************************)
(* Proofs about the monitors of a web, of a Jenkins job and of a Redmine   *)
(* project, for every bound and every choice of what goes wrong.           *)
(***************************************************************************)
EXTENDS Alerts, OrderProofs

-----------------------------------------------------------------------------
(* The Jenkins job.                                                        *)

BuildStates == {"running", "pruned", "SUCCESS", "FAILURE", "ABORTED"}

JobStates == [state : {"unknown", "ok", "failed"}, last : Nat,
              node : {"unknown", "online", "offline"}, stuck : Nat]

Items == [here : BOOLEAN, old : BOOLEAN, blocked : BOOLEAN]

JobTyped ==
    /\ builds \in Seq(BuildStates)
    /\ offline \in BOOLEAN
    /\ items \in Seq(Items)
    /\ job \in JobStates /\ jobDisk \in JobStates
    /\ jobPhase \in {"off", "idle", "series", "nodes", "queue", "end"}
    /\ next \in Nat /\ upto \in Nat
    /\ told \subseteq Nat /\ stuckTold \subseteq Nat
    /\ saidOffline \in BOOLEAN

\* A build that was announced or passed over, or that need not be.
Settled(n) == builds[n] \in {"FAILURE", "running"} => n \in told \cup skipped

\* What is counted as processed is settled, and so is what the series has seen.
JobCovered ==
    /\ \A s \in {job, jobDisk} : s.last <= Len(builds) /\ \A n \in 1..s.last : Settled(n)
    /\ jobPhase = "series" =>
         upto \in 1..Len(builds) /\ next <= Len(builds) + 1 /\ \A n \in 1..(next - 1) : Settled(n)

\* The state that the monitor goes on from.
JobNow == IF jobPhase = "off" THEN jobDisk ELSE job

\* The builds the monitor has dealt with.
JobSeen == IF jobPhase = "series" THEN next - 1 ELSE JobNow.last

IsComplete(n) == builds[n] \in {"SUCCESS", "FAILURE", "ABORTED"}

JobOnce ==
    ~JobHad({"crash", "unsaved", "badstate", "pruned", "unread"}) =>
        /\ retold = {}
        /\ \A n \in told : n <= JobSeen
        /\ JobNow.last # 0 => IsComplete(JobNow.last)
        /\ jobPhase = "series" => next <= upto + 1 /\ IsComplete(upto)

JobRecovers ==
    ~JobHad({"crash", "unsaved"}) =>
        /\ ~bogus
        /\ JobNow.state = "failed" => lastTold = "failed"

\* One item waits at most, and the one announced as stuck is remembered.
QueueHolds ==
    /\ stuckTold \subseteq DOMAIN items
    /\ \A i \in Waiting \cap stuckTold : JobNow.stuck = i
    /\ JobNow.stuck \in stuckTold \cup {0}
    /\ \A i, j \in Waiting : i = j

WatchersHold ==
    ~JobHad({"crash", "unsaved", "badstate", "several"}) =>
        /\ ~doubled
        /\ saidOffline <=> JobNow.node = "offline"
        /\ QueueHolds

JobInv == JobTyped /\ JobCovered /\ JobOnce /\ JobRecovers /\ WatchersHold


\* The newest completed build is one, and none that is complete is newer.
LEMMA LastCompletedFacts ==
    ASSUME builds \in Seq(BuildStates)
    PROVE  /\ LastCompleted \in 0..Len(builds)
           /\ LastCompleted # 0 => IsComplete(LastCompleted)
           /\ \A n \in 1..Len(builds) : IsComplete(n) => n <= LastCompleted
<1>1. Completed \subseteq 1..Len(builds) /\ Len(builds) \in Nat
  BY DEF Completed
<1>2. CASE Completed = {}
  BY <1>1, <1>2 DEF LastCompleted, Completed, IsComplete
<1>3. CASE Completed # {}
  <2>1. IsFiniteSet(1..Len(builds))
    BY <1>1, FS_Interval
  <2>2. IsFiniteSet(Completed)
    BY <1>1, <2>1, FS_Subset
  <2>3. Completed \subseteq Nat
    BY <1>1
  <2>4. Greatest(Completed) \in Completed /\ \A n \in Completed : n <= Greatest(Completed)
    BY <1>3, <2>2, <2>3, GreatestNatural
  <2>5. LastCompleted = Greatest(Completed)
    BY <1>3 DEF LastCompleted
  <2> QED  BY <1>1, <2>4, <2>5 DEF Completed, IsComplete
<1> QED  BY <1>2, <1>3

\* Queue items are only added, and change in what they are.
LEMMA ItemsChange ==
    ASSUME items \in Seq(Items), ItemQueued \/ ItemChanges
    PROVE  /\ items' \in Seq(Items)
           /\ Len(items) \in Nat /\ Len(items) <= Len(items')
           /\ ItemQueued => Waiting' = Waiting \cup {Len(items) + 1}
           /\ ItemChanges => Waiting' \subseteq Waiting
<1>0. Len(items) \in Nat /\ \A i \in DOMAIN items : items[i] \in Items
  OBVIOUS
<1>1. CASE ItemQueued
  <2>1. PICK b \in BOOLEAN : items' = Append(items, [here |-> TRUE, old |-> FALSE, blocked |-> b])
    BY <1>1 DEF ItemQueued
  <2> DEFINE new == [here |-> TRUE, old |-> FALSE, blocked |-> b]
  <2>2. new \in Items /\ new.here
    BY DEF Items
  <2> HIDE DEF new
  <2>3. /\ items' = Append(items, new) /\ items' \in Seq(Items)
        /\ Len(items') = Len(items) + 1
        /\ \A i \in DOMAIN items : items'[i] = items[i]
        /\ items'[Len(items) + 1] = new
    BY <2>1, <2>2 DEF new
  <2>4. Waiting' = Waiting \cup {Len(items) + 1}
    BY <1>0, <2>2, <2>3 DEF Waiting
  <2>5. ~ItemChanges
    <3>1. ASSUME ItemChanges PROVE Len(items') = Len(items)
      BY <3>1 DEF ItemChanges
    <3> QED  BY <1>0, <2>3, <3>1
  <2> QED  BY <1>0, <2>3, <2>4, <2>5
<1>2. CASE ItemChanges
  <2>1. PICK i \in Waiting :
           items' \in {[items EXCEPT ![i].old = TRUE], [items EXCEPT ![i].blocked = ~@],
                      [items EXCEPT ![i].here = FALSE]}
    BY <1>2 DEF ItemChanges
  <2>2. i \in DOMAIN items /\ items[i].here
    BY DEF Waiting
  <2>3. PICK x \in Items : items' = [items EXCEPT ![i] = x]
    <3>1. CASE items' = [items EXCEPT ![i].old = TRUE]
      <4>1. [items[i] EXCEPT !.old = TRUE] \in Items
        BY <1>0, <2>2 DEF Items
      <4> QED  BY <3>1, <4>1
    <3>2. CASE items' = [items EXCEPT ![i].blocked = ~@]
      <4>1. [items[i] EXCEPT !.blocked = ~@] \in Items
        BY <1>0, <2>2 DEF Items
      <4> QED  BY <3>2, <4>1
    <3>3. CASE items' = [items EXCEPT ![i].here = FALSE]
      <4>1. [items[i] EXCEPT !.here = FALSE] \in Items
        BY <1>0, <2>2 DEF Items
      <4> QED  BY <3>3, <4>1
    <3> QED  BY <2>1, <3>1, <3>2, <3>3
  <2>4. /\ items' \in Seq(Items) /\ Len(items') = Len(items)
        /\ \A j \in DOMAIN items : j # i => items'[j] = items[j]
    BY <2>2, <2>3
  <2>5. Waiting' \subseteq Waiting
    BY <2>2, <2>4 DEF Waiting
  <2>6. ~ItemQueued
    <3>1. ASSUME ItemQueued PROVE Len(items') = Len(items) + 1
      BY <3>1 DEF ItemQueued
    <3> QED  BY <1>0, <2>4, <3>1
  <2> QED  BY <1>0, <2>4, <2>5, <2>6
<1> QED  BY <1>1, <1>2

\* What the poll of the queue changes in the state.
LEMMA QueuePolled ==
    ASSUME JobTyped, PollQueue
    PROVE  /\ job' \in JobStates /\ stuckTold' \subseteq Nat
           /\ job'.node = job.node /\ job'.last = job.last /\ job'.state = job.state
<1>0. job \in JobStates /\ stuckTold \subseteq Nat /\ DOMAIN items \subseteq Nat
  BY DEF JobTyped
<1> USE DEF JobStates
<1>1. CASE NoneQueued
  BY <1>0, <1>1 DEF NoneQueued
<1>2. CASE \E i \in Waiting : OneQueued(i)
  <2>1. PICK i \in Waiting : OneQueued(i)
    BY <1>2
  <2>2. i \in Nat
    BY <1>0 DEF Waiting
  <2> QED  BY <1>0, <2>1, <2>2 DEF OneQueued
<1> QED  BY <1>1, <1>2 DEF PollQueue

\* The step of a job's process that is given by its name leaves Jenkins alone.
\* What a collapse makes of the job.
LEMMA CollapseFact ==
    ASSUME NEW n, Collapse(n)
    PROVE  \E x \in {Failed(job), Passed(job), job} : job' = [x EXCEPT !.last = n]
BY DEF Collapse

LEMMA JobTypedHolds ==
    JobTyped /\ JobNext => JobTyped'
<1> SUFFICES ASSUME JobTyped, JobNext PROVE JobTyped'
  OBVIOUS
<1> USE DEF JobTyped, JobStates, jobHist, watchHist, atJenkins
<1>1. CASE JobBoot
  BY <1>1 DEF JobBoot, FreshJob
<1>2. CASE JobExit
  BY <1>2 DEF JobExit, JobGone, FreshJob, SaveJob
<1>3. CASE JobCrash
  BY <1>3 DEF JobCrash, JobGone, FreshJob
<1>4. CASE JobPolled
  BY <1>4 DEF JobPolled, SaveJob
<1>5. CASE PollJob
  <2>1. LastCompleted \in 0..Len(builds) /\ Len(builds) \in Nat
    BY LastCompletedFacts
  <2>2. CASE UNCHANGED <<job, jobHist>> /\ (UNCHANGED <<next, upto>> \/ (next' = job.last + 1 /\ upto' = LastCompleted))
    BY <1>5, <2>1, <2>2 DEF PollJob
  <2>3. CASE Collapse(LastCompleted) /\ UNCHANGED <<next, upto>>
    <3>0. PICK x \in {Failed(job), Passed(job), job} : job' = [x EXCEPT !.last = LastCompleted]
      BY <2>3, CollapseFact
    <3>1. job' \in JobStates
      <4>1. x \in JobStates /\ LastCompleted \in Nat
        BY <2>1 DEF Failed, Passed
      <4> QED  BY <3>0, <4>1
    <3>2. told' \subseteq Nat
      BY <2>1, <2>3 DEF Collapse, AnnounceFailure, Quiet
    <3> QED  BY <1>5, <2>3, <3>1, <3>2 DEF PollJob
  <2> QED  BY <1>5, <2>2, <2>3 DEF PollJob
<1>6. CASE PollJobFails
  BY <1>6 DEF PollJobFails
<1>7. CASE OneBuild
  <2>1. job' \in JobStates
    BY <1>7 DEF OneBuild, Process, Passed, Failed
  <2>2. told' \subseteq Nat
    BY <1>7 DEF OneBuild, Process, AnnounceFailure, AnnounceRecovery, Quiet
  <2> QED  BY <1>7, <2>1, <2>2 DEF OneBuild
<1>8. CASE OneBuildFails
  BY <1>8 DEF OneBuildFails
<1>9. CASE EndSeries
  BY <1>9 DEF EndSeries, SeriesDone
<1>10. CASE PollNodes
  BY <1>10 DEF PollNodes, Noted, NodeState
<1>11. CASE PollNodesFails
  BY <1>11 DEF PollNodesFails
<1>12. CASE PollQueue
  BY <1>12, QueuePolled DEF PollQueue
<1>13. CASE PollQueueFails
  BY <1>13 DEF PollQueueFails
<1>14. CASE Jenkins
  <2> USE DEF BuildStates
  <2>1. CASE StartBuild
    BY <1>14, <2>1 DEF Jenkins, StartBuild
  <2>2. CASE EndBuild
    <3>1. PICK n \in Running, r \in {"SUCCESS", "FAILURE", "ABORTED"} : builds' = [builds EXCEPT ![n] = r]
      BY <2>2 DEF EndBuild
    <3>2. builds' \in Seq(BuildStates)
      BY <3>1 DEF Running
    <3> QED  BY <1>14, <2>2, <3>2 DEF Jenkins, EndBuild
  <2>3. CASE PruneBuild
    <3>1. PICK n \in Completed : builds' = [builds EXCEPT ![n] = "pruned"]
      BY <2>3 DEF PruneBuild
    <3>2. builds' \in Seq(BuildStates)
      BY <3>1 DEF Completed
    <3> QED  BY <1>14, <2>3, <3>2 DEF Jenkins, PruneBuild
  <2>4. CASE NodeChanges
    BY <1>14, <2>4 DEF Jenkins, NodeChanges
  <2>5. CASE ItemQueued
    <3>1. items' \in Seq(Items)
      BY <2>5, ItemsChange
    <3> QED  BY <1>14, <2>5, <3>1 DEF Jenkins, ItemQueued
  <2>6. CASE ItemChanges
    <3>1. items' \in Seq(Items)
      BY <2>6, ItemsChange
    <3> QED  BY <1>14, <2>6, <3>1 DEF Jenkins, ItemChanges
  <2> QED  BY <1>14, <2>1, <2>2, <2>3, <2>4, <2>5, <2>6 DEF Jenkins
<1> QED
  BY <1>1, <1>2, <1>3, <1>4, <1>5, <1>6, <1>7, <1>8, <1>9, <1>10, <1>11, <1>12, <1>13, <1>14
     DEF JobNext

\* How Jenkins changes the builds: none disappears, and none that is neither
\* failed nor running becomes so.
LEMMA JenkinsBuilds ==
    ASSUME JobTyped, Jenkins
    PROVE  /\ Len(builds') >= Len(builds)
           /\ Len(builds) \in Nat /\ Len(builds') \in Nat
           /\ \A n \in 1..Len(builds) :
                 /\ builds'[n] \in {"FAILURE", "running"} => builds[n] \in {"FAILURE", "running"}
                 /\ IsComplete(n) => IsComplete(n)' \/ "pruned" \in jobMishaps'
           /\ jobMishaps \subseteq jobMishaps'
<1> USE DEF JobTyped, BuildStates, IsComplete
<1>1. CASE StartBuild
  BY <1>1 DEF StartBuild
<1>2. CASE EndBuild
  <2>1. PICK n \in Running, r \in {"SUCCESS", "FAILURE", "ABORTED"} : builds' = [builds EXCEPT ![n] = r]
    BY <1>2 DEF EndBuild
  <2>2. n \in 1..Len(builds) /\ builds[n] = "running"
    BY DEF Running
  <2>3. Len(builds') = Len(builds) /\ Len(builds) \in Nat
    BY <2>1
  <2>4. \A m \in 1..Len(builds) : builds'[m] = IF m = n THEN r ELSE builds[m]
    BY <2>1
  <2> QED  BY <1>2, <2>2, <2>3, <2>4 DEF EndBuild
<1>3. CASE PruneBuild
  <2>1. PICK n \in Completed : builds' = [builds EXCEPT ![n] = "pruned"]
    BY <1>3 DEF PruneBuild
  <2>3. Len(builds') = Len(builds) /\ Len(builds) \in Nat
    BY <2>1
  <2>4. \A m \in 1..Len(builds) : builds'[m] = IF m = n THEN "pruned" ELSE builds[m]
    BY <2>1
  <2> QED  BY <1>3, <2>3, <2>4 DEF PruneBuild, JobMishap
<1>4. CASE NodeChanges \/ ItemQueued \/ ItemChanges
  BY <1>4 DEF NodeChanges, ItemQueued, ItemChanges, JobMishap
<1> QED  BY <1>1, <1>2, <1>3, <1>4 DEF Jenkins

\* What a save leaves in the file.
LEMMA JobSaved ==
    SaveJob => /\ jobDisk' = job \/ (jobDisk' = jobDisk /\ "unsaved" \in jobMishaps')
               /\ jobMishaps \subseteq jobMishaps'
BY DEF SaveJob, JobMishap

LEMMA JobCoveredHolds ==
    JobTyped /\ JobCovered /\ JobNext => JobCovered'
<1> SUFFICES ASSUME JobTyped, JobCovered, JobNext PROVE JobCovered'
  OBVIOUS
<1>0. /\ Len(builds) \in Nat /\ next \in Nat /\ upto \in Nat
      /\ job \in JobStates /\ jobDisk \in JobStates /\ job.last \in Nat /\ jobDisk.last \in Nat
  BY DEF JobTyped, JobStates
<1> USE DEF JobCovered, Settled, jobHist, atJenkins
<1>1. CASE JobBoot
  BY <1>0, <1>1 DEF JobBoot, FreshJob
<1>2. CASE JobExit
  BY <1>0, <1>2, JobSaved DEF JobExit, JobGone, FreshJob
<1>3. CASE JobCrash
  BY <1>0, <1>3 DEF JobCrash, JobGone, FreshJob
<1>4. CASE JobPolled
  BY <1>0, <1>4, JobSaved DEF JobPolled
<1>5. CASE PollJob
  <2> DEFINE cur == LastCompleted
  <2>1. cur \in 0..Len(builds) /\ (cur # 0 => IsComplete(cur))
    BY LastCompletedFacts DEF JobTyped
  <2>2. CASE cur = 0 \/ cur = job.last
    BY <1>0, <1>5, <2>2 DEF PollJob
  <2>3. CASE cur # 0 /\ Collapse(cur) /\ jobPhase' = "nodes"
    <3>1. job'.last = cur
      BY <1>0, <2>3 DEF Collapse, Failed, Passed, JobStates
    <3>2. told \subseteq told' /\ (builds[cur] = "FAILURE" => cur \in told')
      BY <2>3 DEF Collapse, AnnounceFailure, Quiet
    <3>3. skipped' = skipped \cup ((job.last + 1)..(cur - 1))
      BY <2>3 DEF Collapse
    <3>4. builds[cur] # "running"
      BY <2>1, <2>3 DEF IsComplete
    <3>5. \A n \in 1..cur : builds[n] \in {"FAILURE", "running"} => n \in told' \cup skipped'
      <4> HIDE DEF cur
      <4> SUFFICES ASSUME NEW n \in 1..cur, builds[n] \in {"FAILURE", "running"}
                   PROVE  n \in told' \cup skipped'
        OBVIOUS
      <4>1. n <= job.last => n \in told \cup skipped
        BY <1>0, <2>1
      <4>2. CASE n = cur
        BY <3>2, <3>4, <4>2
      <4>3. CASE n # cur /\ n > job.last
        BY <1>0, <2>1, <3>3, <4>3
      <4>4. CASE n <= job.last
        BY <3>2, <3>3, <4>1, <4>4
      <4> QED  BY <1>0, <2>1, <4>2, <4>3, <4>4
    <3>6. jobDisk' = jobDisk /\ builds' = builds /\ \A n \in 1..jobDisk.last : Settled(n)'
      BY <1>0, <1>5, <3>2, <3>3 DEF PollJob
    <3> HIDE DEF cur
    <3> QED  BY <1>0, <2>1, <2>3, <3>1, <3>5, <3>6
  <2>4. CASE /\ jobPhase' = "series" /\ next' = job.last + 1 /\ upto' = cur
             /\ UNCHANGED <<job, jobHist>>
    BY <1>0, <1>5, <2>1, <2>4 DEF PollJob
  <2> QED  BY <1>5, <2>2, <2>3, <2>4 DEF PollJob
<1>6. CASE PollJobFails
  BY <1>0, <1>6 DEF PollJobFails
<1>7. CASE OneBuild
  <2>1. told \subseteq told' /\ skipped \subseteq skipped' /\ job'.last = job.last
    BY <1>0, <1>7 DEF OneBuild, Process, AnnounceFailure, AnnounceRecovery, Quiet, Passed, Failed, JobStates
  <2>2. builds[next] \in {"FAILURE", "running"} => next \in told' \cup skipped'
    BY <1>7 DEF OneBuild, Process, AnnounceFailure
  <2>3. /\ jobPhase = "series" /\ jobPhase' = "series" /\ next' = next + 1 /\ upto' = upto /\ next <= upto
        /\ builds' = builds /\ jobDisk' = jobDisk
    BY <1>7 DEF OneBuild
  <2>4. \A n \in 1..next : Settled(n)'
    BY <1>0, <2>1, <2>2, <2>3
  <2> QED  BY <1>0, <2>1, <2>3, <2>4
<1>8. CASE OneBuildFails
  BY <1>0, <1>8 DEF OneBuildFails
<1>9. CASE EndSeries
  <2>1. job'.last = upto /\ jobDisk' = jobDisk /\ jobPhase' = "nodes"
    BY <1>0, <1>9 DEF EndSeries, SeriesDone, JobStates
  <2> QED  BY <1>0, <1>9, <2>1 DEF EndSeries
<1>10. CASE PollNodes
  <2>1. job'.last = job.last
    BY <1>0, <1>10 DEF PollNodes, Noted, JobStates
  <2> QED  BY <1>0, <1>10, <2>1 DEF PollNodes
<1>11. CASE PollNodesFails
  BY <1>0, <1>11 DEF PollNodesFails
<1>12. CASE PollQueue
  <2>1. job'.last = job.last
    BY <1>12, QueuePolled
  <2> QED  BY <1>0, <1>12, <2>1 DEF PollQueue
<1>13. CASE PollQueueFails
  BY <1>0, <1>13 DEF PollQueueFails
<1>14. CASE Jenkins
  <2>1. UNCHANGED <<job, jobDisk, jobPhase, next, upto, told, skipped>>
    BY <1>14 DEF Jenkins
  <2>2. Len(builds') >= Len(builds) /\ Len(builds') \in Nat
    BY <1>14, JenkinsBuilds
  <2>3. \A n \in 1..Len(builds) : Settled(n) => Settled(n)'
    BY <1>14, <2>1, JenkinsBuilds
  <2>4. ASSUME NEW s \in {job, jobDisk} PROVE s.last <= Len(builds') /\ \A n \in 1..s.last : Settled(n)'
    BY <1>0, <2>2, <2>3
  <2>5. ASSUME jobPhase = "series", NEW n \in 1..(next - 1) PROVE Settled(n)'
    BY <1>0, <2>3, <2>5
  <2> QED  BY <1>0, <2>1, <2>2, <2>4, <2>5
<1> QED
  BY <1>1, <1>2, <1>3, <1>4, <1>5, <1>6, <1>7, <1>8, <1>9, <1>10, <1>11, <1>12, <1>13, <1>14
     DEF JobNext

\* What went wrong is not forgotten.
LEMMA JobMishapsGrow ==
    JobTyped /\ JobNext => jobMishaps \subseteq jobMishaps'
<1> SUFFICES ASSUME JobTyped, JobNext PROVE jobMishaps \subseteq jobMishaps'
  OBVIOUS
<1>1. CASE Jenkins
  BY <1>1, JenkinsBuilds
<1>2. CASE JobExit \/ JobPolled
  BY <1>2, JobSaved DEF JobExit, JobPolled
<1>3. CASE JobBoot \/ JobCrash
  BY <1>3 DEF JobBoot, JobCrash, JobMishap
<1>4. CASE PollJob \/ PollJobFails \/ OneBuild \/ OneBuildFails \/ EndSeries
  BY <1>4 DEF PollJob, PollJobFails, OneBuild, OneBuildFails, EndSeries, JobMishap
<1>5. CASE PollNodes \/ PollNodesFails \/ PollQueue \/ PollQueueFails
  BY <1>5 DEF PollNodes, PollNodesFails, PollQueue, PollQueueFails, JobMishap
<1> QED  BY <1>1, <1>2, <1>3, <1>4, <1>5 DEF JobNext

LEMMA JobOnceHolds ==
    JobTyped /\ JobCovered /\ JobOnce /\ JobNext => JobOnce'
<1> DEFINE K == {"crash", "unsaved", "badstate", "pruned", "unread"}
<1> SUFFICES ASSUME JobTyped, JobCovered, JobOnce, JobNext, ~JobHad(K)'
             PROVE  /\ retold' = {}
                    /\ \A n \in told' : n <= JobSeen'
                    /\ JobNow'.last # 0 => IsComplete(JobNow.last)'
                    /\ jobPhase' = "series" => next' <= upto' + 1 /\ IsComplete(upto)'
  BY DEF JobOnce
<1>0. /\ Len(builds) \in Nat /\ next \in Nat /\ upto \in Nat
      /\ job \in JobStates /\ jobDisk \in JobStates /\ job.last \in Nat /\ jobDisk.last \in Nat
      /\ told \subseteq Nat
  BY DEF JobTyped, JobStates
<1>a. ~JobHad(K)
  BY JobMishapsGrow DEF JobHad
<1>b. /\ retold = {}
      /\ \A n \in told : n <= JobSeen
      /\ JobNow.last # 0 => IsComplete(JobNow.last)
      /\ jobPhase = "series" => next <= upto + 1 /\ IsComplete(upto)
  BY <1>a DEF JobOnce
<1>c. \A k \in K : k \notin jobMishaps'
  BY DEF JobHad
<1> HIDE DEF K
<1>d. "crash" \in K /\ "unsaved" \in K /\ "badstate" \in K /\ "pruned" \in K /\ "unread" \in K
  BY DEF K
<1> USE DEF JobNow, JobSeen, IsComplete, jobHist, atJenkins
<1>1. CASE JobBoot
  BY <1>0, <1>b, <1>c, <1>d, <1>1 DEF JobBoot, JobMishap
<1>2. CASE JobExit
  BY <1>0, <1>b, <1>c, <1>d, <1>2, JobSaved DEF JobExit, JobGone
<1>3. CASE JobCrash
  BY <1>c, <1>d, <1>3 DEF JobCrash, JobMishap
<1>4. CASE JobPolled
  BY <1>0, <1>b, <1>4 DEF JobPolled
<1>5. CASE PollJob
  <2> DEFINE cur == LastCompleted
  <2>1. /\ cur \in 0..Len(builds) /\ (cur # 0 => IsComplete(cur))
        /\ \A n \in 1..Len(builds) : IsComplete(n) => n <= cur
    BY LastCompletedFacts DEF JobTyped
  <2>2. job.last <= Len(builds) /\ (job.last # 0 => IsComplete(job.last)) /\ jobPhase = "idle"
    BY <1>b, <1>5 DEF PollJob, JobCovered
  <2>3. job.last <= cur
    BY <1>0, <2>1, <2>2
  <2>4. /\ \A n \in told : n <= job.last
        /\ builds' = builds
    BY <1>b, <1>5, <2>2 DEF PollJob
  <2>5. CASE cur = 0 \/ cur = job.last
    BY <1>0, <1>b, <1>5, <2>2, <2>4, <2>5 DEF PollJob
  <2>6. CASE cur # 0 /\ cur # job.last /\ Collapse(cur) /\ jobPhase' = "nodes"
    <3>1. job'.last = cur
      BY <1>0, <2>6 DEF Collapse, Failed, Passed, JobStates
    <3>2. told' \subseteq told \cup {cur} /\ retold' \subseteq retold \cup ({cur} \cap told)
      BY <2>6 DEF Collapse, AnnounceFailure, Quiet
    <3>3. cur \notin told
      BY <1>0, <2>1, <2>3, <2>4, <2>6
    <3> HIDE DEF cur
    <3>4. \A n \in told' : n <= cur
      BY <1>0, <2>1, <2>3, <2>4, <3>2
    <3> QED  BY <1>b, <2>1, <2>4, <2>6, <3>1, <3>2, <3>3, <3>4
  <2>7. CASE /\ cur # 0 /\ cur # job.last
             /\ jobPhase' = "series" /\ next' = job.last + 1 /\ upto' = cur
             /\ UNCHANGED <<job, jobHist>>
    BY <1>0, <1>b, <1>5, <2>1, <2>2, <2>3, <2>4, <2>7
  <2> QED  BY <1>5, <2>5, <2>6, <2>7 DEF PollJob
<1>6. CASE PollJobFails
  BY <1>0, <1>b, <1>6 DEF PollJobFails
<1>7. CASE OneBuild
  <2>1. job'.last = job.last
    BY <1>0, <1>7 DEF OneBuild, Process, Passed, Failed, JobStates
  <2>2. told' \subseteq told \cup {next} /\ retold' \subseteq retold \cup ({next} \cap told)
    BY <1>7 DEF OneBuild, Process, AnnounceFailure, AnnounceRecovery, Quiet
  <2>3. /\ jobPhase = "series" /\ jobPhase' = "series" /\ next' = next + 1 /\ upto' = upto /\ next <= upto
        /\ builds' = builds
    BY <1>7 DEF OneBuild
  <2>4. next \notin told
    BY <1>0, <1>b, <2>3
  <2>5. \A n \in told' : n <= next
    BY <1>0, <1>b, <2>2, <2>3
  <2> QED  BY <1>0, <1>b, <2>1, <2>2, <2>3, <2>4, <2>5
<1>8. CASE OneBuildFails
  BY <1>c, <1>d, <1>8 DEF OneBuildFails, JobMishap
<1>9. CASE EndSeries
  <2>1. job'.last = upto /\ jobPhase' = "nodes" /\ jobPhase = "series" /\ next > upto
    BY <1>0, <1>9 DEF EndSeries, SeriesDone, JobStates
  <2> QED  BY <1>0, <1>b, <1>9, <2>1 DEF EndSeries
<1>10. CASE PollNodes
  <2>1. job'.last = job.last
    BY <1>0, <1>10 DEF PollNodes, Noted, JobStates
  <2> QED  BY <1>0, <1>b, <1>10, <2>1 DEF PollNodes
<1>11. CASE PollNodesFails
  BY <1>0, <1>b, <1>11 DEF PollNodesFails
<1>12. CASE PollQueue
  <2>1. job'.last = job.last
    BY <1>12, QueuePolled
  <2> QED  BY <1>0, <1>b, <1>12, <2>1 DEF PollQueue
<1>13. CASE PollQueueFails
  BY <1>0, <1>b, <1>13 DEF PollQueueFails
<1>14. CASE Jenkins
  <2>1. UNCHANGED <<job, jobDisk, jobPhase, next, upto, told, retold>>
    BY <1>14 DEF Jenkins
  <2>2. \A n \in 1..Len(builds) : IsComplete(n) => IsComplete(n)'
    BY <1>14, <1>c, <1>d, JenkinsBuilds
  <2>3. /\ job.last <= Len(builds) /\ jobDisk.last <= Len(builds)
        /\ jobPhase = "series" => upto \in 1..Len(builds)
    BY DEF JobCovered
  <2> QED  BY <1>0, <1>b, <2>1, <2>2, <2>3
<1> QED
  BY <1>1, <1>2, <1>3, <1>4, <1>5, <1>6, <1>7, <1>8, <1>9, <1>10, <1>11, <1>12, <1>13, <1>14
     DEF JobNext

LEMMA JobRecoversHolds ==
    JobTyped /\ JobRecovers /\ JobNext => JobRecovers'
<1> DEFINE K == {"crash", "unsaved"}
<1> SUFFICES ASSUME JobTyped, JobRecovers, JobNext, ~JobHad(K)'
             PROVE  ~bogus' /\ (JobNow'.state = "failed" => lastTold' = "failed")
  BY DEF JobRecovers
<1>0. job \in JobStates /\ jobDisk \in JobStates
  BY DEF JobTyped
<1>a. ~JobHad(K)
  BY JobMishapsGrow DEF JobHad
<1>b. ~bogus /\ (JobNow.state = "failed" => lastTold = "failed")
  BY <1>a DEF JobRecovers
<1>c. "crash" \notin jobMishaps' /\ "unsaved" \notin jobMishaps'
  BY DEF JobHad
<1> USE DEF JobNow, JobStates, jobHist, watchHist, atJenkins
<1>1. CASE JobBoot
  BY <1>0, <1>b, <1>1 DEF JobBoot, FreshJob
<1>2. CASE JobExit
  BY <1>0, <1>b, <1>c, <1>2, JobSaved DEF JobExit, JobGone
<1>3. CASE JobCrash
  BY <1>c, <1>3 DEF JobCrash, JobMishap
<1>4. CASE JobPolled
  BY <1>0, <1>b, <1>4 DEF JobPolled
<1>5. CASE PollJob
  <2>1. CASE UNCHANGED <<job, jobHist>>
    BY <1>b, <1>5, <2>1 DEF PollJob
  <2>2. CASE Collapse(LastCompleted)
    BY <1>0, <1>b, <1>5, <2>2 DEF PollJob, Collapse, Failed, Passed, AnnounceFailure, Quiet
  <2> QED  BY <1>5, <2>1, <2>2 DEF PollJob
<1>6. CASE PollJobFails
  BY <1>b, <1>6 DEF PollJobFails
<1>7. CASE OneBuild
  <2>1. jobPhase = "series" /\ jobPhase' = "series" /\ Process(next)
    BY <1>7 DEF OneBuild
  <2>2. CASE builds[next] = "SUCCESS"
    <3>1. job'.state = "ok" /\ (job.state = "failed" => AnnounceRecovery) /\ (job.state # "failed" => Quiet)
      BY <1>0, <2>1, <2>2 DEF Process, Passed
    <3>2. CASE job.state = "failed"
      <4>1. lastTold = "failed" /\ (bogus' <=> (bogus \/ lastTold # "failed"))
        BY <1>b, <2>1, <3>1, <3>2 DEF AnnounceRecovery
      <4>2. ~bogus'
        BY <1>b, <4>1
      <4> QED  BY <2>1, <3>1, <4>2
    <3>3. CASE job.state # "failed"
      BY <1>b, <2>1, <3>1, <3>3 DEF Quiet
    <3> QED  BY <3>2, <3>3
  <2>3. CASE builds[next] = "FAILURE"
    BY <1>0, <1>b, <2>1, <2>3 DEF Process, AnnounceFailure
  <2>4. CASE builds[next] \in {"ABORTED", "running", "pruned"}
    BY <1>0, <1>b, <2>1, <2>4 DEF Process, Quiet
  <2> QED  BY <2>1, <2>2, <2>3, <2>4 DEF Process
<1>8. CASE OneBuildFails
  BY <1>b, <1>8 DEF OneBuildFails
<1>9. CASE EndSeries
  BY <1>0, <1>b, <1>9 DEF EndSeries, SeriesDone
<1>10. CASE PollNodes
  BY <1>0, <1>b, <1>10 DEF PollNodes, Noted
<1>11. CASE PollNodesFails
  BY <1>b, <1>11 DEF PollNodesFails
<1>12. CASE PollQueue
  BY <1>0, <1>b, <1>12, QueuePolled DEF PollQueue
<1>13. CASE PollQueueFails
  BY <1>b, <1>13 DEF PollQueueFails
<1>14. CASE Jenkins
  BY <1>b, <1>14 DEF Jenkins
<1> QED
  BY <1>1, <1>2, <1>3, <1>4, <1>5, <1>6, <1>7, <1>8, <1>9, <1>10, <1>11, <1>12, <1>13, <1>14
     DEF JobNext

\* A poll of the queue says nothing that was said already.
LEMMA QueueStep ==
    ASSUME job \in JobStates, QueueHolds, ~doubled, JobNow = job, JobNow' = job',
           items \in Seq(Items), UNCHANGED items, stuckTold \subseteq Nat,
           NoneQueued \/ \E i \in Waiting : OneQueued(i)
    PROVE  ~doubled' /\ QueueHolds'
<1>0. Waiting' = Waiting /\ Waiting \subseteq DOMAIN items /\ 0 \notin DOMAIN items
  BY DEF Waiting
<1> USE DEF QueueHolds, JobStates
<1>1. CASE NoneQueued
  BY <1>0, <1>1 DEF NoneQueued
<1>2. CASE \E i \in Waiting : OneQueued(i)
  <2>1. PICK i \in Waiting : OneQueued(i)
    BY <1>2
  <2>2. Waiting = {i} /\ i \in DOMAIN items /\ i # 0
    BY <1>0, <2>1
  <2>3. CASE job' = [job EXCEPT !.stuck = 0] /\ stuckTold' = stuckTold \ {i} /\ UNCHANGED doubled
    BY <1>0, <2>2, <2>3
  <2>4. CASE /\ job.stuck # i /\ job' = [job EXCEPT !.stuck = i]
             /\ doubled' = (doubled \/ i \in stuckTold)
             /\ stuckTold' = stuckTold \cup {i}
    <3>1. i \notin stuckTold
      BY <2>2, <2>4
    <3>2. ~doubled'
      BY <2>4, <3>1
    <3>3. job'.stuck = i
      BY <2>4
    <3> QED  BY <1>0, <2>2, <2>4, <3>2, <3>3
  <2>5. CASE UNCHANGED <<job, stuckTold, doubled>>
    BY <1>0, <2>2, <2>5
  <2> QED  BY <2>1, <2>3, <2>4, <2>5 DEF OneQueued
<1> QED  BY <1>1, <1>2

\* What Jenkins does with the items makes none of them one that was announced.
LEMMA ItemsKeep ==
    ASSUME QueueHolds, items \in Seq(Items), JobNow' = JobNow, UNCHANGED stuckTold,
           ItemQueued \/ ItemChanges, "several" \notin jobMishaps'
    PROVE  QueueHolds'
<1>0. /\ Len(items) \in Nat /\ Len(items') \in Nat /\ Len(items) <= Len(items')
      /\ DOMAIN items = 1..Len(items) /\ DOMAIN items' = 1..Len(items')
      /\ ItemQueued => Waiting' = Waiting \cup {Len(items) + 1}
      /\ ItemChanges => Waiting' \subseteq Waiting
  BY ItemsChange
<1>1. stuckTold \subseteq DOMAIN items /\ stuckTold \subseteq DOMAIN items'
  BY <1>0 DEF QueueHolds
<1>2. CASE ItemQueued
  <2>1. Waiting = {}
    BY <1>2 DEF ItemQueued, JobMishap
  <2>2. Len(items) + 1 \notin stuckTold
    BY <1>0, <1>1
  <2> QED  BY <1>0, <1>1, <1>2, <2>1, <2>2 DEF QueueHolds
<1>3. CASE ItemChanges
  BY <1>0, <1>1, <1>3 DEF QueueHolds
<1> QED  BY <1>2, <1>3

LEMMA WatchersHoldHolds ==
    JobTyped /\ WatchersHold /\ JobNext => WatchersHold'
<1> DEFINE K == {"crash", "unsaved", "badstate", "several"}
<1> SUFFICES ASSUME JobTyped, WatchersHold, JobNext, ~JobHad(K)'
             PROVE  /\ ~doubled'
                    /\ saidOffline' <=> JobNow'.node = "offline"
                    /\ QueueHolds'
  BY DEF WatchersHold
<1>0. /\ job \in JobStates /\ jobDisk \in JobStates /\ offline \in BOOLEAN /\ saidOffline \in BOOLEAN
      /\ items \in Seq(Items)
      /\ stuckTold \subseteq Nat
  BY DEF JobTyped
<1>a. ~JobHad(K)
  BY JobMishapsGrow DEF JobHad
<1>b. /\ ~doubled
      /\ saidOffline <=> JobNow.node = "offline"
      /\ QueueHolds
  BY <1>a DEF WatchersHold
<1>c. "crash" \notin jobMishaps' /\ "unsaved" \notin jobMishaps' /\ "badstate" \notin jobMishaps'
      /\ "several" \notin jobMishaps'
  BY DEF JobHad
<1>d. UNCHANGED <<items, stuckTold>> /\ JobNow'.stuck = JobNow.stuck => QueueHolds'
  BY <1>b DEF QueueHolds, Waiting
<1> USE DEF JobNow, JobStates, watchHist, atJenkins
<1>1. CASE JobBoot
  BY <1>0, <1>b, <1>c, <1>d, <1>1 DEF JobBoot, JobMishap
<1>2. CASE JobExit
  BY <1>0, <1>b, <1>c, <1>d, <1>2, JobSaved DEF JobExit, JobGone
<1>3. CASE JobCrash
  BY <1>c, <1>3 DEF JobCrash, JobMishap
<1>4. CASE JobPolled
  BY <1>0, <1>b, <1>d, <1>4 DEF JobPolled
<1>5. CASE PollJob
  <2>1. job'.node = job.node /\ job'.stuck = job.stuck
    BY <1>0, <1>5 DEF PollJob, Collapse, Failed, Passed
  <2> QED  BY <1>0, <1>b, <1>d, <1>5, <2>1 DEF PollJob
<1>6. CASE PollJobFails
  BY <1>b, <1>d, <1>6 DEF PollJobFails
<1>7. CASE OneBuild
  <2>1. job'.node = job.node /\ job'.stuck = job.stuck
    BY <1>0, <1>7 DEF OneBuild, Process, Failed, Passed
  <2> QED  BY <1>0, <1>b, <1>d, <1>7, <2>1 DEF OneBuild
<1>8. CASE OneBuildFails
  BY <1>b, <1>d, <1>8 DEF OneBuildFails
<1>9. CASE EndSeries
  BY <1>0, <1>b, <1>d, <1>9 DEF EndSeries, SeriesDone
<1>10. CASE PollNodes
  <2>1. job'.node = NodeState /\ job'.stuck = job.stuck
    BY <1>0, <1>10 DEF PollNodes, Noted
  <2>2. NodeState = "offline" <=> offline
    BY DEF NodeState
  <2>3. /\ (job.node = "offline") # offline =>
             saidOffline' = offline /\ doubled' = (doubled \/ saidOffline = offline)
        /\ ~((job.node = "offline") # offline) => UNCHANGED <<saidOffline, doubled>>
    BY <1>10 DEF PollNodes
  <2>4. UNCHANGED <<items, stuckTold>> /\ jobPhase = "nodes" /\ jobPhase' = "queue"
    BY <1>10 DEF PollNodes
  <2>5. ~doubled' /\ (saidOffline' <=> offline)
    BY <1>0, <1>b, <2>3, <2>4
  <2> QED  BY <1>0, <1>b, <1>d, <2>1, <2>2, <2>4, <2>5
<1>11. CASE PollNodesFails
  BY <1>b, <1>d, <1>11 DEF PollNodesFails
<1>12. CASE PollQueue
  <2>1. job'.node = job.node
    BY <1>12, QueuePolled
  <2>2. jobPhase = "queue" /\ jobPhase' # "off" /\ UNCHANGED <<items, saidOffline>>
    BY <1>12 DEF PollQueue
  <2>3. JobNow' = job' /\ JobNow = job /\ Waiting' = Waiting
    BY <2>2 DEF Waiting
  <2>4. ~doubled' /\ QueueHolds'
    BY <1>0, <1>b, <1>12, <2>2, <2>3, QueueStep DEF PollQueue
  <2> QED  BY <1>0, <1>b, <2>1, <2>2, <2>3, <2>4
<1>13. CASE PollQueueFails
  BY <1>b, <1>d, <1>13 DEF PollQueueFails
<1>14. CASE Jenkins
  <2>1. UNCHANGED <<job, jobDisk, jobPhase, watchHist>>
    BY <1>14 DEF Jenkins
  <2>2. JobNow' = JobNow
    BY <2>1
  <2>3. CASE UNCHANGED items
    BY <1>0, <1>b, <1>d, <2>1, <2>2, <2>3
  <2>4. CASE ItemQueued \/ ItemChanges
    <3>1. QueueHolds'
      BY <1>0, <1>b, <1>c, <2>1, <2>2, <2>4, ItemsKeep
    <3> QED  BY <1>0, <1>b, <2>1, <2>2, <3>1
  <2> QED
    BY <1>14, <2>3, <2>4 DEF Jenkins, StartBuild, EndBuild, PruneBuild, NodeChanges
<1> QED
  BY <1>1, <1>2, <1>3, <1>4, <1>5, <1>6, <1>7, <1>8, <1>9, <1>10, <1>11, <1>12, <1>13, <1>14
     DEF JobNext

-----------------------------------------------------------------------------
(* The web.                                                                *)

WebStates == [state : {"unknown", "up", "down"}, up : Nat, down : Nat,
              cert : Nat, warned : Nat, date : Nat]

Changes == [kind : {"down", "up"}]

Warnings == [kind : {"expired", "expiring"}, cert : Nat, at : Nat]

WebTyped ==
    /\ today \in Nat /\ served \in Nat /\ kept \in Nat
    /\ web \in WebStates /\ webDisk \in WebStates
    /\ webPhase \in {"off", "idle", "send"}
    /\ webOut \in Seq(Changes \cup Warnings)
    /\ webPhase # "send" => webOut = <<>>
    /\ row \in [ok : 0..UpRepeats, failed : 0..DownRepeats]
    /\ alert \in {"none", "down", "up"}
    /\ warnings \subseteq Warnings

\* The state that the monitor goes on from.
WebNow == IF webPhase = "off" THEN webDisk ELSE web

ToSay(k) == \E i \in DOMAIN webOut : webOut[i].kind = k

\* A change comes before a warning, and says what the state is.
WebOrdered ==
    /\ \A i \in DOMAIN webOut : webOut[i] \in Changes => i = 1 /\ webOut[i].kind = web.state
    /\ \A i, j \in DOMAIN webOut : webOut[i] \in Warnings /\ webOut[j] \in Warnings => i = j

\* The counts of the state machine stay below what declares a change.
WebCounts ==
    \A s \in {web, webDisk} :
        /\ s.state # "down" => s.down < DownRepeats /\ s.up = 0
        /\ s.state = "down" => s.up < UpRepeats /\ s.down = 0

\* They are no larger than the number of the last probes that went so.
WebStreaks ==
    ~WebHad({"crash", "unsaved"}) =>
        /\ WebNow.down <= row.failed \/ shaky
        /\ WebNow.up <= row.ok
        /\ WebNow.state = "down" => alert = "down" \/ ToSay("down")

WebToldBack ==
    ~WebHad({"crash", "unsaved", "badstate"}) =>
        (alert = "down" => WebNow.state = "down" \/ ToSay("up"))

WarningsToSay == {webOut[i] : i \in DOMAIN webOut} \cap Warnings

\* A warning is older than what the state would warn of next.
WarnedOnce ==
    ~WebHad({"crash", "unsaved", "badstate", "swap"}) =>
        /\ ~rewarned
        /\ kept # 0 => kept = WebNow.cert
        /\ WebNow.cert <= served
        /\ WebNow.date <= today
        /\ WarningsToSay \cap warnings = {}
        /\ \A m \in warnings \cup WarningsToSay :
              /\ m.cert <= WebNow.cert
              /\ m.cert = WebNow.cert =>
                    IF m.kind = "expired" THEN m.at <= WebNow.date ELSE WebNow.warned <= m.at

WebInv == WebTyped /\ WebOrdered /\ WebCounts /\ WebStreaks /\ WebToldBack /\ WarnedOnce

\* A message says a change or warns, not both.
LEMMA MessagesDiffer ==
    \A m \in Changes \cup Warnings : m \in Changes <=> m \notin Warnings
<1>1. \A m \in Changes : m.kind \in {"down", "up"}
  BY DEF Changes
<1>2. \A m \in Warnings : m.kind \in {"expired", "expiring"}
  BY DEF Warnings
<1> QED  BY <1>1, <1>2

LEMMA ShortLength ==
    \A S : \A q \in Seq(S) : Len(q) <= 1 => Len(q) = 0 \/ Len(q) = 1
<1> TAKE S
<1> TAKE q \in Seq(S)
<1>1. Len(q) \in Nat
  OBVIOUS
<1> QED  BY <1>1

\* A message of a change at most, then a warning at most.
LEMMA JoinedMessages ==
    ASSUME NEW u \in Seq(Changes), NEW v \in Seq(Warnings), Len(u) <= 1, Len(v) <= 1
    PROVE  /\ u \o v \in Seq(Changes \cup Warnings)
           /\ \A i \in DOMAIN (u \o v) :
                 \/ i = 1 /\ Len(u) = 1 /\ (u \o v)[i] = u[1] /\ (u \o v)[i] \in Changes
                 \/ i = Len(u) + 1 /\ Len(v) = 1 /\ (u \o v)[i] = v[1] /\ (u \o v)[i] \in Warnings
           /\ Len(u) = 1 => 1 \in DOMAIN (u \o v) /\ (u \o v)[1] = u[1]
           /\ Len(v) = 1 => Len(u) + 1 \in DOMAIN (u \o v) /\ (u \o v)[Len(u) + 1] = v[1]
<1>1. Len(u) \in {0, 1} /\ Len(v) \in {0, 1}
  BY ShortLength
<1>2. Len(u \o v) = Len(u) + Len(v) /\ DOMAIN (u \o v) = 1..(Len(u) + Len(v))
  OBVIOUS
<1>3. u \in Seq(Changes \cup Warnings) /\ v \in Seq(Changes \cup Warnings)
  OBVIOUS
<1>4. u \o v \in Seq(Changes \cup Warnings)
  BY <1>3
<1>5. \A i \in 1..Len(u) : (u \o v)[i] = u[i] /\ u[i] \in Changes
  OBVIOUS
<1>6. Len(v) = 1 => (u \o v)[Len(u) + 1] = v[1] /\ v[1] \in Warnings
  <2> HAVE Len(v) = 1
  <2>1. Len(u) + 1 \in 1..(Len(u) + Len(v)) /\ Len(u) + 1 > Len(u) /\ Len(u) \in Nat
    BY <1>1
  <2>2. (u \o v)[Len(u) + 1] = v[Len(u) + 1 - Len(u)]
    BY <2>1
  <2>3. Len(u) + 1 - Len(u) = 1 /\ v[1] \in Warnings
    BY <2>1
  <2> QED  BY <2>2, <2>3
<1>7. CASE Len(u) = 0
  BY <1>1, <1>2, <1>4, <1>6, <1>7
<1>8. CASE Len(u) = 1
  BY <1>1, <1>2, <1>4, <1>5, <1>6, <1>8
<1> QED  BY <1>1, <1>7, <1>8

LEMMA WebConstants ==
    /\ DownRepeats \in Nat \ {0} /\ UpRepeats \in Nat \ {0}
    /\ \A c \in Certs : c \in Nat /\ c # 0
    /\ \A S \in SUBSET ExpiringDays : S # {} => Greatest(S) \in S
    /\ ExpiringDays \subseteq Nat /\ ExpiringDays # {}
    /\ Greatest(ExpiringDays) \in Nat
<1>1. ASSUME NEW S \in SUBSET ExpiringDays, S # {} PROVE Greatest(S) \in S
  <2>1. S \subseteq Nat /\ IsFiniteSet(S)
    BY WebAssumption, FS_Subset
  <2> QED  BY <1>1, <2>1, GreatestNatural
<1>2. DownRepeats \in Nat \ {0} /\ UpRepeats \in Nat \ {0} /\ \A c \in Certs : c \in Nat /\ c # 0
  BY WebAssumption
<1>3. ExpiringDays \subseteq Nat /\ ExpiringDays # {}
  BY WebAssumption
<1>4. Greatest(ExpiringDays) \in ExpiringDays
  BY <1>1, <1>3
<1> QED  BY <1>1, <1>2, <1>3, <1>4

\* How a probe moves the state machine.
LEMMA AfterProbeFacts ==
    ASSUME NEW s \in WebStates, NEW ok \in BOOLEAN,
           s.state # "down" => s.down < DownRepeats /\ s.up = 0,
           s.state = "down" => s.up < UpRepeats /\ s.down = 0
    PROVE  LET t == AfterProbe(s, ok) IN
           /\ t \in WebStates
           /\ t.cert = s.cert /\ t.warned = s.warned /\ t.date = s.date
           /\ t.state # "down" => t.down < DownRepeats /\ t.up = 0
           /\ t.state = "down" => t.up < UpRepeats /\ t.down = 0
           /\ s.state # "down" /\ t.state = "down" => ~ok /\ s.down + 1 = DownRepeats
           /\ s.state = "down" /\ t.state = "up" => ok /\ s.up + 1 = UpRepeats
           /\ s.state # "down" /\ ~ok => t.down <= s.down + 1
           /\ s.state = "down" => t.down = 0 /\ t.state \in {"down", "up"}
           /\ s.state = "up" /\ ok => t.down = 0 /\ t.state = "up"
           /\ s.state = "unknown" /\ ok => t.down = s.down /\ t.state = "up"
           /\ ok => t.up <= s.up + 1
           /\ ~ok => t.up = 0
<1> DEFINE t == AfterProbe(s, ok)
<1> SUFFICES
           /\ t \in WebStates
           /\ t.cert = s.cert /\ t.warned = s.warned /\ t.date = s.date
           /\ t.state # "down" => t.down < DownRepeats /\ t.up = 0
           /\ t.state = "down" => t.up < UpRepeats /\ t.down = 0
           /\ s.state # "down" /\ t.state = "down" => ~ok /\ s.down + 1 = DownRepeats
           /\ s.state = "down" /\ t.state = "up" => ok /\ s.up + 1 = UpRepeats
           /\ s.state # "down" /\ ~ok => t.down <= s.down + 1
           /\ s.state = "down" => t.down = 0 /\ t.state \in {"down", "up"}
           /\ s.state = "up" /\ ok => t.down = 0 /\ t.state = "up"
           /\ s.state = "unknown" /\ ok => t.down = s.down /\ t.state = "up"
           /\ ok => t.up <= s.up + 1
           /\ ~ok => t.up = 0
  OBVIOUS
<1> USE DEF WebStates
<1>0. s.state \in {"unknown", "up", "down"} /\ s.up \in Nat /\ s.down \in Nat
  OBVIOUS
<1>1. DownRepeats \in Nat \ {0} /\ UpRepeats \in Nat \ {0}
  BY WebConstants
<1> DEFINE c == Counted(s, ok)
<1>2. CASE s.state # "down" /\ ok
  <2>1. c = [s EXCEPT !.state = "up", !.down = IF s.state = "up" THEN 0 ELSE @]
    BY <1>2 DEF Counted
  <2>2. c \in WebStates /\ c.state = "up" /\ c.down = (IF s.state = "up" THEN 0 ELSE s.down) /\ c.up = 0
    BY <1>2, <2>1
  <2>3. c.cert = s.cert /\ c.warned = s.warned /\ c.date = s.date
    BY <2>1
  <2>4. AfterProbe(s, ok) = c
    <3> HIDE DEF c
    <3>1. c.down < DownRepeats
      BY <1>1, <1>2, <2>2
    <3>2. Declared(c) = c
      BY <1>1, <2>2, <3>1 DEF Declared
    <3> QED  BY <3>2 DEF AfterProbe, c
  <2> HIDE DEF c
  <2>5. t = c
    BY <2>4 DEF t
  <2> HIDE DEF t
  <2>6. \/ s.state = "up" /\ t.down = 0
        \/ s.state = "unknown" /\ t.down = s.down
    BY <1>2, <2>2, <2>5
  <2>7. t \in WebStates /\ t.state = "up" /\ t.up = 0
    BY <2>2, <2>5
  <2>8. t.cert = s.cert /\ t.warned = s.warned /\ t.date = s.date
    BY <2>3, <2>5
  <2> QED  BY <1>0, <1>1, <1>2, <2>6, <2>7, <2>8
<1>3. CASE s.state # "down" /\ ~ok
  <2>1. c = [s EXCEPT !.down = @ + 1]
    BY <1>3 DEF Counted
  <2>2. c \in WebStates /\ c.state = s.state /\ c.down = s.down + 1 /\ c.up = 0
    BY <1>3, <2>1
  <2>3. c.cert = s.cert /\ c.warned = s.warned /\ c.date = s.date
    BY <2>1
  <2>4. AfterProbe(s, ok) = IF c.down >= DownRepeats THEN [c EXCEPT !.state = "down", !.down = 0] ELSE c
    BY <1>3, <2>2 DEF AfterProbe, Declared
  <2> HIDE DEF c
  <2>5. CASE c.down >= DownRepeats
    <3>1. t = [c EXCEPT !.state = "down", !.down = 0]
      BY <2>4, <2>5 DEF t
    <3> HIDE DEF t
    <3>2. t \in WebStates /\ t.state = "down" /\ t.down = 0 /\ t.up = 0
      BY <2>2, <3>1
    <3>3. t.cert = s.cert /\ t.warned = s.warned /\ t.date = s.date
      BY <2>2, <2>3, <3>1
    <3> QED  BY <1>0, <1>1, <1>3, <2>2, <2>5, <3>2, <3>3
  <2>6. CASE ~(c.down >= DownRepeats)
    <3>1. t = c
      BY <2>4, <2>6 DEF t
    <3> HIDE DEF t
    <3>2. t \in WebStates /\ t.state = s.state /\ t.down = s.down + 1 /\ t.up = 0
      BY <2>2, <3>1
    <3>3. t.cert = s.cert /\ t.warned = s.warned /\ t.date = s.date
      BY <2>2, <2>3, <3>1
    <3> QED  BY <1>0, <1>1, <1>3, <2>2, <2>6, <3>2, <3>3
  <2> QED  BY <2>5, <2>6
<1>4. CASE s.state = "down" /\ ok
  <2>1. c = [s EXCEPT !.up = @ + 1]
    BY <1>4 DEF Counted
  <2>2. c \in WebStates /\ c.state = "down" /\ c.down = 0 /\ c.up = s.up + 1
    <3> HIDE DEF c
    <3> QED  BY <1>4, <2>1
  <2>3. c.cert = s.cert /\ c.warned = s.warned /\ c.date = s.date
    BY <2>1
  <2>4. AfterProbe(s, ok) = IF c.up >= UpRepeats THEN [c EXCEPT !.state = "up", !.up = 0] ELSE c
    BY <1>4, <2>2 DEF AfterProbe, Declared
  <2> HIDE DEF c
  <2>5. CASE c.up >= UpRepeats
    <3>1. t = [c EXCEPT !.state = "up", !.up = 0]
      BY <2>4, <2>5 DEF t
    <3> HIDE DEF t
    <3>2. t \in WebStates /\ t.state = "up" /\ t.down = 0 /\ t.up = 0
      BY <2>2, <3>1
    <3>3. t.cert = s.cert /\ t.warned = s.warned /\ t.date = s.date
      BY <2>2, <2>3, <3>1
    <3> QED  BY <1>0, <1>1, <1>4, <2>2, <2>5, <3>2, <3>3
  <2>6. CASE ~(c.up >= UpRepeats)
    <3>1. t = c
      BY <2>4, <2>6 DEF t
    <3> HIDE DEF t
    <3>2. t \in WebStates /\ t.state = "down" /\ t.down = 0 /\ t.up = s.up + 1
      BY <2>2, <3>1
    <3>3. t.cert = s.cert /\ t.warned = s.warned /\ t.date = s.date
      BY <2>2, <2>3, <3>1
    <3> QED  BY <1>0, <1>1, <1>4, <2>2, <2>6, <3>2, <3>3
  <2> QED  BY <2>5, <2>6
<1>5. CASE s.state = "down" /\ ~ok
  <2>1. c = [s EXCEPT !.up = 0]
    BY <1>5 DEF Counted
  <2>2. c \in WebStates /\ c.state = "down" /\ c.down = 0 /\ c.up = 0
    BY <1>5, <2>1
  <2>3. c.cert = s.cert /\ c.warned = s.warned /\ c.date = s.date
    BY <2>1
  <2>4. AfterProbe(s, ok) = c
    BY <1>1, <2>2 DEF AfterProbe, Declared
  <2> HIDE DEF c
  <2>5. t = c
    BY <2>4 DEF t
  <2> HIDE DEF t
  <2>6. t \in WebStates /\ t.state = "down" /\ t.down = 0 /\ t.up = 0
    BY <2>2, <2>5
  <2>7. t.cert = s.cert /\ t.warned = s.warned /\ t.date = s.date
    BY <2>3, <2>5
  <2> QED  BY <1>0, <1>1, <1>5, <2>6, <2>7
<1> QED  BY <1>2, <1>3, <1>4, <1>5

\* What the state remembers of the certificate, and what is said of it.
LEMMA CertSeenFacts ==
    ASSUME NEW s \in WebStates, NEW c \in Nat, today \in Nat
    PROVE  LET t == CertSeen(s, c).st
               v == CertSeen(s, c).msg
           IN  /\ t \in WebStates
               /\ t.state = s.state /\ t.up = s.up /\ t.down = s.down
               /\ v \in Seq(Warnings) /\ Len(v) <= 1
               /\ c = 0 => t = s /\ v = <<>>
               /\ c # 0 => t.cert = c
               /\ c # 0 /\ s.cert = c => t.date \in {s.date, today} /\ t.warned <= s.warned
               /\ c # 0 /\ s.cert # c => t.date \in {0, today}
               /\ Len(v) = 1 =>
                     /\ v[1].cert = c
                     /\ v[1].kind = "expired" =>
                           v[1].at = today /\ t.date = today /\ (s.cert = c => s.date # today)
                     /\ v[1].kind # "expired" =>
                           v[1].at = t.warned /\ (s.cert = c => v[1].at < s.warned)
<1> DEFINE n == ForCert(s, c)
           t == CertSeen(s, c).st
           v == CertSeen(s, c).msg
<1> USE DEF WebStates
<1>1. /\ n \in WebStates /\ n.cert = c
      /\ n.state = s.state /\ n.up = s.up /\ n.down = s.down
      /\ s.cert = c => n = s
      /\ s.cert # c => n.date = 0
  <2>1. CASE s.cert = c
    BY <2>1 DEF ForCert
  <2>2. CASE s.cert # c
    <3>1. n = [s EXCEPT !.cert = c, !.warned = Greatest(ExpiringDays) + 1, !.date = 0]
      BY <2>2 DEF ForCert
    <3>2. Greatest(ExpiringDays) + 1 \in Nat
      BY WebConstants
    <3> HIDE DEF n
    <3> QED  BY <2>2, <3>1, <3>2
  <2> QED  BY <2>1, <2>2
<1>2. CASE c = 0
  BY <1>2 DEF CertSeen
<1>3. CASE c # 0 /\ Expired(c)
  <2>1. t = [n EXCEPT !.date = today]
    BY <1>3 DEF CertSeen
  <2>2. v = IF n.date = today THEN <<>> ELSE <<[kind |-> "expired", cert |-> c, at |-> today]>>
    BY <1>3 DEF CertSeen
  <2>3. CASE n.date = today
    <3>1. v = <<>>
      BY <2>2, <2>3
    <3> HIDE DEF n, v, t
    <3>2. /\ t \in WebStates /\ t.cert = c /\ t.date = today /\ t.warned = n.warned
          /\ t.state = s.state /\ t.up = s.up /\ t.down = s.down
      BY <1>1, <2>1
    <3> QED  BY <1>1, <1>3, <3>1, <3>2 DEF t, v
  <2>4. CASE n.date # today
    <3>1. v = <<[kind |-> "expired", cert |-> c, at |-> today]>>
      BY <2>2, <2>4
    <3> HIDE DEF n, v, t
    <3>2. v \in Seq(Warnings) /\ Len(v) = 1 /\ v[1].kind = "expired" /\ v[1].cert = c /\ v[1].at = today
      BY <3>1 DEF Warnings
    <3>3. /\ t \in WebStates /\ t.cert = c /\ t.date = today /\ t.warned = n.warned
          /\ t.state = s.state /\ t.up = s.up /\ t.down = s.down
      BY <1>1, <2>1
    <3> QED  BY <1>1, <1>3, <2>4, <3>2, <3>3 DEF t, v
  <2> QED  BY <2>3, <2>4
<1>4. CASE c # 0 /\ ~Expired(c) /\ Due(n, c) = {}
  <2>1. t = n /\ v = <<>>
    BY <1>4 DEF CertSeen
  <2> HIDE DEF n, v, t
  <2> QED  BY <1>1, <1>4, <2>1 DEF t, v
<1>5. CASE c # 0 /\ ~Expired(c) /\ Due(n, c) # {}
  <2> DEFINE g == Greatest(Due(n, c))
  <2>1. t = [n EXCEPT !.warned = g] /\ v = <<[kind |-> "expiring", cert |-> c, at |-> g]>>
    BY <1>5 DEF CertSeen
  <2>2. g \in Due(n, c)
    BY <1>5, WebConstants DEF Due
  <2>3. g \in Nat /\ g < n.warned
    BY <2>2, WebConstants DEF Due
  <2> HIDE DEF n, v, t, g
  <2>4. v \in Seq(Warnings) /\ Len(v) = 1 /\ v[1].kind = "expiring" /\ v[1].cert = c /\ v[1].at = g
    BY <2>1, <2>3 DEF Warnings
  <2>5. t \in WebStates /\ t.warned = g /\ t.cert = c /\ t.date = n.date
        /\ t.state = s.state /\ t.up = s.up /\ t.down = s.down
    BY <1>1, <2>1, <2>3
  <2>6. s.cert = c => n.warned = s.warned /\ n.date = s.date
    BY <1>1
  <2> QED  BY <1>1, <1>5, <2>3, <2>4, <2>5, <2>6 DEF t, v
<1> QED  BY <1>2, <1>3, <1>4, <1>5

\* What a probe does, with s the state after the state machine, u and v what is
\* said of the web and of its certificate.
LEMMA ProbeFacts ==
    ASSUME WebTyped, WebCounts, Probe
    PROVE  \E ok \in BOOLEAN, c \in Nat, s \in WebStates, u \in Seq(Changes), v \in Seq(Warnings) :
              /\ s = AfterProbe(web, ok)
              /\ c = kept \/ c = served \/ c = 0
              /\ web' = CertSeen(s, c).st
              /\ v = CertSeen(s, c).msg
              /\ u = ChangeMsg(web, s)
              /\ Len(u) <= 1 /\ Len(v) <= 1
              /\ Len(u) = 1 => u[1].kind = s.state /\ s.state \in {"down", "up"} /\ s.state # web.state
              /\ Len(u) = 0 => (web.state = "down" <=> s.state = "down")
              /\ webOut' = u \o v
              /\ kept' = c \/ (c = 0 /\ kept' = kept)
              /\ row' = IF ok THEN [ok |-> Streak(row.ok, UpRepeats), failed |-> 0]
                        ELSE [ok |-> 0, failed |-> Streak(row.failed, DownRepeats)]
              /\ shaky' = IF ok THEN web.state = "unknown" /\ web.down > 0 ELSE shaky
<1>1. PICK r \in Results :
        LET s == AfterProbe(web, r.ok)
            c == CertSeen(s, r.cert)
        IN  /\ web' = c.st
            /\ webOut' = ChangeMsg(web, s) \o c.msg
            /\ kept' \in IF r.cert = 0 THEN {0, kept} ELSE {r.cert}
            /\ row' = IF r.ok THEN [ok |-> Streak(row.ok, UpRepeats), failed |-> 0]
                      ELSE [ok |-> 0, failed |-> Streak(row.failed, DownRepeats)]
            /\ shaky' = IF r.ok THEN web.state = "unknown" /\ web.down > 0 ELSE shaky
  BY DEF Probe
<1>2. r.ok \in BOOLEAN /\ r.cert \in Nat /\ (r.cert = kept \/ r.cert = served \/ r.cert = 0)
  BY DEF Results, WebTyped
<1> DEFINE s == AfterProbe(web, r.ok)
           u == ChangeMsg(web, s)
           v == CertSeen(s, r.cert).msg
<1>3. s \in WebStates
  BY <1>2, AfterProbeFacts DEF WebTyped, WebCounts
<1>4. v \in Seq(Warnings) /\ Len(v) <= 1
  <2> HIDE DEF s
  <2> QED  BY <1>2, <1>3, CertSeenFacts DEF WebTyped
<1>5. /\ u \in Seq(Changes) /\ Len(u) <= 1
      /\ Len(u) = 1 => u[1].kind = s.state /\ s.state \in {"down", "up"} /\ s.state # web.state
      /\ Len(u) = 0 => (web.state = "down" <=> s.state = "down")
  <2>0. web.state \in {"unknown", "up", "down"} /\ s.state \in {"unknown", "up", "down"}
        /\ (web.state = "down" => s.state \in {"down", "up"})
    <3>1. web.state = "down" => s.state \in {"down", "up"}
      BY <1>2, AfterProbeFacts DEF WebTyped, WebCounts
    <3> HIDE DEF s
    <3> QED  BY <1>3, <3>1 DEF WebTyped, WebStates
  <2> HIDE DEF s
  <2>1. CASE s.state = "down" /\ web.state # "down"
    <3>1. u = <<[kind |-> "down"]>>
      BY <2>1 DEF ChangeMsg
    <3> QED  BY <2>1, <3>1 DEF Changes
  <2>2. CASE s.state = "up" /\ web.state = "down"
    <3>1. u = <<[kind |-> "up"]>>
      BY <2>2 DEF ChangeMsg
    <3> QED  BY <2>2, <3>1 DEF Changes
  <2>3. CASE web.state = "down" <=> s.state = "down"
    <3>1. u = <<>>
      BY <2>3 DEF ChangeMsg
    <3> QED  BY <2>3, <3>1
  <2> QED  BY <2>0, <2>1, <2>2, <2>3
<1> HIDE DEF u, v, s
<1>6. /\ web' = CertSeen(s, r.cert).st
      /\ webOut' = u \o v
      /\ kept' = r.cert \/ (r.cert = 0 /\ kept' = kept)
      /\ row' = IF r.ok THEN [ok |-> Streak(row.ok, UpRepeats), failed |-> 0]
                ELSE [ok |-> 0, failed |-> Streak(row.failed, DownRepeats)]
      /\ shaky' = IF r.ok THEN web.state = "unknown" /\ web.down > 0 ELSE shaky
  BY <1>1 DEF u, v, s
<1>7. s = AfterProbe(web, r.ok) /\ u = ChangeMsg(web, s) /\ v = CertSeen(s, r.cert).msg
  BY DEF s, u, v
<1> QED  BY <1>2, <1>3, <1>4, <1>5, <1>6, <1>7

LEMMA StreakFacts ==
    ASSUME NEW cap \in Nat, NEW n \in 0..cap
    PROVE  /\ Streak(n, cap) \in 0..cap
           /\ \A k \in Nat : k <= n /\ k < cap => k + 1 <= Streak(n, cap)
BY DEF Streak

LEMMA ProbeHolds ==
    WebInv /\ Probe => WebInv'
<1> SUFFICES ASSUME WebInv, Probe PROVE WebInv'
  OBVIOUS
<1> USE DEF WebInv
<1>1. PICK ok \in BOOLEAN, c \in Nat, s \in WebStates, u \in Seq(Changes), v \in Seq(Warnings) :
         /\ s = AfterProbe(web, ok)
         /\ c = kept \/ c = served \/ c = 0
         /\ web' = CertSeen(s, c).st
         /\ v = CertSeen(s, c).msg
         /\ u = ChangeMsg(web, s)
         /\ Len(u) <= 1 /\ Len(v) <= 1
         /\ Len(u) = 1 => u[1].kind = s.state /\ s.state \in {"down", "up"} /\ s.state # web.state
         /\ Len(u) = 0 => (web.state = "down" <=> s.state = "down")
         /\ webOut' = u \o v
         /\ kept' = c \/ (c = 0 /\ kept' = kept)
         /\ row' = IF ok THEN [ok |-> Streak(row.ok, UpRepeats), failed |-> 0]
                   ELSE [ok |-> 0, failed |-> Streak(row.failed, DownRepeats)]
         /\ shaky' = IF ok THEN web.state = "unknown" /\ web.down > 0 ELSE shaky
  BY ProbeFacts
<1>2. /\ webPhase = "idle" /\ webPhase' = "send" /\ webOut = <<>>
      /\ UNCHANGED <<today, served, webDisk, alert, warnings, rewarned, webMay, webMishaps>>
  BY DEF Probe, WebTyped
<1>3. /\ today \in Nat /\ served \in Nat /\ kept \in Nat
      /\ web \in WebStates /\ webDisk \in WebStates
      /\ row.ok \in 0..UpRepeats /\ row.failed \in 0..DownRepeats
      /\ UpRepeats \in Nat \ {0} /\ DownRepeats \in Nat \ {0}
      /\ warnings \subseteq Warnings
  BY WebConstants DEF WebTyped
<1>4. /\ web' \in WebStates /\ web'.state = s.state /\ web'.up = s.up /\ web'.down = s.down
      /\ v \in Seq(Warnings) /\ Len(v) <= 1
      /\ c = 0 => web' = s /\ v = <<>>
      /\ c # 0 => web'.cert = c
      /\ c # 0 /\ s.cert = c => web'.date \in {s.date, today} /\ web'.warned <= s.warned
      /\ c # 0 /\ s.cert # c => web'.date \in {0, today}
      /\ Len(v) = 1 =>
            /\ v[1].cert = c
            /\ v[1].kind = "expired" =>
                  v[1].at = today /\ web'.date = today /\ (s.cert = c => s.date # today)
            /\ v[1].kind # "expired" =>
                  v[1].at = web'.warned /\ (s.cert = c => v[1].at < s.warned)
  BY <1>1, <1>3, CertSeenFacts
<1>5. /\ s.cert = web.cert /\ s.warned = web.warned /\ s.date = web.date
      /\ s.state # "down" => s.down < DownRepeats /\ s.up = 0
      /\ s.state = "down" => s.up < UpRepeats /\ s.down = 0
      /\ web.state # "down" /\ s.state = "down" => ~ok /\ web.down + 1 = DownRepeats
      /\ web.state = "down" /\ s.state = "up" => ok /\ web.up + 1 = UpRepeats
      /\ web.state # "down" /\ ~ok => s.down <= web.down + 1
      /\ web.state = "down" => s.down = 0 /\ s.state \in {"down", "up"}
      /\ web.state = "up" /\ ok => s.down = 0 /\ s.state = "up"
      /\ web.state = "unknown" /\ ok => s.down = web.down /\ s.state = "up"
      /\ ok => s.up <= web.up + 1
      /\ ~ok => s.up = 0
  BY <1>1, <1>3, AfterProbeFacts DEF WebCounts
<1>6. /\ u \o v \in Seq(Changes \cup Warnings)
      /\ \A i \in DOMAIN (u \o v) :
            \/ i = 1 /\ Len(u) = 1 /\ (u \o v)[i] = u[1] /\ (u \o v)[i] \in Changes
            \/ i = Len(u) + 1 /\ Len(v) = 1 /\ (u \o v)[i] = v[1] /\ (u \o v)[i] \in Warnings
      /\ Len(u) = 1 => 1 \in DOMAIN (u \o v) /\ (u \o v)[1] = u[1]
      /\ Len(v) = 1 => Len(u) + 1 \in DOMAIN (u \o v) /\ (u \o v)[Len(u) + 1] = v[1]
  BY <1>1, JoinedMessages
<1>7. WebTyped'
  <2>1. row' \in [ok : 0..UpRepeats, failed : 0..DownRepeats]
    <3>1. Streak(row.ok, UpRepeats) \in 0..UpRepeats /\ Streak(row.failed, DownRepeats) \in 0..DownRepeats
      BY <1>3, StreakFacts
    <3> QED  BY <1>1, <1>3, <3>1
  <2> QED  BY <1>1, <1>2, <1>3, <1>4, <1>6, <2>1 DEF WebTyped
<1>8. WebOrdered'
  <2>1. \A m \in Changes \cup Warnings : m \in Changes <=> m \notin Warnings
    BY MessagesDiffer
  <2>2. \A i \in DOMAIN webOut' :
            \/ i = 1 /\ Len(u) = 1 /\ webOut'[i] = u[1] /\ webOut'[i] \in Changes
            \/ i = Len(u) + 1 /\ webOut'[i] \in Warnings
    BY <1>1, <1>6
  <2> QED  BY <1>1, <1>4, <2>1, <2>2 DEF WebOrdered
<1>9. WebCounts'
  BY <1>2, <1>4, <1>5 DEF WebCounts
<1>10. WebStreaks'
  <2> SUFFICES ASSUME ~WebHad({"crash", "unsaved"})
               PROVE  /\ web'.down <= row'.failed \/ shaky'
                      /\ web'.up <= row'.ok
                      /\ web'.state = "down" => alert' = "down" \/ ToSay("down")'
    BY <1>2 DEF WebStreaks, WebHad, WebNow
  <2>1. /\ web.down <= row.failed \/ shaky
        /\ web.up <= row.ok
        /\ web.state = "down" => alert = "down"
    BY <1>2 DEF WebStreaks, WebNow, ToSay
  <2>2. /\ web.state \in {"unknown", "up", "down"} /\ web.down \in Nat /\ web.up \in Nat
        /\ s.down \in Nat /\ s.up \in Nat
    BY <1>3 DEF WebStates
  <2>3. web'.down <= row'.failed \/ shaky'
    <3>1. CASE ok
      <4>1. row'.failed = 0 /\ (shaky' <=> web.state = "unknown" /\ web.down > 0)
        BY <1>1, <3>1
      <4> QED  BY <1>4, <1>5, <2>2, <3>1, <4>1
    <3>2. CASE ~ok
      <4>1. row'.failed = Streak(row.failed, DownRepeats) /\ (shaky' <=> shaky)
        BY <1>1, <3>2
      <4>2. row'.failed \in 0..DownRepeats
            /\ \A k \in Nat : k <= row.failed /\ k < DownRepeats => k + 1 <= row'.failed
        BY <1>3, <4>1, StreakFacts
      <4>3. web.state # "down" => web.down < DownRepeats
        BY DEF WebCounts
      <4> QED  BY <1>4, <1>5, <2>1, <2>2, <3>2, <4>1, <4>2, <4>3
    <3> QED  BY <3>1, <3>2
  <2>4. web'.up <= row'.ok
    <3>1. CASE ok
      <4>1. row'.ok = Streak(row.ok, UpRepeats)
        BY <1>1, <3>1
      <4>2. row'.ok \in 0..UpRepeats /\ \A k \in Nat : k <= row.ok /\ k < UpRepeats => k + 1 <= row'.ok
        BY <1>3, <4>1, StreakFacts
      <4>3. web.up < UpRepeats
        BY <1>3 DEF WebCounts
      <4> QED  BY <1>4, <1>5, <2>1, <2>2, <3>1, <4>2, <4>3
    <3>2. CASE ~ok
      BY <1>1, <1>4, <1>5, <2>2, <3>2
    <3> QED  BY <3>1, <3>2
  <2>5. web'.state = "down" => alert' = "down" \/ ToSay("down")'
    <3>0. Len(u) = 0 \/ Len(u) = 1
      BY ShortLength, <1>1
    <3>1. CASE Len(u) = 1
      BY <1>1, <1>4, <1>6, <3>1 DEF ToSay
    <3>2. CASE Len(u) = 0
      BY <1>1, <1>2, <1>4, <2>1, <3>2
    <3> QED  BY <3>0, <3>1, <3>2
  <2> QED  BY <2>3, <2>4, <2>5
<1>11. WebToldBack'
  <2> SUFFICES ASSUME ~WebHad({"crash", "unsaved", "badstate"}), alert = "down"
               PROVE  web'.state = "down" \/ ToSay("up")'
    BY <1>2 DEF WebToldBack, WebHad, WebNow
  <2>1. web.state = "down"
    BY <1>2 DEF WebToldBack, WebNow, ToSay
  <2>2. CASE Len(u) = 1
    BY <1>1, <1>4, <1>5, <1>6, <2>1, <2>2 DEF ToSay
  <2>3. CASE Len(u) = 0
    BY <1>1, <1>2, <1>4, <2>1, <2>3
  <2> QED  BY ShortLength, <1>1, <2>2, <2>3
<1>12. WarnedOnce'
  <2> SUFFICES ASSUME ~WebHad({"crash", "unsaved", "badstate", "swap"})
               PROVE  /\ ~rewarned'
                      /\ kept' # 0 => kept' = web'.cert
                      /\ web'.cert <= served'
                      /\ web'.date <= today'
                      /\ WarningsToSay' \cap warnings' = {}
                      /\ \A m \in warnings' \cup WarningsToSay' :
                            /\ m.cert <= web'.cert
                            /\ m.cert = web'.cert =>
                                  IF m.kind = "expired" THEN m.at <= web'.date ELSE web'.warned <= m.at
    BY <1>2 DEF WarnedOnce, WebHad, WebNow
  <2>1. /\ ~rewarned
        /\ kept # 0 => kept = web.cert
        /\ web.cert <= served
        /\ web.date <= today
        /\ \A m \in warnings :
              /\ m.cert <= web.cert
              /\ m.cert = web.cert =>
                    IF m.kind = "expired" THEN m.at <= web.date ELSE web.warned <= m.at
    BY <1>2 DEF WarnedOnce, WebNow
  <2>2. /\ web.cert \in Nat /\ web.date \in Nat /\ web.warned \in Nat
        /\ web'.cert \in Nat /\ web'.date \in Nat /\ web'.warned \in Nat
    BY <1>3, <1>4 DEF WebStates
  <2>3. \A m \in Warnings : m.kind \in {"expired", "expiring"} /\ m.cert \in Nat /\ m.at \in Nat
    BY DEF Warnings
  <2>4. c # 0 => c = web.cert \/ c > web.cert
    BY <1>1, <1>3, <2>1, <2>2
  <2>5. web'.cert = (IF c = 0 THEN web.cert ELSE c)
    BY <1>4, <1>5
  <2>6. /\ kept' # 0 => kept' = web'.cert
        /\ web'.cert <= served /\ web.cert <= web'.cert
        /\ web'.date <= today
    BY <1>1, <1>3, <1>4, <1>5, <2>1, <2>2, <2>4, <2>5, SMTT(30)
  <2>7. ASSUME NEW m \in warnings
        PROVE  /\ m.cert <= web'.cert
               /\ m.cert = web'.cert =>
                     IF m.kind = "expired" THEN m.at <= web'.date ELSE web'.warned <= m.at
    <3>1. m.cert \in Nat /\ m.at \in Nat /\ m.cert <= web.cert
      BY <1>3, <2>1, <2>3
    <3>2. CASE c = 0 \/ c # web.cert
      BY <1>4, <1>5, <2>1, <2>2, <2>4, <2>5, <2>6, <3>1, <3>2
    <3>3. CASE c # 0 /\ c = web.cert
      <4>1. web'.date \in {web.date, today} /\ web'.warned <= web.warned /\ web'.cert = web.cert
        BY <1>4, <1>5, <2>5, <3>3
      <4>2. web.date <= web'.date
        BY <1>3, <2>1, <2>2, <4>1
      <4> QED  BY <1>3, <2>1, <2>2, <3>1, <4>1, <4>2
    <3> QED  BY <3>2, <3>3
  <2>8. WarningsToSay' \subseteq {m \in Warnings : Len(v) = 1 /\ m = v[1]}
    <3>1. ASSUME NEW i \in DOMAIN webOut', webOut'[i] \in Warnings
          PROVE  Len(v) = 1 /\ webOut'[i] = v[1]
      BY <1>1, <1>6, <3>1, MessagesDiffer
    <3> QED  BY <3>1 DEF WarningsToSay
  <2>9. ASSUME NEW m \in WarningsToSay'
        PROVE  /\ m \notin warnings
               /\ m.cert <= web'.cert
               /\ m.cert = web'.cert =>
                     IF m.kind = "expired" THEN m.at <= web'.date ELSE web'.warned <= m.at
    <3>1. /\ Len(v) = 1 /\ m = v[1] /\ m \in Warnings /\ m.cert = c
          /\ m.kind \in {"expired", "expiring"} /\ m.at \in Nat
      BY <1>4, <2>3, <2>8
    <3>2. c # 0
      <4>1. v = <<>> => Len(v) = 0
        OBVIOUS
      <4> QED  BY <1>4, <3>1, <4>1
    <3>3. CASE m.kind = "expired"
      <4>1. m.at = today /\ web'.date = today /\ (web.cert = c => web.date # today)
        BY <1>4, <1>5, <3>1, <3>3
      <4>2. m \notin warnings
        <5> SUFFICES ASSUME m \in warnings PROVE FALSE
          OBVIOUS
        <5>1. m.cert = web.cert /\ m.at <= web.date
          BY <2>1, <2>2, <2>4, <3>1, <3>2, <3>3
        <5> QED  BY <1>3, <2>1, <2>2, <3>1, <4>1, <5>1
      <4> QED  BY <1>3, <2>2, <2>5, <3>1, <3>2, <3>3, <4>1, <4>2
    <3>4. CASE m.kind = "expiring"
      <4>1. m.at = web'.warned /\ (web.cert = c => m.at < web.warned)
        BY <1>4, <1>5, <3>1, <3>4
      <4>2. m \notin warnings
        <5> SUFFICES ASSUME m \in warnings PROVE FALSE
          OBVIOUS
        <5>1. m.cert = web.cert /\ web.warned <= m.at
          BY <2>1, <2>2, <2>4, <3>1, <3>2, <3>4
        <5> QED  BY <2>2, <3>1, <4>1, <5>1
      <4> QED  BY <2>2, <2>5, <3>1, <3>2, <3>4, <4>1, <4>2
    <3> QED  BY <3>1, <3>3, <3>4
  <2> QED  BY <1>2, <2>1, <2>6, <2>7, <2>9
<1> QED  BY <1>7, <1>8, <1>9, <1>10, <1>11, <1>12

LEMMA WebSaved ==
    SaveWeb => /\ webDisk' = web \/ (webDisk' = webDisk /\ "unsaved" \in webMishaps')
               /\ webMishaps \subseteq webMishaps'
BY DEF SaveWeb, WebMishap

\* A process that was started or has ended, and the saves: the state goes on from
\* what the file has, or the loss of it is on record.
LEMMA WebProcessHolds ==
    WebInv /\ (WebBoot \/ WebExit \/ WebCrash \/ WebPolled) => WebInv'
<1> SUFFICES ASSUME WebInv, WebBoot \/ WebExit \/ WebCrash \/ WebPolled PROVE WebInv'
  OBVIOUS
<1> USE DEF WebInv
<1>1. /\ UNCHANGED <<today, served, row, shaky, alert, warnings, rewarned>>
      /\ webOut = <<>> \/ (WebCrash /\ "crash" \in webMishaps')
      /\ webOut' = <<>>
      /\ kept' = kept \/ kept' = 0
      /\ webMishaps \subseteq webMishaps'
  BY WebSaved DEF WebBoot, WebExit, WebCrash, WebPolled, WebGone, WebMishap, WebTyped
<1>2. FreshWeb \in WebStates /\ FreshWeb.state = "unknown" /\ FreshWeb.up = 0 /\ FreshWeb.down = 0
      /\ FreshWeb.cert = 0 /\ FreshWeb.date = 0
  BY DEF FreshWeb, WebStates
<1>3. /\ web' \in {web, webDisk, FreshWeb} /\ webDisk' \in {web, webDisk}
      /\ webPhase' \in {"off", "idle"}
  BY WebSaved DEF WebBoot, WebExit, WebCrash, WebPolled, WebGone
<1>4. \/ WebNow' = WebNow
      \/ "crash" \in webMishaps' \/ "unsaved" \in webMishaps'
      \/ "badstate" \in webMishaps' /\ WebNow' = FreshWeb
  <2>1. CASE WebBoot
    BY <2>1 DEF WebBoot, WebNow, WebMishap
  <2>2. CASE WebExit
    BY <2>2, WebSaved DEF WebExit, WebGone, WebNow
  <2>3. CASE WebCrash
    BY <2>3 DEF WebCrash, WebMishap
  <2>4. CASE WebPolled
    BY <2>4 DEF WebPolled, WebNow
  <2> QED  BY <2>1, <2>2, <2>3, <2>4
<1>5. WebTyped'
  BY <1>1, <1>2, <1>3 DEF WebTyped
<1>6. WebOrdered'
  BY <1>1 DEF WebOrdered
<1>7. WebCounts'
  BY <1>2, <1>3, WebConstants DEF WebCounts
<1>8. ~ToSay("down")' /\ ~ToSay("up")' /\ WarningsToSay' = {}
  BY <1>1 DEF ToSay, WarningsToSay
<1>9. webOut = <<>> => ~ToSay("down") /\ ~ToSay("up") /\ WarningsToSay = {}
  BY DEF ToSay, WarningsToSay
<1>10. WebStreaks'
  <2> SUFFICES ASSUME ~WebHad({"crash", "unsaved"})'
               PROVE  /\ WebNow'.down <= row'.failed \/ shaky'
                      /\ WebNow'.up <= row'.ok
                      /\ WebNow'.state = "down" => alert' = "down" \/ ToSay("down")'
    BY DEF WebStreaks
  <2>1. ~WebHad({"crash", "unsaved"}) /\ webOut = <<>> /\ (WebNow' = WebNow \/ WebNow' = FreshWeb)
    BY <1>1, <1>4 DEF WebHad
  <2>2. row.failed \in Nat /\ row.ok \in Nat
    BY WebConstants DEF WebTyped
  <2> QED  BY <1>1, <1>2, <1>9, <2>1, <2>2 DEF WebStreaks
<1>11. WebToldBack'
  <2> SUFFICES ASSUME ~WebHad({"crash", "unsaved", "badstate"})', alert' = "down"
               PROVE  WebNow'.state = "down"
    BY DEF WebToldBack
  <2>1. ~WebHad({"crash", "unsaved", "badstate"}) /\ webOut = <<>> /\ WebNow' = WebNow
    BY <1>1, <1>4 DEF WebHad
  <2> QED  BY <1>1, <1>9, <2>1 DEF WebToldBack
<1>12. WarnedOnce'
  <2> SUFFICES ASSUME ~WebHad({"crash", "unsaved", "badstate", "swap"})'
               PROVE  WarnedOnce'
    BY DEF WarnedOnce
  <2>1. ~WebHad({"crash", "unsaved", "badstate", "swap"}) /\ webOut = <<>> /\ WebNow' = WebNow
    BY <1>1, <1>4 DEF WebHad
  <2> QED  BY <1>1, <1>8, <1>9, <2>1 DEF WarnedOnce
<1> QED  BY <1>5, <1>6, <1>7, <1>10, <1>11, <1>12

LEMMA PostWebHolds ==
    WebInv /\ PostWeb => WebInv'
<1> SUFFICES ASSUME WebInv, PostWeb PROVE WebInv'
  OBVIOUS
<1> USE DEF WebInv
<1> DEFINE m == Head(webOut)
<1>1. /\ webOut # <<>> /\ webOut' = Tail(webOut)
      /\ webPhase = "send"
      /\ UNCHANGED <<today, served, kept, web, webDisk, webPhase, row, shaky, webMay, webMishaps>>
  BY DEF PostWeb
<1>2. webOut \in Seq(Changes \cup Warnings)
  BY DEF WebTyped
<1>3. /\ m \in Changes \cup Warnings /\ m = webOut[1] /\ 1 \in DOMAIN webOut
      /\ webOut' \in Seq(Changes \cup Warnings)
      /\ \A i \in DOMAIN webOut' : webOut'[i] = webOut[i + 1] /\ i + 1 \in DOMAIN webOut /\ i >= 1
  BY <1>1, <1>2
<1>4. \A i \in DOMAIN webOut : i = 1 \/ (i - 1 \in DOMAIN webOut' /\ webOut'[i - 1] = webOut[i])
  <2> TAKE i \in DOMAIN webOut
  <2>1. i \in 1..Len(webOut) /\ Len(webOut') = Len(webOut) - 1 /\ Len(webOut) \in Nat /\ DOMAIN webOut' = 1..Len(webOut')
    BY <1>1, <1>2
  <2>2. ASSUME i # 1 PROVE i - 1 \in DOMAIN webOut'
    BY <2>1, <2>2
  <2> QED  BY <1>3, <2>1, <2>2
<1>5. \/ /\ m \in Changes /\ alert' = m.kind /\ UNCHANGED <<warnings, rewarned>>
      \/ /\ m \in Warnings /\ alert' = alert
         /\ warnings' = warnings \cup {m}
         /\ rewarned' <=> (rewarned \/ m \in warnings)
  <2>1. m \in Changes => m.kind \in {"down", "up"}
    BY DEF Changes
  <2>2. m \in Warnings => m.kind \notin {"down", "up"}
    BY DEF Warnings
  <2> HIDE DEF m
  <2>3. IF m.kind \in {"down", "up"}
        THEN alert' = m.kind /\ UNCHANGED <<warnings, rewarned>>
        ELSE /\ rewarned' = (rewarned \/ m \in warnings)
             /\ warnings' = warnings \cup {m}
             /\ UNCHANGED alert
    BY DEF PostWeb, m
  <2> QED  BY <1>3, <2>1, <2>2, <2>3
<1> HIDE DEF m
<1>6. WebTyped'
  <2>1. m \in Changes => m.kind \in {"down", "up"}
    BY DEF Changes
  <2> QED  BY <1>1, <1>3, <1>5, <2>1 DEF WebTyped
<1>7. WebOrdered'
  <2>1. \A i \in DOMAIN webOut' : webOut'[i] \notin Changes
    <3> TAKE i \in DOMAIN webOut'
    <3>1. i \in Nat
      BY <1>3
    <3>2. webOut[i + 1] \in Changes => i + 1 = 1
      BY <1>3 DEF WebOrdered
    <3> QED  BY <1>3, <3>1, <3>2
  <2>2. ASSUME NEW i \in DOMAIN webOut', NEW j \in DOMAIN webOut', webOut'[i] \in Warnings, webOut'[j] \in Warnings
        PROVE  i = j
    <3>1. i + 1 = j + 1
      BY <1>3, <2>2 DEF WebOrdered
    <3>2. i \in Nat /\ j \in Nat
      BY <1>3
    <3> QED  BY <3>1, <3>2
  <2> QED  BY <2>1, <2>2 DEF WebOrdered
<1>8. WebCounts'
  BY <1>1 DEF WebCounts
<1>9. \A k \in {"down", "up"} : ToSay(k) => m.kind = k \/ ToSay(k)'
  BY <1>3, <1>4 DEF ToSay
<1>10. m \in Changes => m.kind = web.state /\ m.kind \in {"down", "up"}
  BY <1>3 DEF WebOrdered, Changes
<1>11. m \in Warnings => m.kind \notin {"down", "up"}
  BY DEF Warnings
<1>12. WebStreaks'
  <2> SUFFICES ASSUME ~WebHad({"crash", "unsaved"})'
               PROVE  /\ WebNow'.down <= row'.failed \/ shaky'
                      /\ WebNow'.up <= row'.ok
                      /\ WebNow'.state = "down" => alert' = "down" \/ ToSay("down")'
    BY DEF WebStreaks
  <2>1. /\ WebNow' = web /\ WebNow = web /\ ~WebHad({"crash", "unsaved"})
    BY <1>1 DEF WebNow, WebHad
  <2>2. /\ web.down <= row.failed \/ shaky
        /\ web.up <= row.ok
        /\ web.state = "down" => alert = "down" \/ ToSay("down")
    BY <2>1 DEF WebStreaks
  <2> QED  BY <1>1, <1>3, <1>5, <1>9, <1>10, <1>11, <2>1, <2>2
<1>13. WebToldBack'
  <2> SUFFICES ASSUME ~WebHad({"crash", "unsaved", "badstate"})', alert' = "down"
               PROVE  WebNow'.state = "down" \/ ToSay("up")'
    BY DEF WebToldBack
  <2>1. /\ WebNow' = web /\ WebNow = web /\ ~WebHad({"crash", "unsaved", "badstate"})
    BY <1>1 DEF WebNow, WebHad
  <2>2. alert = "down" => web.state = "down" \/ ToSay("up")
    BY <2>1 DEF WebToldBack
  <2> QED  BY <1>5, <1>9, <1>10, <1>11, <2>1, <2>2
<1>14. WarnedOnce'
  <2> SUFFICES ASSUME ~WebHad({"crash", "unsaved", "badstate", "swap"})'
               PROVE  WarnedOnce'
    BY DEF WarnedOnce
  <2>1. /\ WebNow' = web /\ WebNow = web /\ ~WebHad({"crash", "unsaved", "badstate", "swap"})
    BY <1>1 DEF WebNow, WebHad
  <2>2. WarningsToSay' \subseteq WarningsToSay /\ (m \in Warnings => m \in WarningsToSay)
    BY <1>3 DEF WarningsToSay
  <2>3. m \in Warnings => m \notin WarningsToSay'
    <3> SUFFICES ASSUME m \in Warnings, NEW i \in DOMAIN webOut', webOut'[i] = m PROVE FALSE
      BY DEF WarningsToSay
    <3>1. webOut[i + 1] = m /\ i + 1 \in DOMAIN webOut /\ i \in Nat /\ i >= 1
      BY <1>3
    <3>2. i + 1 = 1
      BY <1>3, <3>1 DEF WebOrdered
    <3> QED  BY <3>1, <3>2
  <2>4. warnings' \cup WarningsToSay' \subseteq warnings \cup WarningsToSay
    BY <1>5, <2>2
  <2>5. ~rewarned' /\ WarningsToSay' \cap warnings' = {}
    BY <1>5, <2>1, <2>2, <2>3 DEF WarnedOnce
  <2> QED  BY <1>1, <2>1, <2>4, <2>5 DEF WarnedOnce
<1> QED  BY <1>6, <1>7, <1>8, <1>12, <1>13, <1>14

\* Time, and the certificate that is served.
LEMMA WebOutsideHolds ==
    WebInv /\ (NextDay \/ Renew) => WebInv'
<1> SUFFICES ASSUME WebInv, NextDay \/ Renew PROVE WebInv'
  OBVIOUS
<1> USE DEF WebInv
<1>1. /\ UNCHANGED <<kept, web, webDisk, webPhase, webOut, row, shaky, alert, warnings, rewarned>>
      /\ webMishaps \subseteq webMishaps'
      /\ today' \in Nat /\ today <= today'
      /\ served' \in Nat /\ (served <= served' \/ "swap" \in webMishaps')
  <2>1. CASE NextDay
    BY <2>1 DEF NextDay, WebTyped
  <2>2. CASE Renew
    <3>1. PICK c \in Certs \ {served} : served' = c /\ IF c > served THEN UNCHANGED webMishaps ELSE WebMishap("swap")
      BY <2>2 DEF Renew
    <3>2. c \in Nat /\ served \in Nat /\ today \in Nat
      BY WebConstants DEF WebTyped
    <3> QED  BY <2>2, <3>1, <3>2 DEF Renew, WebMishap
  <2> QED  BY <2>1, <2>2
<1>2. WebNow' = WebNow /\ WarningsToSay' = WarningsToSay /\ \A k \in {"down", "up"} : ToSay(k)' <=> ToSay(k)
  BY <1>1 DEF WebNow, WarningsToSay, ToSay
<1>3. WebTyped' /\ WebOrdered' /\ WebCounts'
  BY <1>1 DEF WebTyped, WebOrdered, WebCounts
<1>4. WebStreaks' /\ WebToldBack'
  BY <1>1, <1>2 DEF WebStreaks, WebToldBack, WebHad
<1>5. WarnedOnce'
  <2> SUFFICES ASSUME ~WebHad({"crash", "unsaved", "badstate", "swap"})'
               PROVE  WarnedOnce'
    BY DEF WarnedOnce
  <2>1. ~WebHad({"crash", "unsaved", "badstate", "swap"}) /\ served <= served'
    BY <1>1 DEF WebHad
  <2>2. WebNow.cert \in Nat /\ WebNow.date \in Nat /\ served \in Nat /\ today \in Nat
    BY DEF WebNow, WebTyped, WebStates
  <2>3. WebNow.cert <= served' /\ WebNow.date <= today'
    BY <1>1, <2>1, <2>2 DEF WarnedOnce
  <2> QED  BY <1>1, <1>2, <2>1, <2>3 DEF WarnedOnce
<1> QED  BY <1>3, <1>4, <1>5

LEMMA WebInvHolds ==
    WebInv /\ WebNext => WebInv'
BY ProbeHolds, WebProcessHolds, PostWebHolds, WebOutsideHolds DEF WebNext

\* A change is declared by a probe alone, of a web that is not in that state.
LEMMA WebDeserves ==
    WebInv /\ WebNext => ChangeDeserved
<1> SUFFICES ASSUME WebInv, WebNext, NEW k \in {"down", "up"}, Declares(k)
             PROVE  /\ k = "down" =>
                          /\ row'.failed = DownRepeats \/ shaky \/ WebHad({"crash", "unsaved"})
                          /\ alert # "down" \/ WebHad({"crash", "unsaved", "badstate"})
                    /\ k = "up" =>
                          /\ row'.ok = UpRepeats \/ WebHad({"crash", "unsaved"})
                          /\ alert = "down" \/ WebHad({"crash", "unsaved"})
  <2> HIDE DEF WebInv, WebNext, Declares
  <2> QED  BY DEF ChangeDeserved
<1> USE DEF WebInv
<1>1. Probe /\ webPhase = "idle"
  BY DEF Declares, WebNext, WebBoot, WebExit, WebCrash, WebGone, PostWeb, WebPolled, NextDay, Renew
<1>2. webOut = <<>> /\ ~ToSay("down") /\ ~ToSay("up") /\ WebNow = web
  BY <1>1 DEF WebTyped, ToSay, WebNow
<1>3. PICK ok \in BOOLEAN, c \in Nat, s \in WebStates, u \in Seq(Changes), v \in Seq(Warnings) :
         /\ s = AfterProbe(web, ok)
         /\ c = kept \/ c = served \/ c = 0
         /\ web' = CertSeen(s, c).st
         /\ v = CertSeen(s, c).msg
         /\ u = ChangeMsg(web, s)
         /\ Len(u) <= 1 /\ Len(v) <= 1
         /\ Len(u) = 1 => u[1].kind = s.state /\ s.state \in {"down", "up"} /\ s.state # web.state
         /\ Len(u) = 0 => (web.state = "down" <=> s.state = "down")
         /\ webOut' = u \o v
         /\ kept' = c \/ (c = 0 /\ kept' = kept)
         /\ row' = IF ok THEN [ok |-> Streak(row.ok, UpRepeats), failed |-> 0]
                   ELSE [ok |-> 0, failed |-> Streak(row.failed, DownRepeats)]
         /\ shaky' = IF ok THEN web.state = "unknown" /\ web.down > 0 ELSE shaky
  BY <1>1, ProbeFacts
<1>4. s.state = k /\ web.state # k /\ Len(u) = 1
  <2>1. PICK i \in DOMAIN (u \o v) : (u \o v)[i].kind = k
    BY <1>3 DEF Declares
  <2>2. \A m \in Warnings : m.kind \notin {"down", "up"}
    BY DEF Warnings
  <2>3. Len(u) = 1 /\ (u \o v)[i] = u[1]
    BY <1>3, <2>1, <2>2, JoinedMessages
  <2> QED  BY <1>3, <2>1, <2>3
<1>5. /\ web \in WebStates /\ web.up \in Nat /\ web.down \in Nat
      /\ row.ok \in 0..UpRepeats /\ row.failed \in 0..DownRepeats
  BY DEF WebTyped, WebStates
<1>6. /\ s.state # "down" => s.down < DownRepeats
      /\ web.state # "down" /\ s.state = "down" => ~ok /\ web.down + 1 = DownRepeats
      /\ web.state = "down" /\ s.state = "up" => ok /\ web.up + 1 = UpRepeats
      /\ web.state = "down" => s.state \in {"down", "up"}
  BY <1>3, <1>5, AfterProbeFacts DEF WebCounts
<1>7. CASE k = "down"
  <2>1. ~ok /\ web.down + 1 = DownRepeats /\ row'.failed = Streak(row.failed, DownRepeats)
    BY <1>3, <1>4, <1>6, <1>7
  <2>2. row.failed >= web.down => row'.failed = DownRepeats
    <3>0. DownRepeats \in Nat /\ web.down + 1 = DownRepeats /\ web.down < DownRepeats /\ row.failed \in Nat
      BY <1>5, <2>1, WebConstants
    <3>1. row'.failed \in 0..DownRepeats
      BY <1>5, <2>1, <3>0, StreakFacts
    <3>2. row.failed >= web.down => web.down + 1 <= row'.failed
      <4> HAVE row.failed >= web.down
      <4>1. web.down <= row.failed
        BY <1>5, <3>0
      <4> QED  BY <1>5, <2>1, <3>0, <4>1, StreakFacts
    <3>3. QED  BY <3>0, <3>1, <3>2
  <2>3. WebHad({"crash", "unsaved"}) \/ shaky \/ row.failed >= web.down
    BY <1>2, <1>5 DEF WebStreaks
  <2>4. alert # "down" \/ WebHad({"crash", "unsaved", "badstate"})
    BY <1>2, <1>4, <1>7 DEF WebToldBack
  <2> QED  BY <1>7, <2>2, <2>3, <2>4
<1>8. CASE k = "up"
  <2>0. web.state = "down"
    <3>0. u = <<>> => Len(u) = 0
      OBVIOUS
    <3>1. ASSUME web.state # "down" PROVE u = <<>>
      BY <1>3, <1>4, <1>8, <3>1 DEF ChangeMsg
    <3> QED  BY <1>4, <3>0, <3>1
  <2>1. ok /\ web.up + 1 = UpRepeats /\ row'.ok = Streak(row.ok, UpRepeats)
    BY <1>3, <1>4, <1>6, <1>8, <2>0
  <2>2. row.ok >= web.up => row'.ok = UpRepeats
    <3>0. UpRepeats \in Nat /\ web.up + 1 = UpRepeats /\ web.up < UpRepeats /\ row.ok \in Nat
      BY <1>5, <2>1, WebConstants
    <3>1. row'.ok \in 0..UpRepeats
      BY <1>5, <2>1, <3>0, StreakFacts
    <3>2. row.ok >= web.up => web.up + 1 <= row'.ok
      <4> HAVE row.ok >= web.up
      <4>1. web.up <= row.ok
        BY <1>5, <3>0
      <4> QED  BY <1>5, <2>1, <3>0, <4>1, StreakFacts
    <3>3. QED  BY <3>0, <3>1, <3>2
  <2>3. WebHad({"crash", "unsaved"}) \/ (row.ok >= web.up /\ alert = "down")
    BY <1>2, <1>5, <2>0 DEF WebStreaks
  <2> QED  BY <1>8, <2>2, <2>3
<1> QED  BY <1>7, <1>8

-----------------------------------------------------------------------------
(* redmine-monitor.                                                        *)

FeedStates == [at : Nat, ids : SUBSET Nat, etag : Nat, status : Statuses \cup {"none"},
               streak : 0..WarnAfter, warned : BOOLEAN]

Activities == [what : {"create", "note"} \cup Statuses, at : Nat \ {0}]

FeedTyped ==
    /\ acts \in Seq(Activities) /\ second \in Nat \ {0}
    /\ \A n \in DOMAIN acts : acts[n].at <= second
    /\ \A m, n \in DOMAIN acts : m <= n => acts[m].at <= acts[n].at
    /\ proj \in FeedStates /\ projDisk \in FeedStates
    /\ \A s \in {proj, projDisk} :
          /\ s.at <= second
          /\ \A n \in s.ids : n \in DOMAIN acts /\ acts[n].at = s.at
    /\ feedPhase \in {"off", "idle", "send"}
    /\ feedPhase = "off" => proj = FreshProject
    /\ feedOut \in Seq([act : Nat, action : Actions \cup {"blocked"}])
    /\ feedPhase # "send" => feedOut = <<>>
    /\ \A i \in DOMAIN feedOut : feedOut[i] = Warning \/ feedOut[i].act \in DOMAIN acts
    /\ \A i, j \in DOMAIN feedOut : i < j => feedOut[i].act < feedOut[j].act
    /\ said \subseteq DOMAIN acts /\ feedBase \subseteq DOMAIN acts
    /\ blocks \in 0..WarnAfter

\* The state that the monitor goes on from.
FeedNow == IF feedPhase = "off" THEN projDisk ELSE proj

\* The activities that s has passed are the first p, and s has the status that
\* the issue had after them.
Knows(s, p) ==
    /\ PassedActs(s) = 1..p
    /\ s.status = "closed" <=> StatusAfter(p) = "closed"

\* A watermark stands between two activities, with the status of the issue there.
FeedNamed ==
    ~FeedHad(FeedLimits) =>
        /\ \A s \in {proj, projDisk} : \E p \in 0..Len(acts) : Knows(s, p)
        /\ misnamed = {}
        /\ \A i \in DOMAIN feedOut, n \in DOMAIN acts :
              feedOut[i].act = n => feedOut[i].action = Rightly(n)

\* What was announced is behind the watermark, unless the first run is still to
\* come; an activity that left the feed does not return.
FeedOnce ==
    ~FeedHad({"crash", "unsaved"}) =>
        /\ saidAgain = {}
        /\ \/ FeedNow.at = 0 /\ FeedNow.etag = 0
           \/ \A n \in said \cup feedBase : n \in PassedActs(FeedNow) \/ n \notin Feed
        /\ \A n \in ToPost \ {0} : n \in PassedActs(proj) /\ n \notin said \cup feedBase

WarningToPost == \E i \in DOMAIN feedOut : feedOut[i] = Warning

\* The state has the streak of blocks, and whether it was warned of.
BlocksKnown ==
    ~FeedHad({"crash", "unsaved", "badstate"}) =>
        /\ ~unfounded
        /\ FeedNow.streak = blocks
        /\ FeedNow.warned <=> (warnedOf \/ WarningToPost)
        /\ WarningToPost => ~warnedOf /\ blocks >= WarnAfter

FeedInv == FeedTyped /\ FeedNamed /\ ActivitiesAnnounced /\ FeedOnce /\ BlocksKnown

LEMMA FeedConstants ==
    FeedLimit \in Nat \ {0} /\ WarnAfter \in Nat \ {0}
BY FeedAssumption

\* The activities of a part of the feed are finitely many numbers.
LEMMA SomeActs ==
    ASSUME FeedTyped, NEW S, S \subseteq DOMAIN acts
    PROVE  S \subseteq Nat /\ IsFiniteSet(S) /\ S \subseteq 1..Len(acts) /\ Len(acts) \in Nat
<1>1. acts \in Seq(Activities)
  BY DEF FeedTyped
<1>2. DOMAIN acts = 1..Len(acts) /\ Len(acts) \in Nat
  BY <1>1
<1>3. IsFiniteSet(1..Len(acts))
  BY <1>2, FS_Interval
<1>4. IsFiniteSet(S)
  BY <1>2, <1>3, FS_Subset
<1> QED  BY <1>2, <1>4

\* The status after n activities is the last that one of them set after the
\* first p, or that after these.
LEMMA StatusFrom ==
    ASSUME FeedTyped, NEW n \in 0..Len(acts), NEW p \in 0..n
    PROVE  LET S == {i \in p + 1 .. n : acts[i].what \in Statuses}
           IN  StatusAfter(n) = IF S = {} THEN StatusAfter(p) ELSE acts[Greatest(S)].what
<1> DEFINE S == {i \in p + 1 .. n : acts[i].what \in Statuses}
           A == {i \in 1..n : acts[i].what \in Statuses}
           B == {i \in 1..p : acts[i].what \in Statuses}
<1>0. acts \in Seq(Activities)
  BY DEF FeedTyped
<1>1. n \in Nat /\ p \in Nat /\ p <= n /\ Len(acts) \in Nat
  BY <1>0
<1>2. \A i \in 1..n : i \in 1..p \/ i \in p + 1 .. n
  BY <1>1
<1>3. p + 1 .. n \subseteq 1..n /\ 1..p \subseteq 1..n
  BY <1>1
<1>4. A = B \cup S
  BY <1>2, <1>3
<1>5. StatusAfter(n) = (IF A = {} THEN "open" ELSE acts[Greatest(A)].what)
      /\ StatusAfter(p) = (IF B = {} THEN "open" ELSE acts[Greatest(B)].what)
  BY DEF StatusAfter
<1>6. CASE S = {}
  <2>1. A = B
    BY <1>4, <1>6
  <2> HIDE DEF A, B
  <2> QED  BY <1>5, <1>6, <2>1
<1>7. CASE S # {}
  <2>1. Greatest(A) = Greatest(S)
    <3>1. /\ A \subseteq Nat /\ IsFiniteSet(A) /\ A # {}
          /\ S \subseteq Nat /\ IsFiniteSet(S)
      <4>1. A \subseteq DOMAIN acts /\ S \subseteq A
        BY <1>0, <1>1, <1>4
      <4> QED  BY <1>7, <4>1, SomeActs
    <3>2. \A i \in B, j \in S : i <= j
      BY <1>1
    <3> HIDE DEF A, B, S
    <3>3. Greatest(S) \in S /\ Greatest(A) \in A /\ (\A i \in S : i <= Greatest(S)) /\ (\A i \in A : i <= Greatest(A))
      BY <1>7, <3>1, GreatestNatural
    <3>4. Greatest(A) <= Greatest(S)
      BY <1>4, <3>2, <3>3
    <3>5. Greatest(S) <= Greatest(A)
      BY <1>4, <3>3
    <3>6. Greatest(S) \in Nat /\ Greatest(A) \in Nat
      BY <3>1, <3>3
    <3> QED  BY <3>4, <3>5, <3>6
  <2>2. A # {}
    BY <1>4, <1>7
  <2> HIDE DEF A
  <2> QED  BY <1>5, <1>7, <2>1, <2>2
<1> QED  BY <1>6, <1>7

\* The kinds of activities.
LEMMA ActivityKinds ==
    ASSUME FeedTyped, NEW n \in DOMAIN acts
    PROVE  /\ acts[n].what \in {"create", "note", "open", "closed"}
           /\ acts[n].at \in Nat \ {0}
           /\ \A status : Classified(status, n) \in Actions
           /\ acts[n].what \in Statuses => TitleStatus(n) = acts[n].what
           /\ acts[n].what = "note" => TitleStatus(n) = "none"
           /\ acts[n].what = "create" => TitleStatus(n) = StatusAfter(Len(acts))
           /\ \A u, v : (u = "closed" <=> v = "closed") \/ acts[n].what = "create" =>
                         Classified(u, n) = Classified(v, n)
<1>1. acts[n] \in Activities
  BY DEF FeedTyped
<1>2. acts[n].what \in {"create", "note", "open", "closed"} /\ acts[n].at \in Nat \ {0}
  BY <1>1 DEF Activities, Statuses
<1>3. \A status : Classified(status, n) \in Actions
  BY <1>2 DEF Classified, Actions
<1>4. /\ acts[n].what \in Statuses => TitleStatus(n) = acts[n].what
      /\ acts[n].what = "note" => TitleStatus(n) = "none"
      /\ acts[n].what = "create" => TitleStatus(n) = StatusAfter(Len(acts))
  BY DEF TitleStatus, Statuses
<1>5. ASSUME NEW u, NEW v, (u = "closed" <=> v = "closed") \/ acts[n].what = "create"
      PROVE  Classified(u, n) = Classified(v, n)
  BY <1>2, <1>5 DEF Classified
<1> QED  BY <1>2, <1>3, <1>4, <1>5

\* A status is known of any number of activities.
LEMMA StatusKnown ==
    ASSUME FeedTyped, NEW n \in 0..Len(acts)
    PROVE  StatusAfter(n) \in Statuses
<1> DEFINE A == {i \in 1..n : acts[i].what \in Statuses}
<1>0. acts \in Seq(Activities)
  BY DEF FeedTyped
<1>1. StatusAfter(n) = (IF A = {} THEN "open" ELSE acts[Greatest(A)].what)
  BY DEF StatusAfter
<1>2. A \subseteq DOMAIN acts
  BY <1>0
<1>3. A # {} => Greatest(A) \in A
  <2> HIDE DEF A
  <2> QED  BY <1>2, SomeActs, GreatestNatural
<1> QED  BY <1>1, <1>3 DEF Statuses

\* What happens at Redmine: an activity is added at the end, or none is.
LEMMA ActsGrow ==
    ASSUME FeedTyped, Redmine
    PROVE  /\ acts' \in Seq(Activities) /\ Len(acts) <= Len(acts') /\ Len(acts') \in Nat
           /\ DOMAIN acts' = 1..Len(acts') /\ DOMAIN acts \subseteq DOMAIN acts'
           /\ \A n \in DOMAIN acts : acts'[n] = acts[n]
           /\ \A n \in DOMAIN acts' : n \notin DOMAIN acts => acts'[n].at = second /\ n = Len(acts) + 1
           /\ second' \in Nat \ {0} /\ second <= second'
<1>1. acts \in Seq(Activities) /\ second \in Nat \ {0} /\ Len(acts) \in Nat /\ DOMAIN acts = 1..Len(acts)
  BY DEF FeedTyped
<1>2. CASE Happens
  <2>1. PICK what \in {"create", "note", "open", "closed"} : acts' = Append(acts, [what |-> what, at |-> second])
    BY <1>2 DEF Happens
  <2>2. [what |-> what, at |-> second] \in Activities
    BY <1>1, <2>1 DEF Activities, Statuses
  <2> DEFINE a == [what |-> what, at |-> second]
  <2>3. a.at = second
    OBVIOUS
  <2> HIDE DEF a
  <2>4. acts' \in Seq(Activities) /\ Len(acts') = Len(acts) + 1 /\ acts'[Len(acts) + 1] = a
        /\ \A n \in DOMAIN acts : acts'[n] = acts[n]
    BY <1>1, <2>1, <2>2 DEF a
  <2> QED  BY <1>1, <1>2, <2>3, <2>4 DEF Happens
<1>3. CASE UNCHANGED acts /\ (FeedTick \/ Anubis)
  BY <1>1, <1>3 DEF FeedTick, Anubis
<1> QED  BY <1>2, <1>3 DEF Redmine, FeedTick, Anubis

\* It changes nothing of what is known of those before.
LEMMA PastKept ==
    ASSUME FeedTyped, Redmine
    PROVE  /\ \A n \in 0..Len(acts) : StatusAfter(n)' = StatusAfter(n)
           /\ \A n \in DOMAIN acts : Rightly(n)' = Rightly(n)
           /\ \A s \in {proj, projDisk} : PassedActs(s)' = PassedActs(s)
           /\ PassedActs(proj)' = PassedActs(proj) /\ PassedActs(projDisk)' = PassedActs(projDisk)
           /\ \A n \in DOMAIN acts : n \notin Feed => n \notin Feed'
<1>1. acts \in Seq(Activities) /\ second \in Nat /\ Len(acts) \in Nat /\ DOMAIN acts = 1..Len(acts)
  BY DEF FeedTyped
<1>2. \A n \in 0..Len(acts) : StatusAfter(n)' = StatusAfter(n)
  <2> TAKE n \in 0..Len(acts)
  <2> DEFINE A == {i \in 1..n : acts[i].what \in Statuses}
             B == {i \in 1..n : acts'[i].what \in Statuses}
  <2>1. A = B
    <3>1. \A i \in 1..n : i \in DOMAIN acts
      BY <1>1
    <3> QED  BY <3>1, ActsGrow
  <2>2. StatusAfter(n) = (IF A = {} THEN "open" ELSE acts[Greatest(A)].what)
    BY DEF StatusAfter
  <2>3. StatusAfter(n)' = (IF B = {} THEN "open" ELSE acts'[Greatest(B)].what)
    BY DEF StatusAfter
  <2>4. A # {} => Greatest(A) \in DOMAIN acts
    <3>1. A \subseteq DOMAIN acts
      BY <1>1
    <3> HIDE DEF A
    <3> QED  BY <3>1, SomeActs, GreatestNatural
  <2> HIDE DEF A, B
  <2> QED  BY <2>1, <2>2, <2>3, <2>4, ActsGrow
<1>3. \A n \in DOMAIN acts : Rightly(n)' = Rightly(n)
  <2> TAKE n \in DOMAIN acts
  <2>1. n - 1 \in 0..Len(acts)
    BY <1>1
  <2>2. StatusAfter(n - 1)' = StatusAfter(n - 1) /\ acts'[n] = acts[n]
    BY <1>2, <2>1, ActsGrow
  <2> QED  BY <2>2 DEF Rightly, Classified
<1>4. ASSUME NEW s \in {proj, projDisk}
      PROVE  PassedActs(s)' = PassedActs(s)
  <2>1. s' = s /\ s.at <= second /\ s.ids \subseteq DOMAIN acts /\ s.at \in Nat
    BY DEF FeedTyped, FeedStates, Redmine
  <2>2. PassedActs(s) = {n \in DOMAIN acts : acts[n].at < s.at \/ n \in s.ids}
    BY DEF PassedActs
  <2>3. PassedActs(s)' = {n \in DOMAIN acts' : acts'[n].at < s.at \/ n \in s.ids}
    BY <2>1 DEF PassedActs
  <2>4. \A n \in DOMAIN acts' : n \notin DOMAIN acts => ~(acts'[n].at < s.at)
    BY <1>1, <2>1, ActsGrow
  <2> QED  BY <2>1, <2>2, <2>3, <2>4, ActsGrow
<1>5. \A n \in DOMAIN acts : n \notin Feed => n \notin Feed'
  <2> TAKE n \in DOMAIN acts
  <2>1. n \in Nat /\ FeedLimit \in Nat /\ Len(acts) \in Nat /\ Len(acts') \in Nat /\ Len(acts) <= Len(acts')
    BY <1>1, ActsGrow, FeedConstants
  <2> QED  BY <2>1 DEF Feed
<1>6. proj' = proj /\ projDisk' = projDisk
  BY DEF Redmine
<1>7. PassedActs(proj)' = PassedActs(proj) /\ PassedActs(projDisk)' = PassedActs(projDisk)
  BY <1>4, <1>6 DEF PassedActs
<1> QED  BY <1>2, <1>3, <1>4, <1>5, <1>7

LEMMA RedmineHolds ==
    FeedInv /\ Redmine => FeedInv'
<1> SUFFICES ASSUME FeedInv, Redmine PROVE FeedInv'
  OBVIOUS
<1> USE DEF FeedInv
<1>1. /\ UNCHANGED <<wanted, proj, projDisk, feedPhase, feedOut, said, saidAgain, misnamed,
                      feedBase, blocks, warnedOf, unfounded, feedMay, feedMishaps>>
      /\ FeedNow' = FeedNow /\ ToPost' = ToPost /\ (WarningToPost' <=> WarningToPost)
      /\ \A K : FeedHad(K)' <=> FeedHad(K)
  BY DEF Redmine, feedHist, blockHist, FeedNow, ToPost, WarningToPost, FeedHad, Warning
<1>2. FeedTyped /\ FeedNow \in {proj, projDisk}
  BY DEF FeedNow
<1>3. acts \in Seq(Activities) /\ second \in Nat /\ Len(acts) \in Nat /\ DOMAIN acts = 1..Len(acts)
  BY DEF FeedTyped
<1>4. FeedTyped'
  <2>1. \A n \in DOMAIN acts' : acts'[n].at \in Nat /\ acts'[n].at <= second'
    <3> TAKE n \in DOMAIN acts'
    <3>1. acts'[n] \in Activities
      BY <1>2, ActsGrow
    <3>2. acts'[n].at <= second
      <4>1. CASE n \in DOMAIN acts
        BY <1>2, <4>1, ActsGrow DEF FeedTyped
      <4>2. CASE n \notin DOMAIN acts
        BY <1>2, <1>3, <4>2, ActsGrow
      <4> QED  BY <4>1, <4>2
    <3>3. second' \in Nat /\ second <= second'
      BY <1>2, ActsGrow
    <3> QED  BY <1>3, <3>1, <3>2, <3>3 DEF Activities
  <2>2. ASSUME NEW m \in DOMAIN acts', NEW n \in DOMAIN acts', m <= n
        PROVE  acts'[m].at <= acts'[n].at
    <3>1. CASE n \in DOMAIN acts
      <4>1. m \in DOMAIN acts
        BY <1>2, <1>3, <2>2, <3>1, ActsGrow
      <4> QED  BY <1>2, <2>2, <3>1, <4>1, ActsGrow DEF FeedTyped
    <3>2. CASE n \notin DOMAIN acts
      <4>1. acts'[n].at = second
        BY <1>2, <3>2, ActsGrow
      <4>2. acts'[m].at <= second
        <5>1. CASE m \in DOMAIN acts
          BY <1>2, <5>1, ActsGrow DEF FeedTyped
        <5>2. CASE m \notin DOMAIN acts
          BY <1>2, <1>3, <5>2, ActsGrow
        <5> QED  BY <5>1, <5>2
      <4> QED  BY <4>1, <4>2
    <3> QED  BY <3>1, <3>2
  <2>3. ASSUME NEW s \in {proj, projDisk}
        PROVE  /\ s.at <= second'
               /\ \A n \in s.ids : n \in DOMAIN acts' /\ acts'[n].at = s.at
    <3>1. s.at \in Nat /\ s.at <= second /\ \A n \in s.ids : n \in DOMAIN acts /\ acts[n].at = s.at
      BY <1>2 DEF FeedTyped, FeedStates
    <3>2. second' \in Nat /\ second <= second'
      BY <1>2, ActsGrow
    <3> QED  BY <1>2, <1>3, <3>1, <3>2, ActsGrow
  <2>4. acts' \in Seq(Activities) /\ DOMAIN acts \subseteq DOMAIN acts' /\ second' \in Nat \ {0}
    BY <1>2, ActsGrow
  <2>5. \A i \in DOMAIN feedOut' : feedOut'[i] = Warning \/ feedOut'[i].act \in DOMAIN acts'
    BY <1>1, <1>2, <2>4 DEF FeedTyped
  <2>6. said' \subseteq DOMAIN acts' /\ feedBase' \subseteq DOMAIN acts'
    BY <1>1, <1>2, <2>4 DEF FeedTyped
  <2>7. /\ proj' \in FeedStates /\ projDisk' \in FeedStates
        /\ feedPhase' \in {"off", "idle", "send"}
        /\ feedPhase' = "off" => proj' = FreshProject
        /\ feedOut' \in Seq([act : Nat, action : Actions \cup {"blocked"}])
        /\ feedPhase' # "send" => feedOut' = <<>>
        /\ \A i, j \in DOMAIN feedOut' : i < j => feedOut'[i].act < feedOut'[j].act
        /\ blocks' \in 0..WarnAfter
    BY <1>1, <1>2 DEF FeedTyped, FreshProject
  <2>8. \A s \in {proj', projDisk'} :
           /\ s.at <= second'
           /\ \A n \in s.ids : n \in DOMAIN acts' /\ acts'[n].at = s.at
    BY <1>1, <2>3
  <2> QED  BY <2>1, <2>2, <2>4, <2>5, <2>6, <2>7, <2>8 DEF FeedTyped
<1>5. FeedNamed'
  <2> SUFFICES ASSUME ~FeedHad(FeedLimits)'
               PROVE  /\ \A s \in {proj, projDisk} : \E p \in 0..Len(acts') : Knows(s, p)'
                      /\ misnamed' = {}
                      /\ \A i \in DOMAIN feedOut, n \in DOMAIN acts' :
                            feedOut[i].act = n => feedOut[i].action = Rightly(n)'
    BY <1>1 DEF FeedNamed
  <2>1. ~FeedHad(FeedLimits)
    BY <1>1 DEF FeedLimits
  <2>2. ASSUME NEW s \in {proj, projDisk}
        PROVE  \E p \in 0..Len(acts') : Knows(s, p)'
    <3>1. PICK p \in 0..Len(acts) : Knows(s, p)
      BY <2>1, <2>2 DEF FeedNamed
    <3>2. p \in 0..Len(acts')
      BY <1>2, <1>3, <3>1, ActsGrow
    <3>3. Knows(s, p)'
      <4>1. PassedActs(s)' = 1..p
        BY <1>2, <2>2, <3>1, PastKept DEF Knows
      <4>2. StatusAfter(p)' = StatusAfter(p) /\ s' = s
        BY <1>1, <1>2, <2>2, <3>1, PastKept
      <4> QED  BY <3>1, <4>1, <4>2 DEF Knows
    <3> QED  BY <3>2, <3>3
  <2>3. ASSUME NEW i \in DOMAIN feedOut, NEW n \in DOMAIN acts', feedOut[i].act = n
        PROVE  feedOut[i].action = Rightly(n)'
    <3>1. n \in DOMAIN acts
      <4>1. n # 0
        BY <1>2, ActsGrow
      <4> QED  BY <1>2, <2>3, <4>1 DEF FeedTyped, Warning
    <3>2. feedOut[i].action = Rightly(n)
      BY <2>1, <2>3, <3>1 DEF FeedNamed
    <3> QED  BY <1>2, <3>1, <3>2, PastKept
  <2>4. misnamed' = {}
    BY <1>1, <2>1 DEF FeedNamed
  <2> QED  BY <2>2, <2>3, <2>4
<1>6. ActivitiesAnnounced'
  <2>1. \A n \in DOMAIN acts : n \in Unwanted => n \in Unwanted'
    <3> TAKE n \in DOMAIN acts
    <3>1. Rightly(n)' = Rightly(n) /\ n \in DOMAIN acts'
      BY <1>2, PastKept, ActsGrow
    <3> QED  BY <1>1, <3>1 DEF Unwanted
  <2>2. PassedActs(proj)' = PassedActs(proj) /\ PassedActs(projDisk)' = PassedActs(projDisk)
    BY <1>2, PastKept
  <2>3. Unwanted \subseteq Unwanted'
    BY <2>1 DEF Unwanted
  <2> QED  BY <1>1, <2>2, <2>3 DEF ActivitiesAnnounced, FeedLimits
<1>7. FeedOnce'
  <2> SUFFICES ASSUME ~FeedHad({"crash", "unsaved"})' PROVE FeedOnce'
    BY DEF FeedOnce
  <2>1. ~FeedHad({"crash", "unsaved"})
    BY <1>1
  <2>2. PassedActs(proj)' = PassedActs(proj) /\ PassedActs(FeedNow)' = PassedActs(FeedNow)
    <3>1. FeedNow = proj \/ FeedNow = projDisk
      BY DEF FeedNow
    <3>2. PassedActs(proj)' = PassedActs(proj) /\ PassedActs(projDisk)' = PassedActs(projDisk)
      BY <1>2, PastKept
    <3> QED  BY <1>1, <3>1, <3>2 DEF PassedActs
  <2>3. \A n \in said \cup feedBase : n \notin Feed => n \notin Feed'
    BY <1>2, PastKept DEF FeedTyped
  <2> QED  BY <1>1, <2>1, <2>2, <2>3 DEF FeedOnce
<1>8. BlocksKnown'
  BY <1>1 DEF BlocksKnown
<1> QED  BY <1>4, <1>5, <1>6, <1>7, <1>8

LEMMA ProjectSaved ==
    SaveProject => /\ projDisk' = proj \/ (projDisk' = projDisk /\ "unsaved" \in feedMishaps')
                   /\ feedMishaps \subseteq feedMishaps'
BY DEF SaveProject, FeedMishap

\* Before the first run nothing is passed, and nothing is known of the issue.
LEMMA FreshKnows ==
    ASSUME FeedTyped
    PROVE  FreshProject \in FeedStates /\ PassedActs(FreshProject) = {} /\ Knows(FreshProject, 0)
<1>1. FreshProject \in FeedStates /\ FreshProject.at = 0 /\ FreshProject.ids = {} /\ FreshProject.status = "none"
  BY FeedConstants DEF FreshProject, FeedStates
<1>2. \A n \in DOMAIN acts : acts[n].at \in Nat \ {0}
  BY ActivityKinds
<1>3. PassedActs(FreshProject) = {}
  BY <1>1, <1>2 DEF PassedActs
<1>4. StatusAfter(0) = "open"
  <2> DEFINE A == {i \in 1..0 : acts[i].what \in Statuses}
  <2>1. A = {}
    OBVIOUS
  <2>2. StatusAfter(0) = IF A = {} THEN "open" ELSE acts[Greatest(A)].what
    BY DEF StatusAfter
  <2> HIDE DEF A
  <2> QED  BY <2>1, <2>2
<1> QED  BY <1>1, <1>3, <1>4 DEF Knows

\* Starts, ends and saves: the state goes on from what the file has, or the loss
\* of it is on record.
LEMMA FeedProcessHolds ==
    FeedInv /\ (FeedBoot \/ FeedExit \/ FeedCrash \/ FeedPolled) => FeedInv'
<1> SUFFICES ASSUME FeedInv, FeedBoot \/ FeedExit \/ FeedCrash \/ FeedPolled PROVE FeedInv'
  OBVIOUS
<1> USE DEF FeedInv
<1>0. FeedTyped
  OBVIOUS
<1>1. /\ UNCHANGED <<acts, second, old, blocked, wanted, said, saidAgain, misnamed, feedBase,
                      blocks, warnedOf, unfounded>>
      /\ feedOut = <<>> \/ (FeedCrash /\ "crash" \in feedMishaps')
      /\ feedOut' = <<>>
      /\ feedMishaps \subseteq feedMishaps'
  <2>1. CASE FeedBoot
    BY <2>1 DEF FeedBoot, FeedMishap, FeedTyped, atRedmine, feedHist, blockHist
  <2>2. CASE FeedExit
    BY <2>2, ProjectSaved DEF FeedExit, FeedGone, FeedTyped, atRedmine, feedHist, blockHist
  <2>3. CASE FeedCrash
    BY <2>3 DEF FeedCrash, FeedGone, FeedMishap, FeedTyped, atRedmine, feedHist, blockHist
  <2>4. CASE FeedPolled
    BY <2>4, ProjectSaved DEF FeedPolled, FeedTyped, atRedmine, feedHist, blockHist
  <2> QED  BY <2>1, <2>2, <2>3, <2>4
<1>2. /\ proj' \in {proj, projDisk, FreshProject} /\ projDisk' \in {proj, projDisk}
      /\ feedPhase' \in {"off", "idle"}
      /\ feedPhase' = "off" => proj' = FreshProject
  BY ProjectSaved DEF FeedBoot, FeedExit, FeedCrash, FeedPolled, FeedGone
<1>3. \/ FeedNow' = FeedNow
      \/ "crash" \in feedMishaps' \/ "unsaved" \in feedMishaps'
      \/ "badstate" \in feedMishaps' /\ FeedNow' = FreshProject
  <2>1. CASE FeedBoot
    BY <2>1 DEF FeedBoot, FeedNow, FeedMishap
  <2>2. CASE FeedExit
    BY <2>2, ProjectSaved DEF FeedExit, FeedGone, FeedNow
  <2>3. CASE FeedCrash
    BY <2>3 DEF FeedCrash, FeedMishap
  <2>4. CASE FeedPolled
    BY <2>4 DEF FeedPolled, FeedNow
  <2> QED  BY <2>1, <2>2, <2>3, <2>4
<1>4. FeedTyped'
  <2>1. FreshProject \in FeedStates /\ FreshProject.at = 0 /\ FreshProject.ids = {}
    BY FreshKnows, <1>0 DEF FreshProject
  <2>2. \A s \in {proj', projDisk'} :
           /\ s \in FeedStates
           /\ s.at <= second
           /\ \A n \in s.ids : n \in DOMAIN acts /\ acts[n].at = s.at
    BY <1>0, <1>2, <2>1 DEF FeedTyped
  <2>3. feedOut' \in Seq([act : Nat, action : Actions \cup {"blocked"}]) /\ DOMAIN feedOut' = {}
    BY <1>1
  <2> QED  BY <1>0, <1>1, <1>2, <2>2, <2>3 DEF FeedTyped
<1>5. FeedNamed'
  <2> SUFFICES ASSUME ~FeedHad(FeedLimits)'
               PROVE  /\ \A s \in {proj', projDisk'} : \E p \in 0..Len(acts) : Knows(s, p)
                      /\ misnamed = {}
    <3>1. \A p : StatusAfter(p)' = StatusAfter(p)
      BY <1>1 DEF StatusAfter
    <3>2. ASSUME NEW s, NEW p PROVE Knows(s, p)' <=> Knows(s, p)
      BY <1>1, <3>1 DEF Knows, PassedActs
    <3>3. DOMAIN feedOut' = {}
      BY <1>1
    <3> QED  BY <1>1, <3>2, <3>3 DEF FeedNamed
  <2>1. ~FeedHad(FeedLimits)
    BY <1>1 DEF FeedHad, FeedLimits
  <2>2. Len(acts) \in Nat
    BY <1>0, SomeActs
  <2> QED  BY <1>0, <1>2, <2>1, <2>2, FreshKnows DEF FeedNamed
<1>6. ActivitiesAnnounced'
  <2> SUFFICES ASSUME ~FeedHad(FeedLimits)' PROVE ActivitiesAnnounced'
    BY DEF ActivitiesAnnounced
  <2>1. ~FeedHad(FeedLimits)
    BY <1>1 DEF FeedHad, FeedLimits
  <2>2. /\ PassedActs(projDisk) \subseteq feedBase \cup said \cup Unwanted
        /\ feedOut = <<>> => PassedActs(proj) \subseteq feedBase \cup said \cup Unwanted
    BY <2>1 DEF ActivitiesAnnounced, ToPost
  <2>3. projDisk' = projDisk \/ (feedOut = <<>> /\ projDisk' = proj)
    BY <1>1, <1>2 DEF FeedCrash
  <2>4. proj' = projDisk \/ proj' = FreshProject \/ (feedOut = <<>> /\ proj' = proj)
    BY <1>1, <1>2 DEF FeedCrash, FeedGone
  <2>5. PassedActs(proj') \subseteq feedBase \cup said \cup Unwanted
    BY <1>0, <2>2, <2>4, FreshKnows
  <2>6. PassedActs(projDisk') \subseteq feedBase \cup said \cup Unwanted
    BY <2>2, <2>3
  <2>7. PassedActs(proj)' = PassedActs(proj') /\ PassedActs(projDisk)' = PassedActs(projDisk')
    BY <1>1 DEF PassedActs
  <2>8. Unwanted' = Unwanted
    BY <1>1 DEF Unwanted, Rightly, Classified, StatusAfter
  <2> QED  BY <1>1, <2>5, <2>6, <2>7, <2>8 DEF ActivitiesAnnounced
<1>7. ToPost' = {} /\ ~WarningToPost'
  BY <1>1 DEF ToPost, WarningToPost
<1>8. FeedOnce'
  <2> SUFFICES ASSUME ~FeedHad({"crash", "unsaved"})' PROVE FeedOnce'
    BY DEF FeedOnce
  <2>1. ~FeedHad({"crash", "unsaved"}) /\ (FeedNow' = FeedNow \/ FeedNow' = FreshProject)
    BY <1>1, <1>3 DEF FeedHad
  <2>2. FreshProject.at = 0 /\ FreshProject.etag = 0
    BY DEF FreshProject
  <2>3. FeedNow' = FeedNow => PassedActs(FeedNow)' = PassedActs(FeedNow)
    BY <1>1 DEF PassedActs
  <2>4. Feed' = Feed
    BY <1>1 DEF Feed
  <2> QED  BY <1>1, <1>7, <2>1, <2>2, <2>3, <2>4 DEF FeedOnce
<1>9. BlocksKnown'
  <2> SUFFICES ASSUME ~FeedHad({"crash", "unsaved", "badstate"})' PROVE BlocksKnown'
    BY DEF BlocksKnown
  <2>1. ~FeedHad({"crash", "unsaved", "badstate"}) /\ FeedNow' = FeedNow /\ feedOut = <<>>
    BY <1>1, <1>3 DEF FeedHad
  <2>2. ~WarningToPost
    BY <2>1 DEF WarningToPost
  <2> QED  BY <1>1, <1>7, <2>1, <2>2 DEF BlocksKnown
<1> QED  BY <1>4, <1>5, <1>6, <1>8, <1>9

\* When nothing happens at Redmine, what is known of its past stays.
LEMMA PastSame ==
    ASSUME acts' = acts, wanted' = wanted
    PROVE  /\ \A n : StatusAfter(n)' = StatusAfter(n) /\ Rightly(n)' = Rightly(n)
           /\ \A s : PassedActs(s)' = PassedActs(s)
           /\ PassedActs(proj)' = PassedActs(proj') /\ PassedActs(projDisk)' = PassedActs(projDisk')
           /\ \A s, p : Knows(s, p)' <=> Knows(s, p)
           /\ Unwanted' = Unwanted /\ Feed' = Feed
<1>1. \A n : StatusAfter(n)' = StatusAfter(n)
  BY DEF StatusAfter
<1>2. \A n : Rightly(n)' = Rightly(n)
  BY <1>1 DEF Rightly, Classified
<1>3. \A s : PassedActs(s)' = PassedActs(s)
  BY DEF PassedActs
<1>4. PassedActs(proj)' = PassedActs(proj') /\ PassedActs(projDisk)' = PassedActs(projDisk')
  BY DEF PassedActs
<1>5. \A s, p : Knows(s, p)' <=> Knows(s, p)
  BY <1>1, <1>3 DEF Knows
<1>6. Unwanted' = Unwanted /\ Feed' = Feed
  BY <1>2 DEF Unwanted, Feed
<1> QED  BY <1>1, <1>2, <1>3, <1>4, <1>5, <1>6

LEMMA WarningFacts ==
    /\ Warning \in [act : Nat, action : Actions \cup {"blocked"}]
    /\ Warning.act = 0
BY DEF Warning

LEMMA PollBlockedHolds ==
    FeedInv /\ PollBlocked => FeedInv'
<1> SUFFICES ASSUME FeedInv, PollBlocked PROVE FeedInv'
  OBVIOUS
<1> USE DEF FeedInv
<1>0. FeedTyped
  OBVIOUS
<1>1. /\ UNCHANGED <<acts, second, wanted, projDisk, said, saidAgain, misnamed, feedBase,
                      warnedOf, unfounded, feedMishaps>>
      /\ feedPhase = "idle" /\ feedPhase' = "send" /\ feedOut = <<>>
      /\ feedOut' = IF WarningDue THEN <<Warning>> ELSE <<>>
      /\ blocks' = IF blocks < WarnAfter THEN blocks + 1 ELSE blocks
      /\ proj' = [proj EXCEPT !.streak = IF @ < WarnAfter THEN @ + 1 ELSE @,
                              !.warned = @ \/ WarningDue]
  BY DEF PollBlocked, FeedTyped, atRedmine, feedHist
<1>2. /\ proj \in FeedStates /\ proj.streak \in 0..WarnAfter /\ proj.warned \in BOOLEAN
      /\ WarnAfter \in Nat \ {0} /\ blocks \in 0..WarnAfter
  BY FeedConstants DEF FeedTyped, FeedStates
<1>3. /\ proj' \in FeedStates
      /\ proj'.at = proj.at /\ proj'.ids = proj.ids /\ proj'.etag = proj.etag /\ proj'.status = proj.status
      /\ proj'.streak = (IF proj.streak < WarnAfter THEN proj.streak + 1 ELSE proj.streak)
      /\ proj'.warned <=> (proj.warned \/ WarningDue)
  <2> DEFINE k == IF proj.streak < WarnAfter THEN proj.streak + 1 ELSE proj.streak
             w == proj.warned \/ WarningDue
  <2>1. k \in 0..WarnAfter /\ w \in BOOLEAN
    BY <1>2
  <2>2. proj' = [proj EXCEPT !.streak = k, !.warned = w]
    BY <1>1
  <2> HIDE DEF w, k
  <2>3. /\ proj' \in FeedStates
        /\ proj'.at = proj.at /\ proj'.ids = proj.ids /\ proj'.etag = proj.etag /\ proj'.status = proj.status
        /\ proj'.streak = k /\ proj'.warned = w
    BY <1>2, <2>1, <2>2 DEF FeedStates
  <2> QED  BY <2>3 DEF w, k
<1>4. DOMAIN feedOut' \subseteq {1} /\ \A i \in DOMAIN feedOut' : feedOut'[i] = Warning
  BY <1>1
<1>5. feedOut' \in Seq([act : Nat, action : Actions \cup {"blocked"}])
  <2> DEFINE Posts == [act : Nat, action : Actions \cup {"blocked"}]
  <2>1. Warning \in Posts
    BY WarningFacts
  <2> HIDE DEF Posts
  <2>2. <<Warning>> \in Seq(Posts) /\ <<>> \in Seq(Posts)
    BY <2>1
  <2>3. feedOut' = <<Warning>> \/ feedOut' = <<>>
    BY <1>1
  <2> QED  BY <2>2, <2>3 DEF Posts
<1>6. FeedTyped'
  <2>1. \A i, j \in DOMAIN feedOut' : ~(i < j)
    BY <1>4
  <2>2. blocks' \in 0..WarnAfter
    BY <1>1, <1>2
  <2> QED  BY <1>0, <1>1, <1>3, <1>4, <1>5, <2>1, <2>2 DEF FeedTyped
<1>7. FeedNamed'
  <2> SUFFICES ASSUME ~FeedHad(FeedLimits)' PROVE FeedNamed'
    BY DEF FeedNamed
  <2>1. ~FeedHad(FeedLimits)
    BY <1>1 DEF FeedHad
  <2>2. \A p : Knows(proj, p) => Knows(proj', p)
    BY <1>3 DEF Knows, PassedActs
  <2>3. 0 \notin DOMAIN acts
    BY <1>0, SomeActs
  <2>4. \A i \in DOMAIN feedOut', n \in DOMAIN acts : feedOut'[i].act # n
    BY <1>4, <2>3, WarningFacts
  <2>5. \A s \in {proj', projDisk} : \E p \in 0..Len(acts) : Knows(s, p)
    BY <2>1, <2>2 DEF FeedNamed
  <2>6. misnamed = {}
    BY <2>1 DEF FeedNamed
  <2> QED  BY <1>1, <2>4, <2>5, <2>6, PastSame DEF FeedNamed
<1>8. ToPost = {} /\ ToPost' \subseteq {0} /\ ~WarningToPost
  BY <1>1, <1>4, WarningFacts DEF ToPost, WarningToPost
<1>9. PassedActs(proj') = PassedActs(proj)
  BY <1>3 DEF PassedActs
<1>10. ActivitiesAnnounced'
  <2> SUFFICES ASSUME ~FeedHad(FeedLimits)' PROVE ActivitiesAnnounced'
    BY DEF ActivitiesAnnounced
  <2>1. ~FeedHad(FeedLimits)
    BY <1>1 DEF FeedHad
  <2> QED  BY <1>1, <1>8, <1>9, <2>1, PastSame DEF ActivitiesAnnounced
<1>11. FeedNow = proj /\ FeedNow' = proj'
  BY <1>1 DEF FeedNow
<1>12. FeedOnce'
  <2> SUFFICES ASSUME ~FeedHad({"crash", "unsaved"})' PROVE FeedOnce'
    BY DEF FeedOnce
  <2>1. ~FeedHad({"crash", "unsaved"})
    BY <1>1 DEF FeedHad
  <2>2. PassedActs(FeedNow)' = PassedActs(proj)
    BY <1>1, <1>9, <1>11 DEF PassedActs
  <2> QED  BY <1>1, <1>3, <1>8, <1>11, <2>1, <2>2, PastSame DEF FeedOnce
<1>13. BlocksKnown'
  <2> SUFFICES ASSUME ~FeedHad({"crash", "unsaved", "badstate"})' PROVE BlocksKnown'
    BY DEF BlocksKnown
  <2>1. /\ ~FeedHad({"crash", "unsaved", "badstate"})
    BY <1>1 DEF FeedHad
  <2>2. ~unfounded /\ proj.streak = blocks /\ (proj.warned <=> warnedOf)
    BY <1>8, <1>11, <2>1 DEF BlocksKnown
  <2>3. WarningToPost' <=> WarningDue
    BY <1>1 DEF WarningToPost, Warning
  <2>4. WarningDue => ~warnedOf /\ blocks' >= WarnAfter
    BY <1>1, <1>2, <2>2 DEF WarningDue
  <2>5. proj'.streak = blocks' /\ (proj'.warned <=> (warnedOf \/ WarningDue))
    BY <1>1, <1>3, <2>2
  <2> QED  BY <1>1, <1>11, <2>2, <2>3, <2>4, <2>5 DEF BlocksKnown
<1> QED  BY <1>6, <1>7, <1>10, <1>12, <1>13

\* What is still to post moves to what was said.
LEMMA PostActHolds ==
    FeedInv /\ PostAct => FeedInv'
<1> SUFFICES ASSUME FeedInv, PostAct PROVE FeedInv'
  OBVIOUS
<1> USE DEF FeedInv
<1> DEFINE a == Head(feedOut)
           Posts == [act : Nat, action : Actions \cup {"blocked"}]
<1>0. FeedTyped
  OBVIOUS
<1>1. /\ UNCHANGED <<acts, second, wanted, proj, projDisk, feedPhase, feedBase, blocks, feedMishaps>>
      /\ feedPhase = "send" /\ feedOut # <<>> /\ feedOut' = Tail(feedOut)
  BY DEF PostAct, atRedmine
<1>2. \/ /\ a = Warning /\ UNCHANGED <<said, saidAgain, misnamed>> /\ warnedOf' = TRUE
         /\ unfounded' = (unfounded \/ warnedOf \/ blocks < WarnAfter)
      \/ /\ a # Warning /\ UNCHANGED <<unfounded, warnedOf>>
         /\ said' = said \cup {a.act}
         /\ saidAgain' = saidAgain \cup ({a.act} \cap (said \cup feedBase))
         /\ misnamed' = misnamed \cup {n \in {a.act} : a.action # Rightly(n)}
  BY DEF PostAct, feedHist
<1>3. feedOut \in Seq(Posts)
  BY DEF FeedTyped
<1>4. /\ a \in Posts /\ a = feedOut[1] /\ 1 \in DOMAIN feedOut
      /\ feedOut' \in Seq(Posts)
      /\ \A i \in DOMAIN feedOut' : feedOut'[i] = feedOut[i + 1] /\ i + 1 \in DOMAIN feedOut /\ i \in Nat /\ i >= 1
      /\ \A i, j \in DOMAIN feedOut' : i < j => i + 1 < j + 1
      /\ a.act \in Nat
  <2> HIDE DEF Posts
  <2>1. a \in Posts /\ a = feedOut[1] /\ 1 \in DOMAIN feedOut /\ feedOut' \in Seq(Posts)
    BY <1>1, <1>3
  <2>2. \A i \in DOMAIN feedOut' : feedOut'[i] = feedOut[i + 1] /\ i + 1 \in DOMAIN feedOut /\ i \in Nat /\ i >= 1
    BY <1>1, <1>3
  <2>3. \A i, j \in DOMAIN feedOut' : i < j => i + 1 < j + 1
    BY <2>2
  <2> HIDE DEF a
  <2>4. a.act \in Nat
    BY <2>1 DEF Posts
  <2> QED  BY <2>1, <2>2, <2>3, <2>4
<1>5. \A i \in DOMAIN feedOut : i = 1 \/ (i - 1 \in DOMAIN feedOut' /\ feedOut'[i - 1] = feedOut[i])
  <2> TAKE i \in DOMAIN feedOut
  <2>1. i \in 1..Len(feedOut) /\ Len(feedOut') = Len(feedOut) - 1 /\ Len(feedOut) \in Nat /\ DOMAIN feedOut' = 1..Len(feedOut')
    BY <1>1, <1>3
  <2>2. ASSUME i # 1 PROVE i - 1 \in DOMAIN feedOut'
    BY <2>1, <2>2
  <2> QED  BY <1>4, <2>1, <2>2
<1> HIDE DEF a, Posts
<1>6. a = Warning \/ (a # Warning /\ a.act \in DOMAIN acts)
  BY <1>0, <1>4 DEF FeedTyped
<1>7. \A i \in DOMAIN feedOut' : feedOut'[i].act \in Nat /\ a.act < feedOut'[i].act
  <2> TAKE i \in DOMAIN feedOut'
  <2>1. feedOut[1].act < feedOut[i + 1].act
    <3>1. 1 < i + 1 /\ i + 1 \in DOMAIN feedOut
      BY <1>4
    <3> QED  BY <1>0, <1>4, <3>1 DEF FeedTyped
  <2>2. feedOut'[i].act \in Nat
    <3>1. feedOut'[i] \in Posts
      BY <1>4
    <3> QED  BY <3>1 DEF Posts
  <2> QED  BY <1>4, <2>1, <2>2
<1>8. /\ ToPost = ToPost' \cup {a.act} /\ a.act \notin ToPost'
      /\ ToPost' \subseteq Nat
  <2>1. ToPost' = {feedOut'[i].act : i \in DOMAIN feedOut'} /\ ToPost = {feedOut[i].act : i \in DOMAIN feedOut}
    BY DEF ToPost
  <2>2. \A n \in ToPost' : n \in ToPost /\ n \in Nat /\ a.act < n
    BY <1>4, <1>7, <2>1
  <2>3. a.act \in ToPost /\ a.act \in Nat
    BY <1>4, <2>1
  <2>4. \A n \in ToPost : n = a.act \/ n \in ToPost'
    BY <1>4, <1>5, <2>1
  <2> QED  BY <2>2, <2>3, <2>4
<1>9. ~WarningToPost' /\ (WarningToPost <=> a = Warning)
  <2>1. a.act \in Nat
    BY <1>4
  <2>2. \A i \in DOMAIN feedOut' : feedOut'[i] # Warning
    BY <1>7, <2>1, WarningFacts
  <2> QED  BY <1>4, <1>5, <2>2 DEF WarningToPost
<1>10. FeedTyped'
  <2>1. \A i, j \in DOMAIN feedOut' : i < j => feedOut'[i].act < feedOut'[j].act
    BY <1>0, <1>4 DEF FeedTyped
  <2>2. \A i \in DOMAIN feedOut' : feedOut'[i] = Warning \/ feedOut'[i].act \in DOMAIN acts
    BY <1>0, <1>4 DEF FeedTyped
  <2>3. said' \subseteq DOMAIN acts
    BY <1>0, <1>2, <1>6 DEF FeedTyped
  <2> QED  BY <1>0, <1>1, <1>4, <2>1, <2>2, <2>3 DEF FeedTyped, Posts
<1>11. FeedNamed'
  <2> SUFFICES ASSUME ~FeedHad(FeedLimits)' PROVE FeedNamed'
    BY DEF FeedNamed
  <2>1. ~FeedHad(FeedLimits)
    BY <1>1 DEF FeedHad
  <2>2. a.act \in DOMAIN acts => a.action = Rightly(a.act)
    BY <1>4, <2>1 DEF FeedNamed
  <2>3. misnamed' = {}
    BY <1>2, <1>6, <2>1, <2>2 DEF FeedNamed
  <2>4. \A i \in DOMAIN feedOut', n \in DOMAIN acts : feedOut'[i].act = n => feedOut'[i].action = Rightly(n)
    BY <1>4, <2>1 DEF FeedNamed
  <2> QED  BY <1>1, <2>1, <2>3, <2>4, PastSame DEF FeedNamed
<1>12. ActivitiesAnnounced'
  <2> SUFFICES ASSUME ~FeedHad(FeedLimits)' PROVE ActivitiesAnnounced'
    BY DEF ActivitiesAnnounced
  <2>1. ~FeedHad(FeedLimits)
    BY <1>1 DEF FeedHad
  <2>2. said \cup (ToPost \cap DOMAIN acts) \subseteq said' \cup ToPost' /\ said \subseteq said'
    <3>1. a = Warning => a.act \notin DOMAIN acts
      BY <1>0, SomeActs, WarningFacts
    <3> QED  BY <1>2, <1>8, <3>1
  <2>3. PassedActs(proj) \subseteq DOMAIN acts
    BY DEF PassedActs
  <2> QED  BY <1>1, <2>1, <2>2, <2>3, PastSame DEF ActivitiesAnnounced
<1>13. FeedNow = proj /\ FeedNow' = proj
  BY <1>1 DEF FeedNow
<1>14. FeedOnce'
  <2> SUFFICES ASSUME ~FeedHad({"crash", "unsaved"})' PROVE FeedOnce'
    BY DEF FeedOnce
  <2>1. ~FeedHad({"crash", "unsaved"})
    BY <1>1 DEF FeedHad
  <2>2. PassedActs(FeedNow)' = PassedActs(proj)
    BY <1>1, <1>13 DEF PassedActs
  <2>3. a # Warning => a.act \in ToPost \ {0}
    BY <1>0, <1>6, <1>8, SomeActs
  <2>4. saidAgain' = {}
    BY <1>2, <2>1, <2>3 DEF FeedOnce
  <2>5. \A n \in said' : n \in said \/ n \in PassedActs(proj)
    BY <1>2, <2>1, <2>3 DEF FeedOnce
  <2>6. \A n \in ToPost' \ {0} : n \in PassedActs(proj) /\ n \notin said' \cup feedBase
    BY <1>2, <1>8, <2>1 DEF FeedOnce
  <2> QED  BY <1>1, <1>13, <2>1, <2>2, <2>4, <2>5, <2>6, PastSame DEF FeedOnce
<1>15. BlocksKnown'
  <2> SUFFICES ASSUME ~FeedHad({"crash", "unsaved", "badstate"})' PROVE BlocksKnown'
    BY DEF BlocksKnown
  <2>1. /\ ~FeedHad({"crash", "unsaved", "badstate"})
    BY <1>1 DEF FeedHad
  <2>2. /\ ~unfounded /\ proj.streak = blocks
        /\ proj.warned <=> (warnedOf \/ a = Warning)
        /\ a = Warning => ~warnedOf /\ blocks >= WarnAfter
    BY <1>9, <1>13, <2>1 DEF BlocksKnown
  <2>3. ~unfounded' /\ (warnedOf' <=> (warnedOf \/ a = Warning))
    <3>1. a = Warning => ~(blocks < WarnAfter)
      BY <1>0, <2>2, FeedConstants DEF FeedTyped
    <3>2. CASE a = Warning
      <4>1. ~unfounded' /\ warnedOf'
        BY <1>2, <2>2, <3>1, <3>2, Zenon
      <4> QED  BY <3>2, <4>1
    <3>3. CASE a # Warning
      <4>1. unfounded' = unfounded /\ warnedOf' = warnedOf
        BY <1>2, <3>3
      <4> QED  BY <2>2, <3>3, <4>1
    <3> QED  BY <3>2, <3>3
  <2> QED  BY <1>1, <1>9, <1>13, <2>2, <2>3 DEF BlocksKnown
<1> QED  BY <1>10, <1>11, <1>12, <1>14, <1>15

\* The new activities, and the second of the newest.
LEMMA NewestFacts ==
    ASSUME FeedTyped, NEW S, S \subseteq DOMAIN acts, S # {}
    PROVE  /\ NewestSecond(S) \in Nat /\ NewestSecond(S) <= second
           /\ \A n \in S : acts[n].at <= NewestSecond(S)
           /\ \E n \in S : acts[n].at = NewestSecond(S)
<1> DEFINE T == {acts[n].at : n \in S}
<1>1. \A n \in S : acts[n].at \in Nat /\ acts[n].at <= second /\ second \in Nat
  BY ActivityKinds DEF FeedTyped
<1>2. T \subseteq 0..second /\ T # {} /\ second \in Nat
  BY <1>1
<1>3. \A n \in S : acts[n].at \in T
  OBVIOUS
<1>4. T \in SUBSET Nat /\ IsFiniteSet(T)
  <2>1. \A t \in T : t \in Nat /\ t <= second
    BY <1>1
  <2> HIDE DEF T
  <2>2. T \in SUBSET Nat
    BY <2>1
  <2> QED  BY <1>2, <2>1, <2>2, FS_BoundedSetOfNaturals
<1>5. NewestSecond(S) = Greatest(T)
  BY DEF NewestSecond
<1>6. Greatest(T) \in T /\ \A t \in T : t <= Greatest(T)
  <2> HIDE DEF T
  <2> QED  BY <1>2, <1>4, GreatestNatural
<1>7. \A t \in T : t \in Nat /\ t <= second /\ \E n \in S : acts[n].at = t
  BY <1>1
<1> HIDE DEF T
<1> QED  BY <1>3, <1>5, <1>6, <1>7

\* What is announced: the new activities that are wanted, in their order.
LEMMA AnnouncedFacts ==
    ASSUME FeedTyped
    PROVE  /\ Announced \in Seq([act : Nat, action : Actions \cup {"blocked"}])
           /\ \A i \in DOMAIN Announced :
                 /\ Announced[i].act \in NewActs
                 /\ Announced[i].action = ActionOf(Announced[i].act)
                 /\ Announced[i] # Warning
           /\ \A i, j \in DOMAIN Announced : i < j => Announced[i].act < Announced[j].act
           /\ \A n \in NewActs :
                 ActionOf(n) \in wanted => \E i \in DOMAIN Announced : Announced[i].act = n
<1> DEFINE W == {n \in NewActs : ActionOf(n) \in wanted}
           ns == Ascending(W)
<1>1. NewActs \subseteq DOMAIN acts /\ W \subseteq NewActs
  BY DEF NewActs, Feed
<1>2. W \subseteq Nat /\ IsFiniteSet(W)
  <2>1. W \subseteq DOMAIN acts
    BY <1>1
  <2> HIDE DEF W
  <2> QED  BY <2>1, SomeActs
<1>3. /\ ns \in Seq(W)
      /\ DOMAIN ns = 1..Len(ns)
      /\ \A n \in W : \E i \in DOMAIN ns : ns[i] = n
      /\ \A i \in DOMAIN ns : ns[i] \in W
      /\ \A i, j \in DOMAIN ns : i < j <=> ns[i] < ns[j]
  <2> HIDE DEF W
  <2> QED  BY <1>2, AscendingFacts
<1>4. Announced = [i \in DOMAIN ns |-> [act |-> ns[i], action |-> ActionOf(ns[i])]]
  BY DEF Announced
<1>5. \A n \in W : n \in Nat /\ n # 0 /\ n \in NewActs /\ ActionOf(n) \in Actions
  <2> TAKE n \in W
  <2>1. n \in DOMAIN acts
    BY <1>1
  <2>2. n \in Nat /\ n # 0
    BY <2>1, SomeActs
  <2>3. ActionOf(n) \in Actions
    BY <2>1, ActivityKinds DEF ActionOf
  <2> QED  BY <1>1, <2>2, <2>3
<1>6. \A n \in NewActs : ActionOf(n) \in wanted => n \in W
  OBVIOUS
<1> HIDE DEF ns, W
<1>7. /\ DOMAIN Announced = 1..Len(ns) /\ Len(ns) \in Nat
      /\ \A i \in DOMAIN Announced :
            /\ Announced[i] = [act |-> ns[i], action |-> ActionOf(ns[i])]
            /\ i \in DOMAIN ns /\ ns[i] \in W
  BY <1>3, <1>4
<1>8. \A i \in DOMAIN Announced : Announced[i].act = ns[i] /\ Announced[i].action = ActionOf(ns[i])
  BY <1>7
<1>9. Announced \in Seq([act : Nat, action : Actions \cup {"blocked"}])
  <2>1. \A i \in 1..Len(ns) : Announced[i] \in [act : Nat, action : Actions \cup {"blocked"}]
    BY <1>5, <1>7
  <2>2. Announced = [i \in 1..Len(ns) |-> Announced[i]]
    BY <1>3, <1>4
  <2> DEFINE Posts == [act : Nat, action : Actions \cup {"blocked"}]
  <2> HIDE DEF Posts
  <2>3. \A i \in 1..Len(ns) : Announced[i] \in Posts
    BY <2>1 DEF Posts
  <2>4. Announced \in Seq(Posts)
    BY <1>7, <2>2, <2>3
  <2> QED  BY <2>4 DEF Posts
<1>10. \A i \in DOMAIN Announced :
          /\ Announced[i].act \in NewActs
          /\ Announced[i].action = ActionOf(Announced[i].act)
          /\ Announced[i] # Warning
  BY <1>5, <1>7, <1>8, WarningFacts
<1>11. \A i, j \in DOMAIN Announced : i < j => Announced[i].act < Announced[j].act
  BY <1>3, <1>7, <1>8
<1>12. \A n \in W : \E i \in DOMAIN Announced : Announced[i].act = n
  BY <1>3, <1>7, <1>8
<1> QED  BY <1>6, <1>9, <1>10, <1>11, <1>12

LEMMA PartInside ==
    ASSUME NEW l \in Nat, NEW n \in 0..l, NEW p \in 0..n
    PROVE  p + 1 .. n \subseteq 1..l
OBVIOUS

LEMMA Parts ==
    \A l \in Nat : \A n \in 0..l : \A p \in 0..n :
        /\ p + 1 .. n \subseteq 1..l
        /\ n = p + 1 => p + 1 .. n = {n}
        /\ 1..n = (1..p) \cup (p + 1 .. n)
        /\ \A i \in 1..n : i \notin 1..p => i \in p + 1 .. n
        /\ \A i \in p + 1 .. n : i \notin 1..p
OBVIOUS

\* The status remembered after the activities that follow the first p, up to n,
\* unless one is created and changed within one poll.
LEMMA RememberedFacts ==
    ASSUME FeedTyped, NEW n \in 0..Len(acts), NEW p \in 0..n, NEW status,
           status = "closed" <=> StatusAfter(p) = "closed",
           (\A i \in p + 1 .. n : acts[i].what # "create") \/ (n = p + 1 /\ n = Len(acts))
    PROVE  Remembered(status, p + 1 .. n) = "closed" <=> StatusAfter(n) = "closed"
<1> DEFINE S == {i \in p + 1 .. n : acts[i].what \in Statuses}
           T == Telling(p + 1 .. n)
<1>0. n \in Nat /\ p \in Nat /\ Len(acts) \in Nat /\ DOMAIN acts = 1..Len(acts) /\ n <= Len(acts)
  <2>1. acts \in Seq(Activities)
    BY DEF FeedTyped
  <2> QED  BY <2>1
<1>1. p + 1 .. n \subseteq DOMAIN acts
  <2>1. p + 1 .. n \subseteq 1..Len(acts)
    BY <1>0, PartInside, Zenon
  <2>2. DOMAIN acts = 1..Len(acts)
    BY <1>0
  <2> QED  BY <2>1, <2>2
<1>2. T = {i \in p + 1 .. n : TitleStatus(i) # "none"}
  BY DEF Telling
<1>3. Remembered(status, p + 1 .. n) = IF T = {} THEN status ELSE TitleStatus(Greatest(T))
  BY DEF Remembered
<1>4. CASE \A i \in p + 1 .. n : acts[i].what # "create"
  <2>1. T = S
    <3>1. \A i \in p + 1 .. n : TitleStatus(i) # "none" <=> acts[i].what \in Statuses
      BY <1>1, <1>4, ActivityKinds DEF Statuses
    <3> QED  BY <1>2, <3>1
  <2>2. S # {} => Greatest(S) \in S
    <3>1. S \subseteq DOMAIN acts
      BY <1>1
    <3> HIDE DEF S
    <3> QED  BY <3>1, SomeActs, GreatestNatural
  <2>3. S # {} => TitleStatus(Greatest(S)) = acts[Greatest(S)].what
    BY <1>1, <2>2, ActivityKinds
  <2>4. StatusAfter(n) = IF S = {} THEN StatusAfter(p) ELSE acts[Greatest(S)].what
    BY StatusFrom
  <2> HIDE DEF S, T
  <2> QED  BY <1>3, <2>1, <2>3, <2>4
<1>5. CASE n = p + 1 /\ n = Len(acts) /\ acts[n].what = "create"
  <2>1. n \in DOMAIN acts /\ p + 1 .. n = {n}
    <3>1. p + 1 .. n = {n}
      BY <1>0, <1>5, Parts
    <3> QED  BY <1>1, <3>1
  <2>2. TitleStatus(n) = StatusAfter(n) /\ StatusAfter(n) # "none"
    BY <1>5, <2>1, ActivityKinds, StatusKnown DEF Statuses
  <2>3. T = {n}
    BY <1>2, <2>1, <2>2
  <2>4. Greatest(T) = n
    <3>1. T \subseteq DOMAIN acts /\ T # {}
      BY <2>1, <2>3
    <3>2. Greatest(T) \in T
      <4> HIDE DEF T
      <4> QED  BY <3>1, SomeActs, GreatestNatural
    <3> QED  BY <2>3, <3>2
  <2> HIDE DEF T
  <2> QED  BY <1>3, <2>2, <2>3, <2>4
<1>6. CASE n = p + 1 /\ n = Len(acts) /\ acts[n].what # "create"
  <2>1. p + 1 .. n = {n}
    BY <1>0, <1>6, Parts
  <2> QED  BY <1>4, <1>6, <2>1
<1> QED  BY <1>4, <1>5, <1>6

\* What a poll that was answered does: the watermark moves on with the status of
\* the issue, and what it passes is announced, seen by the first run or unwanted.
PollSound ==
    /\ proj' \in FeedStates /\ proj'.at <= second /\ proj'.etag # 0
    /\ proj'.streak = 0 /\ ~proj'.warned
    /\ \A n \in proj'.ids : n \in DOMAIN acts /\ acts[n].at = proj'.at
    /\ feedOut' \in Seq([act : Nat, action : Actions \cup {"blocked"}])
    /\ \A i \in DOMAIN feedOut' : feedOut'[i].act \in DOMAIN acts /\ feedOut'[i] # Warning
    /\ \A i, j \in DOMAIN feedOut' : i < j => feedOut'[i].act < feedOut'[j].act
    /\ feedBase \subseteq feedBase' /\ feedBase' \subseteq DOMAIN acts
    /\ feedMishaps \subseteq feedMishaps'
    /\ feedMishaps' \cap FeedLimits = {} =>
          /\ \E p \in 0..Len(acts) : Knows(proj', p)
          /\ \A i \in DOMAIN feedOut', n \in DOMAIN acts :
                feedOut'[i].act = n => feedOut'[i].action = Rightly(n)
          /\ \A n \in PassedActs(proj') :
                \/ n \in feedBase' \cup said \cup Unwanted
                \/ \E i \in DOMAIN feedOut' : feedOut'[i].act = n
    /\ ~FeedHad({"crash", "unsaved"}) =>
          /\ \A n \in said \cup feedBase' : n \in PassedActs(proj') \/ n \notin Feed
          /\ \A i \in DOMAIN feedOut' :
                feedOut'[i].act \in PassedActs(proj') /\ feedOut'[i].act \notin said \cup feedBase'

\* The state after any answer.
LEMMA AnsweredFacts ==
    ASSUME FeedTyped, NEW a, a = Answered
    PROVE  /\ a \in FeedStates /\ a.at = proj.at /\ a.ids = proj.ids /\ a.etag = proj.etag
           /\ a.status = proj.status /\ a.streak = 0 /\ ~a.warned
<1>1. proj \in FeedStates /\ 0 \in 0..WarnAfter
  BY FeedConstants DEF FeedTyped
<1> QED  BY <1>1 DEF Answered, FeedStates

\* After one that had nothing new.
LEMMA NothingNew ==
    ASSUME FeedTyped, NEW e \in Nat, NEW b, b = [Answered EXCEPT !.etag = e]
    PROVE  /\ b \in FeedStates /\ b.at = proj.at /\ b.ids = proj.ids /\ b.etag = e
           /\ b.status = proj.status /\ b.streak = 0 /\ ~b.warned
<1> DEFINE a == Answered
<1>1. /\ a \in FeedStates /\ a.at = proj.at /\ a.ids = proj.ids /\ a.etag = proj.etag
      /\ a.status = proj.status /\ a.streak = 0 /\ ~a.warned
  BY AnsweredFacts
<1>2. b = [a EXCEPT !.etag = e]
  OBVIOUS
<1> HIDE DEF a
<1> QED  BY <1>1, <1>2 DEF FeedStates

\* Nothing was added since the last poll.
LEMMA SameFeedSound ==
    ASSUME FeedInv, feedPhase = "idle", proj.etag = FeedEtag, proj' = Answered, feedOut' = <<>>,
           UNCHANGED <<feedBase, feedMishaps>>
    PROVE  PollSound
<1> USE DEF FeedInv
<1>0. FeedTyped /\ Len(acts) \in Nat
  BY SomeActs
<1>1. /\ proj' \in FeedStates /\ proj'.at = proj.at /\ proj'.ids = proj.ids /\ proj'.etag = proj.etag
      /\ proj'.status = proj.status /\ proj'.streak = 0 /\ ~proj'.warned
  BY <1>0, AnsweredFacts
<1>2. proj.etag # 0 /\ FeedNow = proj /\ DOMAIN feedOut' = {} /\ ToPost = {}
  BY <1>0 DEF FeedEtag, FeedNow, FeedTyped, ToPost
<1>3. PassedActs(proj') = PassedActs(proj) /\ \A p : Knows(proj, p) => Knows(proj', p)
  BY <1>1 DEF PassedActs, Knows
<1>4. ASSUME feedMishaps' \cap FeedLimits = {}
      PROVE  /\ \E p \in 0..Len(acts) : Knows(proj', p)
             /\ PassedActs(proj') \subseteq feedBase \cup said \cup Unwanted
  <2>1. ~FeedHad(FeedLimits)
    BY <1>4 DEF FeedHad
  <2> QED  BY <1>2, <1>3, <2>1 DEF FeedNamed, ActivitiesAnnounced
<1>5. ASSUME ~FeedHad({"crash", "unsaved"})
      PROVE  \A n \in said \cup feedBase : n \in PassedActs(proj') \/ n \notin Feed
  BY <1>2, <1>3, <1>5 DEF FeedOnce
<1>6. feedOut' \in Seq([act : Nat, action : Actions \cup {"blocked"}])
  OBVIOUS
<1>7. proj'.at <= second /\ \A n \in proj'.ids : n \in DOMAIN acts /\ acts[n].at = proj'.at
  BY <1>0, <1>1 DEF FeedTyped
<1>8. feedBase \subseteq DOMAIN acts
  BY <1>0 DEF FeedTyped
<1> QED  BY <1>1, <1>2, <1>4, <1>5, <1>6, <1>7, <1>8 DEF PollSound

\* The first poll passes all that it sees.
LEMMA SeedSound ==
    ASSUME FeedInv, feedPhase = "idle", SeedFeed
    PROVE  PollSound
<1> USE DEF FeedInv
<1> DEFINE st == IF Telling(Feed) = {} THEN proj.status ELSE TitleStatus(Least(Telling(Feed)))
           t == NewestSecond(Feed)
<1>0. FeedTyped /\ Len(acts) \in Nat /\ FeedLimit \in Nat \ {0} /\ DOMAIN acts = 1..Len(acts)
  <2>1. acts \in Seq(Activities)
    BY DEF FeedTyped
  <2> QED  BY <2>1, FeedConstants
<1>1. Feed \subseteq DOMAIN acts /\ Telling(Feed) \subseteq Feed /\ FeedEtag \in Nat /\ FeedEtag # 0
  BY <1>0 DEF Feed, Telling, FeedEtag
<1>2. st \in Statuses \cup {"none"}
  <2>1. CASE Telling(Feed) = {}
    BY <1>0, <2>1 DEF FeedTyped, FeedStates
  <2>2. CASE Telling(Feed) # {}
    <3> DEFINE T == Telling(Feed)
    <3>1. T \subseteq Nat /\ T \subseteq DOMAIN acts
      BY <1>0, <1>1, SomeActs
    <3>2. Least(T) \in DOMAIN acts
      <4> HIDE DEF T
      <4>1. T # {}
        BY <2>2 DEF T
      <4> QED  BY <3>1, <4>1, LeastNatural
    <3>3. StatusAfter(Len(acts)) \in Statuses
      BY <1>0, StatusKnown
    <3> DEFINE l == Least(T)
    <3>4. l \in DOMAIN acts
      BY <3>2
    <3> HIDE DEF T, l
    <3>5. TitleStatus(l) \in Statuses \cup {"none"}
      BY <1>0, <3>3, <3>4, ActivityKinds DEF Statuses
    <3> QED  BY <2>2, <3>5 DEF l, T
  <2> QED  BY <2>1, <2>2
<1>5. /\ proj' \in FeedStates /\ proj'.at <= second /\ proj'.etag # 0
      /\ proj'.streak = 0 /\ ~proj'.warned
      /\ \A n \in proj'.ids : n \in DOMAIN acts /\ acts[n].at = proj'.at
      /\ \A n \in Feed : acts[n].at < proj'.at \/ n \in proj'.ids
      /\ \A n \in DOMAIN acts : acts[n].at <= proj'.at
  <2>1. CASE Feed = {}
    <3>1. DOMAIN acts = {}
      <4> SUFFICES ASSUME Len(acts) # 0 PROVE FALSE
        BY <1>0
      <4>1. Len(acts) \in Feed
        BY <1>0 DEF Feed
      <4> QED  BY <2>1, <4>1
    <3>2. proj' = [Answered EXCEPT !.etag = FeedEtag]
      BY <2>1 DEF SeedFeed
    <3>3. /\ proj' \in FeedStates /\ proj'.at = proj.at /\ proj'.ids = proj.ids /\ proj'.etag = FeedEtag
          /\ proj'.streak = 0 /\ ~proj'.warned
      BY <1>0, <1>1, <3>2, NothingNew
    <3>4. proj'.at <= second /\ \A n \in proj'.ids : n \in DOMAIN acts /\ acts[n].at = proj'.at
      BY <1>0, <3>3 DEF FeedTyped
    <3> QED  BY <1>1, <2>1, <3>1, <3>3, <3>4
  <2>2. CASE Feed # {}
    <3> DEFINE I == ActsAt(Feed, t)
    <3>1. /\ t \in Nat /\ t <= second
          /\ \A n \in Feed : acts[n].at <= t
      BY <1>0, <1>1, <2>2, NewestFacts
    <3>2. I \in SUBSET Nat /\ \A n \in I : n \in DOMAIN acts /\ acts[n].at = t
      BY <1>0, <1>1 DEF ActsAt
    <3>3. \A n \in Feed : n \in I \/ acts[n].at # t
      BY DEF ActsAt
    <3>4. proj' = [Answered EXCEPT !.status = st, !.at = t, !.ids = I, !.etag = FeedEtag]
      <4>1. proj.status = Answered.status
        BY <1>0, AnsweredFacts
      <4>2. proj' = [Answered EXCEPT
                       !.status = IF Telling(Feed) = {} THEN @ ELSE TitleStatus(Least(Telling(Feed))),
                       !.at = t, !.ids = I, !.etag = FeedEtag]
        BY <2>2 DEF SeedFeed
      <4> QED  BY <4>1, <4>2
    <3> HIDE DEF st, t, I
    <3>5. /\ proj' \in FeedStates /\ proj'.at = t /\ proj'.ids = I /\ proj'.etag = FeedEtag
          /\ proj'.streak = 0 /\ ~proj'.warned
      <4>1. Answered \in FeedStates /\ Answered.streak = 0 /\ ~Answered.warned
        BY <1>0, AnsweredFacts
      <4> QED  BY <1>1, <1>2, <3>1, <3>2, <3>4, <4>1 DEF FeedStates
    <3>6. \A n \in Feed : acts[n].at < proj'.at \/ n \in proj'.ids
      <4> TAKE n \in Feed
      <4>1. acts[n].at \in Nat /\ acts[n].at <= t
        BY <1>0, <1>1, <3>1, ActivityKinds
      <4> QED  BY <3>1, <3>3, <3>5, <4>1
    <3>7. \A n \in DOMAIN acts : acts[n].at <= proj'.at
      <4> TAKE n \in DOMAIN acts
      <4>1. Len(acts) \in DOMAIN acts /\ Len(acts) \in Feed /\ n <= Len(acts)
        BY <1>0 DEF Feed
      <4>2. acts[n].at <= acts[Len(acts)].at /\ acts[Len(acts)].at <= t
        BY <1>0, <3>1, <4>1 DEF FeedTyped
      <4>3. acts[n].at \in Nat /\ acts[Len(acts)].at \in Nat
        BY <1>0, <4>1, ActivityKinds
      <4> QED  BY <3>1, <3>5, <4>2, <4>3
    <3> QED  BY <1>1, <3>1, <3>2, <3>5, <3>6, <3>7
  <2> QED  BY <2>1, <2>2
<1> HIDE DEF st, t
<1>6. /\ feedBase' = feedBase \cup PassedActs(proj')
      /\ feedOut' = <<>>
      /\ feedMishaps \subseteq feedMishaps'
  BY DEF SeedFeed, PassedActs
<1>7. Feed \subseteq PassedActs(proj') /\ PassedActs(proj') \subseteq DOMAIN acts
  BY <1>1, <1>5 DEF PassedActs
<1>8. ASSUME feedMishaps' \cap FeedLimits = {}
      PROVE  Knows(proj', Len(acts))
  <2>1. "oldstatus" \notin feedMishaps' /\ "overflow" \notin feedMishaps'
    BY <1>8 DEF FeedLimits
  <2>2. proj'.status = "closed" <=> StatusAfter(Len(acts)) = "closed"
    BY <2>1 DEF SeedFeed
  <2>3. ~\E n \in DOMAIN acts \ Feed : acts[n].at = proj'.at
    BY <2>1 DEF SeedFeed
  <2>4. PassedActs(proj') = DOMAIN acts
    <3> SUFFICES ASSUME NEW n \in DOMAIN acts PROVE n \in PassedActs(proj')
      BY <1>7
    <3>1. n \in Feed \/ acts[n].at # proj'.at
      BY <2>3
    <3>2. acts[n].at <= proj'.at /\ acts[n].at \in Nat /\ proj'.at \in Nat
      BY <1>0, <1>5, ActivityKinds DEF FeedStates
    <3>3. n \in Feed \/ acts[n].at < proj'.at
      BY <3>1, <3>2
    <3> QED  BY <1>7, <3>3 DEF PassedActs
  <2> QED  BY <1>0, <2>2, <2>4 DEF Knows
<1>9. /\ DOMAIN feedOut' = {} /\ Len(acts) \in 0..Len(acts) /\ feedBase' \subseteq DOMAIN acts
      /\ feedOut' \in Seq([act : Nat, action : Actions \cup {"blocked"}])
  <2>1. DOMAIN feedOut' = {} /\ feedOut' \in Seq([act : Nat, action : Actions \cup {"blocked"}])
    BY <1>6
  <2>2. feedBase' \subseteq DOMAIN acts
    BY <1>0, <1>6, <1>7 DEF FeedTyped
  <2> QED  BY <1>0, <2>1, <2>2
<1>10. \A n \in said \cup feedBase' : n \in PassedActs(proj') \/ n \notin Feed
  BY <1>7
<1>11. PassedActs(proj') \subseteq feedBase' /\ feedBase \subseteq feedBase'
  BY <1>6
<1> QED  BY <1>5, <1>6, <1>8, <1>9, <1>10, <1>11 DEF PollSound

\* What is new is passed, and nothing else.
LEMMA ReadSound ==
    ASSUME FeedInv, feedPhase = "idle", ~FirstFeed, ReadFeed
    PROVE  PollSound
<1> USE DEF FeedInv
<1> DEFINE S == NewActs
           t == NewestSecond(S)
           I == ActsAt(S, t) \cup IF t = proj.at THEN proj.ids ELSE {}
           st == Remembered(proj.status, S)
<1>0. /\ FeedTyped /\ Len(acts) \in Nat /\ FeedLimit \in Nat \ {0} /\ DOMAIN acts = 1..Len(acts)
      /\ proj.at \in Nat /\ proj.status \in Statuses \cup {"none"} /\ proj \in FeedStates
      /\ proj.ids \in SUBSET Nat /\ \A n \in proj.ids : n \in DOMAIN acts /\ acts[n].at = proj.at
      /\ proj.at <= second /\ second \in Nat
  <2>1. acts \in Seq(Activities)
    BY DEF FeedTyped
  <2>2. proj \in FeedStates
    BY DEF FeedTyped
  <2> QED  BY <2>1, <2>2, FeedConstants DEF FeedTyped, FeedStates
<1>1. S \subseteq DOMAIN acts /\ S \subseteq Feed /\ FeedEtag \in Nat /\ FeedEtag # 0
  BY <1>0 DEF Feed, NewActs, FeedEtag
<1>2. \A n \in DOMAIN acts : /\ acts[n].at \in Nat
                             /\ n \in PassedActs(proj) <=> ~IsNewAct(n)
  <2> TAKE n \in DOMAIN acts
  <2>1. acts[n].at \in Nat
    BY <1>0, ActivityKinds
  <2> QED  BY <1>0, <2>1 DEF PassedActs, IsNewAct
<1>3. st \in Statuses \cup {"none"}
  <2>0. st = IF Telling(S) = {} THEN proj.status ELSE TitleStatus(Greatest(Telling(S)))
    BY DEF Remembered
  <2> DEFINE T == Telling(S)
             l == Greatest(T)
  <2>1. T \subseteq DOMAIN acts
    BY <1>1 DEF Telling
  <2>2. T # {} => l \in DOMAIN acts
    <3> HIDE DEF T
    <3> QED  BY <1>0, <2>1, SomeActs, GreatestNatural
  <2> HIDE DEF T, l
  <2>3. StatusAfter(Len(acts)) \in Statuses
    BY <1>0, StatusKnown
  <2>4. T # {} => TitleStatus(l) \in Statuses \cup {"none"}
    BY <1>0, <2>2, <2>3, ActivityKinds DEF Statuses
  <2> QED  BY <1>0, <2>0, <2>4 DEF T, l
\* The state.
<1>4. /\ proj' \in FeedStates /\ proj'.etag = FeedEtag /\ proj'.streak = 0 /\ ~proj'.warned
      /\ proj'.status = st
      /\ IF S = {} THEN proj'.at = proj.at /\ proj'.ids = proj.ids
         ELSE /\ proj'.at = t /\ proj'.ids = I /\ t \in Nat /\ t <= second
              /\ \A n \in S : acts[n].at <= t
              /\ \E n \in S : acts[n].at = t
  <2>1. CASE S = {}
    <3>1. proj' = [Answered EXCEPT !.etag = FeedEtag]
      BY <2>1 DEF ReadFeed
    <3>2. st = proj.status
      BY <2>1 DEF Remembered, Telling
    <3>3. /\ proj' \in FeedStates /\ proj'.at = proj.at /\ proj'.ids = proj.ids
          /\ proj'.etag = FeedEtag /\ proj'.status = proj.status /\ proj'.streak = 0 /\ ~proj'.warned
      BY <1>0, <1>1, <3>1, NothingNew
    <3> QED  BY <2>1, <3>2, <3>3
  <2>2. CASE S # {}
    <3>1. /\ t \in Nat /\ t <= second
          /\ \A n \in S : acts[n].at <= t
          /\ \E n \in S : acts[n].at = t
      BY <1>0, <1>1, <2>2, NewestFacts
    <3>2. I \in SUBSET Nat
      BY <1>0, <1>1 DEF ActsAt
    <3>3. proj' = [Answered EXCEPT !.status = st, !.at = t, !.ids = I, !.etag = FeedEtag]
      <4>1. proj.status = Answered.status /\ proj.ids = Answered.ids
        BY <1>0, AnsweredFacts
      <4>2. proj' = [Answered EXCEPT
                       !.status = Remembered(@, S), !.at = t,
                       !.ids = ActsAt(S, t) \cup IF t = proj.at THEN @ ELSE {},
                       !.etag = FeedEtag]
        BY <2>2 DEF ReadFeed
      <4> HIDE DEF S, t
      <4> QED  BY <4>1, <4>2
    <3>4. Answered \in FeedStates /\ Answered.streak = 0 /\ ~Answered.warned
      BY <1>0, AnsweredFacts
    <3> HIDE DEF st, t, I, S
    <3>5. /\ proj' \in FeedStates /\ proj'.etag = FeedEtag /\ proj'.streak = 0 /\ ~proj'.warned
          /\ proj'.status = st /\ proj'.at = t /\ proj'.ids = I
      BY <1>1, <1>3, <3>1, <3>2, <3>3, <3>4 DEF FeedStates
    <3> QED  BY <2>2, <3>1, <3>5
  <2> QED  BY <2>1, <2>2
<1>5. /\ proj'.at \in Nat /\ proj'.at <= second
      /\ \A n \in proj'.ids : n \in DOMAIN acts /\ acts[n].at = proj'.at
      /\ S \subseteq PassedActs(proj') /\ PassedActs(proj) \subseteq PassedActs(proj')
      /\ PassedActs(proj') \subseteq DOMAIN acts
  <2>0. PassedActs(proj') \subseteq DOMAIN acts /\ PassedActs(proj) \subseteq DOMAIN acts
    BY DEF PassedActs
  <2>1. CASE S = {}
    <3>1. PassedActs(proj') = PassedActs(proj)
      BY <1>4, <2>1 DEF PassedActs
    <3> QED  BY <1>0, <1>4, <2>0, <2>1, <3>1
  <2>2. CASE S # {}
    <3>1. /\ proj'.at = t /\ proj'.ids = I /\ t \in Nat /\ t <= second
          /\ \A n \in S : acts[n].at <= t
          /\ \E n \in S : acts[n].at = t
      BY <1>4, <2>2
    <3>2. \A n \in S : acts[n].at >= proj.at /\ acts[n].at \in Nat
      BY <1>0, <1>1, <1>2 DEF NewActs, IsNewAct
    <3>3. proj.at <= t
      BY <1>0, <3>1, <3>2
    <3> HIDE DEF S, t
    <3>4. /\ \A n \in S : acts[n].at = t => n \in I
          /\ \A n \in proj.ids : t = proj.at => n \in I
          /\ \A n \in I : (n \in S /\ acts[n].at = t) \/ (n \in proj.ids /\ t = proj.at)
      <4> DEFINE J == IF t = proj.at THEN proj.ids ELSE {}
      <4>1. I = ActsAt(S, t) \cup J
        OBVIOUS
      <4>2. ActsAt(S, t) = {n \in S : acts[n].at = t}
        BY DEF ActsAt
      <4> HIDE DEF I
      <4>3. \A n : n \in J <=> n \in proj.ids /\ t = proj.at
        OBVIOUS
      <4> HIDE DEF J
      <4>4. \A n : n \in I <=> n \in ActsAt(S, t) \/ n \in J
        BY <4>1
      <4>5. \A n : n \in ActsAt(S, t) <=> n \in S /\ acts[n].at = t
        BY <4>2
      <4>6. \A n \in S : acts[n].at = t => n \in I
        BY <4>4, <4>5
      <4>7. \A n \in proj.ids : t = proj.at => n \in I
        BY <4>3, <4>4
      <4> QED  BY <4>3, <4>4, <4>5, <4>6, <4>7
    <3> HIDE DEF I, st
    <3>5. \A n \in S : n \in PassedActs(proj')
      <4> TAKE n \in S
      <4>1. acts[n].at < t \/ acts[n].at = t
        BY <3>1, <3>2
      <4> QED  BY <1>1, <3>1, <3>4, <4>1 DEF PassedActs
    <3>6. \A n \in PassedActs(proj) : n \in PassedActs(proj')
      <4> TAKE n \in PassedActs(proj)
      <4>1. n \in DOMAIN acts /\ acts[n].at \in Nat /\ (acts[n].at < proj.at \/ n \in proj.ids)
        BY <1>2, <2>0 DEF PassedActs
      <4>2. CASE acts[n].at < proj.at
        BY <1>0, <3>1, <3>3, <4>1, <4>2 DEF PassedActs
      <4>3. CASE n \in proj.ids
        <5>1. acts[n].at = proj.at
          BY <1>0, <4>3
        <5>2. acts[n].at < t \/ n \in I
          BY <1>0, <3>1, <3>3, <3>4, <4>3, <5>1
        <5> QED  BY <3>1, <4>1, <5>2 DEF PassedActs
      <4> QED  BY <4>1, <4>2, <4>3
    <3>7. \A n \in I : n \in DOMAIN acts /\ acts[n].at = t
      BY <1>0, <1>1, <3>4
    <3> QED  BY <2>0, <3>1, <3>5, <3>6, <3>7
  <2> QED  BY <2>1, <2>2
<1> HIDE DEF t, I, st
<1>6. feedOut' = Announced /\ feedBase' = feedBase /\ feedMishaps \subseteq feedMishaps'
  BY DEF ReadFeed
<1>7. /\ feedOut' \in Seq([act : Nat, action : Actions \cup {"blocked"}])
      /\ \A i \in DOMAIN feedOut' :
            /\ feedOut'[i].act \in S
            /\ feedOut'[i].action = ActionOf(feedOut'[i].act)
            /\ feedOut'[i] # Warning
      /\ \A i, j \in DOMAIN feedOut' : i < j => feedOut'[i].act < feedOut'[j].act
      /\ \A n \in S : ActionOf(n) \in wanted => \E i \in DOMAIN feedOut' : feedOut'[i].act = n
  BY <1>0, <1>6, AnnouncedFacts
\* Its status, and what is announced.
<1>8. ASSUME feedMishaps' \cap FeedLimits = {}
      PROVE  /\ \E p \in 0..Len(acts) : Knows(proj', p)
             /\ \A n \in S : ActionOf(n) = Rightly(n)
             /\ PassedActs(proj') = PassedActs(proj) \cup S
  <2>1. "overflow" \notin feedMishaps' /\ "newborn" \notin feedMishaps' /\ ~FeedHad(FeedLimits)
    BY <1>6, <1>8 DEF FeedLimits, FeedHad
  <2>2. /\ ~\E n \in DOMAIN acts \ Feed : IsNewAct(n)
        /\ ~((\E n \in S : acts[n].what = "create") /\ Cardinality(S) > 1)
    BY <2>1 DEF ReadFeed
  <2>3. PICK p \in 0..Len(acts) : Knows(proj, p)
    BY <2>1 DEF FeedNamed
  <2>4. PassedActs(proj) = 1..p /\ (proj.status = "closed" <=> StatusAfter(p) = "closed")
    BY <2>3 DEF Knows
  <2>5. \A n \in DOMAIN acts : n \in S <=> n \notin PassedActs(proj)
    BY <1>1, <1>2, <2>2 DEF NewActs
  <2>6. S = p + 1 .. Len(acts)
    <3> HIDE DEF S
    <3>1. /\ \A i \in 1..Len(acts) : i \notin 1..p => i \in p + 1 .. Len(acts)
          /\ \A i \in p + 1 .. Len(acts) : i \notin 1..p
          /\ p + 1 .. Len(acts) \subseteq 1..Len(acts)
      BY <1>0, Parts
    <3>2. \A n \in S : n \in 1..Len(acts) /\ n \notin 1..p
      BY <1>0, <1>1, <2>4, <2>5
    <3>3. \A n \in p + 1 .. Len(acts) : n \in S
      BY <1>0, <2>4, <2>5, <3>1
    <3> QED  BY <3>1, <3>2, <3>3
  <2>7. ASSUME NEW c \in S, acts[c].what = "create"
        PROVE  S = {c}
    <3>1. IsFiniteSet(S) /\ Cardinality(S) \in Nat
      BY <1>0, <1>1, SomeActs, FS_CardinalityType
    <3>2. ~(Cardinality(S) > 1)
      BY <2>2, <2>7
    <3> HIDE DEF S
    <3>3. Cardinality(S) # 0
      BY <2>7, <3>1, FS_EmptySet
    <3>4. Cardinality(S) = 1
      BY <3>1, <3>2, <3>3
    <3>5. \E x : S = {x}
      BY <3>1, <3>4, FS_Singleton
    <3> QED  BY <2>7, <3>5
  <2>8. PassedActs(proj') = DOMAIN acts /\ DOMAIN acts = PassedActs(proj) \cup S
    BY <1>1, <1>5, <2>5 DEF PassedActs
  <2>9. Knows(proj', Len(acts))
    <3>1. (\A i \in p + 1 .. Len(acts) : acts[i].what # "create") \/ Len(acts) = p + 1
      <4> SUFFICES ASSUME NEW c \in S, acts[c].what = "create" PROVE Len(acts) = p + 1
        BY <2>6
      <4>1. S = {c}
        BY <2>7
      <4> HIDE DEF S
      <4>2. p \in Nat /\ p + 1 <= c /\ c <= Len(acts) /\ c \in Nat
        BY <1>0, <2>6
      <4>3. p + 1 \in S /\ Len(acts) \in S
        BY <1>0, <2>6, <4>2
      <4> QED  BY <4>1, <4>3
    <3>2. st = Remembered(proj.status, p + 1 .. Len(acts))
      BY <2>6 DEF st
    <3>3. Len(acts) \in 0..Len(acts)
      BY <1>0
    <3>4. st = "closed" <=> StatusAfter(Len(acts)) = "closed"
      BY <1>0, <2>4, <3>1, <3>2, <3>3, RememberedFacts
    <3> QED  BY <1>0, <1>4, <2>8, <3>4 DEF Knows
  <2>10. ASSUME NEW n \in S
         PROVE  ActionOf(n) = Rightly(n)
    <3> DEFINE B == {m \in S : m < n}
    <3>1. n \in DOMAIN acts
      BY <1>1
    <3>2. ActionOf(n) = Classified(Remembered(proj.status, B), n) /\ Rightly(n) = Classified(StatusAfter(n - 1), n)
      BY DEF ActionOf, Rightly
    <3>3. CASE acts[n].what = "create"
      <4> HIDE DEF B
      <4> QED  BY <1>0, <3>1, <3>2, <3>3, ActivityKinds
    <3>4. CASE acts[n].what # "create"
      <4> HIDE DEF S
      <4>1. p \in Nat /\ n \in Nat /\ p + 1 <= n /\ n <= Len(acts)
        BY <1>0, <2>6
      <4>2. n - 1 \in 0..Len(acts) /\ p \in 0..(n - 1)
        BY <1>0, <4>1
      <4>3. B = p + 1 .. n - 1
        BY <1>0, <2>6, <4>1
      <4>4. \A i \in p + 1 .. n - 1 : acts[i].what # "create"
        <5> SUFFICES ASSUME NEW i \in p + 1 .. n - 1, acts[i].what = "create" PROVE FALSE
          OBVIOUS
        <5>1. i \in S /\ i < n
          BY <4>3
        <5>2. S = {i}
          BY <2>7, <5>1
        <5> QED  BY <4>1, <5>1, <5>2
      <4> HIDE DEF B
      <4>5. Remembered(proj.status, B) = "closed" <=> StatusAfter(n - 1) = "closed"
        BY <1>0, <2>4, <4>2, <4>3, <4>4, RememberedFacts
      <4> QED  BY <1>0, <3>1, <3>2, <4>5, ActivityKinds
    <3> QED  BY <3>3, <3>4
  <2> HIDE DEF S
  <2>11. Len(acts) \in 0..Len(acts)
    BY <1>0
  <2> QED  BY <2>8, <2>9, <2>10, <2>11
<1>9. ASSUME feedMishaps' \cap FeedLimits = {}
      PROVE  /\ \A i \in DOMAIN feedOut', n \in DOMAIN acts :
                   feedOut'[i].act = n => feedOut'[i].action = Rightly(n)
             /\ \A n \in PassedActs(proj') :
                   \/ n \in feedBase' \cup said \cup Unwanted
                   \/ \E i \in DOMAIN feedOut' : feedOut'[i].act = n
  <2>1. ~FeedHad(FeedLimits) /\ ToPost = {}
    <3>1. feedOut = <<>>
      BY <1>0 DEF FeedTyped
    <3> QED  BY <1>6, <1>9, <3>1 DEF FeedHad, ToPost
  <2>2. PassedActs(proj) \subseteq feedBase \cup said \cup Unwanted
    BY <2>1 DEF ActivitiesAnnounced
  <2>3. \A n \in S : ActionOf(n) = Rightly(n) /\ (n \in Unwanted <=> ActionOf(n) \notin wanted)
    BY <1>1, <1>8, <1>9 DEF Unwanted
  <2> HIDE DEF S
  <2>4. \A i \in DOMAIN feedOut', n \in DOMAIN acts :
           feedOut'[i].act = n => feedOut'[i].action = Rightly(n)
    BY <1>7, <2>3
  <2>5. \A n \in S : n \in Unwanted \/ \E i \in DOMAIN feedOut' : feedOut'[i].act = n
    BY <1>7, <2>3
  <2>6. PassedActs(proj') = PassedActs(proj) \cup S
    BY <1>8, <1>9
  <2> QED  BY <1>6, <2>2, <2>4, <2>5, <2>6
<1>10. ASSUME ~FeedHad({"crash", "unsaved"})
       PROVE  /\ \A n \in said \cup feedBase' : n \in PassedActs(proj') \/ n \notin Feed
              /\ \A i \in DOMAIN feedOut' :
                    feedOut'[i].act \in PassedActs(proj') /\ feedOut'[i].act \notin said \cup feedBase'
  <2>1. \A n \in said \cup feedBase : n \in PassedActs(proj) \/ n \notin Feed
    BY <1>10 DEF FeedOnce, FeedNow, FirstFeed
  <2>2. \A n \in S : n \notin said \cup feedBase /\ n \in PassedActs(proj')
    BY <1>1, <1>2, <1>5, <2>1 DEF NewActs
  <2> HIDE DEF S
  <2> QED  BY <1>5, <1>6, <1>7, <2>1, <2>2
<1>11. feedBase \subseteq feedBase' /\ feedBase' \subseteq DOMAIN acts /\ proj'.etag # 0
  BY <1>0, <1>1, <1>4, <1>6 DEF FeedTyped
<1>12. /\ \A i \in DOMAIN feedOut' : feedOut'[i].act \in DOMAIN acts /\ feedOut'[i] # Warning
      /\ proj' \in FeedStates /\ proj'.streak = 0 /\ ~proj'.warned
  BY <1>1, <1>4, <1>7
<1> HIDE DEF S
<1> QED  BY <1>5, <1>6, <1>7, <1>8, <1>9, <1>10, <1>11, <1>12 DEF PollSound

LEMMA PollFeedHolds ==
    FeedInv /\ PollFeed => FeedInv'
<1> SUFFICES ASSUME FeedInv, PollFeed PROVE FeedInv'
  OBVIOUS
<1>0. FeedTyped /\ FeedNamed /\ ActivitiesAnnounced /\ FeedOnce /\ BlocksKnown
  BY DEF FeedInv
<1>1. /\ UNCHANGED <<acts, second, wanted, projDisk, said, saidAgain, misnamed, unfounded>>
      /\ feedPhase = "idle" /\ feedPhase' = "send"
      /\ blocks' = 0 /\ warnedOf' = FALSE
  BY DEF PollFeed, atRedmine, feedHist
<1>2. PollSound
  <2>1. CASE proj.etag = FeedEtag
    BY <1>1, <2>1, SameFeedSound DEF PollFeed
  <2>2. CASE proj.etag # FeedEtag /\ FirstFeed
    BY <1>1, <2>2, SeedSound DEF PollFeed
  <2>3. CASE proj.etag # FeedEtag /\ ~FirstFeed
    BY <1>1, <2>3, ReadSound DEF PollFeed
  <2> QED  BY <2>1, <2>2, <2>3
<1>3. feedOut = <<>> /\ FeedNow = proj /\ FeedNow' = proj'
  BY <1>0, <1>1 DEF FeedTyped, FeedNow
<1>4. FeedTyped'
  <2>1. blocks' \in 0..WarnAfter
    BY <1>1, FeedConstants
  <2>2. feedBase' \subseteq DOMAIN acts
    BY <1>2 DEF PollSound
  <2>3. \A s \in {proj', projDisk} :
           /\ s.at <= second
           /\ \A n \in s.ids : n \in DOMAIN acts /\ acts[n].at = s.at
    BY <1>0, <1>2 DEF PollSound, FeedTyped
  <2> QED  BY <1>0, <1>1, <1>2, <2>1, <2>2, <2>3 DEF PollSound, FeedTyped
<1>5. FeedNamed'
  <2> SUFFICES ASSUME ~FeedHad(FeedLimits)' PROVE FeedNamed'
    BY DEF FeedNamed
  <2>1. feedMishaps' \cap FeedLimits = {} /\ ~FeedHad(FeedLimits)
    BY <1>2 DEF FeedHad, PollSound, FeedLimits
  <2>2. \A s \in {proj', projDisk} : \E p \in 0..Len(acts) : Knows(s, p)
    BY <1>0, <1>2, <2>1 DEF FeedNamed, PollSound
  <2>3. \A i \in DOMAIN feedOut', n \in DOMAIN acts : feedOut'[i].act = n => feedOut'[i].action = Rightly(n)
    BY <1>2, <2>1 DEF PollSound
  <2>4. misnamed = {}
    BY <1>0, <2>1 DEF FeedNamed
  <2> QED  BY <1>1, <2>2, <2>3, <2>4, PastSame DEF FeedNamed
<1>6. ActivitiesAnnounced'
  <2> SUFFICES ASSUME ~FeedHad(FeedLimits)' PROVE ActivitiesAnnounced'
    BY DEF ActivitiesAnnounced
  <2>1. feedMishaps' \cap FeedLimits = {} /\ ~FeedHad(FeedLimits)
    BY <1>2 DEF FeedHad, PollSound, FeedLimits
  <2>2. ToPost' = {feedOut'[i].act : i \in DOMAIN feedOut'}
    BY DEF ToPost
  <2>3. PassedActs(proj') \subseteq feedBase' \cup said \cup ToPost' \cup Unwanted
    BY <1>2, <2>1, <2>2 DEF PollSound
  <2>4. PassedActs(projDisk) \subseteq feedBase' \cup said \cup Unwanted
    BY <1>0, <1>2, <2>1 DEF PollSound, ActivitiesAnnounced
  <2> QED  BY <1>1, <2>3, <2>4, PastSame DEF ActivitiesAnnounced
<1>7. FeedOnce'
  <2> SUFFICES ASSUME ~FeedHad({"crash", "unsaved"})' PROVE FeedOnce'
    BY DEF FeedOnce
  <2>1. ~FeedHad({"crash", "unsaved"})
    BY <1>2 DEF FeedHad, PollSound
  <2>2. PassedActs(FeedNow)' = PassedActs(proj') /\ PassedActs(proj)' = PassedActs(proj')
    BY <1>1, <1>3 DEF PassedActs
  <2>3. ToPost' = {feedOut'[i].act : i \in DOMAIN feedOut'}
    BY DEF ToPost
  <2>4. /\ \A n \in said \cup feedBase' : n \in PassedActs(proj') \/ n \notin Feed
        /\ \A n \in ToPost' : n \in PassedActs(proj') /\ n \notin said \cup feedBase'
    BY <1>2, <2>1, <2>3 DEF PollSound
  <2>5. saidAgain = {}
    BY <1>0, <2>1 DEF FeedOnce
  <2> QED  BY <1>1, <2>2, <2>4, <2>5, PastSame DEF FeedOnce
<1>8. BlocksKnown'
  <2> SUFFICES ASSUME ~FeedHad({"crash", "unsaved", "badstate"})' PROVE BlocksKnown'
    BY DEF BlocksKnown
  <2>1. ~FeedHad({"crash", "unsaved", "badstate"})
    BY <1>2 DEF FeedHad, PollSound
  <2>2. ~unfounded
    BY <1>0, <2>1 DEF BlocksKnown
  <2>3. ~WarningToPost'
    BY <1>2 DEF PollSound, WarningToPost
  <2>4. proj'.streak = 0 /\ ~proj'.warned
    BY <1>2 DEF PollSound
  <2> QED  BY <1>1, <1>3, <2>2, <2>3, <2>4 DEF BlocksKnown
<1> QED  BY <1>4, <1>5, <1>6, <1>7, <1>8 DEF FeedInv

LEMMA FeedInvHolds ==
    FeedInv /\ FeedNext => FeedInv'
BY PollFeedHolds, PollBlockedHolds, PostActHolds, FeedProcessHolds, RedmineHolds DEF FeedNext

-----------------------------------------------------------------------------
(* The theorems.                                                           *)

MonitorsInv == WebInv /\ JobInv /\ FeedInv

LEMMA JobInvHolds ==
    JobInv /\ JobNext => JobInv'
BY JobTypedHolds, JobCoveredHolds, JobOnceHolds, JobRecoversHolds, WatchersHoldHolds DEF JobInv

LEMMA WebStarts ==
    WebInit => WebInv
<1> SUFFICES ASSUME WebInit PROVE WebInv
  OBVIOUS
<1>1. /\ FreshWeb \in WebStates /\ FreshWeb.state = "unknown" /\ FreshWeb.up = 0 /\ FreshWeb.down = 0
      /\ FreshWeb.cert = 0 /\ FreshWeb.date = 0
  BY DEF FreshWeb, WebStates
<1>2. WebNow = FreshWeb /\ web = FreshWeb /\ webDisk = FreshWeb /\ DOMAIN webOut = {}
  BY DEF WebInit, WebNow
<1>3. WebTyped
  <2>1. row \in [ok : 0..UpRepeats, failed : 0..DownRepeats]
    BY WebConstants DEF WebInit
  <2>2. webOut \in Seq(Changes \cup Warnings) /\ served \in Nat
    BY WebConstants DEF WebInit
  <2> QED  BY <1>1, <2>1, <2>2 DEF WebInit, WebTyped
<1>4. WebOrdered /\ WebCounts
  BY <1>1, <1>2, WebConstants DEF WebOrdered, WebCounts
<1>5. WebStreaks /\ WebToldBack
  BY <1>1, <1>2 DEF WebStreaks, WebToldBack, WebInit
<1>6. WarnedOnce
  <2>1. WarningsToSay = {} /\ warnings = {} /\ kept = 0 /\ ~rewarned /\ today = 1 /\ served \in Nat
    BY <1>2, WebConstants DEF WarningsToSay, WebInit
  <2> QED  BY <1>1, <1>2, <2>1 DEF WarnedOnce
<1> QED  BY <1>3, <1>4, <1>5, <1>6 DEF WebInv

LEMMA JobStarts ==
    JobInit => JobInv
<1> SUFFICES ASSUME JobInit PROVE JobInv
  OBVIOUS
<1>1. FreshJob \in JobStates /\ FreshJob.last = 0 /\ FreshJob.state = "unknown" /\ FreshJob.node = "unknown"
  BY DEF FreshJob, JobStates
<1>2. <<>> \in Seq(Items) /\ DOMAIN (<<>>) = {}
  OBVIOUS
<1>3. JobTyped /\ Len(builds) = 0 /\ job = FreshJob /\ jobDisk = FreshJob /\ JobNow = FreshJob
  <2>1. builds \in Seq(BuildStates) /\ Len(builds) = 0
    BY DEF JobInit
  <2>2. job = FreshJob /\ jobDisk = FreshJob /\ JobNow = FreshJob /\ items = <<>>
    BY DEF JobInit, JobNow
  <2> QED  BY <1>1, <1>2, <2>1, <2>2 DEF JobInit, JobTyped
<1>4. JobCovered
  BY <1>1, <1>3 DEF JobCovered, JobInit
<1>5. JobOnce /\ JobRecovers
  BY <1>1, <1>3 DEF JobOnce, JobRecovers, JobInit
<1>6. WatchersHold
  <2>1. items = <<>> /\ stuckTold = {} /\ JobNow.stuck = 0 /\ Waiting = {}
    BY <1>2, <1>3 DEF JobInit, Waiting, FreshJob
  <2>2. QueueHolds
    BY <2>1 DEF QueueHolds
  <2> QED  BY <1>1, <1>3, <2>2 DEF WatchersHold, JobInit
<1> QED  BY <1>3, <1>4, <1>5, <1>6 DEF JobInv

LEMMA FeedStarts ==
    FeedInit => FeedInv
<1> SUFFICES ASSUME FeedInit PROVE FeedInv
  OBVIOUS
<1>1. /\ proj = FreshProject /\ projDisk = FreshProject /\ FeedNow = FreshProject
      /\ DOMAIN acts = {} /\ Len(acts) = 0 /\ DOMAIN feedOut = {}
      /\ FreshProject.at = 0 /\ FreshProject.etag = 0 /\ FreshProject.ids = {}
      /\ FreshProject.streak = 0 /\ FreshProject.warned = FALSE
  BY DEF FeedInit, FeedNow, FreshProject
<1>2. FeedTyped
  <2>1. FreshProject \in FeedStates
    BY FeedConstants DEF FreshProject, FeedStates
  <2>2. acts \in Seq(Activities) /\ feedOut \in Seq([act : Nat, action : Actions \cup {"blocked"}])
    BY DEF FeedInit
  <2>3. blocks \in 0..WarnAfter /\ second = 1
    BY FeedConstants DEF FeedInit
  <2> QED  BY <1>1, <2>1, <2>2, <2>3 DEF FeedInit, FeedTyped
<1>3. Knows(FreshProject, 0) /\ PassedActs(FreshProject) = {}
  BY <1>2, FreshKnows
<1>4. FeedNamed /\ ActivitiesAnnounced
  BY <1>1, <1>3 DEF FeedNamed, ActivitiesAnnounced, FeedInit
<1>5. ToPost = {} /\ ~WarningToPost
  BY <1>1 DEF ToPost, WarningToPost
<1>6. FeedOnce /\ BlocksKnown
  BY <1>1, <1>5 DEF FeedOnce, BlocksKnown, FeedInit
<1> QED  BY <1>2, <1>4, <1>6 DEF FeedInv

\* A process that is not followed keeps what holds of it.
LEMMA WebRests ==
    WebInv /\ UNCHANGED webVars => WebInv'
BY DEF WebInv, webVars, WebTyped, WebOrdered, WebCounts, WebStreaks, WebToldBack, WarnedOnce,
       WebHad, WebNow, ToSay, WarningsToSay

LEMMA JobRests ==
    JobInv /\ UNCHANGED jobVars => JobInv'
BY DEF JobInv, jobVars, atJenkins, jobHist, watchHist, QueueHolds, Waiting, JobTyped, JobCovered, JobOnce, JobRecovers,
       WatchersHold, JobHad, JobNow, JobSeen, Settled, IsComplete

LEMMA FeedRests ==
    FeedInv /\ UNCHANGED feedVars => FeedInv'
<1> SUFFICES ASSUME FeedInv, UNCHANGED feedVars PROVE FeedInv'
  OBVIOUS
<1>1. /\ UNCHANGED <<acts, second, old, blocked, wanted, proj, projDisk, feedPhase, feedOut>>
      /\ UNCHANGED <<said, saidAgain, misnamed, feedBase, blocks, warnedOf, unfounded, feedMishaps>>
  BY DEF feedVars, atRedmine, feedHist, blockHist
<1>2. /\ FeedNow' = FeedNow /\ ToPost' = ToPost /\ (WarningToPost' <=> WarningToPost)
      /\ PassedActs(FeedNow)' = PassedActs(FeedNow)
      /\ \A K : FeedHad(K)' <=> FeedHad(K)
  BY <1>1 DEF FeedNow, ToPost, WarningToPost, Warning, PassedActs, FeedHad
<1>3. FeedTyped'
  BY <1>1 DEF FeedInv, FeedTyped, FreshProject, Warning
<1>4. FeedNamed' /\ ActivitiesAnnounced'
  BY <1>1, <1>2, PastSame DEF FeedInv, FeedNamed, ActivitiesAnnounced, FeedLimits
<1>5. FeedOnce' /\ BlocksKnown'
  BY <1>1, <1>2, PastSame DEF FeedInv, FeedOnce, BlocksKnown
<1> QED  BY <1>3, <1>4, <1>5 DEF FeedInv

LEMMA MonitorsInvHolds ==
    /\ Init => MonitorsInv
    /\ MonitorsInv /\ [Next]_vars => MonitorsInv'
<1>1. Init => MonitorsInv
  BY WebStarts, JobStarts, FeedStarts DEF Init, MonitorsInv
<1>2. ASSUME MonitorsInv, [Next]_vars PROVE MonitorsInv'
  <2> USE DEF MonitorsInv
  <2>1. WebInv'
    BY <1>2, WebInvHolds, WebRests DEF Next, vars
  <2>2. JobInv'
    BY <1>2, JobInvHolds, JobRests DEF Next, vars
  <2>3. FeedInv'
    BY <1>2, FeedInvHolds, FeedRests DEF Next, vars
  <2> QED  BY <2>1, <2>2, <2>3
<1> QED  BY <1>1, <1>2

LEMMA MonitorsInvAlways ==
    Spec => []MonitorsInv
<1> QED  BY MonitorsInvHolds, PTL DEF Spec

\* No failed build that the Jenkins monitor counts as processed is missing from
\* what was announced or passed over by the rules, whatever requests fail; none is
\* announced again unless the monitor died or could not save or load, a build was
\* deleted, or a request failed within a series (pollJob, processBuild).
THEOREM FailuresTold ==
    Spec => []FailuresToldOnce
<1>1. JobInv => FailuresToldOnce
  <2> SUFFICES ASSUME JobInv PROVE FailuresToldOnce
    OBVIOUS
  <2>1. FailedIsAnnounced
    BY DEF JobInv, JobCovered, Settled, FailedIsAnnounced
  <2>2. FailuresOnce
    BY DEF JobInv, JobOnce, FailuresOnce
  <2> QED  BY <2>1, <2>2 DEF FailuresToldOnce
<1>2. MonitorsInv => FailuresToldOnce
  BY <1>1 DEF MonitorsInv
<1> QED  BY <1>2, MonitorsInvAlways, PTL

\* A recovery of a job follows the announcement of its failure, unless the monitor
\* died or could not save (processBuild).
THEOREM RecoveryTold ==
    Spec => []RecoveryFollowsFailure
<1>1. MonitorsInv => RecoveryFollowsFailure
  BY DEF MonitorsInv, JobInv, JobRecovers, RecoveryFollowsFailure
<1> QED  BY <1>1, MonitorsInvAlways, PTL

\* No certificate, node, queue item or block is announced again, across restarts,
\* unless the state was lost, certificates alternate, or several queue items of the
\* job wait at once (updateCert, pollNodes, pollQueue, handleAnubis).
THEOREM NoticesToldOnce ==
    Spec => []NoticesOnce
<1>1. MonitorsInv => CertWarnedOnce
  BY DEF MonitorsInv, WebInv, WarnedOnce, CertWarnedOnce
<1>2. MonitorsInv => WatchersSayOnce
  BY DEF MonitorsInv, JobInv, WatchersHold, WatchersSayOnce
<1>3. MonitorsInv => BlockWarnedOnce
  BY DEF MonitorsInv, FeedInv, BlocksKnown, BlockWarnedOnce
<1>4. MonitorsInv => NoticesOnce
  BY <1>1, <1>2, <1>3 DEF NoticesOnce
<1> QED  BY <1>4, MonitorsInvAlways, PTL

\* Until the feed failed to reach back or a status was remembered wrongly, what the
\* watermark of the Redmine monitor has passed was announced, was there at the first
\* run or is not wanted; nothing is announced again unless the monitor died or could
\* not save (poll, setLast, seenAtBoundary).
THEOREM ActivitiesTold ==
    Spec => []ActivitiesToldOnce
<1>1. MonitorsInv => ActivitiesAnnounced
  BY DEF MonitorsInv, FeedInv
<1>2. MonitorsInv => ActivitiesOnce
  BY DEF MonitorsInv, FeedInv, FeedOnce, ActivitiesOnce
<1>3. MonitorsInv => ActivitiesToldOnce
  BY <1>1, <1>2 DEF ActivitiesToldOnce
<1> QED  BY <1>3, MonitorsInvAlways, PTL

\* A reopening is announced as one if and only if the issue was closed before, until
\* the feed failed to reach back, the first run remembered an older status or none,
\* or an issue was created and changed within one poll (classify, remember).
THEOREM ActivitiesNamed ==
    Spec => []NamedByStatus
<1>1. MonitorsInv => NamedByStatus
  BY DEF MonitorsInv, FeedInv, FeedNamed, NamedByStatus
<1> QED  BY <1>1, MonitorsInvAlways, PTL

\* A web is declared down after enough failures in a row, when it was not announced
\* as down, and up after enough successes, when it was; the first success of a new
\* web leaves the failures before it counted, and a crash, a failed save or an
\* unreadable state excuses what they lose (updateState).
THEOREM AlertsAreDeserved ==
    Spec => AlertsDeserved
<1>1. MonitorsInv /\ [Next]_vars => [ChangeDeserved]_webVars
  BY WebDeserves DEF MonitorsInv, Next, vars
<1> QED  BY <1>1, MonitorsInvAlways, PTL DEF Spec, AlertsDeserved
=============================================================================
