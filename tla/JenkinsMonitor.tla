---------------------------- MODULE JenkinsMonitor ----------------------------
(***************************************************************************)
(* jenkins-monitor: one job, one node that is watched, and the job's items *)
(* in the build queue.  A poll asks for the last build that has completed  *)
(* and for each build since the last one processed, then for the nodes and *)
(* the queue, announces as it goes, and saves when all of it succeeded.    *)
(*                                                                         *)
(* Other jobs are other instances of this state; a request of theirs that  *)
(* fails is one of "the rest of the poll" here.                            *)
(***************************************************************************)
EXTENDS Order

CONSTANTS
    MaxNew,      \* builds processed one by one, 20 in the code
    MaxBuilds,   \* bound of the model: builds
    MaxItems,    \* bound of the model: queue items
    JobScenarios \* bounds of the model: the sets of what may happen of which
                 \* a behaviour has one

JobKinds == {"crash", "unsaved", "badstate", "unread", "rest", "overtake",
             "pruned", "node", "queue", "several"}

ASSUME JobAssumption ==
    /\ MaxNew \in Nat \ {0} /\ MaxBuilds \in Nat /\ MaxItems \in Nat
    /\ JobScenarios \subseteq SUBSET JobKinds

VARIABLES
    builds,      \* at Jenkins: the builds' results, "running" before the end and
                 \* "pruned" when a build was deleted
    offline,     \* at Jenkins: the node
    items,       \* at Jenkins: the job's queue items that were, by id
    job, jobDisk,\* the state in memory and in the file
    firstPoll,   \* until a poll succeeds
    jobPhase,    \* "off", "idle", "series", "nodes", "queue", "end"
    next, upto,  \* the series: the next build and the last one
    allOk,       \* nothing of this poll has failed
    told,        \* history: the failed builds that were handed to Post
    retold,      \* history: those that were more than once
    skipped,     \* history: the builds that were passed over without a look at
                 \* their result, or while they ran
    lastTold,    \* history: the last announcement: "none", "failed", "recovered"
    bogus,       \* history: a recovery was announced after anything but a failure
    saidOffline, \* history: what was last said of the node
    stuckTold,   \* history: the items announced as stuck since they last waited
    doubled,     \* history: the same was said twice of the node or of an item,
                 \* or one was said to be cleared that was not said to be stuck
    jobMay,      \* what may happen in this behaviour
    jobMishaps   \* history: what went wrong

atJenkins == <<builds, offline, items>>
jobHist == <<told, retold, skipped, lastTold, bogus>>
watchHist == <<saidOffline, doubled, stuckTold>>
jobVars == <<atJenkins, job, jobDisk, firstPoll, jobPhase, next, upto, allOk,
             jobHist, watchHist, jobMay, jobMishaps>>

\* A job and a node that have no entry yet are "unknown".
FreshJob == [state |-> "unknown", last |-> 0, node |-> "unknown", stuck |-> 0]

JobInit ==
    /\ builds = <<>>
    /\ offline = FALSE
    /\ items = <<>>
    /\ job = FreshJob
    /\ jobDisk = FreshJob
    /\ firstPoll = FALSE
    /\ jobPhase = "off"
    /\ next = 0 /\ upto = 0
    /\ allOk = TRUE
    /\ told = {} /\ retold = {} /\ skipped = {}
    /\ lastTold = "none"
    /\ bogus = FALSE
    /\ saidOffline = FALSE
    /\ doubled = FALSE
    /\ stuckTold = {}
    /\ jobMay \in JobScenarios
    /\ jobMishaps = {}

JobMishap(what) == what \in jobMay /\ jobMishaps' = jobMishaps \cup {what}

SaveJob ==
    \/ jobDisk' = job /\ UNCHANGED jobMishaps
    \/ jobDisk' = jobDisk /\ jobDisk # job /\ JobMishap("unsaved")

-----------------------------------------------------------------------------
(* The builds.                                                             *)

Completed == {n \in DOMAIN builds : builds[n] \in {"SUCCESS", "FAILURE", "ABORTED"}}

\* lastCompleted: the newest completed build, 0 if there is none.
LastCompleted == IF Completed = {} THEN 0 ELSE Greatest(Completed)

AnnounceFailure(n) ==
    /\ told' = told \cup {n}
    /\ retold' = retold \cup ({n} \cap told)
    /\ lastTold' = "failed"
    /\ UNCHANGED bogus

AnnounceRecovery ==
    /\ lastTold' = "recovered"
    /\ bogus' = (bogus \/ lastTold # "failed")
    /\ UNCHANGED <<told, retold>>

Quiet == UNCHANGED <<told, retold, lastTold, bogus>>

\* The count of consecutive failures, which only the messages use, is left out.
Failed(s) == [s EXCEPT !.state = "failed"]
Passed(s) == [s EXCEPT !.state = "ok"]

\* collapseCurrent: of all that is new only the newest build is looked at.
Collapse(n) ==
    /\ job' = [CASE builds[n] = "FAILURE" -> Failed(job)
                 [] builds[n] = "SUCCESS" -> Passed(job)
                 [] OTHER -> job EXCEPT !.last = n]
    /\ skipped' = skipped \cup ((job.last + 1)..(n - 1))
    /\ IF builds[n] = "FAILURE" THEN AnnounceFailure(n) ELSE Quiet

\* Mutation of Process: the state stays failed after a recovery.
ProcessKeepsFailed(n) ==
    \/ /\ builds[n] = "SUCCESS"
       /\ IF job.state = "failed"
          THEN AnnounceRecovery ELSE Quiet
       /\ UNCHANGED <<job, skipped>>
    \/ /\ builds[n] = "FAILURE"
       /\ AnnounceFailure(n)
       /\ job' = Failed(job)
       /\ UNCHANGED skipped
    \/ /\ builds[n] \in {"ABORTED", "running", "pruned"}
       /\ skipped' = skipped \cup {n}
       /\ Quiet
       /\ UNCHANGED job

\* processBuild, and the build that is not there.
Process(n) ==
    \/ /\ builds[n] = "SUCCESS"
       /\ IF job.state = "failed"
          THEN AnnounceRecovery ELSE Quiet
       /\ job' = Passed(job)
       /\ UNCHANGED skipped
    \/ /\ builds[n] = "FAILURE"
       /\ AnnounceFailure(n)
       /\ job' = Failed(job)
       /\ UNCHANGED skipped
    \/ /\ builds[n] \in {"ABORTED", "running", "pruned"}
       /\ skipped' = skipped \cup {n}
       /\ Quiet
       /\ UNCHANGED job

\* pollJob up to its first request: nothing new, a collapse, or a series.
PollJob ==
    /\ jobPhase = "idle"
    /\ allOk' = TRUE
    /\ LET cur == LastCompleted IN
       IF cur = 0 \/ cur = job.last
       THEN jobPhase' = "nodes" /\ UNCHANGED <<job, next, upto, jobHist>>
       ELSE IF firstPoll \/ job.last = 0 \/ cur > job.last + MaxNew
       THEN Collapse(cur) /\ jobPhase' = "nodes" /\ UNCHANGED <<next, upto>>
       ELSE /\ jobPhase' = "series"
            /\ next' = job.last + 1
            /\ upto' = cur
            /\ UNCHANGED <<job, jobHist>>
    /\ UNCHANGED <<atJenkins, jobDisk, firstPoll, watchHist, jobMay, jobMishaps>>

PollJobFails ==
    /\ jobPhase = "idle"
    /\ JobMishap("rest")
    /\ allOk' = FALSE
    /\ jobPhase' = "nodes"
    /\ UNCHANGED <<atJenkins, job, jobDisk, firstPoll, next, upto, jobHist, watchHist, jobMay>>

OneBuild ==
    /\ jobPhase = "series"
    /\ next <= upto
    /\ Process(next)
    /\ next' = next + 1
    /\ UNCHANGED <<atJenkins, jobDisk, firstPoll, jobPhase, upto, allOk, watchHist, jobMay, jobMishaps>>

\* Mutation of OneBuildFails: the series goes on without the build.
OneBuildFailsGoesOn ==
    /\ jobPhase = "series"
    /\ next <= upto
    /\ JobMishap("unread")
    /\ allOk' = FALSE
    /\ next' = next + 1
    /\ UNCHANGED <<atJenkins, job, jobDisk, firstPoll, jobPhase, upto, jobHist, watchHist, jobMay>>

\* The request for a build fails: the poll of the job ends, and what was
\* announced before is not remembered.
OneBuildFails ==
    /\ jobPhase = "series"
    /\ next <= upto
    /\ JobMishap("unread")
    /\ allOk' = FALSE
    /\ jobPhase' = "nodes"
    /\ UNCHANGED <<atJenkins, job, jobDisk, firstPoll, next, upto, jobHist, watchHist, jobMay>>

SeriesDone == [job EXCEPT !.last = upto]

EndSeries ==
    /\ jobPhase = "series"
    /\ next > upto
    /\ job' = SeriesDone
    /\ jobPhase' = "nodes"
    /\ UNCHANGED <<atJenkins, jobDisk, firstPoll, next, upto, allOk, jobHist, watchHist, jobMay, jobMishaps>>

-----------------------------------------------------------------------------
(* The node and the queue.                                                 *)

NodeState == IF offline THEN "offline" ELSE "online"

Noted == [job EXCEPT !.node = NodeState]

\* pollNodes: a change is announced, and so is a node that is offline at the
\* first look at it.
PollNodes ==
    /\ jobPhase = "nodes"
    /\ IF (job.node = "offline") # offline
       THEN saidOffline' = offline /\ doubled' = (doubled \/ saidOffline = offline)
       ELSE UNCHANGED <<saidOffline, doubled>>
    /\ job' = Noted
    /\ jobPhase' = "queue"
    /\ UNCHANGED <<atJenkins, jobDisk, firstPoll, next, upto, allOk, jobHist, stuckTold, jobMay, jobMishaps>>

PollNodesFails ==
    /\ jobPhase = "nodes"
    /\ JobMishap("rest")
    /\ allOk' = FALSE
    /\ jobPhase' = "queue"
    /\ UNCHANGED <<atJenkins, job, jobDisk, firstPoll, next, upto, jobHist, watchHist, jobMay>>

Waiting == {i \in DOMAIN items : items[i].here}

\* No item waits: one that was announced is announced as cleared.
NoneQueued ==
    /\ Waiting = {}
    /\ job' = [job EXCEPT !.stuck = 0]
    /\ doubled' = (doubled \/ job.stuck \notin stuckTold \cup {0})
    /\ stuckTold' = {}

\* An item is announced when it has waited for long, once; one that is blocked
\* is not waiting.
OneQueued(i) ==
    \/ /\ items[i].blocked
       /\ job' = [job EXCEPT !.stuck = 0]
       /\ stuckTold' = stuckTold \ {i}
       /\ UNCHANGED doubled
    \/ /\ ~items[i].blocked
       /\ items[i].old /\ job.stuck # i
       /\ job' = [job EXCEPT !.stuck = i]
       /\ doubled' = (doubled \/ i \in stuckTold)
       /\ stuckTold' = stuckTold \cup {i}
    \/ /\ ~items[i].blocked
       /\ ~items[i].old \/ job.stuck = i
       /\ UNCHANGED <<job, stuckTold, doubled>>

\* pollQueue: of several items of the job the one that Jenkins lists last counts.
PollQueue ==
    /\ jobPhase = "queue"
    /\ NoneQueued \/ \E i \in Waiting : OneQueued(i)
    /\ jobPhase' = IF allOk THEN "end" ELSE "idle"
    /\ UNCHANGED <<atJenkins, jobDisk, firstPoll, next, upto, allOk, jobHist, saidOffline, jobMay, jobMishaps>>

PollQueueFails ==
    /\ jobPhase = "queue"
    /\ JobMishap("rest")
    /\ jobPhase' = "idle"
    /\ UNCHANGED <<atJenkins, job, jobDisk, firstPoll, next, upto, allOk, jobHist, watchHist, jobMay>>

-----------------------------------------------------------------------------
(* The process.                                                            *)

\* Start: a state file that cannot be read is ignored.
JobBoot ==
    /\ jobPhase = "off"
    /\ \/ job' = jobDisk /\ UNCHANGED jobMishaps
       \/ job' = FreshJob /\ jobDisk # FreshJob /\ JobMishap("badstate")
    /\ firstPoll' = TRUE
    /\ jobPhase' = "idle"
    /\ UNCHANGED <<atJenkins, jobDisk, next, upto, allOk, jobHist, watchHist, jobMay>>

\* Only a poll of which nothing failed is saved.
JobPolled ==
    /\ jobPhase = "end"
    /\ firstPoll' = FALSE
    /\ SaveJob
    /\ jobPhase' = "idle"
    /\ UNCHANGED <<atJenkins, job, next, upto, allOk, jobHist, watchHist, jobMay>>

JobGone ==
    /\ jobPhase' = "off" /\ job' = FreshJob /\ firstPoll' = FALSE
    /\ next' = 0 /\ upto' = 0 /\ allOk' = TRUE

\* Start returns between two polls, and its deferred function saves.
JobExit ==
    /\ jobPhase = "idle"
    /\ SaveJob
    /\ JobGone
    /\ UNCHANGED <<atJenkins, jobHist, watchHist, jobMay>>

JobCrash ==
    /\ jobPhase # "off"
    /\ JobMishap("crash")
    /\ JobGone
    /\ UNCHANGED <<atJenkins, jobDisk, jobHist, watchHist, jobMay>>

-----------------------------------------------------------------------------
(* Jenkins.                                                                *)

Running == {n \in DOMAIN builds : builds[n] = "running"}

\* A build runs when the one before it has completed, unless the job allows
\* several at once.
StartBuild ==
    /\ jobMay \cap {"node", "queue"} = {}
    /\ Len(builds) < MaxBuilds
    /\ Running = {} \/ "overtake" \in jobMay
    /\ builds' = Append(builds, "running")
    /\ UNCHANGED <<offline, items, jobMishaps>>

EndBuild ==
    /\ \E n \in Running, r \in {"SUCCESS", "FAILURE", "ABORTED"} :
          builds' = [builds EXCEPT ![n] = r]
    /\ UNCHANGED <<offline, items, jobMishaps>>

PruneBuild ==
    /\ \E n \in Completed : builds' = [builds EXCEPT ![n] = "pruned"]
    /\ JobMishap("pruned")
    /\ UNCHANGED <<offline, items>>

NodeChanges ==
    /\ "node" \in jobMay
    /\ offline' = ~offline
    /\ UNCHANGED <<builds, items, jobMishaps>>

\* An item is queued, maybe while another one of the job waits.
ItemQueued ==
    /\ "queue" \in jobMay
    /\ Len(items) < MaxItems
    /\ \E b \in BOOLEAN :
          items' = Append(items, [here |-> TRUE, old |-> FALSE, blocked |-> b])
    /\ IF Waiting = {} THEN UNCHANGED jobMishaps ELSE JobMishap("several")
    /\ UNCHANGED <<builds, offline>>

\* One waits for long, is blocked or free again, or leaves.
ItemChanges ==
    /\ \E i \in Waiting :
          items' \in {[items EXCEPT ![i].old = TRUE], [items EXCEPT ![i].blocked = ~@],
                     [items EXCEPT ![i].here = FALSE]}
    /\ UNCHANGED <<builds, offline, jobMishaps>>

Jenkins ==
    /\ StartBuild \/ EndBuild \/ PruneBuild \/ NodeChanges \/ ItemQueued \/ ItemChanges
    /\ UNCHANGED <<job, jobDisk, firstPoll, jobPhase, next, upto, allOk, jobHist, watchHist, jobMay>>

JobNext ==
    \/ JobBoot \/ JobExit \/ JobCrash \/ JobPolled
    \/ PollJob \/ PollJobFails \/ OneBuild \/ OneBuildFails \/ EndSeries
    \/ PollNodes \/ PollNodesFails \/ PollQueue \/ PollQueueFails
    \/ Jenkins

-----------------------------------------------------------------------------
(* Properties.                                                             *)

JobHad(kinds) == jobMishaps \cap kinds # {}

\* Every failed build that the monitor counts as processed was announced, or
\* passed over as the rules say: by the collapse after a start or a large gap,
\* or because it still ran when it was looked at.  Requests that fail and
\* polls of which a part fails are no excuse, and what the state file counts
\* as processed was announced before.
FailedIsAnnounced ==
    \A s \in {job, jobDisk} : \A n \in 1..s.last :
        builds[n] = "FAILURE" => n \in told \cup skipped

\* A failed build is announced once, also across restarts (a failure already
\* announced before is not re-announced), unless the monitor died or could not
\* save, a build was deleted, or a request failed in the middle of a series.
FailuresOnce == retold # {} => JobHad({"crash", "unsaved", "badstate", "pruned", "unread"})

\* Both: no failed build is lost and none announced again.
FailuresToldOnce == FailedIsAnnounced /\ FailuresOnce

\* A recovery is announced only when the last announcement was a failure,
\* whatever part of a poll fails (an outage never causes bogus recovery
\* announcements), unless the monitor died or could not save.
RecoveryFollowsFailure ==
    bogus => JobHad({"crash", "unsaved"})

\* Nothing is said twice in a row of a node or of a waiting queue item, and none
\* is cleared that was not stuck, also across restarts and polls of which a part
\* fails, unless several items of the job wait at once.
WatchersSayOnce == doubled => JobHad({"crash", "unsaved", "badstate", "several"})
=============================================================================
