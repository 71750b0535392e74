---------------------------- MODULE RedmineMonitor ----------------------------
(***************************************************************************)
(* redmine-monitor: one project with one issue.  A poll reads the feed,    *)
(* the newest activities of the project, and announces those after the     *)
(* watermark by an action whose name depends on the status that the issue  *)
(* had before.  The status is remembered beside the watermark.             *)
(*                                                                         *)
(* An activity is "create", "note" (a comment or a change of anything but  *)
(* the status), or the status that it sets, "open" or "closed"; each       *)
(* stands for all statuses of its kind.  Activities are numbered in the    *)
(* order of the feed, whose etag is their number plus one.                 *)
(***************************************************************************)
EXTENDS Order

CONSTANTS
    FeedLimit,   \* activities in the feed, 15 in the code
    WarnAfter,   \* blocks in a row after which a warning is due, 3 in the code
    WantedSets,  \* the actions to announce, one set for a behaviour
    Ages,        \* whether the issue is older than the activities, one for a behaviour
    MaxActs, MaxSecond, \* bounds of the model: the activities and the clock
    FeedScenarios\* bounds of the model: the sets of what may happen of which a
                 \* behaviour has one

FeedKinds == {"crash", "unsaved", "badstate", "block"}

\* What follows from the feed: it does not reach back to the watermark, the
\* first run remembers an older status, or none of an issue that was closed
\* before, or an issue is created and changed within one poll.
FeedLimits == {"overflow", "oldstatus", "newborn"}

Actions == {"create", "comment", "close", "reopen", "update"}

ASSUME FeedAssumption ==
    /\ FeedLimit \in Nat \ {0} /\ WarnAfter \in Nat \ {0}
    /\ MaxActs \in Nat \ {0} /\ MaxSecond \in Nat \ {0}
    /\ WantedSets \subseteq SUBSET Actions
    /\ Ages \subseteq BOOLEAN
    /\ FeedScenarios \subseteq SUBSET FeedKinds

VARIABLES
    acts,        \* at Redmine: the activities, oldest first
    second,      \* at Redmine: the clock
    old,         \* at Redmine: whether the issue is older than the activities
    blocked,     \* whether Anubis answers instead of Redmine
    wanted,      \* the actions of this behaviour's configuration
    proj, projDisk, \* the state in memory and in the file
    feedPhase,   \* "off", "idle", "send"
    feedOut,     \* what is still to post: [act |-> n, action |-> a], or a warning
    said,        \* history: the activities that were handed to Post
    saidAgain,   \* history: those that were once more
    misnamed,    \* history: those with an action that the issue's past denies
    feedBase,    \* history: what the first run took as seen
    blocks,      \* history: the blocks since the last answer, up to WarnAfter
    warnedOf,    \* history: whether a warning was given since then
    unfounded,   \* history: one came early, or again
    feedMay,     \* what may happen in this behaviour
    feedMishaps  \* history: what went wrong

atRedmine == <<acts, second, old, blocked>>
feedHist == <<said, saidAgain, misnamed>>
blockHist == <<blocks, warnedOf, unfounded>>
feedVars == <<atRedmine, wanted, proj, projDisk, feedPhase, feedOut,
              feedHist, feedBase, blockHist, feedMay, feedMishaps>>

\* The state before the first run; an issue without an entry has no status.
FreshProject == [at |-> 0, ids |-> {}, etag |-> 0, status |-> "none",
                 streak |-> 0, warned |-> FALSE]

FeedInit ==
    /\ acts = <<>>
    /\ second = 1
    /\ old \in Ages
    /\ blocked = FALSE
    /\ wanted \in WantedSets
    /\ proj = FreshProject
    /\ projDisk = FreshProject
    /\ feedPhase = "off"
    /\ feedOut = <<>>
    /\ said = {} /\ saidAgain = {} /\ misnamed = {}
    /\ feedBase = {}
    /\ blocks = 0
    /\ warnedOf = FALSE
    /\ unfounded = FALSE
    /\ feedMay \in FeedScenarios
    /\ feedMishaps = {}

FeedMishap(what) == what \in feedMay /\ feedMishaps' = feedMishaps \cup {what}

SaveProject ==
    \/ projDisk' = proj /\ UNCHANGED feedMishaps
    \/ projDisk' = projDisk /\ projDisk # proj /\ FeedMishap("unsaved")

-----------------------------------------------------------------------------
(* The feed.                                                               *)

Statuses == {"open", "closed"}

\* The status after the first n activities.
StatusAfter(n) ==
    LET S == {i \in 1..n : acts[i].what \in Statuses} IN
    IF S = {} THEN "open" ELSE acts[Greatest(S)].what

\* The activities of the feed, oldest first.
Feed == {n \in DOMAIN acts : n + FeedLimit > Len(acts)}

FeedEtag == Len(acts) + 1

\* The title of an activity has the status that it set; that of a creation has
\* the issue's status of today, and a note has none.
TitleStatus(n) ==
    CASE acts[n].what = "create" -> StatusAfter(Len(acts))
      [] acts[n].what = "note" -> "none"
      [] OTHER -> acts[n].what

-----------------------------------------------------------------------------
(* What the poll does with the feed.                                       *)

\* The activities of S whose titles have a status.
Telling(S) == {n \in S : TitleStatus(n) # "none"}

\* Mutation of Remembered: a comment clears the status.
RememberedAny(status, S) == IF S = {} THEN status ELSE TitleStatus(Greatest(S))

\* The status remembered when the activities S were gone through: the last that
\* a title has.
Remembered(status, S) ==
    IF Telling(S) = {} THEN status ELSE TitleStatus(Greatest(Telling(S)))

\* The action is named by what the title says and the status remembered.
Classified(status, n) ==
    CASE acts[n].what = "create" -> "create"
      [] acts[n].what = "note" -> "comment"
      [] acts[n].what = "closed" -> "close"
      [] acts[n].what = "open" /\ status = "closed" -> "reopen"
      [] OTHER -> "update"

\* Mutation of IsNewAct: the second of the watermark is done.
IsNewActAfter(n) == acts[n].at > proj.at

\* Newer than the watermark, or of its second and not processed.
IsNewAct(n) == acts[n].at > proj.at \/ (acts[n].at = proj.at /\ n \notin proj.ids)

\* The feed's activities that are new.
NewActs == {n \in Feed : IsNewAct(n)}

\* The action of a new activity, by the status remembered after those before it.
ActionOf(n) == Classified(Remembered(proj.status, {m \in NewActs : m < n}), n)

\* What is announced of the new ones, oldest first.
Announced ==
    LET ns == Ascending({n \in NewActs : ActionOf(n) \in wanted})
    IN  [i \in DOMAIN ns |-> [act |-> ns[i], action |-> ActionOf(ns[i])]]

NewestSecond(S) == Greatest({acts[n].at : n \in S})

ActsAt(S, t) == {n \in S : acts[n].at = t}

\* Any answer of Redmine ends a streak of blocks.
Answered == [proj EXCEPT !.streak = 0, !.warned = FALSE]

FirstFeed == proj.at = 0 /\ proj.etag = 0

\* seed: the feed is gone through newest first, so that of several statuses the
\* oldest is remembered.
SeedFeed ==
    /\ proj' = IF Feed = {} THEN [Answered EXCEPT !.etag = FeedEtag]
               ELSE [Answered EXCEPT
                       !.status = IF Telling(Feed) = {} THEN @ ELSE TitleStatus(Least(Telling(Feed))),
                       !.at = NewestSecond(Feed),
                       !.ids = ActsAt(Feed, NewestSecond(Feed)),
                       !.etag = FeedEtag]
    /\ feedBase' = feedBase \cup
                   {n \in DOMAIN acts : acts[n].at < proj'.at \/ n \in proj'.ids}
    /\ feedOut' = <<>>
    /\ feedMishaps' = feedMishaps
         \cup (IF proj'.status # "closed" <=> StatusAfter(Len(acts)) = "closed"
               THEN {"oldstatus"} ELSE {})
         \cup (IF \E n \in DOMAIN acts \ Feed : acts[n].at = proj'.at
               THEN {"overflow"} ELSE {})

\* What is new is remembered, wanted or not, and announced if it is wanted.
ReadFeed ==
    LET S == NewActs
    IN  /\ proj' = IF S = {} THEN [Answered EXCEPT !.etag = FeedEtag]
                   ELSE [Answered EXCEPT
                           !.status = Remembered(@, S),
                           !.at = NewestSecond(S),
                           !.ids = ActsAt(S, NewestSecond(S))
                                   \cup IF NewestSecond(S) = proj.at THEN @ ELSE {},
                           !.etag = FeedEtag]
        /\ feedOut' = Announced
        /\ feedMishaps' = feedMishaps
             \cup (IF \E n \in DOMAIN acts \ Feed : IsNewAct(n) THEN {"overflow"} ELSE {})
             \cup (IF (\E n \in S : acts[n].what = "create") /\ Cardinality(S) > 1
                   THEN {"newborn"} ELSE {})
        /\ UNCHANGED feedBase

\* poll: the feed is as before, is the first, or has something new.  A poll
\* that gets no answer changes nothing.
PollFeed ==
    /\ feedPhase = "idle"
    /\ ~blocked
    /\ \/ /\ proj.etag = FeedEtag
          /\ proj' = Answered
          /\ feedOut' = <<>>
          /\ UNCHANGED <<feedBase, feedMishaps>>
       \/ proj.etag # FeedEtag /\ FirstFeed /\ SeedFeed
       \/ proj.etag # FeedEtag /\ ~FirstFeed /\ ReadFeed
    /\ blocks' = 0
    /\ warnedOf' = FALSE
    /\ feedPhase' = "send"
    /\ UNCHANGED <<atRedmine, wanted, projDisk, feedHist, unfounded, feedMay>>

Warning == [act |-> 0, action |-> "blocked"]

WarningDue == proj.streak + 1 >= WarnAfter /\ ~proj.warned

\* The streak is counted on; its counting above the threshold decides nothing.
PollBlocked ==
    /\ feedPhase = "idle"
    /\ blocked
    /\ proj' = [proj EXCEPT !.streak = IF @ < WarnAfter THEN @ + 1 ELSE @,
                            !.warned = @ \/ WarningDue]
    /\ feedOut' = IF WarningDue THEN <<Warning>> ELSE <<>>
    /\ blocks' = IF blocks < WarnAfter THEN blocks + 1 ELSE blocks
    /\ feedPhase' = "send"
    /\ UNCHANGED <<atRedmine, wanted, projDisk, feedHist, feedBase, warnedOf,
                   unfounded, feedMay, feedMishaps>>

\* What the action should be: a change to an open status is a reopening when the
\* issue was closed before.
Rightly(n) == Classified(StatusAfter(n - 1), n)

PostAct ==
    /\ feedPhase = "send"
    /\ feedOut # <<>>
    /\ LET a == Head(feedOut) IN
       IF a = Warning
       THEN /\ unfounded' = (unfounded \/ warnedOf \/ blocks < WarnAfter)
            /\ warnedOf' = TRUE
            /\ UNCHANGED feedHist
       ELSE /\ said' = said \cup {a.act}
            /\ saidAgain' = saidAgain \cup ({a.act} \cap (said \cup feedBase))
            /\ misnamed' = misnamed \cup {n \in {a.act} : a.action # Rightly(n)}
            /\ UNCHANGED <<unfounded, warnedOf>>
    /\ feedOut' = Tail(feedOut)
    /\ UNCHANGED <<atRedmine, wanted, proj, projDisk, feedPhase, feedBase, blocks,
                   feedMay, feedMishaps>>

\* Every poll that was answered, or blocked, ends with the save.
FeedPolled ==
    /\ feedPhase = "send"
    /\ feedOut = <<>>
    /\ SaveProject
    /\ feedPhase' = "idle"
    /\ UNCHANGED <<atRedmine, wanted, proj, feedOut, feedHist, feedBase, blockHist, feedMay>>

-----------------------------------------------------------------------------
(* The process.                                                            *)

\* Start: a state file that cannot be read is ignored.
FeedBoot ==
    /\ feedPhase = "off"
    /\ \/ proj' = projDisk /\ UNCHANGED feedMishaps
       \/ proj' = FreshProject /\ projDisk # FreshProject /\ FeedMishap("badstate")
    /\ feedPhase' = "idle"
    /\ UNCHANGED <<atRedmine, wanted, projDisk, feedOut, feedHist, feedBase, blockHist, feedMay>>

FeedGone == feedPhase' = "off" /\ proj' = FreshProject /\ feedOut' = <<>>

\* Start returns between two polls, and its deferred function saves.
FeedExit ==
    /\ feedPhase = "idle"
    /\ SaveProject
    /\ FeedGone
    /\ UNCHANGED <<atRedmine, wanted, feedHist, feedBase, blockHist, feedMay>>

FeedCrash ==
    /\ feedPhase # "off"
    /\ FeedMishap("crash")
    /\ FeedGone
    /\ UNCHANGED <<atRedmine, wanted, projDisk, feedHist, feedBase, blockHist, feedMay>>

-----------------------------------------------------------------------------
(* Redmine.                                                                *)

\* Bound of the model: behaviours in which something goes wrong are shorter, and
\* those with blocks have one activity.
RoomForActs ==
    IF feedMay = {} THEN MaxActs ELSE IF "block" \in feedMay THEN 1 ELSE MaxActs - 1

\* An issue that is not old is created first, and a status is a change.
Happens ==
    /\ Len(acts) < RoomForActs
    /\ \E what \in IF old \/ acts # <<>> THEN {"note", "open", "closed"} ELSE {"create"} :
          acts' = Append(acts, [what |-> what, at |-> second])
    /\ UNCHANGED <<second, old, blocked>>

FeedTick ==
    /\ second < MaxSecond
    /\ second' = second + 1
    /\ UNCHANGED <<acts, old, blocked>>

Anubis ==
    /\ "block" \in feedMay
    /\ blocked' = ~blocked
    /\ UNCHANGED <<acts, second, old>>

Redmine ==
    /\ Happens \/ FeedTick \/ Anubis
    /\ UNCHANGED <<wanted, proj, projDisk, feedPhase, feedOut, feedHist, feedBase,
                   blockHist, feedMay, feedMishaps>>

FeedNext ==
    \/ FeedBoot \/ FeedExit \/ FeedCrash
    \/ PollFeed \/ PollBlocked \/ PostAct \/ FeedPolled
    \/ Redmine

-----------------------------------------------------------------------------
(* Properties.                                                             *)

FeedHad(kinds) == feedMishaps \cap kinds # {}

PassedActs(s) == {n \in DOMAIN acts : acts[n].at < s.at \/ n \in s.ids}

Unwanted == {n \in DOMAIN acts : Rightly(n) \notin wanted}

ToPost == {feedOut[i].act : i \in DOMAIN feedOut}

\* What the watermark has passed was announced, or there at the first run, or
\* its action is not wanted; what the saved watermark has passed was announced
\* already.  Only a feed that does not reach back, or a status that is not the
\* issue's, may hide an activity (warnIfOverflow, seed).
ActivitiesAnnounced ==
    \/ FeedHad(FeedLimits)
    \/ /\ PassedActs(proj) \subseteq feedBase \cup said \cup ToPost \cup Unwanted
       /\ PassedActs(projDisk) \subseteq feedBase \cup said \cup Unwanted

\* An activity is announced once (seenAtBoundary), unless the monitor died or
\* could not save.
ActivitiesOnce == saidAgain = {} \/ FeedHad({"crash", "unsaved"})

\* Both: no activity is lost and none announced again.
ActivitiesToldOnce == ActivitiesAnnounced /\ ActivitiesOnce

\* An activity is announced by the right action, whatever was announced, or not
\* wanted, of the issue before and however often the monitor was restarted:
\* reopened if and only if the issue was closed before.  Not so after a first
\* run that remembered an older status, or saw none of a closed issue, after
\* activities were missed, and for an issue that is created and changed within
\* one poll.
NamedByStatus == misnamed = {} \/ FeedHad(FeedLimits)

\* A warning is given when Anubis has answered that many polls in a row, and
\* once until Redmine answers again, also across restarts (handleAnubis).
BlockWarnedOnce == unfounded => FeedHad({"crash", "unsaved", "badstate"})

\* A transition from a closed status to an open one, and no other, is announced
\* as a reopening (the announcement rules of monitor.go).
ReopenedWasClosed == misnamed = {}
=============================================================================
