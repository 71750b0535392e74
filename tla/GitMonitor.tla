------------------------------ MODULE GitMonitor ------------------------------
(***************************************************************************)
(* git-monitor: one repository.  A mirror of it is fetched at every poll;  *)
(* what is new since the remembered branch tips and tags is announced, and *)
(* the memory is saved after the announcements.                            *)
(*                                                                         *)
(* Commits are numbered parents before children.  git lists them by their  *)
(* dates, which need not agree with that: a list of commits is the set of  *)
(* them and their order in the list.  A tag points to a commit or, when it *)
(* is annotated, to a tag object that points to one.                       *)
(***************************************************************************)
EXTENDS FiniteSetsExt, Order

CONSTANTS
    NCommits, Parents,  \* the number of commits, and the parents of each
    TagObjects, Target, \* the annotated tags' objects, and the commit of each
    Branches, Tags,     \* names
    Size, MaxLen,       \* lengths of the commits' texts, and of a message
    Scenarios,          \* bounds of the model, one of which a behaviour has:
                        \* what may go wrong, which commits the branches and
                        \* which objects the tags may point to
    None

Commits == 1..NCommits

\* What a tag may name.
Objects == Commits \cup TagObjects

\* What branches and tags point to, None when they are absent.
Refs == [heads : [Branches -> Commits \cup {None}], tags : [Tags -> Objects \cup {None}]]

Kinds == {"crash", "unsaved", "badstate", "halfseed", "unread", "skewed", "unsent", "forced"}

ASSUME GitAssumption ==
    /\ NCommits \in Nat
    /\ Parents \in [Commits -> SUBSET Commits]
    /\ \A c \in Commits : \A p \in Parents[c] : p < c
    /\ Target \in [TagObjects -> Commits] /\ TagObjects \cap Commits = {}
    /\ Branches \cap Tags = {}
    /\ Size \in [Commits -> Nat] /\ MaxLen \in Nat
    /\ None \notin Objects /\ None \notin Refs
    /\ Scenarios \subseteq [kinds : SUBSET Kinds, heads : SUBSET Commits,
                            objects : SUBSET Objects]

VARIABLES
    remote,      \* the refs at the remote: heads and tags
    mirror,      \* the refs of the local mirror, None before it is cloned
    st,          \* the state in memory
    disk,        \* the state file, None before there is one
    phase,       \* "off", "seed", "idle" between polls, "send"
    stopping,    \* the context is cancelled
    out,         \* what is still to post: the tags, the commits of each branch,
                 \* and the branches of which the first message has no text
    order,       \* the places of each branch's commits in the list of the poll
    posted,      \* history: what was posted, per branch and tag
    again,       \* history: what was posted once more
    lost,        \* history: what Post failed to post
    base,        \* history: what was taken as seen without announcing it
    scenario,    \* the bounds of this behaviour
    mishaps      \* history: what went wrong

histVars == <<posted, again, lost, base, mishaps>>
progVars == <<remote, mirror, st, disk, phase, stopping, out, order, histVars>>
vars == <<progVars, scenario>>

\* Of each commit what is in all histories that have it, itself too.
Ancestors ==
    LET Histories == {S \in SUBSET Commits : \A d \in S : Parents[d] \subseteq S} IN
    [c \in Commits |-> {a \in Commits : \A S \in Histories : c \in S => a \in S}]

NoRefs == [heads |-> [b \in Branches |-> None], tags |-> [t \in Tags |-> None]]

\* LastSeen and SeenTags, absent keys as None.
EmptyState == NoRefs

NoMessages == [tags |-> {}, news |-> [b \in Branches |-> {}], blank |-> {}]

NoOrder == [b \in Branches |-> <<>>]

Nowhere == [b \in Branches \cup Tags |-> {}]

Init ==
    /\ scenario \in Scenarios
    /\ remote \in [heads : [Branches -> scenario.heads \cup {None}], tags : {NoRefs.tags}]
    /\ mirror = None
    /\ st = EmptyState
    /\ disk = None
    /\ phase = "off"
    /\ stopping = FALSE
    /\ out = NoMessages
    /\ order = NoOrder
    /\ posted = Nowhere
    /\ again = Nowhere
    /\ lost = Nowhere
    /\ base = Nowhere
    /\ mishaps = {}

Mishap(what) == what \in scenario.kinds /\ mishaps' = mishaps \cup {what}

\* saveState: a failure is logged and nothing else.
SaveOf(s) ==
    \/ disk' = s /\ UNCHANGED mishaps
    \/ disk' = disk /\ disk # s /\ Mishap("unsaved")

-----------------------------------------------------------------------------
(* Start: load, clone, seed.                                               *)

Loaded == IF disk = None THEN EmptyState ELSE disk

\* The process is gone, and its memory with it.
Ended ==
    /\ phase' = "off" /\ st' = EmptyState /\ stopping' = FALSE
    /\ out' = NoMessages /\ order' = NoOrder

Cloned == IF mirror = None THEN remote ELSE mirror

\* The state file is read and the repository cloned unless there is a mirror.
Boot ==
    /\ phase = "off"
    /\ st' = Loaded
    /\ mirror' = Cloned
    /\ phase' = "seed"
    /\ UNCHANGED <<remote, disk, stopping, out, order, histVars>>

\* Start returns early, and the deferred save writes the state there is: an
\* empty one over a file that could not be read.
BootFails ==
    /\ phase = "off"
    /\ \/ mirror = None /\ disk' = Loaded /\ UNCHANGED mishaps
       \/ disk \notin {None, EmptyState} /\ disk' = EmptyState /\ Mishap("badstate")
    /\ UNCHANGED <<remote, mirror, st, phase, stopping, out, order, posted, again, lost, base>>

History(c) == IF c = None THEN {} ELSE Ancestors[c]

\* The branches bs and the tags ts of the mirror refs r are taken as seen.
Taken(r, bs, ts) ==
    base' = [k \in DOMAIN base |->
                base[k] \cup (IF k \in bs THEN History(r.heads[k])
                              ELSE IF k \in ts THEN {r.tags[k]} \ {None} ELSE {})]

Seeded == st # EmptyState

Seed ==
    /\ phase = "seed"
    /\ st' = IF Seeded THEN st ELSE mirror
    /\ IF Seeded THEN UNCHANGED base ELSE Taken(mirror, Branches, Tags)
    /\ SaveOf(st')
    /\ phase' = "idle"
    /\ UNCHANGED <<remote, mirror, stopping, out, order, posted, again, lost>>

\* The branches could be listed and the tags could not.
SeedFails ==
    /\ phase = "seed"
    /\ ~Seeded
    /\ mirror.heads # NoRefs.heads
    /\ disk' = [EmptyState EXCEPT !.heads = mirror.heads]
    /\ Taken(mirror, Branches, {})
    /\ Mishap("halfseed")
    /\ Ended
    /\ UNCHANGED <<remote, mirror, posted, again, lost>>

-----------------------------------------------------------------------------
(* The poll: fetch, collect, send, save.                                   *)

\* Mutation of Before: newest first.
BeforeNewestFirst(o, d, c) == o[c] <= o[d]

\* The order of a list of commits.
Before(o, d, c) == o[d] <= o[c]

FirstOfList(o, cs) == CHOOSE c \in cs : \A d \in cs : Before(o, c, d)
LastOfList(o, cs) == CHOOSE c \in cs : \A d \in cs : Before(o, d, c)

\* Mutation of RevList: new..old.
RevListSwapped(old, new) == Ancestors[old] \ Ancestors[new]

\* rev-list old..new
RevList(old, new) == Ancestors[new] \ Ancestors[old]

\* rev-list --reverse without --topo-order goes back from the tip, newest date
\* first, and comes to a commit once it has listed one of its children.
Orders(cs, tip) ==
    {o \in Injection(cs, 1..Cardinality(cs)) :
        \A c \in cs \ {tip} : \E d \in cs : c \in Parents[d] /\ o[c] < o[d]}

\* A merge whose sides have dates that disagree with the history: a commit is
\* listed before one of its ancestors.
SkewedList(o) == \E c, a \in DOMAIN o : a \in Ancestors[c] /\ o[c] < o[a]

\* What git fails to tell in a poll: nothing, the heads, the tags, the list of
\* a branch, the commit of a tag, or one commit.
Faults == {<<"none">>, <<"heads">>, <<"tags">>} \cup {<<"rev", b>> : b \in Branches}
          \cup {<<"deref", t>> : t \in Tags}
          \cup IF "unread" \in scenario.kinds THEN {<<"info", c>> : c \in Commits} ELSE {}

Readable(c, fault) == fault # <<"info", c>>

\* The branches with something to tell.
Moved(b, r, fault) ==
    st.heads[b] # None /\ r.heads[b] \notin {None, st.heads[b]} /\ fault \notin {<<"heads">>, <<"rev", b>>}

List(b, r, fault) == IF Moved(b, r, fault) THEN RevList(st.heads[b], r.heads[b]) ELSE {}

News(b, r, fault) == {c \in List(b, r, fault) : Readable(c, fault)}

\* The orders in which the branches' lists may come.
ListOrders(r, fault) ==
    {os \in [Branches -> UNION {Orders(List(b, r, fault), r.heads[b]) : b \in Branches}] :
        \A b \in Branches : os[b] \in Orders(List(b, r, fault), r.heads[b])}

\* Mutation of SeenTip: the remembered tip goes with its branch.
SeenTipPruned(b, r, fault, o) ==
    IF fault = <<"heads">> THEN st.heads[b]
    ELSE IF r.heads[b] = None \/ st.heads[b] = None THEN r.heads[b]
    ELSE IF News(b, r, fault) = {} THEN st.heads[b]
    ELSE LastOfList(o, News(b, r, fault))

\* Mutation of SeenTip: the tip is taken as seen when the list failed.
SeenTipAnyway(b, r, fault, o) ==
    IF r.heads[b] = None THEN st.heads[b] ELSE r.heads[b]

\* LastSeen after the poll: a new branch is seeded; otherwise the last commit
\* that was announced.  A branch that is gone keeps its entry.
SeenTip(b, r, fault, o) ==
    IF fault = <<"heads">> THEN st.heads[b]
    ELSE IF st.heads[b] = None THEN r.heads[b]
    ELSE IF News(b, r, fault) = {} THEN st.heads[b]
    ELSE LastOfList(o, News(b, r, fault))

CommitOf(o) == IF o \in TagObjects THEN Target[o] ELSE o

NewTags(r, fault) ==
    IF fault = <<"tags">> THEN {} ELSE {t \in Tags : r.tags[t] \notin {None, st.tags[t]}}

\* SeenTags after the poll has the commit, whatever the tag points to; the
\* object when that commit was not found.
SeenTag(t, r, fault) ==
    IF t \notin NewTags(r, fault) THEN st.tags[t]
    ELSE IF fault = <<"deref", t>> THEN r.tags[t] ELSE CommitOf(r.tags[t])

\* The tags to announce; one whose commit cannot be shown is only marked.
ToldTags(r, fault) == {t \in NewTags(r, fault) : Readable(CommitOf(r.tags[t]), fault)}

Fits(cs) == MapThenSumSet(LAMBDA c : Size[c], cs) <= MaxLen

\* The commits cs of a branch that go into one message: as many, in order, as
\* fit, but at least one.
Batch(o, cs) ==
    {c \in cs : \A d \in cs : Before(o, d, c) =>
                    d = FirstOfList(o, cs) \/ Fits({e \in cs : Before(o, e, d)})}

\* When the first text alone is too long, a message without a text goes ahead.
Messages(r, fault, os) ==
    LET news == [b \in Branches |-> News(b, r, fault)] IN
    [tags |-> ToldTags(r, fault),
     news |-> news,
     blank |-> {b \in Branches : news[b] # {} /\ ~Fits({FirstOfList(os[b], news[b])})}]

Unread(r, fault) ==
    \/ \E b \in Branches : st.heads[b] # None /\ r.heads[b] # None
          /\ \E c \in History(r.heads[b]) \ History(st.heads[b]) : ~Readable(c, fault)
    \/ \E t \in NewTags(r, fault) : ~Readable(CommitOf(r.tags[t]), fault)

\* What the monitor was not told, or not in order.
Troubles(r, fault, os) ==
    (IF Unread(r, fault) THEN {"unread"} ELSE {})
    \cup IF \E b \in Branches : SkewedList(os[b]) THEN {"skewed"} ELSE {}

\* updateRepo and collectAnnouncements.
Collect(fault) ==
    /\ phase = "idle"
    /\ ~stopping
    /\ mirror' = remote
    /\ order' \in ListOrders(remote, fault)
    /\ st' = [heads |-> [b \in Branches |-> SeenTip(b, remote, fault, order'[b])],
              tags |-> [t \in Tags |-> SeenTag(t, remote, fault)]]
    /\ out' = Messages(remote, fault, order')
    /\ phase' = IF out' = NoMessages THEN "idle" ELSE "send"
    /\ IF fault = <<"heads">> THEN UNCHANGED base
       ELSE Taken(remote, {b \in Branches : st.heads[b] = None}, {})
    /\ Troubles(remote, fault, order') \subseteq scenario.kinds
    /\ mishaps' = mishaps \cup Troubles(remote, fault, order')
    /\ UNCHANGED <<remote, disk, stopping, posted, again, lost>>

Poll == \E fault \in Faults : Collect(fault)

\* The error of Post is ignored: what it gives up on is lost, and it fails at
\* once when the context is cancelled.
Post(k, what) ==
    \/ /\ ~stopping
       /\ posted' = [posted EXCEPT ![k] = @ \cup what]
       /\ again' = [again EXCEPT ![k] = @ \cup (what \cap (posted[k] \cup base[k]))]
       /\ UNCHANGED <<lost, mishaps>>
    \/ /\ IF stopping THEN UNCHANGED mishaps ELSE Mishap("unsent")
       /\ lost' = [lost EXCEPT ![k] = @ \cup what]
       /\ UNCHANGED <<posted, again>>

\* The first by name, whatever the names are.
ByName(names) == CHOOSE k \in names : TRUE

\* The branches that are not done yet.
Untold == {b \in Branches : out.news[b] # {}}

\* sendAnnouncements: the tags, and then the branches one after the other.
SendTag ==
    /\ out.tags # {}
    /\ LET t == ByName(out.tags) IN
       Post(t, {mirror.tags[t]}) /\ out' = [out EXCEPT !.tags = @ \ {t}]

SendBranch ==
    /\ out.tags = {} /\ Untold # {}
    /\ LET b == ByName(Untold) IN
       \/ b \in out.blank /\ Post(b, {}) /\ out' = [out EXCEPT !.blank = @ \ {b}]
       \/ b \notin out.blank /\ Post(b, Batch(order[b], out.news[b]))
          /\ out' = [out EXCEPT !.news[b] = @ \ Batch(order[b], @)]

Send ==
    /\ phase = "send"
    /\ SendTag \/ SendBranch
    /\ UNCHANGED <<remote, mirror, st, disk, phase, stopping, order, base>>

Sent ==
    /\ phase = "send"
    /\ out = NoMessages
    /\ SaveOf(st)
    /\ phase' = "idle"
    /\ order' = NoOrder
    /\ UNCHANGED <<remote, mirror, st, stopping, out, posted, again, lost, base>>

\* A scenario without lost messages has no stop while they are sent.
Cancelled ==
    /\ phase # "off"
    /\ ~stopping
    /\ phase = "send" => "unsent" \in scenario.kinds
    /\ stopping' = TRUE
    /\ UNCHANGED <<remote, mirror, st, disk, phase, out, order, histVars>>

\* Loop returns and Start saves on the way out.
Exit ==
    /\ phase = "idle"
    /\ stopping
    /\ SaveOf(st)
    /\ Ended
    /\ UNCHANGED <<remote, mirror, posted, again, lost, base>>

Crash ==
    /\ phase # "off"
    /\ Mishap("crash")
    /\ Ended
    /\ UNCHANGED <<remote, mirror, disk, posted, again, lost, base>>

-----------------------------------------------------------------------------
(* The remote repository, written to by others.                            *)

\* A branch is created or moves forward.
Push(b) ==
    /\ \E c \in scenario.heads :
        /\ IF remote.heads[b] = None THEN base[b] = {} ELSE remote.heads[b] \in Ancestors[c] \ {c}
        /\ remote' = [remote EXCEPT !.heads[b] = c]
    /\ UNCHANGED <<mirror, st, disk, phase, stopping, out, order, histVars>>

\* A branch is rewritten, deleted, or comes back elsewhere.
ForcePush(b) ==
    /\ base[b] # {}
    /\ \E c \in (scenario.heads \cup {None}) \ {remote.heads[b]} :
        remote' = [remote EXCEPT !.heads[b] = c]
    /\ Mishap("forced")
    /\ UNCHANGED <<mirror, st, disk, phase, stopping, out, order, posted, again, lost, base>>

Tag(t) ==
    /\ remote.tags[t] = None
    /\ \E o \in scenario.objects : remote' = [remote EXCEPT !.tags[t] = o]
    /\ UNCHANGED <<mirror, st, disk, phase, stopping, out, order, histVars>>

MoveTag(t) ==
    /\ remote.tags[t] # None
    /\ \E o \in scenario.objects \ {remote.tags[t]} : remote' = [remote EXCEPT !.tags[t] = o]
    /\ Mishap("forced")
    /\ UNCHANGED <<mirror, st, disk, phase, stopping, out, order, posted, again, lost, base>>

Others ==
    \/ \E b \in Branches : Push(b) \/ ForcePush(b)
    \/ \E t \in Tags : Tag(t) \/ MoveTag(t)

Step ==
    \/ Boot \/ BootFails \/ Seed \/ SeedFails
    \/ Poll \/ Send \/ Sent
    \/ Cancelled \/ Exit \/ Crash
    \/ Others

Next == Step /\ UNCHANGED scenario

\* What the goroutine does next on its own.
Proceed == Boot \/ Seed \/ Send \/ Sent \/ Exit

\* The goroutine goes on, and of its polls, however many fail, some succeed.
Fairness == WF_progVars(Proceed) /\ SF_progVars(Collect(<<"none">>))

Spec == Init /\ [][Next]_vars /\ Fairness

-----------------------------------------------------------------------------
(* Properties.                                                             *)

Had(kinds) == mishaps \cap kinds # {}

\* What the monitor remembers as seen was announced, is about to be, was given
\* up by Post, or was there when the branch was first seen; what the state file remembers was
\* announced already, so that a crash loses no announcement (the save comes
\* after the posts, monitor.go Start).
SeenIsAnnounced ==
    \A b \in Branches :
        /\ History(st.heads[b]) \subseteq base[b] \cup posted[b] \cup lost[b] \cup out.news[b]
           \/ Had({"unread"})
        /\ disk # None => History(disk.heads[b]) \subseteq base[b] \cup posted[b] \cup lost[b]
                           \/ Had({"unread"})

\* A commit is announced once per branch and a lightweight tag once, unless
\* the monitor died before it saved, the repository was rewritten or, for a
\* branch, git failed to show a commit, or, for a tag, only the branches were
\* seeded (State is persisted to avoid duplicates).
NoRepeats ==
    /\ \A b \in Branches : again[b] # {} => Had({"crash", "unsaved", "unread", "forced"})
    /\ \A t \in Tags :
        again[t] \cap Commits # {} => Had({"crash", "unsaved", "halfseed", "forced"})

\* Of the ancestors of a commit that is announced, all were announced, but for
\* those that the same poll found and that are still to come; and these are none
\* unless the dates of a merged history are wrong (revList: "reversed to
\* oldest->newest", by date; the batches keep the order).
AncestorsFirst ==
    [][\A b \in Branches :
        LET done == posted'[b] \cup base[b] \cup lost[b] IN
        \A c \in posted'[b] \ posted[b] :
            /\ Ancestors[c] \subseteq done \cup out'.news[b] \/ Had({"unread"})
            /\ Ancestors[c] \subseteq done \/ Had({"unread", "skewed"})]_vars

\* Nothing is skipped in silence: a branch, once seen, is seeded again only
\* after the state was lost; one that is deleted and comes back is announced.
SeededOnce ==
    [][\A b \in Branches :
        base'[b] # base[b] /\ base[b] # {} => Had({"crash", "unsaved", "badstate"})]_vars

\* A monitor that stays up catches up with every branch, although git may fail
\* now and then: a failed poll is made good by a later one.
CatchesUp ==
    \/ []<>(phase = "off" \/ stopping)
    \/ []<>(\A b \in Branches : History(remote.heads[b]) \subseteq History(st.heads[b])
                                \/ remote.heads[b] \in History(st.heads[b]))

\* An annotated tag too is announced once.
TagsOnce == \A t \in Tags : again[t] = {}
=============================================================================
