----------------------------- MODULE GithubMonitor -----------------------------
(***************************************************************************)
(* github-monitor: one repository.  A poll reads the list of events page   *)
(* by page, newest first, announces those after the watermark (the second  *)
(* of the newest event processed, and the events of that second), and      *)
(* saves the watermark after the announcements.                            *)
(*                                                                         *)
(* Events are numbered as they get into the list, which goes on changing   *)
(* while it is read.  The etag of a list is its length plus one, 0 is none.*)
(***************************************************************************)
EXTENDS SequencesExt, Order

CONSTANTS
    PageSize, MaxPages, \* of the list, 100 and 10 in the code
    Ignored,            \* the events that are of no interest
    MaxTime, MaxEvents, \* bounds of the model: the clock and the events
    Scenarios           \* bounds of the model: the sets of mishaps of which a
                        \* behaviour may have one

\* The mishaps from outside, and those that follow from the paging.
Kinds == {"crash", "unsaved", "badstate", "unsent", "late", "shift"}
PagingKinds == {"overflow", "boundary"}

ASSUME GithubAssumption ==
    /\ PageSize \in Nat \ {0} /\ MaxPages \in Nat \ {0}
    /\ MaxTime \in Nat \ {0} /\ MaxEvents \in Nat
    /\ Ignored \subseteq Nat
    /\ Scenarios \subseteq SUBSET Kinds

VARIABLES
    created,     \* at GitHub: the second of each event
    list,        \* at GitHub: the events, newest first
    now,         \* the clock
    st, disk,    \* the state in memory and in the file
    phase,       \* "off", "idle", "fetch" between two pages, "send"
    stopping,    \* the context is cancelled
    got,         \* the pages read: their number, events, and the first's etag
    out,         \* where in these the events are that are still to post
    posted,      \* history: what was posted
    again,       \* history: what was posted once more
    lost,        \* history: what Post failed to post
    base,        \* history: what was taken as seen without announcing it
    seeded,      \* history: whether there was a first run
    scenario,    \* what may go wrong in this behaviour
    mishaps      \* history: what went wrong

histVars == <<posted, again, lost, base, seeded, mishaps>>
listVars == <<created, list, now>>
progVars == <<listVars, st, disk, phase, stopping, got, out, histVars>>
vars == <<progVars, scenario>>

Events == 1..Len(created)

Fresh == [at |-> 0, ids |-> {}, etag |-> 0]

NoPages == [n |-> 0, events |-> <<>>, etag |-> 0]

Init ==
    /\ created \in {<<>>, <<1>>}
    /\ list = [i \in DOMAIN created |-> i]
    /\ now = 1
    /\ st = Fresh
    /\ disk = Fresh
    /\ phase = "off"
    /\ stopping = FALSE
    /\ got = NoPages
    /\ out = {}
    /\ posted = {}
    /\ again = {}
    /\ lost = {}
    /\ base = {}
    /\ seeded = FALSE
    /\ scenario \in Scenarios
    /\ mishaps = {}

Mishap(what) == what \in scenario /\ mishaps' = mishaps \cup {what}

\* saveState: a failure is logged and nothing else.
SaveOf(s) ==
    \/ disk' = s /\ UNCHANGED mishaps
    \/ disk' = disk /\ disk # s /\ Mishap("unsaved")

-----------------------------------------------------------------------------
(* The process.                                                            *)

\* Start: the state is loaded; one that cannot be read is begun anew.
Boot ==
    /\ phase = "off"
    /\ \/ st' = disk /\ UNCHANGED mishaps
       \/ st' = Fresh /\ disk # Fresh /\ Mishap("badstate")
    /\ phase' = "idle"
    /\ UNCHANGED <<listVars, disk, stopping, got, out, posted, again, lost, base, seeded>>

\* The process is gone, and its memory with it.
Ended ==
    /\ phase' = "off" /\ st' = Fresh /\ stopping' = FALSE
    /\ got' = NoPages /\ out' = {}

\* A scenario without lost messages has no stop while they are sent.
Cancelled ==
    /\ phase # "off"
    /\ ~stopping
    /\ phase = "send" => "unsent" \in scenario
    /\ stopping' = TRUE
    /\ UNCHANGED <<listVars, st, disk, phase, got, out, histVars>>

\* Loop returns after the poll, and Start saves on the way out.
Exit ==
    /\ phase = "idle"
    /\ stopping
    /\ SaveOf(st)
    /\ Ended
    /\ UNCHANGED <<listVars, posted, again, lost, base, seeded>>

Crash ==
    /\ phase # "off"
    /\ Mishap("crash")
    /\ Ended
    /\ UNCHANGED <<listVars, disk, posted, again, lost, base, seeded>>

-----------------------------------------------------------------------------
(* What the poll does with the events it has read, newest first.           *)

\* Mutation of FirstRun: an empty state is not told from one seeded empty.
FirstRunForgets == st.at = 0

FirstRun == st.at = 0 /\ st.etag = 0

Newest(es) == Greatest({created[e] : e \in es})

AtSecond(es, t) == {e \in es : created[e] = t}

\* Mutation of IsNew: the second of the watermark is done.
IsNewAfter(e) == created[e] > st.at

\* Mutation of IsNew: the events of the watermark's second come again.
IsNewFrom(e) == created[e] >= st.at

\* Newer than the watermark, or of its second and not processed.
IsNew(e) == created[e] > st.at \/ (created[e] = st.at /\ e \notin st.ids)

\* Where in the pages the new events are.
Accepted(es) == {i \in DOMAIN es : IsNew(es[i])}

\* Mutation of Following: newest first.
FollowingNewest(rest) == Least(rest)

\* The pages are gone through from the end, the oldest event.
Following(rest) == Greatest(rest)

\* The watermark after the events es, which are not none; the ids of the old
\* one stay when its second does.
Advanced(es, etag) ==
    [at |-> Newest(es),
     ids |-> AtSecond(es, Newest(es)) \cup IF Newest(es) = st.at THEN st.ids ELSE {},
     etag |-> etag]

\* The first run takes what there is as seen; of a second with more events than
\* the pages hold, some stay unread.
Seed(es, etag) ==
    /\ st' = IF es = {} THEN [st EXCEPT !.etag = etag]
             ELSE [at |-> Newest(es), ids |-> AtSecond(es, Newest(es)), etag |-> etag]
    /\ base' = base \cup {e \in Events : es # {} /\ created[e] <= Newest(es)
                                          /\ (created[e] = Newest(es) => e \in es)}
    /\ seeded' = TRUE
    /\ out' = {}
    /\ IF \E e \in 1..etag - 1 : e \notin es \cup base'
       THEN \/ disk' = st' /\ mishaps' = mishaps \cup {"overflow"}
            \/ /\ "unsaved" \in scenario
               /\ disk' = disk
               /\ disk # st'
               /\ mishaps' = mishaps \cup {"overflow", "unsaved"}
       ELSE SaveOf(st')

\* classify: whether the event is by nobody ignored and of a kind and action to
\* announce.
Wanted(e) == e \notin Ignored

\* There is something to announce: it is saved after that.
Announce(es, etag) ==
    /\ Accepted(es) # {}
    /\ st' = Advanced({es[i] : i \in Accepted(es)}, etag)
    /\ out' = {i \in Accepted(es) : Wanted(es[i])}
    /\ UNCHANGED <<disk, base, seeded>>

NothingNew(es, etag) ==
    /\ Accepted(es) = {}
    /\ st' = [st EXCEPT !.etag = etag]
    /\ out' = {}
    /\ SaveOf(st')
    /\ UNCHANGED <<base, seeded>>

-----------------------------------------------------------------------------
(* fetchEvents.                                                            *)

Etag == Len(list) + 1

Page(n) == SubSeq(list, (n - 1) * PageSize + 1,
                  IF n * PageSize < Len(list) THEN n * PageSize ELSE Len(list))

More(n) == n * PageSize < Len(list)

\* Paging stops at an event that is not newer than the watermark.
Reached(page) == page # <<>> /\ created[Last(page)] <= st.at

Done(n) == ~More(n) \/ Reached(Page(n)) \/ n = MaxPages

Got ==
    LET n == got.n + 1 IN
    [n |-> n, events |-> got.events \o Page(n), etag |-> IF n = 1 THEN Etag ELSE got.etag]

\* Paging stopped before the end of the list, and new events are not read that
\* the watermark will pass: there are too many pages, or the last one read ends
\* within the watermark's second.  What came after the first page was read is
\* in the next poll, unless later pages showed something later still.
Unread ==
    LET read == ToSet(Got.events) IN
    IF More(Got.n) /\ \E e \in Events \ read :
           IsNew(e) /\ (e < Got.etag \/ created[e] < Newest(read))
    THEN mishaps' = mishaps \cup {IF Reached(Page(Got.n)) THEN "boundary" ELSE "overflow"}
    ELSE UNCHANGED mishaps

\* The next page; after the last one the events are processed.
FetchPage ==
    /\ \/ phase = "idle" /\ ~stopping /\ st.etag # Etag
       \/ phase = "fetch"
    /\ IF Done(Got.n)
       THEN IF FirstRun
            THEN Seed(ToSet(Got.events), Got.etag) /\ got' = NoPages /\ phase' = "idle"
            ELSE \/ Announce(Got.events, Got.etag) /\ Unread /\ got' = Got /\ phase' = "send"
                 \/ NothingNew(Got.events, Got.etag) /\ got' = NoPages /\ phase' = "idle"
       ELSE /\ got' = Got
            /\ phase' = "fetch"
            /\ UNCHANGED <<st, disk, out, base, seeded, mishaps>>
    /\ UNCHANGED <<listVars, stopping, posted, again, lost>>

\* A page cannot be read: the poll is given up.
FetchFails ==
    /\ phase = "fetch"
    /\ phase' = "idle"
    /\ got' = NoPages
    /\ UNCHANGED <<listVars, st, disk, stopping, out, histVars>>

\* announce: the errors of Post are ignored; what it gives up on is lost, and
\* it fails at once when the context is cancelled.
Send ==
    /\ phase = "send"
    /\ out # {}
    /\ LET e == got.events[Following(out)] IN
       \/ /\ ~stopping
          /\ posted' = posted \cup {e}
          /\ again' = again \cup ({e} \cap (posted \cup base))
          /\ UNCHANGED <<lost, mishaps>>
       \/ /\ IF stopping THEN UNCHANGED mishaps ELSE Mishap("unsent")
          /\ lost' = lost \cup {e}
          /\ UNCHANGED <<posted, again>>
    /\ out' = out \ {Following(out)}
    /\ UNCHANGED <<listVars, st, disk, phase, stopping, got, base, seeded>>

Sent ==
    /\ phase = "send"
    /\ out = {}
    /\ SaveOf(st)
    /\ phase' = "idle"
    /\ got' = NoPages
    /\ UNCHANGED <<listVars, st, stopping, out, posted, again, lost, base, seeded>>

-----------------------------------------------------------------------------
(* GitHub.                                                                 *)

\* An event gets into the list at its place by time, maybe late, or maybe while
\* the list is being read.
Arrive(t) ==
    /\ Len(created) < MaxEvents
    /\ created' = Append(created, t)
    /\ \E k \in 1..Len(list) + 1 :
           /\ \A i \in DOMAIN list : created[list[i]] > t <=> i < k
           /\ list' = InsertAt(list, k, Len(created'))
    /\ \/ t = now /\ phase # "fetch" /\ UNCHANGED mishaps
       \/ t = now /\ phase = "fetch" /\ Mishap("shift")
       \/ t < now /\ phase # "fetch" /\ Mishap("late")
    /\ UNCHANGED <<now, st, disk, phase, stopping, got, out, posted, again, lost, base, seeded>>

Tick ==
    /\ now < MaxTime
    /\ now' = now + 1
    /\ UNCHANGED <<created, list, st, disk, phase, stopping, got, out, histVars>>

Step ==
    \/ Boot \/ Cancelled \/ Exit \/ Crash
    \/ FetchPage \/ FetchFails \/ Send \/ Sent
    \/ \E t \in 1..now : Arrive(t)
    \/ Tick

Next == Step /\ UNCHANGED scenario

\* The goroutine goes on, and of its requests, however many fail, some succeed.
Fairness ==
    /\ WF_progVars(Boot \/ Exit \/ Send \/ Sent)
    /\ SF_progVars(FetchPage /\ phase' # "fetch") /\ WF_progVars(FetchPage)

Spec == Init /\ [][Next]_vars /\ Fairness

-----------------------------------------------------------------------------
(* Properties.                                                             *)

Had(kinds) == mishaps \cap kinds # {}

Remaining == {got.events[i] : i \in out}

Passed(s) == {e \in Events : created[e] < s.at \/ e \in s.ids}

\* What the watermark has passed was announced, or given up by Post, or was
\* there at the first run, or is of no interest; what the saved watermark has passed was announced
\* already, so that a crash loses no announcement.  Pages that shift while they
\* are read and polls given up half-way are no excuse.
PassedIsAnnounced ==
    \/ Had({"late", "overflow", "boundary"})
    \/ /\ Passed(st) \subseteq base \cup posted \cup lost \cup Remaining \cup Ignored
       /\ Passed(disk) \subseteq base \cup posted \cup lost \cup Ignored

\* An event is announced once, unless the monitor died or could not save, or
\* the pages shifted (seenAtBoundary, setLast).
NoRepeatsBut == again = {} \/ Had({"crash", "unsaved", "shift"})

\* The announcements are chronological, over all polls, as long as the pages are
\* of one list.  What was lost may come after newer ones only when it comes
\* again, because the watermark was not saved.
Chronological ==
    [][\A e \in posted' \ posted : \A f \in posted :
         \/ created[f] <= created[e]
         \/ Had({"late", "badstate", "overflow", "boundary", "shift"})
         \/ lost # {} /\ Had({"crash", "unsaved"})]_vars

\* There is one first run: what appears in a repository that had no events is
\* announced, not taken as backlog, unless the state was lost.
OneFirstRun == [][base' # base /\ seeded => Had({"badstate", "unsaved"})]_vars

\* A monitor that stays up announces every event of interest, but for those
\* that Post gives up on.
AnnouncesAll ==
    \/ []<>(phase = "off" \/ stopping)
    \/ []<>(Had({"late", "overflow", "boundary"}) \/ Events \subseteq base \cup posted \cup lost \cup Ignored)

\* Paging stops where older pages cannot help (fetchEvents): no event that is
\* on a page that was not read is passed by.
OlderPagesCannotHelp ==
    Passed(st) \subseteq base \cup posted \cup lost \cup Remaining \cup Ignored
=============================================================================
