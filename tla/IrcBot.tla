-------------------------------- MODULE IrcBot --------------------------------
(***************************************************************************)
(* The IRC connection of dflybot: the handlers that keep the mirror of who *)
(* is in which channel and the seen database, against the server's truth,  *)
(* with lost connections, and the life of the process around them.         *)
(*                                                                         *)
(* goirc calls the handlers of one line after the other, and calls the one *)
(* of DISCONNECTED when no other can run any more, so that a line and its  *)
(* handlers are one step.                                                  *)
(***************************************************************************)
EXTENDS SeenStore, TLC

CONSTANTS
    Me,          \* the bot's own nick
    MaxTime,     \* bound of the model: the clock's last second
    Scenarios,   \* bounds of the model, one of which a behaviour has: the
                 \* channels and nicks there are, and whether the seen store is
                 \* saved and the process may end
    NoSet        \* no membership set for a channel

ASSUME IrcAssumption ==
    /\ Me \in Names
    /\ MaxTime \in Nat \ {0}
    /\ \A ns \in SUBSET Names : ns # NoSet
    /\ Scenarios \subseteq [chans : SUBSET Chans, nicks : SUBSET (Names \ {Me}),
                            saves : BOOLEAN]

VARIABLES
    on,          \* at the server: who is in which channel
    conn,        \* whether the connection is up
    asked,       \* the channels the bot has asked to join
    members,     \* the membership mirror
    naming,      \* the NAMES reply on its way, after our JOIN
    observed,    \* history: whose join in the channel was seen and recorded
    parted,      \* history: the channels the bot was made to leave by a PART
    now,         \* the clock
    scenario     \* the bounds of this behaviour

ircVars == <<on, conn, asked, members, naming, observed, parted, now, scenario>>
vars == <<seenVars, ircVars>>

NoNames == [ch |-> "", rest |-> {}]

NoMembers == [ch \in Chans |-> NoSet]

Init ==
    /\ SeenInit
    /\ scenario \in Scenarios
    /\ on \in [Chans -> SUBSET scenario.nicks]
    /\ \A ch \in Chans \ scenario.chans : on[ch] = {}
    /\ conn = FALSE
    /\ asked = {}
    /\ members = NoMembers
    /\ naming = NoNames
    /\ observed = [ch \in Chans |-> {}]
    /\ parted = {}
    /\ now = 1

\* The channels whose lines reach the bot.
Joined == IF conn THEN {ch \in Chans : Me \in on[ch]} ELSE {}

\* A line may come: nothing comes between our JOIN and the names.
Quiet == naming = NoNames

-----------------------------------------------------------------------------
(* The membership mirror.                                                  *)

Add(m, ch, ns) == [m EXCEPT ![ch] = ns \cup IF @ = NoSet THEN {} ELSE @]

Del(m, ch, n) == [m EXCEPT ![ch] = IF @ = NoSet THEN NoSet ELSE @ \ {n}]

MemberChannels(n) == {ch \in Chans : members[ch] # NoSet /\ n \in members[ch]}

RenameMember(old, neu) ==
    [ch \in Chans |-> IF ch \in MemberChannels(old)
                      THEN (members[ch] \ {old}) \cup {neu} ELSE members[ch]]

DelMemberAll(n) == [ch \in Chans |-> IF members[ch] = NoSet THEN NoSet ELSE members[ch] \ {n}]

-----------------------------------------------------------------------------
(* The connection.                                                         *)

\* Connect, and the handler of CONNECTED asks to join every channel.
Connect ==
    /\ ~conn
    /\ saving = "no"
    /\ conn' = TRUE
    /\ asked' = scenario.chans
    /\ UNCHANGED <<seenVars, on, members, naming, observed, parted, now, scenario>>

\* The handler of DISCONNECTED drops the mirror; the server drops the bot.
Lost ==
    /\ conn' = FALSE
    /\ asked' = {}
    /\ members' = NoMembers
    /\ naming' = NoNames
    /\ on' = [ch \in Chans |-> on[ch] \ {Me}]
    /\ observed' = [ch \in Chans |-> {}]
    /\ parted' = {}

\* The connection breaks, or the watchdog closes it.
Disconnect ==
    /\ conn
    /\ Lost
    /\ UNCHANGED <<seenVars, now, scenario>>

\* Our JOIN: the set starts anew, and the server sends the names.
MeJoins(ch) ==
    /\ conn /\ Quiet
    /\ ch \in asked
    /\ asked' = asked \ {ch}
    /\ on' = [on EXCEPT ![ch] = @ \cup {Me}]
    /\ members' = [members EXCEPT ![ch] = {Me}]
    /\ naming' = [ch |-> ch, rest |-> on[ch]]
    /\ Set(ch, Me, "join", now)
    /\ observed' = [observed EXCEPT ![ch] = {Me}]
    /\ UNCHANGED <<conn, parted, now, scenario>>

\* Mutation of NamesReply: every reply starts the set anew.
NamesReplyReplaces(chunk) == [members EXCEPT ![naming.ch] = chunk]

\* The handler of 353, for one of the replies that list the names.
NamesReply(chunk) ==
    IF members[naming.ch] = NoSet THEN members ELSE Add(members, naming.ch, chunk)

Names353 ==
    /\ naming # NoNames
    /\ IF naming.rest = {}
       THEN naming' = NoNames /\ UNCHANGED members
       ELSE \E n \in naming.rest :
              /\ members' = NamesReply({n})
              /\ naming' = [naming EXCEPT !.rest = @ \ {n}]
    /\ UNCHANGED <<seenVars, on, conn, asked, observed, parted, now, scenario>>

-----------------------------------------------------------------------------
(* The lines about others.  Those of channels the bot is not in change the *)
(* server's state only.                                                    *)

Unheard == UNCHANGED <<seenVars, members, observed>>

Joins(n, ch) ==
    /\ Quiet
    /\ n \notin on[ch]
    /\ on' = [on EXCEPT ![ch] = @ \cup {n}]
    /\ IF ch \in Joined
       THEN /\ Set(ch, n, "join", now)
            /\ members' = Add(members, ch, {n})
            /\ observed' = [observed EXCEPT ![ch] = @ \cup {n}]
       ELSE Unheard
    /\ UNCHANGED <<conn, asked, naming, parted, now, scenario>>

Leaves(n, ch) ==
    /\ n \in on[ch]
    /\ on' = [on EXCEPT ![ch] = @ \ {n}]
    /\ observed' = [observed EXCEPT ![ch] = @ \ {n}]

\* Mutation of Parts: the exit is recorded in every channel.
PartsAll(n, ch) ==
    /\ Quiet
    /\ n = Me => ch \in Joined
    /\ Leaves(n, ch)
    /\ IF ch \in Joined
       THEN Quit(n, now) /\ members' = Del(members, ch, n)
       ELSE UNCHANGED <<seenVars, members>>
    /\ parted' = IF n = Me THEN parted \cup {ch} ELSE parted
    /\ UNCHANGED <<conn, asked, naming, now, scenario>>

\* The bot's own PART leaves the others in the mirror.
Parts(n, ch) ==
    /\ Quiet
    /\ n = Me => ch \in Joined
    /\ Leaves(n, ch)
    /\ IF ch \in Joined
       THEN Set(ch, n, "exit", now) /\ members' = Del(members, ch, n)
       ELSE UNCHANGED <<seenVars, members>>
    /\ parted' = IF n = Me THEN parted \cup {ch} ELSE parted
    /\ UNCHANGED <<conn, asked, naming, now, scenario>>

\* The bot does not come back to a channel it was kicked off.
Kicked(n, ch) ==
    /\ Quiet
    /\ ch \in Joined
    /\ Leaves(n, ch)
    /\ Set(ch, n, "exit", now)
    /\ members' = IF n = Me THEN [members EXCEPT ![ch] = NoSet] ELSE Del(members, ch, n)
    /\ UNCHANGED <<conn, asked, naming, parted, now, scenario>>

Hears(n) == \E ch \in Joined : n \in on[ch]

Quits(n) ==
    /\ Quiet
    /\ on' = [ch \in Chans |-> on[ch] \ {n}]
    /\ on' # on
    /\ observed' = [ch \in Chans |-> observed[ch] \ {n}]
    /\ IF Hears(n)
       THEN members' = DelMemberAll(n) /\ Quit(n, now)
       ELSE UNCHANGED <<seenVars, members>>
    /\ UNCHANGED <<conn, asked, naming, parted, now, scenario>>

\* The new nick is free.  A record that another user of it has left is merged.
Renames(old, neu) ==
    /\ Quiet
    /\ \A ch \in Chans : neu \notin on[ch]
    /\ on' = [ch \in Chans |-> IF old \in on[ch] THEN (on[ch] \ {old}) \cup {neu} ELSE on[ch]]
    /\ on' # on
    /\ observed' = [ch \in Chans |->
                     IF old \in observed[ch]
                     THEN (observed[ch] \ {old}) \cup IF Known(ch, neu) THEN {} ELSE {neu}
                     ELSE observed[ch]]
    /\ IF Hears(old)
       THEN members' = RenameMember(old, neu) /\ Rename(old, neu)
       ELSE UNCHANGED <<seenVars, members>>
    /\ UNCHANGED <<conn, asked, naming, parted, now, scenario>>

\* PRIVMSG to a channel, and ACTION.
Speaks(n, ch) ==
    /\ Quiet
    /\ ch \in Joined
    /\ n \in on[ch]
    /\ Set(ch, n, "message", now)
    /\ UNCHANGED ircVars

Tick ==
    /\ now < MaxTime
    /\ now' = now + 1
    /\ UNCHANGED <<seenVars, on, conn, asked, members, naming, observed, parted, scenario>>

-----------------------------------------------------------------------------
(* The process: the IRC bot is stopped before the seen store.              *)

\* Mutation of StopAll: the seen store is stopped with the connection still up.
StopAllSeenFirst ==
    /\ scenario.saves
    /\ StartStop
    /\ UNCHANGED ircVars

StopAll ==
    /\ scenario.saves
    /\ StartStop
    /\ Lost
    /\ UNCHANGED <<now, scenario>>

\* The process ends after the save, or is killed at any time, and the next
\* one starts.
Restart ==
    /\ scenario.saves
    /\ Reload
    /\ Lost
    /\ UNCHANGED <<now, scenario>>

Server ==
    \/ \E ch \in scenario.chans :
        \/ MeJoins(ch)
        \/ \E n \in scenario.nicks : Joins(n, ch) \/ Speaks(n, ch)
        \/ \E n \in scenario.nicks \cup {Me} : Parts(n, ch) \/ Kicked(n, ch)
    \/ Names353
    \/ \E n \in scenario.nicks : Quits(n)
    \/ \E old, neu \in scenario.nicks : Renames(old, neu)

Writer ==
    /\ scenario.saves
    /\ \/ \E ch \in Chans : Flush(ch) \/ SaveOne(ch)
       \/ EndWrite \/ StartSaveAll \/ Saved
    /\ UNCHANGED ircVars

Next == Connect \/ Disconnect \/ Server \/ Tick \/ Writer \/ StopAll \/ Restart

\* The flush loop and Stop go on.
Spec == Init /\ [][Next]_vars /\ WF_seenVars(Writer)

-----------------------------------------------------------------------------
(* Properties.                                                             *)

\* The mirror is what the server has, of exactly the channels the bot is in,
\* save for the names still to come: QUIT and NICK lines, which name no
\* channel, reach the right channel logs (members, memberChannels).  Only of a
\* channel that the bot was made to part does a set remain, without the bot,
\* until the connection is lost.
MirrorExact ==
    \A ch \in Chans :
        IF ch \in parted
        THEN ch \notin Joined /\ members[ch] # NoSet /\ Me \notin members[ch]
        ELSE members[ch] = IF ch \notin Joined THEN NoSet
                           ELSE on[ch] \ (IF naming.ch = ch THEN naming.rest ELSE {})

\* Who is in a channel and was seen to join has no exit after that join there,
\* whatever the nick did in other channels (set, Quit, Rename), unless its
\* record was merged with one that was there.
PresentSinceJoin ==
    \A ch \in Joined : \A n \in observed[ch] :
        Known(ch, n) /\ data[ch][n].join >= data[ch][n].exit

\* When the seen store has stopped, everything the handlers recorded is on
\* disk, but for a channel whose last write failed: main stops the IRC bot
\* first, and Stop saves after the flush loop has ended.
StoppedIsSaved ==
    saving = "done" => \A ch \in Chans \ failed : file[ch] = data[ch]

\* Stopping the seen store comes to an end.
StopEnds == saving = "waiting" ~> saving \in {"done", "no"}

\* A nick change keeps what was known: no time of the old nick's record is
\* lost or replaced by an older one.
RenameKeepsHistory ==
    [][\A ch \in Chans, old \in Names :
        Known(ch, old) /\ data'[ch][old] = Zero
        => \E neu \in Names : \A f \in DOMAIN Zero : data'[ch][neu][f] >= data[ch][old][f]]_vars
=============================================================================
