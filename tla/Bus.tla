--------------------------------- MODULE Bus ---------------------------------
(***************************************************************************)
(* The message bus of dflybot: one bounded input channel, a dispatcher     *)
(* goroutine, and a bounded channel per subscriber that the dispatcher     *)
(* fills without ever waiting.                                             *)
(*                                                                         *)
(* Messages are numbered as they enter the bus; the content of message t   *)
(* is entered[t].                                                          *)
(***************************************************************************)
EXTENDS Order

CONSTANTS
    Subs,        \* the names that subscribe, each once
    InCap,       \* capacity of the input channel
    OutCap       \* capacity of a subscriber's channel

ASSUME BusAssumption == InCap \in Nat \ {0} /\ OutCap \in Nat

VARIABLES
    entered,     \* history: every message that entered, in order
    in,          \* the input channel
    sub,         \* per name: "none", then "open", "closed" and "gone"
    chan,        \* the subscribers' channels
    cancelled,   \* whose context is cancelled
    closing,     \* Close: "no", its loop "on", or "done"
    turn,        \* what the dispatcher is doing with the read lock
    last,        \* history: the last message each subscriber received, 0 if none
    panicked     \* the process died of a send on a closed channel

busVars == <<entered, in, sub, chan, cancelled, closing, turn, last, panicked>>

\* The dispatcher between two messages; it holds the read lock otherwise.
Waiting == [msg |-> 0, todo |-> {}]

BusInit ==
    /\ entered = <<>>
    /\ in = <<>>
    /\ sub = [s \in Subs |-> "none"]
    /\ chan = [s \in Subs |-> <<>>]
    /\ cancelled = {}
    /\ closing = "no"
    /\ turn = Waiting
    /\ last = [s \in Subs |-> 0]
    /\ panicked = FALSE

\* The subscribers in the map: a closed channel stays there until its
\* goroutine gets the lock.
Mapped == {s \in Subs : sub[s] \in {"open", "closed"}}

\* Produce blocks while the input channel is full.
Produce(m) ==
    /\ Len(in) < InCap
    /\ entered' = Append(entered, m)
    /\ in' = Append(in, Len(entered'))
    /\ UNCHANGED <<sub, chan, cancelled, closing, turn, last, panicked>>

Take ==
    /\ turn = Waiting
    /\ in # <<>>
    /\ turn' = [msg |-> Head(in), todo |-> Mapped]
    /\ in' = Tail(in)
    /\ UNCHANGED <<entered, sub, chan, cancelled, closing, last, panicked>>

Offered(s) == turn' = IF turn.todo = {s} THEN Waiting ELSE [turn EXCEPT !.todo = @ \ {s}]

\* Mutation of Offer: the dispatcher waits for room.
OfferBlocking(s) ==
    /\ s \in turn.todo
    /\ sub[s] = "open"
    /\ Len(chan[s]) < OutCap
    /\ chan' = [chan EXCEPT ![s] = Append(@, turn.msg)]
    /\ Offered(s)
    /\ UNCHANGED <<entered, in, sub, cancelled, closing, last, panicked>>

\* Mutation of Offer: a message that a subscriber has no room for is queued
\* again for everybody.
OfferRequeue(s) ==
    /\ s \in turn.todo
    /\ sub[s] = "open"
    /\ IF Len(chan[s]) < OutCap
       THEN chan' = [chan EXCEPT ![s] = Append(@, turn.msg)] /\ UNCHANGED in
       ELSE Len(in) < InCap /\ in' = Append(in, turn.msg) /\ UNCHANGED chan
    /\ Offered(s)
    /\ UNCHANGED <<entered, sub, cancelled, closing, last, panicked>>

\* One iteration of the dispatcher over the map: send, drop the message when
\* the channel is full, or panic when it is closed.
Offer(s) ==
    /\ s \in turn.todo
    /\ chan' = IF sub[s] = "open" /\ Len(chan[s]) < OutCap
               THEN [chan EXCEPT ![s] = Append(@, turn.msg)] ELSE chan
    /\ panicked' = (sub[s] = "closed")
    /\ Offered(s)
    /\ UNCHANGED <<entered, in, sub, cancelled, closing, last>>

\* Nobody was subscribed when the message was taken.
SkipTurn ==
    /\ turn.msg # 0
    /\ turn.todo = {}
    /\ turn' = Waiting
    /\ UNCHANGED <<entered, in, sub, chan, cancelled, closing, last, panicked>>

\* Close walks the map without a lock: a write to the map meanwhile may abort
\* the process.
MapWrite == panicked' \in {closing = "on", FALSE}

\* Subscribe and the removal from the map take the write lock, which the
\* dispatcher's read lock keeps out; closing the channel takes no lock.
Subscribe(s) ==
    /\ sub[s] = "none"
    /\ turn = Waiting
    /\ sub' = [sub EXCEPT ![s] = "open"]
    /\ MapWrite
    /\ UNCHANGED <<entered, in, chan, cancelled, closing, turn, last>>

StartClose ==
    /\ closing = "no"
    /\ closing' = "on"
    /\ UNCHANGED <<entered, in, sub, chan, cancelled, turn, last, panicked>>

Cancel(s) ==
    /\ closing = "on"
    /\ s \in Mapped \ cancelled
    /\ cancelled' = cancelled \cup {s}
    /\ UNCHANGED <<entered, in, sub, chan, closing, turn, last, panicked>>

EndClose ==
    /\ closing = "on"
    /\ Mapped \subseteq cancelled
    /\ closing' = "done"
    /\ UNCHANGED <<entered, in, sub, chan, cancelled, turn, last, panicked>>

CloseChan(s) ==
    /\ s \in cancelled
    /\ sub[s] = "open"
    /\ sub' = [sub EXCEPT ![s] = "closed"]
    /\ UNCHANGED <<entered, in, chan, cancelled, closing, turn, last, panicked>>

Unmap(s) ==
    /\ sub[s] = "closed"
    /\ turn = Waiting
    /\ sub' = [sub EXCEPT ![s] = "gone"]
    /\ MapWrite
    /\ UNCHANGED <<entered, in, chan, cancelled, closing, turn, last>>

\* The subscriber's goroutine ranges over its channel.
Receive(s) ==
    /\ chan[s] # <<>>
    /\ chan' = [chan EXCEPT ![s] = Tail(@)]
    /\ last' = [last EXCEPT ![s] = Head(chan[s])]
    /\ UNCHANGED <<entered, in, sub, cancelled, closing, turn, panicked>>

Dispatch == Take \/ SkipTurn \/ \E s \in Subs : Offer(s)

-----------------------------------------------------------------------------
BusTypeOK ==
    /\ Len(in) <= InCap
    /\ \A i \in DOMAIN in : in[i] \in DOMAIN entered
    /\ turn.msg \in 0..Len(entered)
    /\ turn.todo \subseteq Mapped
    /\ \A s \in Subs :
        /\ sub[s] \in {"none", "open", "closed", "gone"}
        /\ Len(chan[s]) <= OutCap
        /\ sub[s] = "none" => chan[s] = <<>>
    /\ cancelled \subseteq Subs
    /\ closing \in {"no", "on", "done"}
    /\ panicked \in BOOLEAN

\* A subscriber sees the messages in the order in which they entered the bus,
\* each at most once, with gaps where its channel was full, whatever the other
\* subscribers do; what it has yet to see is what is queued behind.
SubscribersInOrder ==
    \A s \in Subs :
        Increasing(<<last[s]>> \o chan[s]
                   \o (IF s \in turn.todo THEN <<turn.msg>> ELSE <<>>) \o in)
=============================================================================
