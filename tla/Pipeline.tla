------------------------------- MODULE Pipeline -------------------------------
(***************************************************************************)
(* The way of a notification: a monitor posts it to the webhook with       *)
(* retries, a handler of dflybot puts it on the bus, the subscribers take  *)
(* it to IRC and Telegram; and the shutdown of dflybot underneath.         *)
(*                                                                         *)
(* A request that the client has given up on may still reach the handler   *)
(* and enter the bus: the handler does not watch its request's context.    *)
(***************************************************************************)
EXTENDS Bus

CONSTANTS
    MaxAttempts, \* attempts per message, 3 in the code
    Stoppers,    \* what main stops, in the order it stops them
    MaxTexts,    \* bound of the model: messages the monitor may have to post
    Loads        \* bounds of the model, one of which a behaviour has: how many
                 \* messages the monitor posts, one after the other, how many
                 \* come from IRC, and whether dflybot is told to stop

ASSUME PipelineAssumption ==
    /\ MaxAttempts \in Nat \ {0}
    /\ MaxTexts \in Nat
    /\ Loads \subseteq [texts : 0..MaxTexts, chatter : Nat, signal : BOOLEAN]
    /\ Stoppers \in Seq({"irc", "telegram", "webhook", "chlog", "seen"})

VARIABLES
    load,        \* the bounds of this behaviour
    post,        \* the monitor's Post: its message, attempt and state
    acked,       \* the messages whose Post returned nil
    request,     \* per attempt of a message, where the request is
    chat,        \* messages from IRC so far
    stopped,     \* how many of Stoppers have been stopped
    exited       \* main has returned

pipeVars == <<load, post, acked, request, chat, stopped, exited>>
vars == <<busVars, pipeVars>>

Attempts == (1..MaxTexts) \X (1..MaxAttempts)

Alive == ~exited /\ ~panicked

Up(name) == \A i \in 1..stopped : Stoppers[i] # name

Init ==
    /\ BusInit
    /\ load \in Loads
    /\ post = [msg |-> 1, attempt |-> 1, state |-> "ready"]
    /\ acked = {}
    /\ request = [a \in Attempts |-> "none"]
    /\ chat = 0
    /\ stopped = 0
    /\ exited = FALSE

Current == <<post.msg, post.attempt>>

-----------------------------------------------------------------------------
(* monitor/webhook.go: Post, called for one message after the other.       *)

\* The request is lost or reaches a handler.
Send ==
    /\ post.state = "ready"
    /\ post.msg <= load.texts
    /\ \E r \in {"gone", "handling"} :
          request' = [request EXCEPT ![Current] = r]
    /\ post' = [post EXCEPT !.state = "waiting"]
    /\ UNCHANGED <<busVars, load, acked, chat, stopped, exited>>

NextMessage == [msg |-> post.msg + 1, attempt |-> 1, state |-> "ready"]

\* A 2xx response ends the call with success.
PostDone ==
    /\ post.state = "waiting"
    /\ request[Current] = "answered"
    /\ acked' = acked \cup {post.msg}
    /\ post' = NextMessage
    /\ request' = [request EXCEPT ![Current] = "gone"]
    /\ UNCHANGED <<busVars, load, chat, stopped, exited>>

LastAttempt == post.attempt = MaxAttempts

\* A lost request, a lost response or a timeout: the client cannot tell them
\* apart. It tries again after a pause, or gives the message up.
PostFails ==
    /\ post.state = "waiting"
    /\ post' = IF LastAttempt THEN NextMessage
               ELSE [post EXCEPT !.attempt = @ + 1, !.state = "ready"]
    /\ request' = [request EXCEPT ![Current] = IF @ = "answered" THEN "gone" ELSE @]
    /\ UNCHANGED <<busVars, load, acked, chat, stopped, exited>>

-----------------------------------------------------------------------------
(* webhook.go: one goroutine per request.                                  *)

\* Whether the client still waits for this request's response.
Awaited(a) == a = Current /\ post.state = "waiting"

\* Mutation of Handle: the response does not wait for the bus.
HandleAnswersFirst(a) ==
    \/ /\ request[a] = "handling"
       /\ request' = [request EXCEPT ![a] = IF Awaited(a) THEN "answered" ELSE "gone"]
       /\ UNCHANGED <<busVars, load, post, acked, chat, stopped, exited>>
    \/ /\ request[a] = "answered"
       /\ Produce(a[1])
       /\ request' = [request EXCEPT ![a] = "gone"]
       /\ UNCHANGED <<load, post, acked, chat, stopped, exited>>

\* handleNotify: Produce, which may wait for room, and then the response.
Handle(a) ==
    /\ request[a] = "handling"
    /\ Produce(a[1])
    /\ request' = [request EXCEPT ![a] = IF Awaited(a) THEN "answered" ELSE "gone"]
    /\ UNCHANGED <<load, post, acked, chat, stopped, exited>>

\* A channel message seen by the IRC handlers, which call Produce themselves.
Chat ==
    /\ Up("irc")
    /\ chat < load.chatter
    /\ Produce(0)
    /\ chat' = chat + 1
    /\ UNCHANGED <<load, post, acked, request, stopped, exited>>

-----------------------------------------------------------------------------
(* main.go: the stoppers in reverse order of their start, then the bus.    *)

\* Mutation of BusMayClose: the bus is closed first.
BusMayCloseFirst == load.signal

BusMayClose == load.signal /\ stopped = Len(Stoppers)

\* Webhook.Stop waits for the handlers, but no longer than ten seconds.
Stop ==
    /\ load.signal
    /\ stopped < Len(Stoppers)
    /\ stopped' = stopped + 1
    /\ UNCHANGED <<busVars, load, post, acked, request, chat, exited>>

Exit ==
    /\ closing = "done"
    /\ stopped = Len(Stoppers)
    /\ exited' = TRUE
    /\ UNCHANGED <<busVars, load, post, acked, request, chat, stopped>>

-----------------------------------------------------------------------------
Client == Send \/ PostDone \/ PostFails

Server == \E a \in Attempts : Handle(a)

InBus(A) == A /\ UNCHANGED pipeVars

\* What the process dflybot does; nothing after it has died.
Process ==
    \/ Server
    \/ Chat
    \/ InBus(Dispatch)
    \/ \E s \in Subs :
        InBus(Subscribe(s) \/ CloseChan(s) \/ Unmap(s) \/ Receive(s) \/ Cancel(s))
    \/ Stop
    \/ BusMayClose /\ InBus(StartClose)
    \/ InBus(EndClose)
    \/ Exit

\* Once the webhook is down every request is lost: the model leaves the monitor there.
Monitor == Alive /\ Up("webhook") /\ Client

Next == Monitor \/ (Alive /\ Process)

\* The dispatcher, Telegram's goroutine (its requests time out) and a handler
\* that can go on are scheduled; nothing is said of the IRC connection, which
\* may stop taking messages, of the network or of the operator.
Fairness ==
    /\ WF_vars(Alive /\ InBus(Dispatch))
    /\ \A s \in Subs \ {"irc"} : WF_vars(Alive /\ InBus(Receive(s)))
    /\ \A a \in Attempts : SF_vars(Alive /\ Handle(a))

Spec == Init /\ [][Next]_vars /\ Fairness
-----------------------------------------------------------------------------
PipeTypeOK ==
    /\ BusTypeOK
    /\ post.state \in {"ready", "waiting"}
    /\ post.attempt \in 1..MaxAttempts
    /\ acked \subseteq 1..(post.msg - 1)
    /\ \A a \in Attempts :
        /\ request[a] \in {"none", "handling", "answered", "gone"}
        /\ a[1] > post.msg => request[a] = "none"

Entries(m) == {t \in DOMAIN entered : entered[t] = m}

\* A message whose Post succeeded has entered the bus, and two such messages
\* first entered it in the order in which they were posted, whatever retries
\* and abandoned requests were under way; a retry may duplicate a message, but
\* no message enters the bus more often than the attempts that Post makes.
DeliveredAsPosted ==
    /\ \A m \in acked : Entries(m) # {}
    /\ \A m, n \in acked : m < n => \E t \in Entries(m) : \A u \in Entries(n) : t < u
    /\ \A m \in 1..load.texts : Cardinality(Entries(m)) <= MaxAttempts

\* The bus may bring the process down when its channels are closed under the
\* dispatcher, but only after everything that has state to save was stopped.
PanicOnlyAfterStop == panicked => stopped = Len(Stoppers)

\* A subscriber that takes nothing delays nobody: what has entered the bus is
\* dispatched to all, unless the process ends.
DispatchGoesOn == in # <<>> ~> in = <<>> \/ ~Alive
=============================================================================
