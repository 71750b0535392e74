----------------------------- MODULE DflybotProofs -----------------------------
(***************************************************************************)
(* Proofs about the process dflybot: its message path, for every set of    *)
(* subscribers, all capacities, every number of attempts and every order   *)
(* of stoppers; the files of its channel logs; what it remembers of !opme. *)
(***************************************************************************)
EXTENDS Dflybot, SequenceTheorems, FiniteSetTheorems, TLAPS

-----------------------------------------------------------------------------
(* Increasing sequences.                                                   *)

LEMMA IncreasingConcat ==
    ASSUME NEW p \in Seq(Nat), NEW q \in Seq(Nat), Increasing(p), Increasing(q),
           \A i \in DOMAIN p, j \in DOMAIN q : p[i] < q[j]
    PROVE  p \o q \in Seq(Nat) /\ Increasing(p \o q)
<1>1. /\ p \o q \in Seq(Nat)
      /\ Len(p \o q) = Len(p) + Len(q)
      /\ \A i \in 1..Len(p) + Len(q) :
            (p \o q)[i] = IF i <= Len(p) THEN p[i] ELSE q[i - Len(p)]
  BY ConcatProperties
<1>2. DOMAIN p = 1..Len(p) /\ DOMAIN q = 1..Len(q) /\ DOMAIN (p \o q) = 1..Len(p) + Len(q)
  BY <1>1, LenProperties
<1>l. Len(p) \in Nat /\ Len(q) \in Nat
  BY LenProperties
<1>3. ASSUME NEW i \in 1..Len(p) + Len(q), NEW j \in 1..Len(p) + Len(q), i < j
      PROVE  (p \o q)[i] < (p \o q)[j]
  <2>1. CASE j <= Len(p)
    <3>1. i \in DOMAIN p /\ j \in DOMAIN p /\ i <= Len(p)
      BY <1>2, <1>3, <1>l, <2>1
    <3>2. (p \o q)[i] = p[i] /\ (p \o q)[j] = p[j]
      BY <1>1, <2>1, <3>1
    <3>3. QED
      BY <1>3, <3>1, <3>2 DEF Increasing
  <2>2. CASE i <= Len(p) /\ ~(j <= Len(p))
    <3>1. i \in DOMAIN p /\ j - Len(p) \in DOMAIN q
      BY <1>2, <1>3, <1>l, <2>2
    <3>2. (p \o q)[i] = p[i] /\ (p \o q)[j] = q[j - Len(p)]
      BY <1>1, <2>2
    <3>3. QED
      BY <3>1, <3>2
  <2>3. CASE ~(i <= Len(p)) /\ ~(j <= Len(p))
    <3>1. /\ i - Len(p) \in 1..Len(q)
          /\ j - Len(p) \in 1..Len(q)
          /\ i - Len(p) < j - Len(p)
      BY <1>3, <1>l, <2>3
    <3>2. QED
      BY <1>1, <1>2, <1>3, <1>l, <2>3, <3>1 DEF Increasing
  <2>4. QED
    BY <1>3, <1>l, <2>1, <2>2, <2>3
<1>4. QED
  BY <1>1, <1>2, <1>3 DEF Increasing

\* Every element of a concatenation is one of its parts'.
LEMMA ConcatElements ==
    ASSUME NEW p \in Seq(Nat), NEW q \in Seq(Nat), NEW i \in DOMAIN (p \o q)
    PROVE  \/ \E k \in DOMAIN p : (p \o q)[i] = p[k]
           \/ \E k \in DOMAIN q : (p \o q)[i] = q[k]
<1>1. /\ DOMAIN p = 1..Len(p) /\ Len(p) \in Nat
      /\ DOMAIN q = 1..Len(q) /\ Len(q) \in Nat
      /\ DOMAIN (p \o q) = 1..Len(p) + Len(q)
      /\ (p \o q)[i] = IF i <= Len(p) THEN p[i] ELSE q[i - Len(p)]
  BY ConcatProperties, LenProperties
<1>2. CASE i <= Len(p)
  BY <1>1, <1>2
<1>3. CASE ~(i <= Len(p))
  <2>1. i - Len(p) \in DOMAIN q
    BY <1>1, <1>3
  <2>2. QED
    BY <1>1, <1>3, <2>1
<1>4. QED
  BY <1>2, <1>3

LEMMA IncreasingTail ==
    ASSUME NEW q \in Seq(Nat), q # <<>>, Increasing(q)
    PROVE  /\ Tail(q) \in Seq(Nat)
           /\ Increasing(Tail(q))
           /\ DOMAIN Tail(q) = 1..Len(q) - 1
           /\ Len(Tail(q)) = Len(q) - 1
           /\ \A i \in DOMAIN Tail(q) : i + 1 \in DOMAIN q /\ Tail(q)[i] = q[i + 1]
           /\ Head(q) = q[1]
           /\ 1 \in DOMAIN q
           /\ \A i \in DOMAIN Tail(q) : Head(q) < Tail(q)[i]
<1>1. /\ Tail(q) \in Seq(Nat)
      /\ Len(Tail(q)) = Len(q) - 1
      /\ \A i \in 1..Len(Tail(q)) : Tail(q)[i] = q[i + 1]
      /\ Head(q) = q[1]
      /\ Len(q) \in Nat /\ Len(q) > 0
  BY HeadTailProperties, EmptySeq, LenProperties
<1>2. /\ DOMAIN q = 1..Len(q)
      /\ DOMAIN Tail(q) = 1..Len(q) - 1
      /\ \A i \in DOMAIN Tail(q) : i + 1 \in DOMAIN q /\ Tail(q)[i] = q[i + 1]
      /\ 1 \in DOMAIN q
  <2>1. DOMAIN q = 1..Len(q) /\ DOMAIN Tail(q) = 1..Len(q) - 1
    BY <1>1, LenProperties
  <2>2. QED
    BY <1>1, <2>1
<1>3. \A i, j \in DOMAIN q : i < j => q[i] < q[j]
  BY DEF Increasing
<1>4. ASSUME NEW i \in DOMAIN Tail(q) PROVE q[1] < Tail(q)[i]
  <2>1. i + 1 \in DOMAIN q /\ 1 < i + 1 /\ Tail(q)[i] = q[i + 1]
    BY <1>1, <1>2
  <2>2. QED
    BY <1>2, <1>3, <2>1
<1>5. ASSUME NEW i \in DOMAIN Tail(q), NEW j \in DOMAIN Tail(q), i < j
      PROVE  Tail(q)[i] < Tail(q)[j]
  <2>1. i + 1 \in DOMAIN q /\ j + 1 \in DOMAIN q /\ i + 1 < j + 1
    BY <1>1, <1>2, <1>5
  <2>2. QED
    BY <1>2, <1>3, <2>1
<1>6. Increasing(Tail(q))
  BY <1>5 DEF Increasing
<1>7. QED
  BY <1>1, <1>2, <1>4, <1>6

LEMMA IncreasingAppend ==
    ASSUME NEW q \in Seq(Nat), NEW n \in Nat, Increasing(q),
           \A i \in DOMAIN q : q[i] < n
    PROVE  /\ Append(q, n) \in Seq(Nat)
           /\ Increasing(Append(q, n))
           /\ Len(Append(q, n)) = Len(q) + 1
           /\ DOMAIN Append(q, n) = 1..Len(q) + 1
           /\ \A i \in DOMAIN Append(q, n) :
                 \/ i \in DOMAIN q /\ Append(q, n)[i] = q[i]
                 \/ i = Len(q) + 1 /\ Append(q, n)[i] = n
<1>1. /\ Append(q, n) \in Seq(Nat)
      /\ Len(Append(q, n)) = Len(q) + 1
      /\ \A i \in 1..Len(q) : Append(q, n)[i] = q[i]
      /\ Append(q, n)[Len(q) + 1] = n
      /\ Len(q) \in Nat
  BY AppendProperties, LenProperties
<1>2. DOMAIN q = 1..Len(q) /\ DOMAIN Append(q, n) = 1..Len(q) + 1
  BY <1>1, LenProperties
<1>3. QED
  BY <1>1, <1>2 DEF Increasing

-----------------------------------------------------------------------------
(* The bus on its own: every step of the pipeline is one of these, or one  *)
(* that leaves the bus alone.                                              *)

SubStep(s) == Subscribe(s) \/ CloseChan(s) \/ Unmap(s) \/ Receive(s) \/ Cancel(s)

BusStep ==
    \/ \E m \in Nat : Produce(m)
    \/ Dispatch
    \/ \E s \in Subs : SubStep(s)
    \/ StartClose
    \/ EndClose

LEMMA StepOfBus == Next => BusStep \/ UNCHANGED busVars
<1>1. Client => UNCHANGED busVars
  BY DEF Client, Send, PostDone, PostFails
<1>2. Server => BusStep
  <2>1. \A a \in Attempts : a[1] \in Nat
    BY PipelineAssumption DEF Attempts
  <2>2. QED
    BY <2>1 DEF Server, Handle, BusStep
<1>3. Chat => BusStep
  BY DEF Chat, BusStep
<1>4. InBus(Dispatch) => BusStep
  BY DEF InBus, BusStep
<1>5. \A s \in Subs :
        InBus(Subscribe(s) \/ CloseChan(s) \/ Unmap(s) \/ Receive(s) \/ Cancel(s)) => BusStep
  BY DEF InBus, BusStep, SubStep
<1>6. (Stop \/ Exit) => UNCHANGED busVars
  BY DEF Stop, Exit
<1>7. (InBus(StartClose) \/ InBus(EndClose)) => BusStep
  BY DEF InBus, BusStep
<1>8. QED
  BY <1>1, <1>2, <1>3, <1>4, <1>5, <1>6, <1>7 DEF Next, Monitor, Process

SubStates == {"none", "open", "closed", "gone"}

BusType ==
    /\ entered \in Seq(Nat)
    /\ in \in Seq(Nat)
    /\ chan \in [Subs -> Seq(Nat)]
    /\ last \in [Subs -> Nat]
    /\ sub \in [Subs -> SubStates]
    /\ turn \in [msg : Nat, todo : SUBSET Subs]

\* What is queued for the dispatcher lies behind what it has in hand, and both
\* have entered.
QueueInv ==
    /\ Increasing(in)
    /\ turn.msg <= Len(entered)
    /\ \A i \in DOMAIN in : turn.msg < in[i] /\ in[i] <= Len(entered)

\* What a subscriber has lies before what it may still be offered.
SubInv(s) ==
    /\ Increasing(chan[s])
    /\ last[s] <= Len(entered)
    /\ \A i \in DOMAIN chan[s] : last[s] < chan[s][i] /\ chan[s][i] <= Len(entered)
    /\ \A j \in DOMAIN in :
        /\ last[s] < in[j]
        /\ \A i \in DOMAIN chan[s] : chan[s][i] < in[j]
    /\ s \in turn.todo =>
        /\ last[s] < turn.msg
        /\ \A i \in DOMAIN chan[s] : chan[s][i] < turn.msg

OrderInv == BusType /\ QueueInv /\ \A s \in Subs : SubInv(s)

LEMMA OrderInit == BusInit => OrderInv
<1> SUFFICES ASSUME BusInit PROVE OrderInv
  OBVIOUS
<1>1. <<>> \in Seq(Nat) /\ Len(<<>>) = 0 /\ DOMAIN <<>> = {}
  BY EmptySeq, LenProperties
<1>2. BusType
  BY <1>1 DEF BusInit, BusType, Waiting, SubStates
<1>3. QueueInv /\ \A s \in Subs : SubInv(s)
  BY <1>1 DEF BusInit, QueueInv, SubInv, Increasing, Waiting
<1>4. QED
  BY <1>2, <1>3 DEF OrderInv

LEMMA OrderProduce == ASSUME NEW m \in Nat, OrderInv, Produce(m) PROVE OrderInv'
<1> DEFINE n == Len(entered) + 1
<1>1. /\ Len(entered) \in Nat
      /\ entered' \in Seq(Nat)
      /\ Len(entered') = n
      /\ in' = Append(in, n)
  BY AppendProperties, LenProperties DEF OrderInv, BusType, Produce
<1> HIDE DEF n
<1>n. n \in Nat /\ \A k \in Nat : k <= Len(entered) => k < n
  BY <1>1 DEF n
<1>2. in \in Seq(Nat) /\ Increasing(in) /\ turn.msg \in Nat
  BY DEF OrderInv, BusType, QueueInv
<1>2a. \A i \in DOMAIN in : in[i] \in Nat
  BY <1>2, ElementOfSeq, LenProperties
<1>3. \A i \in DOMAIN in : in[i] < n
  BY <1>n, <1>2a DEF OrderInv, QueueInv
<1>4. /\ in' \in Seq(Nat)
      /\ Increasing(in')
      /\ \A i \in DOMAIN in' : (i \in DOMAIN in /\ in'[i] = in[i]) \/ in'[i] = n
  BY <1>1, <1>n, <1>2, <1>3, IncreasingAppend
<1>5. UNCHANGED <<sub, chan, turn, last>>
  BY DEF Produce
<1>6. BusType'
  BY <1>1, <1>4, <1>5 DEF OrderInv, BusType
<1>7. QueueInv'
  BY <1>1, <1>n, <1>2, <1>2a, <1>4, <1>5 DEF OrderInv, QueueInv, n
<1>8. ASSUME NEW s \in Subs PROVE SubInv(s)'
  <2>1. /\ last[s] \in Nat /\ chan[s] \in Seq(Nat)
        /\ \A i \in DOMAIN chan[s] : chan[s][i] \in Nat
    BY ElementOfSeq, LenProperties DEF OrderInv, BusType
  <2>2. SubInv(s)
    BY DEF OrderInv
  <2>3. chan'[s] = chan[s] /\ last'[s] = last[s] /\ turn' = turn
    BY <1>5
  <2>4. last[s] < n /\ \A i \in DOMAIN chan[s] : chan[s][i] < n
    BY <1>n, <2>1, <2>2 DEF SubInv
  <2>5. \A j \in DOMAIN in' :
          /\ last[s] < in'[j]
          /\ \A i \in DOMAIN chan[s] : chan[s][i] < in'[j]
    BY <1>4, <2>2, <2>4 DEF SubInv
  <2>6. last[s] <= n /\ \A i \in DOMAIN chan[s] : chan[s][i] <= n
    BY <1>n, <2>1, <2>4
  <2>7. QED
    BY <1>1, <2>2, <2>3, <2>5, <2>6 DEF SubInv
<1>9. QED
  BY <1>6, <1>7, <1>8 DEF OrderInv

LEMMA OrderTake == ASSUME OrderInv, Take PROVE OrderInv'
<1>1. in \in Seq(Nat) /\ Increasing(in) /\ in # <<>>
  BY DEF OrderInv, BusType, QueueInv, Take
<1>2. /\ in' \in Seq(Nat)
      /\ Increasing(in')
      /\ \A i \in DOMAIN in' : i + 1 \in DOMAIN in /\ in'[i] = in[i + 1]
      /\ Head(in) = in[1]
      /\ 1 \in DOMAIN in
      /\ \A i \in DOMAIN in' : Head(in) < in'[i]
  BY <1>1, IncreasingTail DEF Take
<1>3. /\ UNCHANGED <<entered, sub, chan, last>>
      /\ turn' = [msg |-> Head(in), todo |-> Mapped]
  BY DEF Take
<1>4. Head(in) \in Nat
  BY <1>1, <1>2, ElementOfSeq, LenProperties
<1>5. BusType'
  <2>1. turn' \in [msg : Nat, todo : SUBSET Subs]
    BY <1>3, <1>4 DEF Mapped
  <2>2. QED
    BY <1>2, <1>3, <2>1 DEF OrderInv, BusType
<1>6. QueueInv'
  BY <1>2, <1>3 DEF OrderInv, QueueInv
<1>7. ASSUME NEW s \in Subs PROVE SubInv(s)'
  <2>1. SubInv(s)
    BY DEF OrderInv
  <2>2. chan'[s] = chan[s] /\ last'[s] = last[s] /\ entered' = entered /\ turn'.msg = in[1]
    BY <1>2, <1>3
  <2>3. \A j \in DOMAIN in' :
          /\ last[s] < in'[j]
          /\ \A i \in DOMAIN chan[s] : chan[s][i] < in'[j]
    BY <1>2, <2>1 DEF SubInv
  <2>4. last[s] < in[1] /\ \A i \in DOMAIN chan[s] : chan[s][i] < in[1]
    BY <1>2, <2>1 DEF SubInv
  <2>5. QED
    BY <2>1, <2>2, <2>3, <2>4 DEF SubInv
<1>8. QED
  BY <1>5, <1>6, <1>7 DEF OrderInv

\* The dispatcher has no longer anything for s in hand.
LEMMA OfferedTurn ==
    ASSUME NEW s \in Subs, OrderInv, Offered(s)
    PROVE  /\ turn' \in [msg : Nat, todo : SUBSET Subs]
           /\ turn' = Waiting \/ turn'.msg = turn.msg
           /\ turn'.msg <= turn.msg
           /\ turn'.todo \subseteq turn.todo \ {s}
           /\ \A r \in turn'.todo : turn'.msg = turn.msg
<1>1. turn \in [msg : Nat, todo : SUBSET Subs]
  BY DEF OrderInv, BusType
<1>2. QED
  BY <1>1 DEF Offered, Waiting

LEMMA OrderOffer == ASSUME NEW s \in Subs, OrderInv, Offer(s) PROVE OrderInv'
<1>1. /\ s \in turn.todo
      /\ UNCHANGED <<entered, in, sub, last>>
      /\ \/ chan' = chan
         \/ chan' = [chan EXCEPT ![s] = Append(@, turn.msg)]
  BY DEF Offer
<1>2. /\ turn' \in [msg : Nat, todo : SUBSET Subs]
      /\ turn'.msg <= turn.msg
      /\ turn'.todo \subseteq turn.todo \ {s}
      /\ \A r \in turn'.todo : turn'.msg = turn.msg
  BY OfferedTurn DEF Offer
<1>3. turn.msg \in Nat /\ turn'.msg \in Nat /\ entered \in Seq(Nat) /\ Len(entered) \in Nat
  BY <1>2, LenProperties DEF OrderInv, BusType
<1>4. SubInv(s) /\ chan[s] \in Seq(Nat) /\ last[s] \in Nat
  BY DEF OrderInv, BusType
<1>5. /\ chan' \in [Subs -> Seq(Nat)]
      /\ \A r \in Subs \ {s} : chan'[r] = chan[r]
      /\ Increasing(chan'[s])
      /\ \A i \in DOMAIN chan'[s] :
            \/ i \in DOMAIN chan[s] /\ chan'[s][i] = chan[s][i]
            \/ chan'[s][i] = turn.msg
  <2>1. CASE chan' = chan
    BY <1>4, <2>1 DEF OrderInv, BusType, SubInv
  <2>2. CASE chan' = [chan EXCEPT ![s] = Append(@, turn.msg)]
    <3>1. chan \in [Subs -> Seq(Nat)]
      BY DEF OrderInv, BusType
    <3>2. chan'[s] = Append(chan[s], turn.msg) /\ \A r \in Subs \ {s} : chan'[r] = chan[r]
      BY <2>2, <3>1
    <3>3. Increasing(chan[s]) /\ \A i \in DOMAIN chan[s] : chan[s][i] < turn.msg
      BY <1>1, <1>4 DEF SubInv
    <3>4. /\ chan'[s] \in Seq(Nat)
          /\ Increasing(chan'[s])
          /\ \A i \in DOMAIN chan'[s] :
                \/ i \in DOMAIN chan[s] /\ chan'[s][i] = chan[s][i]
                \/ chan'[s][i] = turn.msg
      BY <1>3, <1>4, <3>2, <3>3, IncreasingAppend
    <3>5. chan' \in [Subs -> Seq(Nat)]
      BY <2>2, <3>1, <3>2, <3>4
    <3>6. QED
      BY <3>2, <3>4, <3>5
  <2>3. QED
    BY <1>1, <2>1, <2>2
<1>6. BusType'
  BY <1>1, <1>2, <1>5 DEF OrderInv, BusType
<1>7. QueueInv'
  <2>1. \A i \in DOMAIN in : in[i] \in Nat
    BY ElementOfSeq, LenProperties DEF OrderInv, BusType
  <2>2. QED
    BY <1>1, <1>2, <1>3, <2>1 DEF OrderInv, QueueInv
<1>8. ASSUME NEW r \in Subs PROVE SubInv(r)'
  <2>1. SubInv(r) /\ QueueInv
    BY DEF OrderInv
  <2>2. last'[r] = last[r] /\ entered' = entered /\ in' = in
    BY <1>1
  <2>3. CASE r = s
    <3>1. s \notin turn'.todo
      BY <1>2
    <3>2. \A i \in DOMAIN chan'[s] : last[s] < chan'[s][i] /\ chan'[s][i] <= Len(entered)
      BY <1>1, <1>4, <1>5, <2>1 DEF SubInv, QueueInv
    <3>3. \A j \in DOMAIN in :
            /\ last[s] < in[j]
            /\ \A i \in DOMAIN chan'[s] : chan'[s][i] < in[j]
      BY <1>4, <1>5, <2>1 DEF SubInv, QueueInv
    <3>4. QED
      BY <1>4, <1>5, <2>2, <2>3, <3>1, <3>2, <3>3 DEF SubInv
  <2>4. CASE r # s
    <3>1. chan'[r] = chan[r]
      BY <1>5, <2>4
    <3>2. r \in turn'.todo => r \in turn.todo /\ turn'.msg = turn.msg
      BY <1>2
    <3>3. QED
      BY <2>1, <2>2, <3>1, <3>2 DEF SubInv
  <2>5. QED
    BY <2>3, <2>4
<1>9. QED
  BY <1>6, <1>7, <1>8 DEF OrderInv

LEMMA OrderSkip == ASSUME OrderInv, SkipTurn PROVE OrderInv'
<1>1. UNCHANGED <<entered, in, sub, chan, last>> /\ turn' = Waiting
  BY DEF SkipTurn
<1>2. /\ turn'.msg = 0
      /\ turn'.todo = {}
      /\ turn' \in [msg : Nat, todo : SUBSET Subs]
      /\ turn \in [msg : Nat, todo : SUBSET Subs]
      /\ Len(entered) \in Nat
      /\ \A i \in DOMAIN in : in[i] \in Nat
  BY <1>1, ElementOfSeq, LenProperties DEF Waiting, OrderInv, BusType
<1>3. BusType' /\ QueueInv'
  BY <1>1, <1>2 DEF OrderInv, BusType, QueueInv
<1>4. ASSUME NEW s \in Subs PROVE SubInv(s)'
  <2>1. SubInv(s)
    BY DEF OrderInv
  <2>2. QED
    BY <1>1, <1>2, <2>1 DEF SubInv
<1>5. QED
  BY <1>3, <1>4 DEF OrderInv

LEMMA OrderReceive == ASSUME NEW s \in Subs, OrderInv, Receive(s) PROVE OrderInv'
<1>1. chan[s] \in Seq(Nat) /\ chan[s] # <<>> /\ SubInv(s)
  BY DEF OrderInv, BusType, Receive
<1>2. Increasing(chan[s])
  BY <1>1 DEF SubInv
<1> DEFINE q == Tail(chan[s])
           h == Head(chan[s])
<1>3. /\ q \in Seq(Nat)
      /\ Increasing(q)
      /\ \A i \in DOMAIN q : i + 1 \in DOMAIN chan[s] /\ q[i] = chan[s][i + 1]
      /\ h = chan[s][1]
      /\ 1 \in DOMAIN chan[s]
      /\ \A i \in DOMAIN q : h < q[i]
  BY <1>1, <1>2, IncreasingTail
<1>4. h \in Nat
  BY <1>1, <1>3, ElementOfSeq, LenProperties
<1> HIDE DEF q, h
<1>5. UNCHANGED <<entered, in, sub, turn>>
  BY DEF Receive
<1>6. /\ chan' \in [Subs -> Seq(Nat)]
      /\ last' \in [Subs -> Nat]
      /\ chan'[s] = q
      /\ last'[s] = h
      /\ \A r \in Subs \ {s} : chan'[r] = chan[r] /\ last'[r] = last[r]
  BY <1>3, <1>4 DEF Receive, OrderInv, BusType, q, h
<1>7. BusType' /\ QueueInv'
  BY <1>5, <1>6 DEF OrderInv, BusType, QueueInv
<1>8. ASSUME NEW r \in Subs PROVE SubInv(r)'
  <2>1. CASE r = s
    <3>1. h <= Len(entered) /\ \A i \in DOMAIN q : h < q[i] /\ q[i] <= Len(entered)
      BY <1>1, <1>3 DEF SubInv
    <3>2. \A j \in DOMAIN in : h < in[j] /\ \A i \in DOMAIN q : q[i] < in[j]
      BY <1>1, <1>3 DEF SubInv
    <3>3. s \in turn.todo => h < turn.msg /\ \A i \in DOMAIN q : q[i] < turn.msg
      BY <1>1, <1>3 DEF SubInv
    <3>4. QED
      BY <1>3, <1>5, <1>6, <2>1, <3>1, <3>2, <3>3 DEF SubInv
  <2>2. CASE r # s
    <3>1. SubInv(r) /\ chan'[r] = chan[r] /\ last'[r] = last[r]
      BY <1>6, <2>2 DEF OrderInv
    <3>2. QED
      BY <1>5, <3>1 DEF SubInv
  <2>3. QED
    BY <2>1, <2>2
<1>9. QED
  BY <1>7, <1>8 DEF OrderInv

\* The rest of the bus's steps move no message.
LEMMA OrderKept ==
    ASSUME OrderInv, UNCHANGED <<entered, in, chan, turn, last>>, sub' \in [Subs -> SubStates]
    PROVE  OrderInv'
<1>1. BusType' /\ QueueInv'
  BY DEF OrderInv, BusType, QueueInv
<1>2. ASSUME NEW s \in Subs PROVE SubInv(s)'
  <2>1. SubInv(s)
    BY DEF OrderInv
  <2>2. QED
    BY <2>1 DEF SubInv
<1>3. QED
  BY <1>1, <1>2 DEF OrderInv

LEMMA OrderStep == ASSUME OrderInv, BusStep PROVE OrderInv'
<1>1. ASSUME NEW m \in Nat, Produce(m) PROVE OrderInv'
  BY <1>1, OrderProduce
<1>2. CASE Take
  BY <1>2, OrderTake
<1>3. ASSUME NEW s \in Subs, Offer(s) PROVE OrderInv'
  BY <1>3, OrderOffer
<1>4. CASE SkipTurn
  BY <1>4, OrderSkip
<1>5. ASSUME NEW s \in Subs, Receive(s) PROVE OrderInv'
  BY <1>5, OrderReceive
<1>6. sub \in [Subs -> SubStates]
  BY DEF OrderInv, BusType
<1>7. ASSUME NEW s \in Subs, Subscribe(s) \/ CloseChan(s) \/ Unmap(s) \/ Cancel(s)
      PROVE  OrderInv'
  <2>1. UNCHANGED <<entered, in, chan, turn, last>>
    BY <1>7 DEF Subscribe, CloseChan, Unmap, Cancel
  <2>2. sub' \in [Subs -> SubStates]
    BY <1>6, <1>7 DEF Subscribe, CloseChan, Unmap, Cancel, SubStates
  <2>3. QED
    BY <2>1, <2>2, OrderKept
<1>8. CASE StartClose \/ EndClose
  <2>1. UNCHANGED <<entered, in, chan, turn, last>> /\ sub' \in [Subs -> SubStates]
    BY <1>6, <1>8 DEF StartClose, EndClose
  <2>2. QED
    BY <2>1, OrderKept
<1>9. QED
  BY <1>1, <1>2, <1>3, <1>4, <1>5, <1>7, <1>8 DEF BusStep, Dispatch, SubStep

\* In every reachable state the queues of the bus are in order, whatever the
\* capacities of its channels and the number of its subscribers.
THEOREM QueuesInOrder == Spec => []OrderInv
<1>1. Init => OrderInv
  BY OrderInit DEF Init
<1>2. OrderInv /\ [Next]_vars => OrderInv'
  <2> SUFFICES ASSUME OrderInv, [Next]_vars PROVE OrderInv'
    OBVIOUS
  <2>1. CASE BusStep
    BY <2>1, OrderStep
  <2>2. CASE UNCHANGED busVars
    <3>1. UNCHANGED <<entered, in, chan, turn, last>> /\ sub' = sub
      BY <2>2 DEF busVars
    <3>2. sub' \in [Subs -> SubStates]
      BY <3>1 DEF OrderInv, BusType
    <3>3. QED
      BY <3>1, <3>2, OrderKept
  <2>3. QED
    BY <2>1, <2>2, StepOfBus DEF vars
<1>3. QED
  BY <1>1, <1>2, PTL DEF Spec

LEMMA OneInOrder == ASSUME NEW n \in Nat PROVE <<n>> \in Seq(Nat) /\ Increasing(<<n>>) /\ DOMAIN <<n>> = {1} /\ <<n>>[1] = n
  BY DEF Increasing

LEMMA OrderInvInOrder == OrderInv => SubscribersInOrder
<1> SUFFICES ASSUME OrderInv, NEW s \in Subs
             PROVE  Increasing(<<last[s]>> \o chan[s]
                        \o (IF s \in turn.todo THEN <<turn.msg>> ELSE <<>>) \o in)
  BY DEF SubscribersInOrder
<1> DEFINE t == IF s \in turn.todo THEN <<turn.msg>> ELSE <<>>
           a == <<last[s]>> \o chan[s]
           b == a \o t
<1>1. /\ last[s] \in Nat
      /\ chan[s] \in Seq(Nat)
      /\ in \in Seq(Nat)
      /\ turn.msg \in Nat
      /\ Increasing(in)
      /\ SubInv(s)
      /\ QueueInv
  BY DEF OrderInv, BusType, QueueInv
<1>2. t \in Seq(Nat) /\ Increasing(t) /\ \A i \in DOMAIN t : s \in turn.todo /\ t[i] = turn.msg
  <2>1. CASE s \in turn.todo
    BY <1>1, <2>1, OneInOrder
  <2>2. CASE s \notin turn.todo
    <3>1. t = <<>>
      BY <2>2
    <3>2. <<>> \in Seq(Nat) /\ DOMAIN <<>> = {}
      BY EmptySeq, LenProperties
    <3>3. QED
      BY <3>1, <3>2 DEF Increasing
  <2>3. QED
    BY <2>1, <2>2
<1> HIDE DEF t
<1>3. a \in Seq(Nat) /\ Increasing(a)
      /\ \A i \in DOMAIN a : a[i] = last[s] \/ \E k \in DOMAIN chan[s] : a[i] = chan[s][k]
  <2>1. \A i \in DOMAIN <<last[s]>>, j \in DOMAIN chan[s] : <<last[s]>>[i] < chan[s][j]
    BY <1>1, OneInOrder DEF SubInv
  <2>2. Increasing(chan[s])
    BY <1>1 DEF SubInv
  <2>3. a \in Seq(Nat) /\ Increasing(a)
    BY <1>1, <2>1, <2>2, OneInOrder, IncreasingConcat
  <2>4. \A i \in DOMAIN a : a[i] = last[s] \/ \E k \in DOMAIN chan[s] : a[i] = chan[s][k]
    BY <1>1, OneInOrder, ConcatElements
  <2>5. QED
    BY <2>3, <2>4
<1> HIDE DEF a
<1>4. b \in Seq(Nat) /\ Increasing(b)
      /\ \A i \in DOMAIN b : (\E k \in DOMAIN a : b[i] = a[k]) \/ \E k \in DOMAIN t : b[i] = t[k]
  <2>1. \A i \in DOMAIN a, j \in DOMAIN t : a[i] < t[j]
    BY <1>1, <1>2, <1>3 DEF SubInv
  <2>2. b \in Seq(Nat) /\ Increasing(b)
    BY <1>2, <1>3, <2>1, IncreasingConcat
  <2>3. QED
    BY <1>2, <1>3, <2>2, ConcatElements
<1> HIDE DEF b
<1>5. \A i \in DOMAIN b, j \in DOMAIN in : b[i] < in[j]
  <2>1. \A k \in DOMAIN a, j \in DOMAIN in : a[k] < in[j]
    BY <1>1, <1>3 DEF SubInv
  <2>2. \A k \in DOMAIN t, j \in DOMAIN in : t[k] < in[j]
    BY <1>1, <1>2 DEF QueueInv
  <2>3. QED
    BY <1>4, <2>1, <2>2
<1>6. Increasing(b \o in)
  BY <1>1, <1>4, <1>5, IncreasingConcat
<1>7. QED
  BY <1>6 DEF a, b, t

\* bus.go: whatever the capacities, a subscriber sees the messages in the order
\* in which they entered the bus, each at most once.
THEOREM InOrder == Spec => []SubscribersInOrder
  BY QueuesInOrder, OrderInvInOrder, PTL

-----------------------------------------------------------------------------
(* Capacities.                                                             *)

CapInv ==
    /\ Len(in) <= InCap
    /\ turn.todo \subseteq Mapped
    /\ \A s \in Subs : Len(chan[s]) <= OutCap /\ (sub[s] = "none" => chan[s] = <<>>)
    /\ cancelled \subseteq Subs
    /\ closing \in {"no", "on", "done"}
    /\ panicked \in BOOLEAN

LEMMA CapStep == ASSUME OrderInv, CapInv, BusStep PROVE CapInv'
<1>1. /\ in \in Seq(Nat)
      /\ chan \in [Subs -> Seq(Nat)]
      /\ sub \in [Subs -> SubStates]
      /\ turn \in [msg : Nat, todo : SUBSET Subs]
      /\ InCap \in Nat /\ OutCap \in Nat
      /\ Len(in) \in Nat
      /\ \A s \in Subs : Len(chan[s]) \in Nat
  BY BusAssumption, LenProperties DEF OrderInv, BusType
<1>2. ASSUME NEW m \in Nat, Produce(m) PROVE CapInv'
  <2>1. /\ in' = Append(in, Len(entered')) /\ Len(entered') \in Nat
        /\ UNCHANGED <<sub, chan, cancelled, closing, turn, panicked>>
    BY <1>2, AppendProperties, LenProperties DEF Produce, OrderInv, BusType
  <2>2. Len(in') = Len(in) + 1
    BY <1>1, <2>1, AppendProperties
  <2>3. QED
    BY <1>1, <1>2, <2>1, <2>2 DEF Produce, CapInv, Mapped
<1>3. CASE Take
  <2>1. /\ in' = Tail(in) /\ in # <<>> /\ turn'.todo = Mapped
        /\ UNCHANGED <<sub, chan, cancelled, closing, panicked>>
    BY <1>3 DEF Take
  <2>2. Len(in') <= InCap
    BY <1>1, <2>1, HeadTailProperties DEF CapInv
  <2>3. QED
    BY <2>1, <2>2 DEF CapInv, Mapped
<1>4. CASE SkipTurn
  BY <1>4 DEF SkipTurn, CapInv, Mapped, Waiting
<1>5. ASSUME NEW s \in Subs, Offer(s) PROVE CapInv'
  <2>1. turn'.todo \subseteq turn.todo
    BY <1>5, OfferedTurn DEF Offer
  <2>2. UNCHANGED <<in, sub, cancelled, closing>>
    BY <1>5 DEF Offer
  <2>3. panicked' \in BOOLEAN
    BY <1>5, Zenon DEF Offer
  <2>4. ASSUME NEW r \in Subs
        PROVE  Len(chan'[r]) <= OutCap /\ (sub[r] = "none" => chan'[r] = <<>>)
    <3>1. CASE chan' = chan
      BY <3>1 DEF CapInv
    <3>2. CASE /\ chan' = [chan EXCEPT ![s] = Append(@, turn.msg)]
               /\ sub[s] = "open"
               /\ Len(chan[s]) < OutCap
      <4>1. chan'[s] = Append(chan[s], turn.msg) /\ (r # s => chan'[r] = chan[r])
        BY <1>1, <3>2
      <4>2. chan[s] \in Seq(Nat) /\ turn.msg \in Nat
        BY <1>1
      <4>3. Len(chan'[s]) = Len(chan[s]) + 1
        BY <4>1, <4>2, AppendProperties
      <4>4. QED
        BY <1>1, <3>2, <4>1, <4>3 DEF CapInv
    <3>3. QED
      BY <1>5, <3>1, <3>2 DEF Offer
  <2>5. QED
    BY <2>1, <2>2, <2>3, <2>4 DEF CapInv, Mapped
<1>6. ASSUME NEW s \in Subs, Receive(s) PROVE CapInv'
  <2>1. UNCHANGED <<in, sub, cancelled, closing, turn, panicked>>
    BY <1>6 DEF Receive
  <2>2. /\ chan[s] \in Seq(Nat) /\ chan[s] # <<>>
        /\ chan'[s] = Tail(chan[s])
        /\ \A r \in Subs \ {s} : chan'[r] = chan[r]
    BY <1>1, <1>6 DEF Receive
  <2>3. Len(chan'[s]) <= OutCap
    BY <1>1, <2>2, HeadTailProperties DEF CapInv
  <2>4. QED
    BY <2>1, <2>2, <2>3 DEF CapInv, Mapped
<1>7. ASSUME NEW s \in Subs, Subscribe(s) \/ Unmap(s) PROVE CapInv'
  <2>1. UNCHANGED <<in, chan, cancelled, closing, turn>> /\ turn.todo = {}
    BY <1>7 DEF Subscribe, Unmap, Waiting
  <2>2. panicked' \in BOOLEAN
    BY <1>7, Zenon DEF Subscribe, Unmap, MapWrite
  <2>3. \A r \in Subs : sub'[r] = "none" => sub[r] = "none"
    BY <1>1, <1>7 DEF Subscribe, Unmap
  <2>4. QED
    BY <2>1, <2>2, <2>3 DEF CapInv
<1>8. ASSUME NEW s \in Subs, CloseChan(s) PROVE CapInv'
  <2>1. /\ UNCHANGED <<in, chan, cancelled, closing, turn, panicked>>
        /\ sub[s] = "open" /\ sub'[s] = "closed"
        /\ \A r \in Subs \ {s} : sub'[r] = sub[r]
    BY <1>1, <1>8 DEF CloseChan
  <2>2. QED
    BY <2>1 DEF CapInv, Mapped
<1>9. ASSUME NEW s \in Subs, Cancel(s) PROVE CapInv'
  BY <1>9 DEF Cancel, CapInv, Mapped
<1>10. CASE StartClose \/ EndClose
  BY <1>10 DEF StartClose, EndClose, CapInv, Mapped
<1>11. QED
  BY <1>2, <1>3, <1>4, <1>5, <1>6, <1>7, <1>8, <1>9, <1>10 DEF BusStep, Dispatch, SubStep

\* bus.go: no channel holds more than its capacity, the dispatcher has in hand
\* only subscribers that are in the map, and whatever is queued has entered.
THEOREM BusTyped == Spec => []BusTypeOK
<1>1. Init => CapInv
  <2> SUFFICES ASSUME Init PROVE CapInv
    OBVIOUS
  <2>1. InCap \in Nat /\ OutCap \in Nat
    BY BusAssumption
  <2>2. /\ in = <<>> /\ turn.todo = {}
        /\ cancelled = {} /\ closing = "no" /\ panicked = FALSE
    BY DEF Init, BusInit, Waiting
  <2>3. Len(in) <= InCap
    BY <2>1, <2>2
  <2>4. ASSUME NEW s \in Subs PROVE chan[s] = <<>> /\ Len(chan[s]) <= OutCap
    <3>1. chan[s] = <<>>
      BY DEF Init, BusInit
    <3>2. QED
      BY <2>1, <3>1
  <2>5. QED
    BY <2>2, <2>3, <2>4 DEF CapInv
<1>2. OrderInv /\ CapInv /\ [Next]_vars => CapInv'
  <2>1. CapInv /\ UNCHANGED busVars => CapInv'
    BY DEF busVars, CapInv, Mapped
  <2>2. QED
    BY <2>1, CapStep, StepOfBus DEF vars
<1>3. OrderInv /\ CapInv => BusTypeOK
  <2> SUFFICES ASSUME OrderInv, CapInv PROVE BusTypeOK
    OBVIOUS
  <2>1. /\ entered \in Seq(Nat) /\ in \in Seq(Nat) /\ turn.msg \in Nat
        /\ sub \in [Subs -> SubStates]
    BY DEF OrderInv, BusType
  <2>2. Len(entered) \in Nat /\ DOMAIN entered = 1..Len(entered)
    BY <2>1, LenProperties
  <2>3. \A i \in DOMAIN in : in[i] \in Nat
    BY <2>1, ElementOfSeq, LenProperties
  <2>4. \A i \in DOMAIN in : in[i] \in DOMAIN entered
    BY <2>1, <2>2, <2>3 DEF OrderInv, QueueInv
  <2>5. turn.msg \in 0..Len(entered)
    BY <2>1, <2>2 DEF OrderInv, QueueInv
  <2>6. QED
    BY <2>1, <2>4, <2>5 DEF CapInv, BusTypeOK, SubStates
<1>4. QED
  BY <1>1, <1>2, <1>3, QueuesInOrder, PTL DEF Spec

-----------------------------------------------------------------------------
(* The client's side.                                                      *)

Stages == {"none", "handling", "answered", "gone"}

PostInv ==
    /\ post \in [msg : Nat \ {0}, attempt : 1..MaxAttempts, state : {"ready", "waiting"}]
    /\ acked \subseteq 1..(post.msg - 1)
    /\ request \in [Attempts -> Stages]
    /\ \A a \in Attempts : a[1] > post.msg => request[a] = "none"

LEMMA PostStep == ASSUME PostInv, Next PROVE PostInv'
<1>0. /\ MaxAttempts \in Nat \ {0}
      /\ post.msg \in Nat \ {0}
      /\ \A a \in Attempts : a[1] \in Nat
      /\ request \in [Attempts -> Stages]
  BY PipelineAssumption DEF PostInv, Attempts
<1>1. CASE Send
  <2>1. PICK r \in {"gone", "handling"} : request' = [request EXCEPT ![Current] = r]
    BY <1>1 DEF Send
  <2>2. /\ post' = [post EXCEPT !.state = "waiting"] /\ acked' = acked
        /\ post' \in [msg : Nat \ {0}, attempt : 1..MaxAttempts, state : {"ready", "waiting"}]
        /\ post'.msg = post.msg
    BY <1>1 DEF Send, PostInv
  <2>3. request' \in [Attempts -> Stages]
    BY <1>0, <2>1 DEF Stages
  <2>4. \A a \in Attempts : a # Current => request'[a] = request[a]
    BY <1>0, <2>1
  <2>5. Current[1] = post.msg
    BY DEF Current
  <2>6. QED
    BY <1>0, <2>2, <2>3, <2>4, <2>5 DEF PostInv
<1>2. CASE PostDone
  <2>1. /\ post' = NextMessage
        /\ acked' = acked \cup {post.msg}
        /\ request' = [request EXCEPT ![Current] = "gone"]
    BY <1>2 DEF PostDone
  <2>2. /\ post' \in [msg : Nat \ {0}, attempt : 1..MaxAttempts, state : {"ready", "waiting"}]
        /\ post'.msg = post.msg + 1
    BY <1>0, <2>1 DEF NextMessage
  <2>3. acked' \subseteq 1..(post'.msg - 1)
    <3>1. \A m \in acked : m \in Nat /\ 1 <= m /\ m <= post.msg - 1
      BY <1>0 DEF PostInv
    <3>2. \A m \in acked' : m \in Nat /\ 1 <= m /\ m <= post'.msg - 1
      BY <1>0, <2>1, <2>2, <3>1
    <3>3. post'.msg - 1 \in Nat
      BY <1>0, <2>2
    <3>4. QED
      BY <3>2, <3>3
  <2>4. request' \in [Attempts -> Stages]
    BY <1>0, <2>1 DEF Stages
  <2>5. \A a \in Attempts : a # Current => request'[a] = request[a]
    BY <1>0, <2>1
  <2>6. Current[1] = post.msg
    BY DEF Current
  <2>7. QED
    BY <1>0, <2>2, <2>3, <2>4, <2>5, <2>6 DEF PostInv
<1>3. CASE PostFails
  <2>1. /\ post' = IF LastAttempt THEN NextMessage
                   ELSE [post EXCEPT !.attempt = @ + 1, !.state = "ready"]
        /\ acked' = acked
        /\ request' = [request EXCEPT ![Current] = IF @ = "answered" THEN "gone" ELSE @]
    BY <1>3 DEF PostFails
  <2>2. /\ post' \in [msg : Nat \ {0}, attempt : 1..MaxAttempts, state : {"ready", "waiting"}]
        /\ post'.msg = post.msg \/ post'.msg = post.msg + 1
    <3>1. CASE LastAttempt
      BY <1>0, <2>1, <3>1 DEF NextMessage
    <3>2. CASE ~LastAttempt
      <4>1. post.attempt + 1 \in 1..MaxAttempts
        BY <1>0, <3>2 DEF PostInv, LastAttempt
      <4>2. post' = [post EXCEPT !.attempt = @ + 1, !.state = "ready"]
        BY <2>1, <3>2
      <4>3. QED
        BY <1>0, <4>1, <4>2 DEF PostInv
    <3>3. QED
      BY <3>1, <3>2
  <2>3. acked' \subseteq 1..(post'.msg - 1)
    BY <1>0, <2>1, <2>2 DEF PostInv
  <2>4. request' \in [Attempts -> Stages]
    BY <1>0, <2>1 DEF Stages
  <2>5. \A a \in Attempts : a # Current => request'[a] = request[a]
    BY <1>0, <2>1
  <2>6. Current[1] = post.msg
    BY DEF Current
  <2>7. QED
    BY <1>0, <2>2, <2>3, <2>4, <2>5, <2>6 DEF PostInv
<1>4. ASSUME NEW a \in Attempts, Handle(a) PROVE PostInv'
  <2>1. /\ UNCHANGED <<post, acked>>
        /\ request[a] = "handling"
        /\ request' = [request EXCEPT ![a] = IF Awaited(a) THEN "answered" ELSE "gone"]
    BY <1>4 DEF Handle
  <2>2. /\ request' \in [Attempts -> Stages]
        /\ \A b \in Attempts : b # a => request'[b] = request[b]
    BY <1>0, <2>1 DEF Stages
  <2>3. QED
    BY <1>0, <2>1, <2>2 DEF PostInv
<1>5. ASSUME UNCHANGED <<post, acked, request>> PROVE PostInv'
  BY <1>5 DEF PostInv
<1>6. ASSUME Chat \/ Stop \/ Exit PROVE PostInv'
  BY <1>5, <1>6 DEF Chat, Stop, Exit
<1>7. ASSUME \/ InBus(Dispatch) \/ InBus(StartClose) \/ InBus(EndClose)
             \/ \E s \in Subs :
                    InBus(Subscribe(s) \/ CloseChan(s) \/ Unmap(s) \/ Receive(s) \/ Cancel(s))
      PROVE  PostInv'
  <2>1. UNCHANGED pipeVars
    BY <1>7 DEF InBus
  <2>2. QED
    BY <1>5, <2>1 DEF pipeVars
<1>8. QED
  BY <1>1, <1>2, <1>3, <1>4, <1>6, <1>7 DEF Next, Monitor, Process, Client, Server

\* monitor/webhook.go: besides the bus, only what was posted is acknowledged, no
\* attempt lies beyond the last, and no request is on its way for a message that
\* is not yet posted.
THEOREM PipeTyped == Spec => []PipeTypeOK
<1>1. Init => PostInv
  BY PipelineAssumption DEF Init, PostInv, Attempts, Stages
<1>2. PostInv /\ [Next]_vars => PostInv'
  <2>1. PostInv /\ UNCHANGED vars => PostInv'
    BY DEF vars, pipeVars, PostInv
  <2>2. QED
    BY <2>1, PostStep
<1>3. PostInv /\ BusTypeOK => PipeTypeOK
  BY DEF PostInv, PipeTypeOK, Stages
<1>4. QED
  BY <1>1, <1>2, <1>3, BusTyped, PTL DEF Spec

-----------------------------------------------------------------------------
(* The shutdown.                                                           *)

StopInv ==
    /\ sub \in [Subs -> SubStates]
    /\ closing # "no" => stopped = Len(Stoppers)
    /\ cancelled # {} => closing # "no"
    /\ \A s \in Subs : sub[s] \in {"closed", "gone"} => s \in cancelled
    /\ panicked => stopped = Len(Stoppers)

LEMMA StopBus ==
    ASSUME StopInv, BusStep, UNCHANGED stopped,
           closing' # "no" => closing # "no" \/ stopped = Len(Stoppers)
    PROVE  StopInv'
<1>1. ASSUME NEW s \in Subs, Offer(s) PROVE StopInv'
  <2>1. UNCHANGED <<sub, cancelled, closing>> /\ (panicked' => sub[s] = "closed")
    BY <1>1 DEF Offer
  <2>2. QED
    BY <2>1 DEF StopInv
<1>2. ASSUME NEW s \in Subs, Subscribe(s) \/ Unmap(s) PROVE StopInv'
  <2>1. UNCHANGED <<cancelled, closing>> /\ (panicked' => closing = "on")
    BY <1>2 DEF Subscribe, Unmap, MapWrite
  <2>2. /\ sub' \in [Subs -> SubStates]
        /\ \A r \in Subs : sub'[r] \in {"closed", "gone"} => sub[r] \in {"closed", "gone"}
    BY <1>2 DEF Subscribe, Unmap, StopInv, SubStates
  <2>3. QED
    BY <2>1, <2>2 DEF StopInv
<1>3. ASSUME NEW s \in Subs, CloseChan(s) PROVE StopInv'
  <2>1. UNCHANGED <<cancelled, closing, panicked>> /\ s \in cancelled
    BY <1>3 DEF CloseChan
  <2>2. /\ sub' \in [Subs -> SubStates]
        /\ \A r \in Subs \ {s} : sub'[r] = sub[r]
    BY <1>3 DEF CloseChan, StopInv, SubStates
  <2>3. QED
    BY <2>1, <2>2 DEF StopInv
<1>4. ASSUME NEW s \in Subs, Cancel(s) PROVE StopInv'
  BY <1>4 DEF Cancel, StopInv
<1>5. CASE StartClose \/ EndClose
  BY <1>5 DEF StartClose, EndClose, StopInv
<1>6. ASSUME (\E m \in Nat : Produce(m)) \/ Take \/ SkipTurn \/ \E s \in Subs : Receive(s)
      PROVE  StopInv'
  <2>1. UNCHANGED <<sub, cancelled, closing, panicked>>
    BY <1>6 DEF Produce, Take, SkipTurn, Receive
  <2>2. QED
    BY <2>1 DEF StopInv
<1>7. QED
  BY <1>1, <1>2, <1>3, <1>4, <1>5, <1>6 DEF BusStep, Dispatch, SubStep

LEMMA StopStep == ASSUME StopInv, Next PROVE StopInv'
<1>1. CASE Client
  BY <1>1 DEF Client, Send, PostDone, PostFails, busVars, StopInv
<1>2. CASE Stop
  <2>1. stopped < Len(Stoppers) /\ UNCHANGED busVars
    BY <1>2 DEF Stop
  <2>2. Len(Stoppers) \in Nat
    BY PipelineAssumption, LenProperties
  <2>3. closing = "no" /\ cancelled = {} /\ ~panicked
    BY <2>1, <2>2 DEF StopInv
  <2>4. QED
    BY <2>1, <2>3 DEF busVars, StopInv
<1>3. CASE Exit
  BY <1>3 DEF Exit, busVars, StopInv
<1>4. CASE BusMayClose /\ InBus(StartClose)
  <2>1. BusStep /\ UNCHANGED stopped /\ stopped = Len(Stoppers)
    BY <1>4 DEF BusMayClose, InBus, BusStep, pipeVars
  <2>2. QED
    BY <2>1, StopBus
<1>5. ASSUME \/ Server
             \/ Chat
             \/ InBus(Dispatch)
             \/ \E s \in Subs : InBus(SubStep(s))
             \/ InBus(EndClose)
      PROVE  StopInv'
  <2>1. CASE Server
    <3>1. BusStep
      <4>1. \A a \in Attempts : a[1] \in Nat
        BY PipelineAssumption DEF Attempts
      <4>2. QED
        BY <2>1, <4>1 DEF Server, Handle, BusStep
    <3>2. UNCHANGED stopped /\ closing' = closing
      BY <2>1 DEF Server, Handle, Produce
    <3>3. QED
      BY <3>1, <3>2, StopBus
  <2>2. CASE Chat
    <3>1. BusStep /\ UNCHANGED stopped /\ closing' = closing
      BY <2>2 DEF Chat, BusStep, Produce
    <3>2. QED
      BY <3>1, StopBus
  <2>3. CASE InBus(Dispatch)
    <3>1. BusStep /\ UNCHANGED stopped /\ closing' = closing
      BY <2>3 DEF InBus, BusStep, pipeVars, Dispatch, Take, SkipTurn, Offer
    <3>2. QED
      BY <3>1, StopBus
  <2>4. ASSUME NEW s \in Subs, InBus(SubStep(s)) PROVE StopInv'
    <3>1. BusStep /\ UNCHANGED stopped
      BY <2>4 DEF InBus, BusStep, pipeVars
    <3>2. closing' = closing
      BY <2>4 DEF InBus, SubStep, Subscribe, CloseChan, Unmap, Receive, Cancel
    <3>3. QED
      BY <3>1, <3>2, StopBus
  <2>5. CASE InBus(EndClose)
    <3>1. BusStep /\ UNCHANGED stopped /\ closing # "no"
      BY <2>5 DEF InBus, BusStep, pipeVars, EndClose
    <3>2. QED
      BY <3>1, StopBus
  <2>6. QED
    BY <1>5, <2>1, <2>2, <2>3, <2>4, <2>5
<1>6. QED
  BY <1>1, <1>2, <1>3, <1>4, <1>5 DEF Next, Monitor, Process, SubStep

\* main.go: the bus is closed after the last stopper, and only its closing takes
\* channels away from the subscribers.
THEOREM StopOrder == Spec => []StopInv
<1>1. Init => StopInv
  BY DEF Init, BusInit, StopInv, SubStates
<1>2. StopInv /\ [Next]_vars => StopInv'
  <2>1. StopInv /\ UNCHANGED vars => StopInv'
    BY DEF vars, busVars, pipeVars, StopInv
  <2>2. QED
    BY <2>1, StopStep
<1>3. QED
  BY <1>1, <1>2, PTL DEF Spec

\* bus.go, main.go: the process dies of a send on a closed channel, or of a map
\* changed under a loop over it, at the earliest when everything that main stops
\* has been stopped, whatever the order in which it stops them.
THEOREM PanicOnlyAfterSave == Spec => []PanicOnlyAfterStop
<1>1. StopInv => PanicOnlyAfterStop
  BY DEF StopInv, PanicOnlyAfterStop
<1>2. QED
  BY <1>1, StopOrder, PTL

-----------------------------------------------------------------------------
(* What enters the bus for a message, against the attempts to post it.     *)

\* The attempts at message m whose handler is done or that were lost.
Over(m) == {k \in 1..MaxAttempts : request[<<m, k>>] \in {"answered", "gone"}}

\* m first entered before n did.
Before(m, n) == \E t \in Entries(m) : \A u \in Entries(n) : t < u

\* An attempt that is still to be made.
Ahead(a) ==
    /\ a[1] = post.msg
    /\ a[2] > post.attempt \/ (a[2] = post.attempt /\ post.state = "ready")

LoadInv ==
    /\ load \in Loads
    /\ post.state = "waiting" => post.msg <= MaxTexts
    /\ \A a \in Attempts : Ahead(a) => request[a] = "none"

\* An answer follows the entry, nothing enters before it is posted, and every
\* entry uses up an attempt.
EntryInv ==
    /\ \A a \in Attempts : request[a] = "answered" => Entries(a[1]) # {}
    /\ \A t \in DOMAIN entered : entered[t] <= post.msg
    /\ \A m \in acked : Entries(m) # {}
    /\ \A m \in acked, n \in Nat : m < n => Before(m, n)
    /\ \A m \in 1..MaxTexts : Cardinality(Entries(m)) <= Cardinality(Over(m))

DeliverInv == PostInv /\ entered \in Seq(Nat) /\ LoadInv /\ EntryInv

LEMMA EntriesFinite ==
    ASSUME NEW m, entered \in Seq(Nat)
    PROVE  /\ Entries(m) \subseteq Nat
           /\ IsFiniteSet(Entries(m))
           /\ Cardinality(Entries(m)) \in Nat
<1>1. DOMAIN entered = 1..Len(entered) /\ Len(entered) \in Nat
  BY LenProperties
<1>2. IsFiniteSet(1..Len(entered))
  BY <1>1, FS_Interval
<1>3. Entries(m) \in SUBSET (1..Len(entered))
  BY <1>1 DEF Entries
<1>4. IsFiniteSet(Entries(m))
  BY <1>2, <1>3, FS_Subset
<1>5. QED
  BY <1>3, <1>4, FS_CardinalityType

LEMMA OverFinite ==
    ASSUME NEW m
    PROVE  /\ IsFiniteSet(Over(m))
           /\ Cardinality(Over(m)) \in Nat
           /\ Cardinality(Over(m)) <= MaxAttempts
<1>1. MaxAttempts \in Nat \ {0}
  BY PipelineAssumption
<1>2. IsFiniteSet(1..MaxAttempts) /\ Cardinality(1..MaxAttempts) = MaxAttempts
  BY <1>1, FS_Interval
<1>3. Over(m) \in SUBSET (1..MaxAttempts)
  BY DEF Over
<1>4. IsFiniteSet(Over(m)) /\ Cardinality(Over(m)) <= MaxAttempts
  BY <1>2, <1>3, FS_Subset
<1>5. QED
  BY <1>4, FS_CardinalityType

\* A message that enters comes behind all that have entered.
LEMMA EntriesProduce ==
    ASSUME NEW m \in Nat, entered \in Seq(Nat), Produce(m)
    PROVE  /\ entered' \in Seq(Nat)
           /\ \A n : Entries(n)' = IF n = m THEN Entries(n) \cup {Len(entered) + 1} ELSE Entries(n)
           /\ \A n : \A t \in Entries(n) : t < Len(entered) + 1
           /\ \A t \in DOMAIN entered' : entered'[t] = m \/ (t \in DOMAIN entered /\ entered'[t] = entered[t])
<1>1. /\ entered' \in Seq(Nat)
      /\ Len(entered') = Len(entered) + 1
      /\ \A t \in 1..Len(entered) : entered'[t] = entered[t]
      /\ entered'[Len(entered) + 1] = m
      /\ Len(entered) \in Nat
  BY AppendProperties, LenProperties DEF Produce
<1>2. DOMAIN entered = 1..Len(entered) /\ DOMAIN entered' = 1..Len(entered) + 1
  BY <1>1, LenProperties
<1>3. DOMAIN entered' = DOMAIN entered \cup {Len(entered) + 1}
  BY <1>1, <1>2
<1>4. QED
  BY <1>1, <1>2, <1>3 DEF Entries

\* Whatever enters, the order of first entries stays.
LEMMA BeforeStays ==
    ASSUME NEW k \in Nat, entered \in Seq(Nat), Produce(k),
           NEW m, NEW n, m # n, Before(m, n)
    PROVE  Before(m, n)'
<1>1. PICK t \in Entries(m) : \A u \in Entries(n) : t < u
  BY DEF Before
<1>2. t \in Entries(m)' /\ t < Len(entered) + 1
  BY EntriesProduce
<1>3. \A u \in Entries(n)' : u \in Entries(n) \/ u = Len(entered) + 1
  BY EntriesProduce
<1>4. \A u \in Entries(n)' : t < u
  BY <1>1, <1>2, <1>3
<1>5. QED
  BY <1>2, <1>4 DEF Before

LEMMA LoadStep == ASSUME PostInv, LoadInv, Next PROVE LoadInv'
<1>0. /\ MaxAttempts \in Nat \ {0} /\ MaxTexts \in Nat
      /\ post.msg \in Nat \ {0} /\ post.attempt \in 1..MaxAttempts
      /\ \A a \in Attempts : a[1] \in Nat /\ a[2] \in Nat /\ a = <<a[1], a[2]>>
      /\ request \in [Attempts -> Stages]
      /\ \A l \in Loads : l.texts \in Nat /\ l.texts <= MaxTexts
      /\ load \in Loads
  BY PipelineAssumption DEF PostInv, LoadInv, Attempts
<1>1. CASE Send
  <2>1. PICK r : request' = [request EXCEPT ![Current] = r]
    BY <1>1 DEF Send
  <2>2. /\ post' = [post EXCEPT !.state = "waiting"]
        /\ load' = load /\ post.msg <= load.texts /\ post.state = "ready"
        /\ post'.msg = post.msg /\ post'.attempt = post.attempt /\ post'.state = "waiting"
    BY <1>1 DEF Send, PostInv
  <2>3. \A a \in Attempts : a # Current => request'[a] = request[a]
    BY <1>0, <2>1
  <2>4. ASSUME NEW a \in Attempts, Ahead(a)' PROVE request'[a] = "none"
    <3>1. Ahead(a) /\ a[2] > post.attempt
      BY <1>0, <2>2, <2>4 DEF Ahead
    <3>2. a # Current
      BY <1>0, <3>1 DEF Current
    <3>3. QED
      BY <2>3, <3>1, <3>2 DEF LoadInv
  <2>5. QED
    BY <1>0, <2>2, <2>4 DEF LoadInv
<1>2. CASE PostDone
  <2>1. post' = NextMessage /\ load' = load
        /\ request' = [request EXCEPT ![Current] = "gone"]
    BY <1>2 DEF PostDone
  <2>2. post'.msg = post.msg + 1 /\ post'.state = "ready"
    BY <2>1 DEF NextMessage
  <2>3. ASSUME NEW a \in Attempts, Ahead(a)' PROVE request'[a] = "none"
    <3>1. a[1] > post.msg /\ a # Current
      BY <1>0, <2>2, <2>3 DEF Ahead, Current
    <3>2. request'[a] = request[a]
      BY <1>0, <2>1, <3>1
    <3>3. QED
      BY <3>1, <3>2 DEF PostInv
  <2>4. QED
    BY <1>0, <2>1, <2>2, <2>3 DEF LoadInv
<1>3. CASE PostFails
  <2>1. /\ post' = IF LastAttempt THEN NextMessage
                   ELSE [post EXCEPT !.attempt = @ + 1, !.state = "ready"]
        /\ load' = load
        /\ request' = [request EXCEPT ![Current] = IF @ = "answered" THEN "gone" ELSE @]
    BY <1>3 DEF PostFails
  <2>2. /\ post'.state = "ready"
        /\ \/ post'.msg = post.msg + 1
           \/ post'.msg = post.msg /\ post'.attempt = post.attempt + 1
    BY <1>0, <2>1 DEF NextMessage, PostInv
  <2>3. ASSUME NEW a \in Attempts, Ahead(a)' PROVE request'[a] = "none"
    <3>1. a # Current /\ (a[1] > post.msg \/ Ahead(a))
      BY <1>0, <2>2, <2>3 DEF Ahead, Current
    <3>2. request'[a] = request[a]
      BY <1>0, <2>1, <3>1
    <3>3. QED
      BY <3>1, <3>2 DEF PostInv, LoadInv
  <2>4. QED
    BY <1>0, <2>1, <2>2, <2>3 DEF LoadInv
<1>4. ASSUME NEW a \in Attempts, Handle(a) PROVE LoadInv'
  <2>1. /\ post' = post /\ load' = load
        /\ request[a] = "handling"
        /\ request' = [request EXCEPT ![a] = IF Awaited(a) THEN "answered" ELSE "gone"]
    BY <1>4 DEF Handle
  <2>2. \A b \in Attempts : b # a => request'[b] = request[b]
    BY <1>0, <2>1
  <2>3. \A b \in Attempts : Ahead(b)' <=> Ahead(b)
    BY <2>1 DEF Ahead
  <2>4. QED
    BY <2>1, <2>2, <2>3 DEF LoadInv
<1>5. ASSUME UNCHANGED <<post, request, load>> PROVE LoadInv'
  BY <1>5 DEF LoadInv, Ahead
<1>6. ASSUME Chat \/ Stop \/ Exit PROVE LoadInv'
  BY <1>5, <1>6 DEF Chat, Stop, Exit
<1>7. ASSUME \/ InBus(Dispatch) \/ InBus(StartClose) \/ InBus(EndClose)
             \/ \E s \in Subs :
                    InBus(Subscribe(s) \/ CloseChan(s) \/ Unmap(s) \/ Receive(s) \/ Cancel(s))
      PROVE  LoadInv'
  <2>1. UNCHANGED pipeVars
    BY <1>7 DEF InBus
  <2>2. QED
    BY <1>5, <2>1 DEF pipeVars
<1>8. QED
  BY <1>1, <1>2, <1>3, <1>4, <1>6, <1>7 DEF Next, Monitor, Process, Client, Server

LEMMA EntryClient == ASSUME DeliverInv, Client PROVE EntryInv'
<1>0. /\ MaxAttempts \in Nat \ {0} /\ MaxTexts \in Nat
      /\ post.msg \in Nat \ {0} /\ post.attempt \in 1..MaxAttempts
      /\ \A m \in 1..MaxTexts, k \in 1..MaxAttempts : <<m, k>> \in Attempts
      /\ request \in [Attempts -> Stages]
      /\ \A t \in DOMAIN entered : entered[t] \in Nat
  BY PipelineAssumption, ElementOfSeq, LenProperties DEF DeliverInv, PostInv, Attempts
<1>1. entered' = entered
  BY DEF Client, Send, PostDone, PostFails, busVars
<1>2. /\ \A n : Entries(n)' = Entries(n)
      /\ \A m, n : Before(m, n)' <=> Before(m, n)
  BY <1>1 DEF Entries, Before
<1>3. post'.msg \in {post.msg, post.msg + 1}
  <2>1. post \in [msg : Nat \ {0}, attempt : 1..MaxAttempts, state : {"ready", "waiting"}]
    BY DEF DeliverInv, PostInv
  <2>2. CASE Send
    <3>1. post' = [post EXCEPT !.state = "waiting"]
      BY <2>2 DEF Send
    <3>2. QED
      BY <2>1, <3>1
  <2>3. CASE PostDone
    BY <2>3 DEF PostDone, NextMessage
  <2>4. CASE PostFails
    <3>1. post' = NextMessage \/ post' = [post EXCEPT !.attempt = @ + 1, !.state = "ready"]
      BY <2>4 DEF PostFails
    <3>2. CASE post' = NextMessage
      BY <3>2 DEF NextMessage
    <3>3. CASE post' = [post EXCEPT !.attempt = @ + 1, !.state = "ready"]
      BY <2>1, <3>3
    <3>4. QED
      BY <3>1, <3>2, <3>3
  <2>5. QED
    BY <2>2, <2>3, <2>4 DEF Client
<1>4. \A t \in DOMAIN entered' : entered'[t] <= post'.msg
  BY <1>0, <1>1, <1>3 DEF DeliverInv, EntryInv
<1>5. \A a \in Attempts : request'[a] = "answered" => request[a] = "answered"
  <2>1. CASE Send
    BY <1>0, <2>1 DEF Send
  <2>2. CASE PostDone \/ PostFails
    BY <1>0, <2>2 DEF PostDone, PostFails
  <2>3. QED
    BY <2>1, <2>2 DEF Client
<1>6. ASSUME NEW m \in acked' \ acked PROVE m = post.msg /\ Entries(m) # {}
  <2>1. PostDone /\ m = post.msg
    BY <1>6 DEF Client, Send, PostDone, PostFails
  <2>2. post.msg <= MaxTexts
    BY <2>1 DEF PostDone, DeliverInv, LoadInv
  <2>3. Current \in Attempts /\ Current[1] = m /\ request[Current] = "answered"
    BY <1>0, <2>1, <2>2 DEF Current, PostDone
  <2>4. QED
    BY <2>1, <2>3 DEF DeliverInv, EntryInv
<1>7. ASSUME NEW m \in acked', NEW n \in Nat, m < n PROVE Before(m, n)
  <2>1. CASE m \in acked
    BY <1>7, <2>1 DEF DeliverInv, EntryInv
  <2>2. CASE m \notin acked
    <3>1. m = post.msg /\ Entries(m) # {}
      BY <1>6, <2>2
    <3>2. Entries(n) = {}
      BY <1>0, <1>7, <3>1 DEF Entries, DeliverInv, EntryInv
    <3>3. QED
      BY <3>1, <3>2 DEF Before
  <2>3. QED
    BY <2>1, <2>2
<1>8. ASSUME NEW m \in 1..MaxTexts PROVE Cardinality(Entries(m)) <= Cardinality(Over(m)')
  <2>1. ASSUME NEW k \in Over(m) PROVE request'[<<m, k>>] \in {"answered", "gone"}
    <3>0. <<m, k>> \in Attempts /\ request[<<m, k>>] \in {"answered", "gone"}
      BY <1>0 DEF Over
    <3>1. CASE Send
      <4>1. post.state = "ready" /\ \E r : request' = [request EXCEPT ![Current] = r]
        BY <3>1 DEF Send
      <4>2. ~Ahead(<<m, k>>)
        BY <3>0 DEF DeliverInv, LoadInv
      <4>3. <<m, k>> # Current
        BY <4>1, <4>2 DEF Ahead, Current
      <4>4. QED
        BY <1>0, <3>0, <4>1, <4>3
    <3>2. CASE PostDone \/ PostFails
      BY <1>0, <3>0, <3>2 DEF PostDone, PostFails
    <3>3. QED
      BY <3>1, <3>2 DEF Client
  <2>2. Over(m) \in SUBSET (Over(m)')
    BY <2>1 DEF Over
  <2>3. IsFiniteSet(Over(m)') /\ Cardinality(Over(m)') \in Nat
    <3>1. Over(m)' \in SUBSET (1..MaxAttempts)
      BY DEF Over
    <3>2. IsFiniteSet(1..MaxAttempts)
      BY <1>0, FS_Interval
    <3>3. QED
      BY <3>1, <3>2, FS_Subset, FS_CardinalityType
  <2>4. Cardinality(Over(m)) <= Cardinality(Over(m)')
    BY <2>2, <2>3, FS_Subset
  <2>5. /\ Cardinality(Entries(m)) \in Nat /\ Cardinality(Over(m)) \in Nat
        /\ Cardinality(Entries(m)) <= Cardinality(Over(m))
    BY EntriesFinite, OverFinite DEF DeliverInv, EntryInv
  <2>6. QED
    BY <2>3, <2>4, <2>5
<1>9. \A a \in Attempts : request'[a] = "answered" => Entries(a[1])' # {}
  BY <1>2, <1>5 DEF DeliverInv, EntryInv
<1>10. \A m \in acked' : Entries(m)' # {}
  BY <1>2, <1>6 DEF DeliverInv, EntryInv
<1>11. \A m \in acked', n \in Nat : m < n => Before(m, n)'
  BY <1>2, <1>7
<1>12. \A m \in 1..MaxTexts : Cardinality(Entries(m)') <= Cardinality(Over(m)')
  BY <1>2, <1>8
<1>13. QED
  BY <1>4, <1>9, <1>10, <1>11, <1>12 DEF EntryInv

LEMMA EntryHandle ==
    ASSUME DeliverInv, NEW a \in Attempts, Handle(a)
    PROVE  entered' \in Seq(Nat) /\ EntryInv'
<1>0. /\ MaxAttempts \in Nat \ {0} /\ MaxTexts \in Nat
      /\ post.msg \in Nat \ {0} /\ entered \in Seq(Nat)
      /\ a[1] \in 1..MaxTexts /\ a[2] \in 1..MaxAttempts /\ a = <<a[1], a[2]>>
      /\ \A m \in 1..MaxTexts, k \in 1..MaxAttempts : <<m, k>> \in Attempts
      /\ request \in [Attempts -> Stages]
  BY PipelineAssumption DEF DeliverInv, PostInv, Attempts
<1>1. /\ Produce(a[1]) /\ a[1] \in Nat
      /\ post' = post /\ acked' = acked
      /\ request[a] = "handling"
      /\ request' = [request EXCEPT ![a] = IF Awaited(a) THEN "answered" ELSE "gone"]
  BY <1>0 DEF Handle
<1>2. /\ entered' \in Seq(Nat)
      /\ \A n : Entries(n)' = IF n = a[1] THEN Entries(n) \cup {Len(entered) + 1} ELSE Entries(n)
      /\ \A t \in Entries(a[1]) : t < Len(entered) + 1
      /\ \A t \in DOMAIN entered' : entered'[t] = a[1] \/ (t \in DOMAIN entered /\ entered'[t] = entered[t])
  BY <1>0, <1>1, EntriesProduce
<1>3. a[1] <= post.msg
  BY <1>0, <1>1 DEF DeliverInv, PostInv
<1>4. \A t \in DOMAIN entered' : entered'[t] <= post'.msg
  BY <1>1, <1>2, <1>3 DEF DeliverInv, EntryInv
<1>5. /\ request'[a] \in {"answered", "gone"}
      /\ \A b \in Attempts : b # a => request'[b] = request[b]
  BY <1>0, <1>1
<1>6. \A b \in Attempts : request'[b] = "answered" => Entries(b[1])' # {}
  <2>1. Entries(a[1])' # {}
    BY <1>2
  <2>2. \A n : Entries(n) # {} => Entries(n)' # {}
    BY <1>2
  <2>3. QED
    BY <1>5, <2>1, <2>2 DEF DeliverInv, EntryInv
<1>7. \A m \in acked' : Entries(m)' # {}
  BY <1>1, <1>2 DEF DeliverInv, EntryInv
<1>8. ASSUME NEW m \in acked', NEW n \in Nat, m < n PROVE Before(m, n)'
  <2>1. m \in acked /\ m \in Nat /\ m # n
    BY <1>0, <1>1, <1>8 DEF DeliverInv, PostInv
  <2>2. Before(m, n)
    BY <1>8, <2>1 DEF DeliverInv, EntryInv
  <2>3. QED
    BY <1>0, <1>1, <2>1, <2>2, BeforeStays
<1>9. ASSUME NEW m \in 1..MaxTexts PROVE Cardinality(Entries(m)') <= Cardinality(Over(m)')
  <2>1. /\ IsFiniteSet(Entries(m)) /\ Cardinality(Entries(m)) \in Nat
        /\ IsFiniteSet(Over(m)) /\ Cardinality(Over(m)) \in Nat
        /\ Cardinality(Entries(m)) <= Cardinality(Over(m))
    BY <1>0, EntriesFinite, OverFinite DEF DeliverInv, EntryInv
  <2>2. CASE m = a[1]
    <3>1. a[2] \notin Over(m)
      BY <1>0, <1>1, <2>2 DEF Over
    <3>2. Over(m)' = Over(m) \cup {a[2]}
      BY <1>0, <1>5, <2>2 DEF Over
    <3>3. Cardinality(Over(m)') = Cardinality(Over(m)) + 1
      BY <2>1, <3>1, <3>2, FS_AddElement
    <3>4. Entries(m)' = Entries(m) \cup {Len(entered) + 1}
      BY <1>2, <2>2
    <3>5. Cardinality(Entries(m)') \in {Cardinality(Entries(m)), Cardinality(Entries(m)) + 1}
      BY <2>1, <3>4, FS_AddElement
    <3>6. QED
      BY <2>1, <3>3, <3>5
  <2>3. CASE m # a[1]
    <3>1. Entries(m)' = Entries(m)
      BY <1>2, <2>3
    <3>2. Over(m)' = Over(m)
      BY <1>0, <1>5, <2>3 DEF Over
    <3>3. QED
      BY <2>1, <3>1, <3>2
  <2>4. QED
    BY <2>2, <2>3
<1>10. QED
  BY <1>2, <1>4, <1>6, <1>7, <1>8, <1>9 DEF EntryInv

LEMMA EntryChat == ASSUME DeliverInv, Chat PROVE entered' \in Seq(Nat) /\ EntryInv'
<1>0. /\ MaxTexts \in Nat /\ post.msg \in Nat \ {0} /\ entered \in Seq(Nat)
  BY PipelineAssumption DEF DeliverInv, PostInv
<1>1. Produce(0) /\ UNCHANGED <<post, acked, request>>
  BY DEF Chat
<1>2. /\ entered' \in Seq(Nat)
      /\ \A n : Entries(n)' = IF n = 0 THEN Entries(n) \cup {Len(entered) + 1} ELSE Entries(n)
      /\ \A t \in DOMAIN entered' : entered'[t] = 0 \/ (t \in DOMAIN entered /\ entered'[t] = entered[t])
  BY <1>0, <1>1, EntriesProduce
<1>3. \A t \in DOMAIN entered' : entered'[t] <= post'.msg
  BY <1>0, <1>1, <1>2 DEF DeliverInv, EntryInv
<1>4. \A n : Entries(n) # {} => Entries(n)' # {}
  BY <1>2
<1>5. ASSUME NEW m \in acked', NEW n \in Nat, m < n PROVE Before(m, n)'
  <2>1. m \in acked /\ m \in Nat /\ m # n
    BY <1>0, <1>1, <1>5 DEF DeliverInv, PostInv
  <2>2. Before(m, n)
    BY <1>5, <2>1 DEF DeliverInv, EntryInv
  <2>3. QED
    BY <1>0, <1>1, <2>1, <2>2, BeforeStays
<1>6. \A m \in 1..MaxTexts : Entries(m)' = Entries(m) /\ Over(m)' = Over(m)
  BY <1>0, <1>1, <1>2 DEF Over
<1>7. QED
  BY <1>1, <1>2, <1>3, <1>4, <1>5, <1>6 DEF EntryInv, DeliverInv

\* monitor/webhook.go, webhook.go: when Post reports success the message has
\* entered the bus; of two messages whose Post succeeded the one posted first
\* entered first, and none entered more often than it was attempted.
THEOREM DeliveredInOrder == Spec => []DeliveredAsPosted
<1>1. Init => DeliverInv
  <2> SUFFICES ASSUME Init PROVE DeliverInv
    OBVIOUS
  <2>1. MaxAttempts \in Nat \ {0} /\ MaxTexts \in Nat
    BY PipelineAssumption
  <2>2. /\ entered = <<>> /\ load \in Loads /\ acked = {}
        /\ post = [msg |-> 1, attempt |-> 1, state |-> "ready"]
        /\ request = [a \in Attempts |-> "none"]
    BY DEF Init, BusInit
  <2>3. entered \in Seq(Nat) /\ DOMAIN entered = {}
    BY <2>2, EmptySeq, LenProperties
  <2>4. PostInv
    BY <2>1, <2>2 DEF PostInv, Attempts, Stages
  <2>5. LoadInv
    BY <2>2 DEF LoadInv
  <2>6. \A m \in 1..MaxTexts : Cardinality(Entries(m)) <= Cardinality(Over(m))
    <3>1. \A m : Entries(m) = {}
      BY <2>3 DEF Entries
    <3>2. \A m : Cardinality(Entries(m)) = 0 /\ Cardinality(Over(m)) \in Nat
      BY <3>1, FS_EmptySet, OverFinite
    <3>3. QED
      BY <3>2
  <2>7. EntryInv
    BY <2>2, <2>3, <2>6 DEF EntryInv
  <2>8. QED
    BY <2>3, <2>4, <2>5, <2>7 DEF DeliverInv
<1>2. DeliverInv /\ [Next]_vars => DeliverInv'
  <2> SUFFICES ASSUME DeliverInv, [Next]_vars PROVE DeliverInv'
    OBVIOUS
  <2>1. ASSUME UNCHANGED <<entered, post, acked, request>> PROVE EntryInv' /\ entered' \in Seq(Nat)
    BY <2>1 DEF DeliverInv, EntryInv, Entries, Before, Over
  <2>2. CASE UNCHANGED vars
    <3>1. UNCHANGED <<entered, post, acked, request, load>>
      BY <2>2 DEF vars, busVars, pipeVars
    <3>2. PostInv' /\ LoadInv'
      BY <3>1 DEF DeliverInv, PostInv, LoadInv, Ahead
    <3>3. QED
      BY <2>1, <3>1, <3>2 DEF DeliverInv
  <2>3. CASE Next
    <3>1. PostInv' /\ LoadInv'
      BY <2>3, PostStep, LoadStep DEF DeliverInv
    <3>2. CASE Client
      <4>1. entered' = entered
        BY <3>2 DEF Client, Send, PostDone, PostFails, busVars
      <4>2. QED
        BY <3>1, <3>2, <4>1, EntryClient DEF DeliverInv
    <3>3. CASE Server
      BY <3>1, <3>3, EntryHandle DEF Server, DeliverInv
    <3>4. CASE Chat
      BY <3>1, <3>4, EntryChat DEF DeliverInv
    <3>5. ASSUME \/ InBus(Dispatch) \/ InBus(StartClose) \/ InBus(EndClose)
                 \/ \E s \in Subs :
                      InBus(Subscribe(s) \/ CloseChan(s) \/ Unmap(s) \/ Receive(s) \/ Cancel(s))
          PROVE  DeliverInv'
      <4>1. UNCHANGED pipeVars
        BY <3>5 DEF InBus
      <4>2. entered' = entered
        BY <3>5 DEF InBus, Dispatch, Take, SkipTurn, Offer, StartClose, EndClose,
                    Subscribe, CloseChan, Unmap, Receive, Cancel
      <4>3. QED
        BY <2>1, <3>1, <4>1, <4>2 DEF pipeVars, DeliverInv
    <3>6. CASE Stop \/ Exit
      BY <2>1, <3>1, <3>6 DEF Stop, Exit, busVars, DeliverInv
    <3>7. QED
      BY <2>3, <3>2, <3>3, <3>4, <3>5, <3>6 DEF Next, Monitor, Process
  <2>4. QED
    BY <2>2, <2>3
<1>3. DeliverInv => DeliveredAsPosted
  <2> SUFFICES ASSUME DeliverInv PROVE DeliveredAsPosted
    OBVIOUS
  <2>1. /\ MaxAttempts \in Nat /\ MaxTexts \in Nat
        /\ load.texts \in Nat /\ load.texts <= MaxTexts
        /\ acked \subseteq Nat
    BY PipelineAssumption DEF DeliverInv, LoadInv, PostInv
  <2>2. \A m \in acked : Entries(m) # {}
    BY DEF DeliverInv, EntryInv
  <2>3. \A m, n \in acked : m < n => \E t \in Entries(m) : \A u \in Entries(n) : t < u
    BY <2>1 DEF DeliverInv, EntryInv, Before
  <2>4. ASSUME NEW m \in 1..load.texts PROVE Cardinality(Entries(m)) <= MaxAttempts
    <3>1. m \in 1..MaxTexts
      BY <2>1
    <3>2. /\ Cardinality(Entries(m)) \in Nat /\ Cardinality(Over(m)) \in Nat
          /\ Cardinality(Entries(m)) <= Cardinality(Over(m))
          /\ Cardinality(Over(m)) <= MaxAttempts
      BY <3>1, EntriesFinite, OverFinite DEF DeliverInv, EntryInv
    <3>3. QED
      BY <2>1, <3>2
  <2>5. QED
    BY <2>2, <2>3, <2>4 DEF DeliveredAsPosted
<1>4. QED
  BY <1>1, <1>2, <1>3, PTL DEF Spec

-----------------------------------------------------------------------------
(* That the files of the channel logs hold the lines recorded but for the  *)
(* ones that faults and kills cost, for all channels, makers and days, and *)
(* every order of late lines, flushes, failed writes and opens, stops and  *)
(* restarts.                                                               *)

Files == [LogChans -> [LogDays -> Seq(Nat)]]

Writer == [day : Nat, buf : Seq(Nat)]

Line == [ch : LogChans, day : LogDays]

ChanTypes ==
    /\ logDay \in LogDays
    /\ lines \in Nat
    /\ stamped \in [Makers -> {NoLine} \cup Line]
    /\ writers \in [LogChans -> Writer]
    /\ logFiles \in Files
    /\ recorded \in [LogChans -> [LogDays -> SUBSET (1..lines)]]
    /\ missing \subseteq 1..lines

\* The sequence has the members of R, but for those of M, in order.
Exact(s, R, M) == s \in Seq(Nat) /\ Increasing(s) /\ Range(s) = R \ M

\* What a file F of a day and the open file W have of that day.
Content(F, W, d) == F[d] \o (IF W.day = d THEN W.buf ELSE <<>>)

\* The first two parts of the property, for one file.
Holds(ch, d) == Exact(Content(logFiles[ch], writers[ch], d), recorded[ch][d], missing)

\* What is buffered is for a file.
BufferHasFile == \A ch \in LogChans : writers[ch].day \notin LogDays => writers[ch].buf = <<>>

\* A line is recorded for one channel and day.
Apart ==
    \A c, e \in LogChans : \A d, g \in LogDays :
        c # e \/ d # g => recorded[c][d] \cap recorded[e][g] = {}

\* Stop left no file open, and none is opened after it.
ClosedIsClosed == logState = "closed" => \A ch \in LogChans : writers[ch] = NoWriter

FilesInv ==
    /\ \A ch \in LogChans, d \in LogDays : Holds(ch, d)
    /\ BufferHasFile
    /\ Apart

ChanInv == ChanTypes /\ FilesInv /\ ClosedIsClosed

-----------------------------------------------------------------------------
LEMMA EmptyAfter == ASSUME NEW s \in Seq(Nat) PROVE s \o <<>> = s
OBVIOUS

LEMMA AppendAfter ==
    ASSUME NEW s \in Seq(Nat), NEW t \in Seq(Nat), NEW x \in Nat
    PROVE  s \o Append(t, x) = Append(s \o t, x)
OBVIOUS

LEMMA DaysTyped == LogDays \subseteq Nat /\ 0 \notin LogDays
BY ChannelLogAssumption DEF LogDays

LEMMA NothingWritten == Exact(<<>>, {}, {}) /\ Range(<<>>) = {} /\ <<>> \in Seq(Nat)
BY DEF Exact, Increasing, Range

\* What is not recorded may be missing as well.
LEMMA Widened ==
    ASSUME NEW s, NEW R, NEW M, NEW X, Exact(s, R, M), R \cap X = {}
    PROVE  Exact(s, R, M \cup X)
BY DEF Exact

\* One more line is recorded, after all others, or missing.
LEMMA OneMore ==
    ASSUME NEW k \in Nat, NEW R \in SUBSET (1..k), NEW M \in SUBSET (1..k), NEW s, Exact(s, R, M)
    PROVE  /\ Exact(s \o <<k + 1>>, R \cup {k + 1}, M)
           /\ Exact(Append(s, k + 1), R \cup {k + 1}, M)
           /\ Exact(s, R \cup {k + 1}, M \cup {k + 1})
<1>1. s \in Seq(Nat) /\ Increasing(s) /\ Range(s) = R \ M
  BY DEF Exact
<1>2. \A i \in DOMAIN s : s[i] < k + 1
  <2>1. ASSUME NEW i \in DOMAIN s PROVE s[i] < k + 1
    <3>1. s[i] \in 1..k
      BY <1>1 DEF Range
    <3> QED
      BY <3>1
  <2> QED
    BY <2>1
<1>3. /\ Append(s, k + 1) \in Seq(Nat) /\ Increasing(Append(s, k + 1))
      /\ Len(Append(s, k + 1)) = Len(s) + 1
  BY <1>1, <1>2, IncreasingAppend
<1>4. Append(s, k + 1) = s \o <<k + 1>>
  BY <1>1, AppendIsConcat
<1>5. Range(Append(s, k + 1)) = Range(s) \cup {k + 1}
  <2>1. Range(<<k + 1>>) = {k + 1} /\ <<k + 1>> \in Seq(Nat)
    BY DEF Range
  <2>2. Range(s \o <<k + 1>>) = Range(s) \cup Range(<<k + 1>>)
    BY <1>1, <2>1, RangeConcatenation, ZenonT(40)
  <2> QED
    BY <1>4, <2>1, <2>2
<1>6. k + 1 \notin M /\ k + 1 \notin R
  OBVIOUS
<1> QED
  BY <1>1, <1>3, <1>4, <1>5, <1>6 DEF Exact

\* What a sequence has after its nth element.
After(b, n) == {b[i] : i \in n + 1..Len(b)}

\* The beginning of a sequence has what the others are missing of it.
LEMMA CutExact ==
    ASSUME NEW f \in Seq(Nat), NEW b \in Seq(Nat), NEW R, NEW M, Exact(f \o b, R, M),
           NEW n \in 0..Len(b)
    PROVE  Exact(f \o SubSeq(b, 1, n), R, M \cup After(b, n)) /\ After(b, n) \subseteq R
<1> DEFINE s == f \o b
           p == SubSeq(b, 1, n)
           t == f \o p
           u == After(b, n)
           m == Len(f) + n
<1>l. Len(f) \in Nat /\ Len(b) \in Nat /\ n \in Nat /\ m \in Nat
  BY LenProperties
<1>1. /\ s \in Seq(Nat) /\ Len(s) = Len(f) + Len(b)
      /\ \A i \in 1..Len(f) + Len(b) : s[i] = IF i <= Len(f) THEN f[i] ELSE b[i - Len(f)]
  BY ConcatProperties
<1>2. p \in Seq(Nat) /\ Len(p) = n /\ \A i \in 1..n : p[i] = b[i]
  <2>1. \A i \in 1..n : b[i] \in Nat
    BY <1>l, ElementOfSeq
  <2> QED
    BY <1>l, <2>1, SubSeqProperties
<1>3. /\ t \in Seq(Nat) /\ Len(t) = m
      /\ \A i \in 1..m : t[i] = IF i <= Len(f) THEN f[i] ELSE p[i - Len(f)]
  <2>1. /\ t \in Seq(Nat) /\ Len(t) = Len(f) + Len(p)
        /\ \A i \in 1..Len(f) + Len(p) : t[i] = IF i <= Len(f) THEN f[i] ELSE p[i - Len(f)]
    BY <1>2, ConcatProperties
  <2> QED
    BY <1>2, <2>1
<1>4. DOMAIN s = 1..Len(f) + Len(b) /\ DOMAIN t = 1..m
  BY <1>1, <1>3, LenProperties
<1>5. m <= Len(f) + Len(b)
  BY <1>l
<1> HIDE DEF s, p, t
<1>6. ASSUME NEW i \in 1..m PROVE t[i] = s[i]
  <2>1. i \in 1..Len(f) + Len(b)
    BY <1>l, <1>5
  <2>2. CASE i <= Len(f)
    BY <1>1, <1>3, <2>1, <2>2
  <2>3. CASE ~(i <= Len(f))
    <3>1. i - Len(f) \in 1..n
      BY <1>l, <2>3
    <3>2. t[i] = p[i - Len(f)] /\ p[i - Len(f)] = b[i - Len(f)]
      BY <1>2, <1>3, <2>3, <3>1
    <3> QED
      BY <1>1, <2>1, <2>3, <3>2
  <2> QED
    BY <2>2, <2>3
<1>7. Increasing(s) /\ Range(s) = R \ M
  BY DEF Exact, s
<1>8. Increasing(t)
  BY <1>4, <1>5, <1>6, <1>7, <1>l DEF Increasing
<1>9. u = {s[i] : i \in m + 1..Len(f) + Len(b)}
  <2>1. ASSUME NEW i \in n + 1..Len(b)
        PROVE  \E j \in m + 1..Len(f) + Len(b) : s[j] = b[i]
    <3>1. PICK j \in 1..Len(f) + Len(b) :
               j \in m + 1..Len(f) + Len(b) /\ ~(j <= Len(f)) /\ j - Len(f) = i
      <4>1. Len(f) + i \in 1..Len(f) + Len(b) /\ ~(Len(f) + i <= Len(f)) /\ (Len(f) + i) - Len(f) = i
        BY <1>l
      <4> QED
        BY <1>l, <4>1
    <3> QED
      BY <1>1, <3>1
  <2>2. ASSUME NEW i \in m + 1..Len(f) + Len(b)
        PROVE  \E j \in n + 1..Len(b) : s[i] = b[j]
    <3>1. i \in 1..Len(f) + Len(b) /\ ~(i <= Len(f)) /\ i - Len(f) \in n + 1..Len(b)
      BY <1>l
    <3> QED
      BY <1>1, <3>1
  <2>3. u \subseteq {s[i] : i \in m + 1..Len(f) + Len(b)}
    BY <2>1 DEF After
  <2>4. {s[i] : i \in m + 1..Len(f) + Len(b)} \subseteq u
    BY <2>2 DEF After
  <2> QED
    BY <2>3, <2>4
<1> HIDE DEF u
<1>10. Range(s) = Range(t) \cup u
  <2>1. Range(t) = {s[i] : i \in 1..m}
    BY <1>4, <1>6 DEF Range
  <2>2. Range(s) = {s[i] : i \in 1..Len(f) + Len(b)}
    BY <1>4 DEF Range
  <2>3. \A i : i \in 1..Len(f) + Len(b) <=> i \in 1..m \/ i \in m + 1..Len(f) + Len(b)
    BY <1>l, <1>5
  <2> QED
    BY <1>9, <2>1, <2>2, <2>3
<1>11. Range(t) \cap u = {}
  <2>1. ASSUME NEW i \in 1..m, NEW j \in m + 1..Len(f) + Len(b) PROVE t[i] # s[j]
    <3>1. i \in DOMAIN s /\ j \in DOMAIN s /\ i < j
      BY <1>4, <1>5, <1>l
    <3>2. s[i] < s[j] /\ s[i] \in Nat /\ s[j] \in Nat
      BY <1>1, <1>7, <3>1, ElementOfSeq DEF Increasing
    <3> QED
      BY <1>6, <3>2
  <2> QED
    BY <1>4, <1>9, <2>1 DEF Range
<1> QED
  BY <1>3, <1>7, <1>8, <1>10, <1>11 DEF Exact, t, p, u

-----------------------------------------------------------------------------
\* What writing a channel's buffer out does, when the first n lines arrive.
WrittenFact(ch, n) ==
    /\ FlushedTo(ch, n) \in [LogDays -> Seq(Nat)]
    /\ \A d \in LogDays :
        Exact(FlushedTo(ch, n)[d], recorded[ch][d], missing \cup Unwritten(ch, n))
    /\ Unwritten(ch, n) \subseteq 1..lines
    /\ \A e \in LogChans \ {ch}, d \in LogDays : recorded[e][d] \cap Unwritten(ch, n) = {}

LEMMA WrittenOut ==
    ASSUME ChanInv, NEW ch \in LogChans, NEW n \in Reach(ch)
    PROVE  WrittenFact(ch, n)
<1> DEFINE f == logFiles[ch]
           w == writers[ch]
           r == recorded[ch]
<1>1. /\ f \in [LogDays -> Seq(Nat)]
      /\ w.day \in Nat /\ w.buf \in Seq(Nat)
      /\ r \in [LogDays -> SUBSET (1..lines)]
      /\ recorded \in [LogChans -> [LogDays -> SUBSET (1..lines)]]
  BY DEF ChanInv, ChanTypes, Files, Writer
<1>2. ASSUME NEW d \in LogDays PROVE Exact(Content(f, w, d), r[d], missing)
  BY DEF ChanInv, FilesInv, Holds
<1>3. Unwritten(ch, n) = After(w.buf, n) /\ n \in 0..Len(w.buf)
  BY DEF Unwritten, Reach, After
<1>4. FlushedTo(ch, n) = IF w.day = 0 THEN f ELSE [f EXCEPT ![w.day] = @ \o SubSeq(w.buf, 1, n)]
  BY DEF FlushedTo
<1>5. w.day \notin LogDays => w.buf = <<>>
  BY DEF ChanInv, FilesInv, BufferHasFile
<1>6. \A e \in LogChans : \A d, g \in LogDays : ch # e \/ d # g => r[d] \cap recorded[e][g] = {}
  BY DEF ChanInv, FilesInv, Apart
<1> HIDE DEF f, w
<1>7. CASE w.day \notin LogDays
  <2>1. Unwritten(ch, n) = {}
    BY <1>3, <1>5, <1>7 DEF After
  <2>2. FlushedTo(ch, n) = f
    BY <1>1, <1>4, <1>7
  <2>3. ASSUME NEW d \in LogDays PROVE Exact(f[d], r[d], missing \cup Unwritten(ch, n))
    <3>1. f[d] \in Seq(Nat) /\ Content(f, w, d) = f[d] \o <<>>
      BY <1>1, <1>7 DEF Content
    <3>2. Content(f, w, d) = f[d]
      BY <3>1, EmptyAfter
    <3> QED
      BY <1>2, <2>1, <3>2
  <2> QED
    BY <1>1, <2>1, <2>2, <2>3 DEF WrittenFact
<1>8. CASE w.day \in LogDays
  <2>1. /\ FlushedTo(ch, n) = [f EXCEPT ![w.day] = f[w.day] \o SubSeq(w.buf, 1, n)]
        /\ f[w.day] \in Seq(Nat)
    BY <1>1, <1>4, <1>8, DaysTyped
  <2>2. /\ Exact(f[w.day] \o SubSeq(w.buf, 1, n), r[w.day], missing \cup Unwritten(ch, n))
        /\ Unwritten(ch, n) \subseteq r[w.day]
    <3>1. Exact(f[w.day] \o w.buf, r[w.day], missing)
      BY <1>2, <1>8 DEF Content
    <3> QED
      <4>1. w.buf \in Seq(Nat) /\ n \in 0..Len(w.buf)
        BY <1>1, <1>3
      <4>2. /\ Exact(f[w.day] \o SubSeq(w.buf, 1, n), r[w.day], missing \cup After(w.buf, n))
            /\ After(w.buf, n) \subseteq r[w.day]
        BY <2>1, <3>1, <4>1, CutExact
      <4> QED
        BY <1>3, <4>2
  <2>3. FlushedTo(ch, n) \in [LogDays -> Seq(Nat)]
    BY <1>1, <2>1, <2>2 DEF Exact
  <2>4. ASSUME NEW d \in LogDays
        PROVE  Exact(FlushedTo(ch, n)[d], r[d], missing \cup Unwritten(ch, n))
    <3>1. CASE d = w.day
      BY <1>1, <2>1, <2>2, <3>1
    <3>2. CASE d # w.day
      <4>1. FlushedTo(ch, n)[d] = f[d] /\ f[d] \in Seq(Nat)
        BY <1>1, <2>1, <3>2
      <4>2. Content(f, w, d) = f[d] \o <<>>
        BY <3>2 DEF Content
      <4>3. Exact(f[d], r[d], missing)
        BY <1>2, <4>1, <4>2, EmptyAfter
      <4>4. r[d] \cap r[w.day] = {}
        BY <1>6, <1>8, <3>2
      <4>5. r[d] \cap Unwritten(ch, n) = {}
        BY <2>2, <4>4
      <4> QED
        BY <4>1, <4>3, <4>5, Widened
    <3> QED
      BY <3>1, <3>2
  <2>5. Unwritten(ch, n) \subseteq 1..lines
    BY <1>1, <1>8, <2>2
  <2>6. ASSUME NEW e \in LogChans \ {ch}, NEW d \in LogDays
        PROVE  recorded[e][d] \cap Unwritten(ch, n) = {}
    BY <1>6, <1>8, <2>2
  <2> QED
    BY <2>3, <2>4, <2>5, <2>6 DEF WrittenFact
<1> QED
  BY <1>7, <1>8

\* A channel with no buffer of its own left: writing nothing out loses it all.
LEMMA NothingOut ==
    ASSUME ChanInv, NEW ch \in LogChans
    PROVE  /\ 0 \in Reach(ch)
           /\ FlushedTo(ch, 0) = logFiles[ch]
<1>1. /\ logFiles[ch] \in [LogDays -> Seq(Nat)]
      /\ writers[ch].day \in Nat /\ writers[ch].buf \in Seq(Nat)
  BY DEF ChanInv, ChanTypes, Files, Writer
<1>2. SubSeq(writers[ch].buf, 1, 0) = <<>>
  BY SubSeqEmpty
<1>3. CASE writers[ch].day \in LogDays
  <2>1. logFiles[ch][writers[ch].day] \o <<>> = logFiles[ch][writers[ch].day]
    BY <1>1, <1>3, EmptyAfter
  <2>2. FlushedTo(ch, 0)
           = [logFiles[ch] EXCEPT ![writers[ch].day] = logFiles[ch][writers[ch].day] \o <<>>]
    BY <1>1, <1>2, <1>3, DaysTyped DEF FlushedTo
  <2>3. FlushedTo(ch, 0) = logFiles[ch]
    BY <1>1, <2>1, <2>2
  <2> QED
    BY <1>1, <2>3, LenProperties DEF Reach
<1>4. CASE writers[ch].day \notin LogDays
  BY <1>1, <1>4, LenProperties DEF FlushedTo, Reach
<1> QED
  BY <1>3, <1>4

-----------------------------------------------------------------------------
\* A line is recorded for a file of channel c, whose open file is then W and
\* whose files are F; U of the others are lost, and L of it.
RecordedFor(c, d, W, F, U, L) ==
    /\ writers' = [writers EXCEPT ![c] = W]
    /\ logFiles' = [logFiles EXCEPT ![c] = F]
    /\ lines' = lines + 1
    /\ recorded' = [recorded EXCEPT ![c] = [recorded[c] EXCEPT ![d] = recorded[c][d] \cup {lines + 1}]]
    /\ missing' = missing \cup U \cup L
    /\ L \subseteq {lines + 1}
    /\ U \subseteq 1..lines
    /\ \A e \in LogChans \ {c}, g \in LogDays : recorded[e][g] \cap U = {}
    /\ W.day \notin LogDays => W.buf = <<>>
    /\ \A g \in LogDays \ {d} : Exact(Content(F, W, g), recorded[c][g], missing \cup U)
    /\ Exact(Content(F, W, d), recorded[c][d] \cup {lines + 1}, missing \cup U \cup L)

LEMMA RecordedInv ==
    ASSUME ChanInv, NEW c \in LogChans, NEW d \in LogDays, NEW W \in Writer,
           NEW F \in [LogDays -> Seq(Nat)], NEW U, NEW L, RecordedFor(c, d, W, F, U, L)
    PROVE  /\ writers' \in [LogChans -> Writer] /\ logFiles' \in Files
           /\ lines' \in Nat
           /\ recorded' \in [LogChans -> [LogDays -> SUBSET (1..lines')]]
           /\ missing' \subseteq 1..lines'
           /\ FilesInv'
<1>t. /\ writers \in [LogChans -> Writer]
      /\ logFiles \in [LogChans -> [LogDays -> Seq(Nat)]]
      /\ recorded \in [LogChans -> [LogDays -> SUBSET (1..lines)]]
      /\ missing \subseteq 1..lines /\ lines \in Nat
  BY DEF ChanInv, ChanTypes, Files
<1>u. /\ writers' = [writers EXCEPT ![c] = W]
      /\ logFiles' = [logFiles EXCEPT ![c] = F]
      /\ lines' = lines + 1
      /\ missing' = missing \cup U \cup L
      /\ L \subseteq {lines + 1} /\ U \subseteq 1..lines
  BY DEF RecordedFor
<1>n. 1..lines \subseteq 1..lines' /\ lines + 1 \in 1..lines' /\ lines + 1 \notin 1..lines
  BY <1>t, <1>u
<1>1. /\ writers' \in [LogChans -> Writer] /\ logFiles' \in Files
      /\ lines' \in Nat /\ missing' \subseteq 1..lines'
  BY <1>t, <1>u, <1>n DEF Files
<1> DEFINE R == [recorded[c] EXCEPT ![d] = recorded[c][d] \cup {lines + 1}]
<1>2. recorded' = [recorded EXCEPT ![c] = R]
  BY DEF RecordedFor
<1>3. /\ R[d] = recorded[c][d] \cup {lines + 1}
      /\ \A g \in LogDays \ {d} : R[g] = recorded[c][g]
      /\ R \in [LogDays -> SUBSET (1..lines')]
  BY <1>t, <1>n
<1> HIDE DEF R
<1>4. /\ recorded' \in [LogChans -> [LogDays -> SUBSET (1..lines')]]
      /\ recorded'[c] = R
      /\ \A e \in LogChans \ {c} : recorded'[e] = recorded[e]
  <2>1. \A e \in LogChans : recorded[e] \in [LogDays -> SUBSET (1..lines')]
    BY <1>t, <1>n
  <2> QED
    BY <1>t, <1>2, <1>3, <2>1
<1>5. ASSUME NEW e \in LogChans, NEW g \in LogDays PROVE Holds(e, g)'
  <2>1. CASE e = c
    <3>1. writers'[e] = W /\ logFiles'[e] = F /\ recorded'[e] = R
      BY <1>t, <1>u, <1>4, <2>1
    <3>2. CASE g = d
      BY <1>u, <1>3, <3>1, <3>2 DEF Holds, RecordedFor
    <3>3. CASE g # d
      <4>1. Exact(Content(F, W, g), recorded[c][g], missing \cup U)
        BY <3>3 DEF RecordedFor
      <4>2. recorded[c][g] \cap L = {}
        BY <1>t, <1>u, <1>n
      <4>3. Exact(Content(F, W, g), recorded[c][g], missing')
        BY <1>u, <4>1, <4>2, Widened
      <4> QED
        BY <1>3, <3>1, <3>3, <4>3 DEF Holds
    <3> QED
      BY <3>2, <3>3
  <2>2. CASE e # c
    <3>1. writers'[e] = writers[e] /\ logFiles'[e] = logFiles[e] /\ recorded'[e] = recorded[e]
      BY <1>t, <1>u, <1>4, <2>2
    <3>2. Exact(Content(logFiles[e], writers[e], g), recorded[e][g], missing)
      BY DEF ChanInv, FilesInv, Holds
    <3>3. recorded[e][g] \cap (U \cup L) = {}
      <4>1. recorded[e][g] \cap U = {}
        BY <2>2 DEF RecordedFor
      <4>2. recorded[e][g] \cap L = {}
        BY <1>t, <1>u, <1>n
      <4> QED
        BY <4>1, <4>2
    <3>4. missing' = missing \cup (U \cup L)
      BY <1>u
    <3>5. Exact(Content(logFiles[e], writers[e], g), recorded[e][g], missing')
      BY <3>2, <3>3, <3>4, Widened
    <3> QED
      BY <3>1, <3>5 DEF Holds
  <2> QED
    BY <2>1, <2>2
<1>6. BufferHasFile'
  <2>1. ASSUME NEW e \in LogChans, writers'[e].day \notin LogDays PROVE writers'[e].buf = <<>>
    <3>1. CASE e = c
      BY <1>t, <1>u, <2>1, <3>1 DEF RecordedFor
    <3>2. CASE e # c
      <4>1. writers'[e] = writers[e]
        BY <1>t, <1>u, <3>2
      <4> QED
        BY <2>1, <4>1 DEF ChanInv, FilesInv, BufferHasFile
    <3> QED
      BY <3>1, <3>2
  <2> QED
    BY <2>1 DEF BufferHasFile, LogDays
<1>7. Apart'
  <2>1. ASSUME NEW a \in LogChans, NEW e \in LogChans, NEW h \in LogDays, NEW g \in LogDays,
               a # e \/ h # g
        PROVE  recorded'[a][h] \cap recorded'[e][g] = {}
    <3>1. recorded[a][h] \cap recorded[e][g] = {}
      BY <2>1 DEF ChanInv, FilesInv, Apart
    <3>2. /\ lines + 1 \notin recorded[a][h] /\ lines + 1 \notin recorded[e][g]
      BY <1>t, <1>n
    <3>3. /\ recorded'[a][h] = IF a = c /\ h = d THEN recorded[a][h] \cup {lines + 1} ELSE recorded[a][h]
          /\ recorded'[e][g] = IF e = c /\ g = d THEN recorded[e][g] \cup {lines + 1} ELSE recorded[e][g]
      BY <1>3, <1>4
    <3> QED
      BY <2>1, <3>1, <3>2, <3>3
  <2> QED
    BY <2>1 DEF Apart, LogDays
<1>8. FilesInv'
  BY <1>5, <1>6, <1>7 DEF FilesInv, LogDays
<1> QED
  BY <1>1, <1>4, <1>8

\* The file is written out, and the line put behind it or lost.
LEMMA WrittenFor ==
    ASSUME ChanInv, NEW c \in LogChans, NEW d \in LogDays, NEW n \in Reach(c),
           NEW W \in Writer, NEW L,
           \/ W.day = d /\ W.buf = <<lines + 1>> /\ L = {}
           \/ W.buf = <<>> /\ L = {lines + 1},
           writers' = [writers EXCEPT ![c] = W],
           logFiles' = [logFiles EXCEPT ![c] = FlushedTo(c, n)],
           missing' = missing \cup Unwritten(c, n) \cup L,
           lines' = lines + 1,
           recorded' = [recorded EXCEPT ![c] =
                            [recorded[c] EXCEPT ![d] = recorded[c][d] \cup {lines + 1}]]
    PROVE  RecordedFor(c, d, W, FlushedTo(c, n), Unwritten(c, n), L)
<1> DEFINE F == FlushedTo(c, n)
           U == Unwritten(c, n)
           M == missing \cup U
<1>1. /\ F \in [LogDays -> Seq(Nat)]
      /\ \A g \in LogDays : Exact(F[g], recorded[c][g], M)
      /\ U \subseteq 1..lines
      /\ \A e \in LogChans \ {c}, g \in LogDays : recorded[e][g] \cap U = {}
  BY WrittenOut DEF WrittenFact
<1>t. /\ lines \in Nat /\ missing \subseteq 1..lines
      /\ recorded[c] \in [LogDays -> SUBSET (1..lines)]
  BY DEF ChanInv, ChanTypes
<1> HIDE DEF F, U
<1>2. M \in SUBSET (1..lines)
  BY <1>1, <1>t
<1>3. ASSUME NEW g \in LogDays \ {d} PROVE Exact(Content(F, W, g), recorded[c][g], M)
  <2>1. Content(F, W, g) = F[g] \o <<>> /\ F[g] \in Seq(Nat)
    BY <1>1 DEF Content
  <2>2. Content(F, W, g) = F[g]
    BY <2>1, EmptyAfter
  <2> QED
    BY <1>1, <2>2
<1>4. Exact(Content(F, W, d), recorded[c][d] \cup {lines + 1}, M \cup L)
  <2>1. /\ Exact(F[d] \o <<lines + 1>>, recorded[c][d] \cup {lines + 1}, M)
        /\ Exact(F[d], recorded[c][d] \cup {lines + 1}, M \cup {lines + 1})
    <3>1. recorded[c][d] \in SUBSET (1..lines) /\ Exact(F[d], recorded[c][d], M)
      BY <1>1, <1>t
    <3> HIDE DEF M
    <3> QED
      BY <1>2, <1>t, <3>1, OneMore
  <2>2. CASE W.day = d /\ W.buf = <<lines + 1>> /\ L = {}
    <3>1. Content(F, W, d) = F[d] \o <<lines + 1>> /\ M \cup L = M
      BY <2>2 DEF Content
    <3> QED
      BY <2>1, <3>1
  <2>3. CASE W.buf = <<>> /\ L = {lines + 1}
    <3>1. Content(F, W, d) = F[d] \o <<>> /\ F[d] \in Seq(Nat)
      BY <1>1, <2>3 DEF Content
    <3>2. Content(F, W, d) = F[d]
      BY <3>1, EmptyAfter
    <3> QED
      BY <2>1, <2>3, <3>2
  <2> QED
    BY <2>2, <2>3
<1>5. L \subseteq {lines + 1} /\ (W.day \notin LogDays => W.buf = <<>>)
  OBVIOUS
<1> QED
  BY <1>1, <1>3, <1>4, <1>5 DEF RecordedFor, F, U

\* The line is buffered behind the others.
LEMMA AppendedFor ==
    ASSUME ChanInv, NEW c \in LogChans, NEW d \in LogDays, NEW W \in Writer,
           writers[c].day = d, W.day = d, W.buf = Append(writers[c].buf, lines + 1),
           writers' = [writers EXCEPT ![c] = W],
           logFiles' = [logFiles EXCEPT ![c] = logFiles[c]],
           missing' = missing,
           lines' = lines + 1,
           recorded' = [recorded EXCEPT ![c] =
                            [recorded[c] EXCEPT ![d] = recorded[c][d] \cup {lines + 1}]]
    PROVE  RecordedFor(c, d, W, logFiles[c], {}, {})
<1> DEFINE F == logFiles[c]
<1>t. /\ lines \in Nat /\ missing \in SUBSET (1..lines)
      /\ recorded[c] \in [LogDays -> SUBSET (1..lines)]
      /\ F \in [LogDays -> Seq(Nat)]
      /\ writers[c].buf \in Seq(Nat)
  BY DEF ChanInv, ChanTypes, Files, Writer
<1>1. ASSUME NEW g \in LogDays PROVE Exact(Content(F, writers[c], g), recorded[c][g], missing)
  BY DEF ChanInv, FilesInv, Holds
<1> HIDE DEF F
<1>2. ASSUME NEW g \in LogDays \ {d}
      PROVE  Exact(Content(F, W, g), recorded[c][g], missing)
  BY <1>1 DEF Content
<1>3. Exact(Content(F, W, d), recorded[c][d] \cup {lines + 1}, missing)
  <2>1. Exact(F[d] \o writers[c].buf, recorded[c][d], missing)
    BY <1>1 DEF Content
  <2>2. recorded[c][d] \in SUBSET (1..lines)
    BY <1>t
  <2>3. Exact(Append(F[d] \o writers[c].buf, lines + 1), recorded[c][d] \cup {lines + 1}, missing)
    BY <1>t, <2>1, <2>2, OneMore
  <2>4. F[d] \o Append(writers[c].buf, lines + 1) = Append(F[d] \o writers[c].buf, lines + 1)
    <3>1. F[d] \in Seq(Nat) /\ lines + 1 \in Nat
      BY <1>t
    <3> QED
      BY <1>t, <3>1, AppendAfter
  <2>5. Content(F, W, d) = F[d] \o Append(writers[c].buf, lines + 1)
    BY DEF Content
  <2> QED
    BY <2>3, <2>4, <2>5
<1>4. missing \cup {} = missing /\ missing \cup {} \cup {} = missing
  OBVIOUS
<1> QED
  BY <1>2, <1>3, <1>4 DEF RecordedFor, F

SomehowRecorded(c, d) ==
    \E W \in Writer : \E F \in [LogDays -> Seq(Nat)] : \E U, L :
        RecordedFor(c, d, W, F, U, L)

\* The open files a record may leave.
LEMMA WritersTyped ==
    ASSUME NEW w \in Writer, NEW b \in Seq(Nat)
    PROVE  /\ [w EXCEPT !.buf = b] \in Writer
           /\ [w EXCEPT !.buf = b].buf = b /\ [w EXCEPT !.buf = b].day = w.day
           /\ NoWriter \in Writer
BY SMTT(30) DEF Writer, NoWriter

LEMMA RecordInv == ASSUME ChanInv, NEW m \in Makers, Record(m) PROVE ChanInv'
<1> DEFINE ch == stamped[m].ch
           d == stamped[m].day
<1>1. ch \in LogChans /\ d \in LogDays
  BY DEF ChanInv, ChanTypes, Record, Line
<1>2. /\ stamped' \in [Makers -> {NoLine} \cup Line]
      /\ logDay' \in LogDays /\ logState' = logState
  BY DEF Record, ChanInv, ChanTypes
<1>t. /\ writers \in [LogChans -> Writer] /\ writers[ch] \in Writer
      /\ logFiles \in [LogChans -> [LogDays -> Seq(Nat)]]
      /\ recorded \in [LogChans -> [LogDays -> SUBSET (1..lines)]]
      /\ lines \in Nat
  BY <1>1 DEF ChanInv, ChanTypes, Files
<1>3. CASE logState = "closed"
  <2>1. UNCHANGED <<writers, broken, logFiles, lines, recorded, missing>>
    BY <1>3 DEF Record
  <2> QED
    BY <2>1, <1>2
       DEF ChanInv, ChanTypes, FilesInv, Holds, BufferHasFile, Apart, ClosedIsClosed
<1>4. CASE logState # "closed"
  <2>1. lines' = lines + 1
    BY <1>4 DEF Record
  <2>2. recorded' = [recorded EXCEPT ![ch] =
                        [recorded[ch] EXCEPT ![d] = recorded[ch][d] \cup {lines + 1}]]
    BY <1>1, <1>4, <1>t DEF Record
  <2>d. \/ writers[ch].day = d /\ AppendLine(ch)
        \/ writers[ch].day = d /\ Spill(ch)
        \/ \E n \in Reach(ch) : writers[ch].day = d /\ WriteFails(ch, n)
        \/ \E n \in Reach(ch) : Reopen(ch, d, n)
        \/ \E n \in Reach(ch) : ReopenFails(ch, n)
    BY <1>4 DEF Record
  <2> HIDE DEF ch, d
  <2>w. /\ writers[ch].day \in Nat /\ writers[ch].buf \in Seq(Nat)
        /\ Append(writers[ch].buf, lines + 1) \in Seq(Nat)
        /\ <<lines + 1>> \in Seq(Nat) /\ <<>> \in Seq(Nat)
    BY <1>t DEF Writer
  <2>q. SUFFICES SomehowRecorded(ch, d)
    <3>1. PICK W \in Writer : \E F \in [LogDays -> Seq(Nat)] : \E U, L :
               RecordedFor(ch, d, W, F, U, L)
      BY <2>q DEF SomehowRecorded
    <3>2. /\ writers' \in [LogChans -> Writer] /\ logFiles' \in Files
          /\ lines' \in Nat
          /\ recorded' \in [LogChans -> [LogDays -> SUBSET (1..lines')]]
          /\ missing' \subseteq 1..lines'
          /\ FilesInv'
      BY <1>1, <3>1, RecordedInv
    <3> QED
      BY <1>2, <1>4, <3>2 DEF ChanInv, ChanTypes, ClosedIsClosed
  <2>3. CASE writers[ch].day = d /\ AppendLine(ch)
    <3> DEFINE W == [writers[ch] EXCEPT !.buf = Append(writers[ch].buf, lines + 1)]
    <3>1. W \in Writer /\ W.day = d /\ W.buf = Append(writers[ch].buf, lines + 1)
      BY <1>t, <2>w, <2>3, WritersTyped
    <3>2. writers' = [writers EXCEPT ![ch] = W]
      BY <2>3 DEF AppendLine
    <3>3. logFiles' = [logFiles EXCEPT ![ch] = logFiles[ch]] /\ missing' = missing
      BY <2>3, <1>t DEF AppendLine
    <3> HIDE DEF W
    <3>4. RecordedFor(ch, d, W, logFiles[ch], {}, {})
      BY <1>1, <2>1, <2>2, <2>3, <3>1, <3>2, <3>3, AppendedFor
    <3> QED
      BY <1>1, <1>t, <3>1, <3>4 DEF SomehowRecorded
  <2>4. CASE writers[ch].day = d /\ Spill(ch)
    <3> DEFINE W == [writers[ch] EXCEPT !.buf = <<lines + 1>>]
               n == Len(writers[ch].buf)
    <3>1. W \in Writer /\ W.day = d /\ W.buf = <<lines + 1>>
      BY <1>t, <2>w, <2>4, WritersTyped
    <3>2. n \in Reach(ch) /\ Unwritten(ch, n) = {}
      BY <2>w, LenProperties DEF Reach, Unwritten
    <3>3. /\ writers' = [writers EXCEPT ![ch] = W]
          /\ logFiles' = [logFiles EXCEPT ![ch] = FlushedTo(ch, n)]
          /\ missing' = missing \cup Unwritten(ch, n) \cup {}
      BY <2>4, <3>2 DEF Spill
    <3> HIDE DEF W, n
    <3>4. RecordedFor(ch, d, W, FlushedTo(ch, n), Unwritten(ch, n), {})
      BY <1>1, <2>1, <2>2, <3>1, <3>2, <3>3, WrittenFor
    <3>5. FlushedTo(ch, n) \in [LogDays -> Seq(Nat)]
      BY <1>1, <3>2, WrittenOut DEF WrittenFact
    <3> QED
      BY <3>1, <3>4, <3>5 DEF SomehowRecorded
  <2>5. ASSUME NEW n \in Reach(ch), writers[ch].day = d, WriteFails(ch, n)
        PROVE  SomehowRecorded(ch, d)
    <3> DEFINE W == [writers[ch] EXCEPT !.buf = <<>>]
    <3>1. W \in Writer /\ W.buf = <<>>
      BY <1>t, <2>w, WritersTyped
    <3>2. writers' = [writers EXCEPT ![ch] = W]
      BY <1>1, <1>t, <2>5 DEF WriteFails
    <3>3. /\ logFiles' = [logFiles EXCEPT ![ch] = FlushedTo(ch, n)]
          /\ missing' = missing \cup Unwritten(ch, n) \cup {lines + 1}
      BY <2>5 DEF WriteFails
    <3> HIDE DEF W
    <3>4. RecordedFor(ch, d, W, FlushedTo(ch, n), Unwritten(ch, n), {lines + 1})
      BY <1>1, <2>1, <2>2, <3>1, <3>2, <3>3, WrittenFor
    <3>5. FlushedTo(ch, n) \in [LogDays -> Seq(Nat)]
      BY <1>1, WrittenOut DEF WrittenFact
    <3> QED
      BY <3>1, <3>4, <3>5 DEF SomehowRecorded
  <2>6. ASSUME NEW n \in Reach(ch), Reopen(ch, d, n)
        PROVE  SomehowRecorded(ch, d)
    <3> DEFINE W == [day |-> d, buf |-> <<lines + 1>>]
    <3>1. W \in Writer /\ W.day = d /\ W.buf = <<lines + 1>>
      BY <1>1, <2>w, DaysTyped DEF Writer
    <3>2. /\ writers' = [writers EXCEPT ![ch] = W]
          /\ logFiles' = [logFiles EXCEPT ![ch] = FlushedTo(ch, n)]
          /\ missing' = missing \cup Unwritten(ch, n) \cup {}
      BY <2>6 DEF Reopen
    <3> HIDE DEF W
    <3>4. RecordedFor(ch, d, W, FlushedTo(ch, n), Unwritten(ch, n), {})
      BY <1>1, <2>1, <2>2, <3>1, <3>2, WrittenFor
    <3>5. FlushedTo(ch, n) \in [LogDays -> Seq(Nat)]
      BY <1>1, WrittenOut DEF WrittenFact
    <3> QED
      BY <3>1, <3>4, <3>5 DEF SomehowRecorded
  <2>7. ASSUME NEW n \in Reach(ch), ReopenFails(ch, n)
        PROVE  SomehowRecorded(ch, d)
    <3>1. NoWriter \in Writer /\ NoWriter.buf = <<>>
      BY <1>t, <2>w, WritersTyped DEF NoWriter
    <3>2. /\ writers' = [writers EXCEPT ![ch] = NoWriter]
          /\ logFiles' = [logFiles EXCEPT ![ch] = FlushedTo(ch, n)]
          /\ missing' = missing \cup Unwritten(ch, n) \cup {lines + 1}
      BY <2>7 DEF ReopenFails
    <3>4. RecordedFor(ch, d, NoWriter, FlushedTo(ch, n), Unwritten(ch, n), {lines + 1})
      BY <1>1, <2>1, <2>2, <3>1, <3>2, WrittenFor
    <3>5. FlushedTo(ch, n) \in [LogDays -> Seq(Nat)]
      BY <1>1, WrittenOut DEF WrittenFact
    <3> QED
      BY <3>1, <3>4, <3>5 DEF SomehowRecorded
  <2> QED
    BY <2>d, <2>3, <2>4, <2>5, <2>6, <2>7
<1> QED
  BY <1>3, <1>4

-----------------------------------------------------------------------------
LEMMA ChanInitInv == ChanInit => ChanInv
<1> SUFFICES ASSUME ChanInit PROVE ChanInv
  OBVIOUS
<1>1. 1 \in LogDays
  BY ChannelLogAssumption DEF LogDays
<1>2. logFiles \in Files
  BY NothingWritten DEF ChanInit, Files
<1>3. ChanTypes
  BY <1>1, <1>2 DEF ChanInit, ChanTypes, NoWriter, Writer
<1>4. ASSUME NEW ch \in LogChans, NEW d \in LogDays PROVE Holds(ch, d)
  <2>1. Content(logFiles[ch], writers[ch], d) = <<>> \o <<>>
    BY DaysTyped DEF ChanInit, NoWriter, Content
  <2>2. Content(logFiles[ch], writers[ch], d) = <<>>
    BY <2>1, NothingWritten, EmptyAfter
  <2> QED
    BY <2>2, NothingWritten DEF ChanInit, Holds
<1>5. BufferHasFile /\ Apart /\ ClosedIsClosed
  BY DEF ChanInit, BufferHasFile, Apart, ClosedIsClosed, NoWriter
<1> QED
  BY <1>3, <1>4, <1>5 DEF ChanInv, FilesInv

\* Every buffer is written out, as far as it goes, and nothing is buffered then.
LEMMA OutInv ==
    ASSUME ChanInv, NEW n, \A ch \in LogChans : n[ch] \in Reach(ch), WriteOut(n),
           UNCHANGED <<lines, recorded>>,
           writers' \in [LogChans -> Writer], \A ch \in LogChans : writers'[ch].buf = <<>>
    PROVE  logFiles' \in Files /\ missing' \subseteq 1..lines' /\ FilesInv'
<1> DEFINE X == UNION {Unwritten(ch, n[ch]) : ch \in LogChans}
<1>1. logFiles' = [ch \in LogChans |-> FlushedTo(ch, n[ch])] /\ missing' = missing \cup X
  BY DEF WriteOut
<1>2. \A ch \in LogChans : WrittenFact(ch, n[ch])
  BY WrittenOut
<1>3. logFiles' \in Files
  BY <1>1, <1>2 DEF Files, WrittenFact
<1>4. missing' \subseteq 1..lines'
  <2>1. X \subseteq 1..lines
    BY <1>2 DEF WrittenFact
  <2>2. missing \subseteq 1..lines
    BY DEF ChanInv, ChanTypes
  <2> QED
    BY <1>1, <2>1, <2>2
<1>5. ASSUME NEW ch \in LogChans, NEW d \in LogDays PROVE Holds(ch, d)'
  <2>1. Exact(FlushedTo(ch, n[ch])[d], recorded[ch][d], missing \cup Unwritten(ch, n[ch]))
    BY <1>2 DEF WrittenFact
  <2> DEFINE Y == UNION {Unwritten(e, n[e]) : e \in LogChans \ {ch}}
  <2>2. recorded[ch][d] \cap Y = {}
    <3>1. ASSUME NEW e \in LogChans \ {ch} PROVE recorded[ch][d] \cap Unwritten(e, n[e]) = {}
      BY <1>2, <3>1 DEF WrittenFact
    <3> QED
      BY <3>1
  <2>3. missing' = (missing \cup Unwritten(ch, n[ch])) \cup Y
    BY <1>1
  <2> HIDE DEF Y
  <2>4. Exact(FlushedTo(ch, n[ch])[d], recorded[ch][d], missing')
    BY <2>1, <2>2, <2>3, Widened
  <2>5. Content(logFiles'[ch], writers'[ch], d) = FlushedTo(ch, n[ch])[d] \o <<>>
    BY <1>1 DEF Content
  <2>6. FlushedTo(ch, n[ch])[d] \in Seq(Nat)
    BY <2>1 DEF Exact
  <2>7. Content(logFiles'[ch], writers'[ch], d) = FlushedTo(ch, n[ch])[d]
    BY <2>5, <2>6, EmptyAfter
  <2> QED
    BY <2>4, <2>7 DEF Holds
<1>6. BufferHasFile' /\ Apart'
  BY DEF BufferHasFile, Apart, ChanInv, FilesInv, LogDays
<1> QED
  BY <1>3, <1>4, <1>5, <1>6 DEF FilesInv, LogDays

LEMMA FlushInv == ASSUME ChanInv, FlushAll PROVE ChanInv'
<1>1. PICK n \in Reaches : WriteOut(n)
  BY DEF FlushAll
<1>2. ASSUME NEW ch \in LogChans
      PROVE  writers'[ch] \in Writer /\ writers'[ch].buf = <<>>
  <2>1. writers[ch] \in Writer /\ <<>> \in Seq(Nat)
    BY DEF ChanInv, ChanTypes
  <2>2. writers'[ch] = [writers[ch] EXCEPT !.buf = <<>>]
    BY DEF FlushAll
  <2>3. [writers[ch] EXCEPT !.buf = <<>>] \in Writer
    BY <2>1 DEF Writer
  <2>4. [writers[ch] EXCEPT !.buf = <<>>].buf = <<>>
    BY <2>1 DEF Writer
  <2> QED
    BY <2>2, <2>3, <2>4
<1>3. writers' \in [LogChans -> Writer]
  BY <1>2 DEF FlushAll
<1>4. logFiles' \in Files /\ missing' \subseteq 1..lines' /\ FilesInv'
  <2>1. \A ch \in LogChans : n[ch] \in Reach(ch)
    BY DEF Reaches
  <2>2. UNCHANGED <<lines, recorded>>
    BY DEF FlushAll
  <2> QED
    BY <1>1, <1>2, <1>3, <2>1, <2>2, OutInv
<1> QED
  BY <1>3, <1>4 DEF FlushAll, ChanInv, ChanTypes, ClosedIsClosed

LEMMA CloseInv == ASSUME ChanInv, CloseAll PROVE ChanInv'
<1>1. PICK n \in Reaches : WriteOut(n)
  BY DEF CloseAll
<1>2. /\ writers' \in [LogChans -> Writer]
      /\ \A ch \in LogChans : writers'[ch] = NoWriter /\ writers'[ch].buf = <<>>
  BY DEF CloseAll, NoWriter, Writer
<1>3. logFiles' \in Files /\ missing' \subseteq 1..lines' /\ FilesInv'
  <2>1. \A ch \in LogChans : n[ch] \in Reach(ch)
    BY DEF Reaches
  <2>2. UNCHANGED <<lines, recorded>>
    BY DEF CloseAll
  <2> QED
    BY <1>1, <1>2, <2>1, <2>2, OutInv
<1> QED
  BY <1>2, <1>3 DEF CloseAll, ChanInv, ChanTypes, ClosedIsClosed

LEMMA NewStoreInv == ASSUME ChanInv, NewLogStore PROVE ChanInv'
<1> DEFINE n == [ch \in LogChans |-> 0]
<1>1. \A ch \in LogChans : n[ch] \in Reach(ch) /\ FlushedTo(ch, n[ch]) = logFiles[ch]
  BY NothingOut
<1>2. WriteOut(n)
  <2>1. logFiles' = [ch \in LogChans |-> FlushedTo(ch, n[ch])]
    <3>1. logFiles' = logFiles /\ logFiles = [ch \in LogChans |-> logFiles[ch]]
      BY DEF NewLogStore, ChanInv, ChanTypes, Files
    <3> QED
      BY <1>1, <3>1
  <2>2. missing' = missing \cup UNION {Unwritten(ch, n[ch]) : ch \in LogChans}
    BY DEF NewLogStore
  <2> QED
    BY <2>1, <2>2 DEF WriteOut
<1>3. /\ writers' \in [LogChans -> Writer]
      /\ \A ch \in LogChans : writers'[ch].buf = <<>>
  BY DEF NewLogStore, NoWriter, Writer
<1> HIDE DEF n
<1>4. logFiles' \in Files /\ missing' \subseteq 1..lines' /\ FilesInv'
  <2>1. UNCHANGED <<lines, recorded>>
    BY DEF NewLogStore
  <2> QED
    BY <1>1, <1>2, <1>3, <2>1, OutInv
<1> QED
  BY <1>3, <1>4 DEF NewLogStore, ChanInv, ChanTypes, ClosedIsClosed

LEMMA ChanStep == ChanInv /\ [ChanNext]_chanVars => ChanInv'
<1> SUFFICES ASSUME ChanInv, [ChanNext]_chanVars PROVE ChanInv'
  OBVIOUS
<1> USE DEF FilesInv, Holds, BufferHasFile, Apart, ClosedIsClosed
<1>1. ASSUME NEW m \in Makers, Record(m) PROVE ChanInv'
  BY <1>1, RecordInv
<1>2. ASSUME NEW m \in Makers, NEW ch \in LogChans, StampLine(m, ch) PROVE ChanInv'
  <2>1. [ch |-> ch, day |-> logDay] \in Line
    BY DEF ChanInv, ChanTypes, Line
  <2>2. ChanTypes'
    BY <1>2, <2>1 DEF ChanInv, ChanTypes, StampLine
  <2> QED
    BY <1>2, <2>2 DEF StampLine, ChanInv
<1>3. CASE FlushAll
  BY <1>3, FlushInv
<1>4. CASE CloseAll
  BY <1>4, CloseInv
<1>5. CASE StopLog \/ LoopEnded
  BY <1>5 DEF StopLog, LoopEnded, ChanInv, ChanTypes
<1>6. CASE NewLogStore
  BY <1>6, NewStoreInv
<1>7. CASE NextDay
  <2>1. logDay' \in LogDays
    BY <1>7, ChannelLogAssumption DEF NextDay, ChanInv, ChanTypes, LogDays
  <2> QED
    BY <1>7, <2>1 DEF NextDay, ChanInv, ChanTypes
<1>8. CASE UNCHANGED chanVars
  BY <1>8 DEF chanVars, ChanInv, ChanTypes
<1> QED
  BY <1>1, <1>2, <1>3, <1>4, <1>5, <1>6, <1>7, <1>8 DEF ChanNext

\* The inductive invariant: types, the content of every file with its buffer, that
\* a line is recorded once, and no open file after Stop (Record, flushLoop, Stop).
THEOREM ChanHolds == ChanSpec => []ChanInv
BY ChanInitInv, ChanStep, PTL DEF ChanSpec

\* The file of each day and what is buffered for it have, in order, the lines
\* recorded for that channel and day but for those that a failed write, a failed
\* open or a kill cost, and nothing is buffered once Stop has closed the files
\* (Record, closeLocked, Stop), for all channels, makers and days and wherever
\* writes fail.
THEOREM FilesHaveLines == ChanSpec => []LogHasLines
<1>1. ASSUME ChanInv, NEW ch \in LogChans, NEW d \in LogDays
      PROVE  /\ Increasing(logFiles[ch][d] \o Buffered(ch, d))
             /\ Range(logFiles[ch][d] \o Buffered(ch, d)) = recorded[ch][d] \ missing
             /\ logState = "closed" => Buffered(ch, d) = <<>>
  <2>1. Exact(logFiles[ch][d] \o Buffered(ch, d), recorded[ch][d], missing)
    BY <1>1 DEF ChanInv, FilesInv, Holds, Content, Buffered
  <2>2. ASSUME logState = "closed" PROVE Buffered(ch, d) = <<>>
    BY <1>1, <2>2, DaysTyped DEF ChanInv, ClosedIsClosed, NoWriter, Buffered
  <2> QED
    BY <2>1, <2>2 DEF Exact
<1>2. ChanInv => LogHasLines
  BY <1>1 DEF LogHasLines
<1> QED
  BY <1>2, ChanHolds, PTL

-----------------------------------------------------------------------------
(* That the cache of !opme outlasts what it remembers, for every leeway,   *)
(* every clock and every order of commands, cleanings and restarts.        *)

OpTypes ==
    /\ clock \in Nat
    /\ cache \in [AuthIDs -> Nat]
    /\ granted \in [AuthIDs -> Nat]
    /\ checked \subseteq AuthIDs /\ fresh \subseteq AuthIDs /\ late \subseteq AuthIDs

\* The credential would not pass the check of its time any more.
OutOfDate(id) == id[2] + Leeway < clock

\* It is remembered until it would not.
Outlasts(id) == cache[id] # 0 /\ cache[id] >= id[2] + Leeway

\* A handler checks, or has found one credential new, not both.
Serial == checked = {} \/ fresh = {}

\* What a handler has in hand was not too early.
NotEarly(id) == id \in checked \cup fresh => clock >= id[2] - Leeway

\* What was granted is out of date or still remembered.
GrantRemembered(id) == granted[id] # 0 => OutOfDate(id) \/ Outlasts(id)

\* It was granted twice only to a handler that its leeway's end overtook.
GrantedAtMost(id) ==
    granted[id] <= 1 \/ (granted[id] = 2 /\ id \in late /\ OutOfDate(id))

\* What is about to be granted is not remembered, and was not granted, or once and
\* its leeway's end overtook the handler.
InHand(id) ==
    /\ id \in checked => granted[id] <= 1
    /\ id \in fresh =>
          /\ ~Remembered(id)
          /\ granted[id] = 0 \/ (granted[id] = 1 /\ id \in late /\ OutOfDate(id))

CredInv(id) == NotEarly(id) /\ GrantRemembered(id) /\ GrantedAtMost(id) /\ InHand(id)

OpInv == OpTypes /\ Serial /\ \A id \in AuthIDs : CredInv(id)

LEMMA IDsTyped == ASSUME NEW id \in AuthIDs PROVE id[2] \in Int
BY OpMeAssumption DEF AuthIDs

LEMMA OpInitInv == OpInit => OpInv
BY OpMeAssumption
   DEF OpInit, OpInv, OpTypes, Serial, CredInv, NotEarly, GrantRemembered, GrantedAtMost,
       InHand, Forgotten

\* A credential that passes the check is not out of date.
LEMMA CheckKeeps ==
    ASSUME OpInv, NEW ch \in OpChans, NEW id \in AuthIDs, NEW genuine \in BOOLEAN,
           CheckOpMe(ch, id, genuine)
    PROVE  OpInv'
<1>0. Leeway \in Nat /\ clock \in Nat /\ id[2] \in Int
  BY OpMeAssumption, IDsTyped DEF OpInv, OpTypes
<1>1. /\ checked' = {id} /\ fresh' = {} /\ fresh = {}
      /\ clock' = clock /\ cache' = cache /\ granted' = granted /\ late' = late
  BY DEF CheckOpMe, Idle
<1>2. OpTypes' /\ Serial'
  BY <1>1 DEF OpInv, OpTypes, Serial
<1>3. ~OutOfDate(id) /\ clock >= id[2] - Leeway
  BY <1>0 DEF CheckOpMe, InLeeway, OutOfDate
<1>4. ASSUME NEW other \in AuthIDs PROVE CredInv(other)'
  <2>1. CredInv(other)
    BY DEF OpInv
  <2>2. GrantRemembered(other)' /\ GrantedAtMost(other)'
    BY <1>1, <2>1 DEF CredInv, GrantRemembered, GrantedAtMost, OutOfDate, Outlasts
  <2>3. NotEarly(other)'
    BY <1>1, <1>3 DEF NotEarly
  <2>4. InHand(other)'
    BY <1>1, <1>3, <2>1 DEF CredInv, GrantedAtMost, InHand
  <2> QED
    BY <2>2, <2>3, <2>4 DEF CredInv
<1> QED
  BY <1>2, <1>4 DEF OpInv

\* A credential that was granted and is not remembered is out of date.
LEMMA LookUpKeeps ==
    ASSUME OpInv, NEW id \in AuthIDs, LookUpAuth(id)
    PROVE  OpInv'
<1>0. Leeway \in Nat /\ clock \in Nat /\ id[2] \in Int /\ cache[id] \in Nat /\ granted[id] \in Nat
  BY OpMeAssumption, IDsTyped DEF OpInv, OpTypes
<1>1. /\ id \in checked /\ checked' = {}
      /\ fresh' = IF Remembered(id) THEN {} ELSE {id}
      /\ late' = IF clock - id[2] > Leeway THEN late \cup {id} ELSE late
      /\ clock' = clock /\ cache' = cache /\ granted' = granted
  BY DEF LookUpAuth
<1>2. OpTypes' /\ Serial'
  BY <1>1 DEF OpInv, OpTypes, Serial
<1>3. CredInv(id)
  BY DEF OpInv
<1>4. granted[id] = 0 \/ (granted[id] = 1 /\ (OutOfDate(id) \/ Outlasts(id)))
  BY <1>0, <1>1, <1>3 DEF CredInv, InHand, GrantRemembered
<1>5. OutOfDate(id) => id \in late'
  BY <1>0, <1>1 DEF OutOfDate
<1>6. ~Remembered(id) /\ Outlasts(id) => OutOfDate(id)
  BY <1>0 DEF Remembered, IsExpired, Outlasts, OutOfDate
<1>7. ASSUME NEW other \in AuthIDs PROVE CredInv(other)'
  <2>1. CredInv(other)
    BY DEF OpInv
  <2>2. GrantRemembered(other)' /\ GrantedAtMost(other)'
    BY <1>1, <2>1 DEF CredInv, GrantRemembered, GrantedAtMost, OutOfDate, Outlasts
  <2>3. NotEarly(other)'
    BY <1>1, <2>1 DEF CredInv, NotEarly
  <2>4. InHand(other)'
    <3>1. other \notin checked' /\ (other \in fresh' => other = id /\ ~Remembered(id))
      BY <1>1
    <3>2. OutOfDate(id)' <=> OutOfDate(id)
      BY <1>1 DEF OutOfDate
    <3>3. Remembered(id)' <=> Remembered(id)
      BY <1>1 DEF Remembered, IsExpired
    <3> QED
      BY <1>1, <1>4, <1>5, <1>6, <3>1, <3>2, <3>3 DEF InHand
  <2> QED
    BY <2>2, <2>3, <2>4 DEF CredInv
<1> QED
  BY <1>2, <1>7 DEF OpInv

\* What is granted is remembered for at least as long as it is in date.
LEMMA GrantKeeps ==
    ASSUME OpInv, NEW id \in AuthIDs, GrantOp(id)
    PROVE  OpInv'
<1>0. /\ Leeway \in Nat /\ Leeway > 0 /\ clock \in Nat /\ id[2] \in Int
      /\ cache[id] \in Nat /\ granted[id] \in Nat
  BY OpMeAssumption, IDsTyped DEF OpInv, OpTypes
<1>1. /\ id \in fresh /\ fresh' = {} /\ checked' = checked
      /\ cache' = [cache EXCEPT ![id] = IF Remembered(id) THEN cache[id] ELSE clock + 2 * Leeway]
      /\ granted' = [granted EXCEPT ![id] = granted[id] + 1]
      /\ clock' = clock /\ late' = late
  BY DEF GrantOp, Add
<1>2. checked = {}
  BY <1>1 DEF OpInv, Serial
<1>t. cache \in [AuthIDs -> Nat] /\ granted \in [AuthIDs -> Nat]
  BY DEF OpInv, OpTypes
<1>3. /\ cache'[id] = IF Remembered(id) THEN cache[id] ELSE clock + 2 * Leeway
      /\ granted'[id] = granted[id] + 1
      /\ \A other \in AuthIDs \ {id} :
            cache'[other] = cache[other] /\ granted'[other] = granted[other]
  BY <1>1, <1>t
<1>4. cache' \in [AuthIDs -> Nat] /\ granted' \in [AuthIDs -> Nat]
  <2>1. (IF Remembered(id) THEN cache[id] ELSE clock + 2 * Leeway) \in Nat
    BY <1>0
  <2>2. granted[id] + 1 \in Nat
    BY <1>0
  <2> QED
    BY <1>1, <1>t, <2>1, <2>2
<1>5. OpTypes' /\ Serial'
  BY <1>1, <1>4 DEF OpInv, OpTypes, Serial
<1>6. CredInv(id) /\ clock >= id[2] - Leeway
  BY <1>1 DEF OpInv, CredInv, NotEarly
<1>7. GrantRemembered(id)'
  <2>1. ~Remembered(id)
    BY <1>1, <1>6 DEF CredInv, InHand
  <2>2. cache'[id] = clock + 2 * Leeway
    BY <2>1, <1>3
  <2>3. Outlasts(id)'
    BY <2>2, <1>0, <1>6 DEF Outlasts
  <2> QED
    BY <2>3 DEF GrantRemembered
<1>8. GrantedAtMost(id)'
  <2>1. granted[id] = 0 \/ (granted[id] = 1 /\ id \in late /\ OutOfDate(id))
    BY <1>1, <1>6 DEF CredInv, InHand
  <2>2. OutOfDate(id)' <=> OutOfDate(id)
    BY <1>1 DEF OutOfDate
  <2> QED
    BY <2>1, <2>2, <1>0, <1>1, <1>3 DEF GrantedAtMost
<1>9. ASSUME NEW other \in AuthIDs PROVE CredInv(other)'
  <2>1. NotEarly(other)' /\ InHand(other)'
    BY <1>1, <1>2 DEF NotEarly, InHand
  <2>2. CASE other = id
    BY <1>7, <1>8, <2>1, <2>2 DEF CredInv
  <2>3. CASE other # id
    <3>1. CredInv(other)
      BY DEF OpInv
    <3>2. GrantRemembered(other)' /\ GrantedAtMost(other)'
      BY <1>1, <1>3, <2>3, <3>1
         DEF CredInv, GrantRemembered, GrantedAtMost, OutOfDate, Outlasts
    <3> QED
      BY <2>1, <3>2 DEF CredInv
  <2> QED
    BY <2>2, <2>3
<1> QED
  BY <1>5, <1>9 DEF OpInv

LEMMA OpStep == OpInv /\ [OpNext]_opVars => OpInv'
<1> SUFFICES ASSUME OpInv, [OpNext]_opVars PROVE OpInv'
  OBVIOUS
<1>0. Leeway \in Nat /\ Leeway > 0 /\ MaxClock \in Nat
  BY OpMeAssumption
<1>t. OpTypes /\ Serial /\ \A id \in AuthIDs : CredInv(id)
  BY DEF OpInv
<1>1. ASSUME NEW ch \in OpChans, NEW id \in AuthIDs, NEW genuine \in BOOLEAN,
             CheckOpMe(ch, id, genuine)
      PROVE  OpInv'
  BY <1>1, CheckKeeps
<1>2. ASSUME NEW id \in AuthIDs, LookUpAuth(id) PROVE OpInv'
  BY <1>2, LookUpKeeps
<1>3. ASSUME NEW id \in AuthIDs, GrantOp(id) PROVE OpInv'
  BY <1>3, GrantKeeps
<1>4. CASE CleanCache
  <2>1. /\ clock' = clock /\ granted' = granted /\ checked' = checked
        /\ fresh' = fresh /\ late' = late
        /\ \A id \in AuthIDs : cache'[id] = IF IsExpired(id) THEN 0 ELSE cache[id]
    BY <1>4 DEF CleanCache
  <2>2. OpTypes' /\ Serial'
    BY <1>4, <1>t DEF CleanCache, OpTypes, Serial
  <2>3. ASSUME NEW id \in AuthIDs PROVE CredInv(id)'
    <3>1. OutOfDate(id) \/ Outlasts(id) => OutOfDate(id)' \/ Outlasts(id)'
      BY <2>1, <1>0, <1>t, IDsTyped DEF IsExpired, Outlasts, OutOfDate, OpTypes
    <3>2. CredInv(id)
      BY <1>t
    <3>3. GrantRemembered(id)'
      BY <2>1, <3>1, <3>2 DEF CredInv, GrantRemembered
    <3>4. ~Remembered(id) => ~Remembered(id)'
      BY <2>1 DEF Remembered, IsExpired
    <3>5. InHand(id)'
      BY <2>1, <3>2, <3>4 DEF CredInv, InHand, OutOfDate
    <3> QED
      BY <2>1, <3>2, <3>3, <3>5 DEF CredInv, NotEarly, GrantedAtMost, OutOfDate
  <2> QED
    BY <2>2, <2>3 DEF OpInv
<1>5. CASE OpRestart
  BY <1>5, <1>t
     DEF OpRestart, OpInv, OpTypes, Serial, CredInv, NotEarly, GrantRemembered,
         GrantedAtMost, InHand, Forgotten
<1>6. CASE ClockTick
  <2>1. /\ clock' = clock + 1 /\ cache' = cache /\ granted' = granted
        /\ checked' = checked /\ fresh' = fresh /\ late' = late
    BY <1>6 DEF ClockTick
  <2>2. OpTypes' /\ Serial'
    BY <2>1, <1>t DEF OpTypes, Serial
  <2>3. ASSUME NEW id \in AuthIDs PROVE CredInv(id)'
    <3>1. OutOfDate(id) => OutOfDate(id)'
      BY <2>1, <1>0, <1>t, IDsTyped DEF OutOfDate, OpTypes
    <3>2. Outlasts(id) => Outlasts(id)'
      BY <2>1 DEF Outlasts
    <3>3. CredInv(id)
      BY <1>t
    <3>4. NotEarly(id)'
      BY <2>1, <3>3, <1>0, <1>t, IDsTyped DEF CredInv, NotEarly, OpTypes
    <3>5. ~Remembered(id) => ~Remembered(id)'
      BY <2>1, <1>t DEF Remembered, IsExpired, OpTypes
    <3>6. GrantRemembered(id)' /\ GrantedAtMost(id)' /\ InHand(id)'
      BY <2>1, <3>1, <3>2, <3>3, <3>5 DEF CredInv, GrantRemembered, GrantedAtMost, InHand
    <3> QED
      BY <3>4, <3>6 DEF CredInv
  <2> QED
    BY <2>2, <2>3 DEF OpInv
<1>7. ASSUME NEW ch \in OpChans, ModeMe(ch) PROVE OpInv'
  BY <1>7, <1>t
     DEF ModeMe, OpInv, OpTypes, Serial, CredInv, NotEarly, GrantRemembered, GrantedAtMost,
         InHand, OutOfDate, Outlasts, Remembered, IsExpired
<1>8. CASE UNCHANGED opVars
  BY <1>8, <1>t
     DEF opVars, OpInv, OpTypes, Serial, CredInv, NotEarly, GrantRemembered, GrantedAtMost,
         InHand, OutOfDate, Outlasts, Remembered, IsExpired
<1> QED
  BY <1>1, <1>2, <1>3, <1>4, <1>5, <1>6, <1>7, <1>8 DEF OpNext

\* The inductive invariant: whatever this process granted it remembers for as
\* long as the credential's time is within the leeway, and what a handler is about
\* to grant was granted before only when the end of the leeway came between the
\* handler's check and its look-up (handleOpMe, Cache.Add, clean, isExpired).
THEOREM OpRemembers == OpSpec => []OpInv
BY OpInitInv, OpStep, PTL DEF OpSpec

\* A credential is granted at most once by a process, and once more only to a
\* handler that the end of its leeway overtook between its check and its look-up,
\* for every leeway, every clock that moves between the three readings of a handler
\* and every order of commands, cleanings, mode changes and restarts (handleOpMe).
THEOREM OpGrantedOnce == OpSpec => []GrantedOnce
<1>1. OpInv => GrantedOnce
  BY DEF OpInv, CredInv, GrantedAtMost, GrantedOnce
<1> QED
  BY <1>1, OpRemembers, PTL

-----------------------------------------------------------------------------
\* A behaviour of dflybot is one of each of these parts (main, in main.go).
THEOREM DflybotParts == BotSpec => ChanSpec /\ OpSpec
<1>1. BotInit => ChanInit /\ OpInit
  BY DEF BotInit
<1>2. [BotNext]_botVars => [ChanNext]_chanVars
  BY DEF BotNext, botVars, chanVars
<1>3. [BotNext]_botVars => [OpNext]_opVars
  BY DEF BotNext, botVars, opVars
<1> QED  BY <1>1, <1>2, <1>3, PTL DEF BotSpec, ChanSpec, OpSpec
================================================================================
