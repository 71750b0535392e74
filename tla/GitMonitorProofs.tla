--------------------------- MODULE GitMonitorProofs ---------------------------
(***************************************************************************)
(* What git-monitor announces, for every history, every set of branches    *)
(* and tags and every combination of mishaps.                              *)
(***************************************************************************)
EXTENDS GitMonitor, OrderProofs

-----------------------------------------------------------------------------
(* Histories.                                                              *)

LEMMA AncestorFacts ==
    ASSUME NEW c \in Commits
    PROVE  /\ Ancestors[c] \subseteq Commits /\ c \in Ancestors[c]
           /\ \A a \in Ancestors[c] : Ancestors[a] \subseteq Ancestors[c]
<1> DEFINE Closed(S) == \A d \in S : Parents[d] \subseteq S
           In(a, d) == \A S \in SUBSET Commits : Closed(S) /\ d \in S => a \in S
<1>1. \A d \in Commits : Ancestors[d] = {a \in Commits : In(a, d)}
  BY DEF Ancestors
<1>2. In(c, c)
  OBVIOUS
<1>3. \A a, b \in Commits : In(a, c) /\ In(b, a) => In(b, c)
  <2> HIDE DEF Closed
  <2> QED  OBVIOUS
<1> HIDE DEF In
<1>4. ASSUME NEW a \in Ancestors[c]
      PROVE  Ancestors[a] \subseteq Ancestors[c]
  <2>1. a \in Commits /\ In(a, c)
    BY <1>1
  <2> QED  BY <2>1, <1>1, <1>3
<1> QED  BY <1>1, <1>2, <1>4

LEMMA CommitsFinite == ASSUME NEW cs \in SUBSET Commits PROVE IsFiniteSet(cs)
<1>1. IsFiniteSet(Commits)
  BY GitAssumption, FS_Interval DEF Commits
<1> QED  BY <1>1, FS_Subset

LEMMA HistoryFacts ==
    ASSUME NEW c \in Commits \cup {None}
    PROVE  /\ History(c) \subseteq Commits
           /\ c = None => History(c) = {}
           /\ c # None => c \in History(c)
           /\ \A a \in History(c) : a \in Commits /\ History(a) \subseteq History(c)
<1>1. None \notin Commits
  BY GitAssumption DEF Objects
<1>2. CASE c = None
  BY <1>2 DEF History
<1>3. CASE c \in Commits
  <2>1. History(c) = Ancestors[c] /\ \A a \in Commits : History(a) = Ancestors[a]
    BY <1>1, <1>3 DEF History
  <2> QED  BY <1>1, <1>3, <2>1, AncestorFacts
<1> QED  BY <1>2, <1>3

LEMMA ListFacts ==
    ASSUME NEW old \in Commits \cup {None}, NEW new \in Commits \cup {None}, old # None, new # None
    PROVE  RevList(old, new) = History(new) \ History(old) /\ RevList(old, new) \in SUBSET Commits
<1>1. RevList(old, new) = History(new) \ History(old)
  BY DEF RevList, History
<1> QED  BY <1>1, HistoryFacts

\* In each order of a list the tip comes last.
LEMMA OrderFacts ==
    ASSUME NEW cs \in SUBSET Commits, NEW tip, NEW o \in Orders(cs, tip)
    PROVE  /\ DOMAIN o = cs /\ \A c \in cs : o[c] \in Nat
           /\ \A c \in cs \ {tip} : \E d \in cs : o[c] < o[d]
<1>1. Cardinality(cs) \in Nat
  BY CommitsFinite, FS_CardinalityType
<1>2. o \in [cs -> 1..Cardinality(cs)] /\ \A c \in cs \ {tip} : \E d \in cs : o[c] < o[d]
  BY DEF Orders, Injection
<1> QED  BY <1>1, <1>2

LEMMA LastFacts ==
    ASSUME NEW cs \in SUBSET Commits, cs # {}, NEW o, \A c \in cs : o[c] \in Nat
    PROVE  LastOfList(o, cs) \in cs /\ \A d \in cs : o[d] <= o[LastOfList(o, cs)]
<1> DEFINE places == {o[c] : c \in cs}
<1>1. places \subseteq Nat /\ places # {} /\ IsFiniteSet(places)
  <2>1. [c \in cs |-> o[c]] \in Surjection(cs, places)
    BY DEF Surjection, IsInjective
  <2> QED  BY <2>1, CommitsFinite, FS_Surjection
<1>2. Greatest(places) \in places /\ \A n \in places : n <= Greatest(places)
  <2> HIDE DEF places
  <2> QED  BY <1>1, GreatestNatural
<1>3. PICK c \in cs : o[c] = Greatest(places)
  BY <1>2
<1>4. \A d \in cs : Before(o, d, c)
  BY <1>2, <1>3 DEF Before
<1> HIDE DEF places
<1> QED  BY <1>4 DEF LastOfList, Before

-----------------------------------------------------------------------------
(* The states.                                                             *)

Names == Branches \cup Tags

Outs == [tags : SUBSET Tags, news : [Branches -> SUBSET Commits], blank : SUBSET Branches]

Sets == [Names -> SUBSET Objects]

Typed ==
    /\ remote \in Refs /\ st \in Refs
    /\ mirror # None => mirror \in Refs
    /\ disk # None => disk \in Refs
    /\ phase \in {"off", "seed", "idle", "send"}
    /\ out \in Outs
    /\ posted \in Sets /\ again \in Sets /\ lost \in Sets /\ base \in Sets

\* What a phase has in hand.
Phases ==
    /\ phase = "off" => st = EmptyState
    /\ phase # "off" => mirror # None
    /\ phase # "send" => out = NoMessages
    /\ \A t \in out.tags : mirror.tags[t] # None

\* The bounds of the behaviour.
ScenarioInv == scenario.heads \subseteq Commits /\ scenario.objects \subseteq Objects

StateInv == Typed /\ Phases

\* The memory, or what will be read of it.
Current == IF phase = "off" THEN Loaded ELSE st

Told(k) == posted[k] \cup base[k]

Behind(c, d) == c = None \/ c \in History(d)

\* A branch that only moves forward, of which all was read and saved.
BranchInv(b) ==
    /\ again[b] = {}
    /\ Current.heads[b] # None => Told(b) \subseteq History(Current.heads[b])
    /\ mirror = None => Told(b) = {}
    /\ mirror # None => /\ Told(b) \cup out.news[b] \subseteq History(mirror.heads[b])
                        /\ Behind(mirror.heads[b], remote.heads[b])
    /\ Behind(Current.heads[b], remote.heads[b])
    /\ out.news[b] \cap Told(b) = {}
    /\ out.news[b] \subseteq History(st.heads[b])

\* A tag that stays where it is: a lightweight one is told once.
TagInv(t) ==
    /\ again[t] \cap Commits = {}
    /\ mirror = None => Told(t) = {}
    /\ mirror # None => /\ Told(t) \subseteq {mirror.tags[t]}
                        /\ mirror.tags[t] \in {None, remote.tags[t]}
    /\ \/ Told(t) \cap Commits \subseteq {Current.tags[t]}
       \/ Current = EmptyState /\ phase \in {"off", "seed"}
    /\ t \in out.tags /\ mirror.tags[t] \in Commits =>
            mirror.tags[t] \notin Told(t) /\ mirror.tags[t] = st.tags[t]

-----------------------------------------------------------------------------
(* What a poll makes of a branch.                                          *)

KeptAt(b, r, fault, o) == News(b, r, fault) = {} /\ SeenTip(b, r, fault, o) = st.heads[b]

SeededAt(b, r, fault, o) ==
    /\ fault # <<"heads">> /\ st.heads[b] = None
    /\ News(b, r, fault) = {} /\ SeenTip(b, r, fault, o) = r.heads[b]

MovedAt(b, r, fault, o) ==
    /\ st.heads[b] # None /\ r.heads[b] # None
    /\ News(b, r, fault) \subseteq History(r.heads[b]) \ History(st.heads[b])
    /\ SeenTip(b, r, fault, o) \in News(b, r, fault)
    /\ ~Unread(r, fault) => /\ News(b, r, fault) = History(r.heads[b]) \ History(st.heads[b])
                            /\ SeenTip(b, r, fault, o) = r.heads[b]

LEMMA PollOfBranch ==
    ASSUME st \in Refs, NEW r \in Refs, NEW b \in Branches, NEW fault,
           NEW o \in Orders(List(b, r, fault), r.heads[b])
    PROVE  /\ KeptAt(b, r, fault, o) \/ SeededAt(b, r, fault, o) \/ MovedAt(b, r, fault, o)
           /\ News(b, r, fault) \in SUBSET Commits
           /\ SeenTip(b, r, fault, o) \in Commits \cup {None}
<1> DEFINE old == st.heads[b]
           new == r.heads[b]
           news == News(b, r, fault)
           tip == SeenTip(b, r, fault, o)
<1>1. old \in Commits \cup {None} /\ new \in Commits \cup {None} /\ None \notin Commits
  BY GitAssumption DEF Refs, Objects
<1>2. CASE ~Moved(b, r, fault)
  <2>1. news = {}
    BY <1>2 DEF News, List
  <2>2. tip = IF fault = <<"heads">> THEN old ELSE IF old = None THEN new ELSE old
    BY <2>1 DEF SeenTip
  <2>3. KeptAt(b, r, fault, o) \/ SeededAt(b, r, fault, o)
    BY <2>1, <2>2 DEF KeptAt, SeededAt
  <2> QED  BY <1>1, <2>1, <2>2, <2>3
<1>3. CASE Moved(b, r, fault)
  <2> DEFINE list == List(b, r, fault)
  <2>1. old # None /\ new # None /\ new # old /\ fault # <<"heads">>
    BY <1>3 DEF Moved
  <2>2. list = RevList(old, new) /\ news = {c \in list : Readable(c, fault)}
    BY <1>3 DEF News, List
  <2> HIDE DEF old, new
  <2>3. list = History(new) \ History(old) /\ list \in SUBSET Commits
    BY <1>1, <2>1, <2>2, ListFacts
  <2> HIDE DEF list
  <2>4. news \in SUBSET Commits /\ news \subseteq list
    BY <2>2, <2>3
  <2>5. CASE news = {}
    <3>1. tip = old
      BY <2>1, <2>5 DEF SeenTip, old
    <3> QED  BY <1>1, <2>4, <2>5, <3>1 DEF KeptAt, old
  <2>6. CASE news # {}
    <3>1. tip = LastOfList(o, news)
      BY <2>1, <2>6 DEF SeenTip, old
    <3>2. o \in Orders(list, new)
      BY DEF list, new
    <3>3. /\ \A c \in list : o[c] \in Nat
          /\ \A c \in list \ {new} : \E d \in list : o[c] < o[d]
      BY <2>3, <3>2, OrderFacts
    <3>4. tip \in news /\ \A d \in news : o[d] <= o[tip]
      <4>1. \A c \in news : o[c] \in Nat
        BY <2>4, <3>3
      <4> HIDE DEF news, tip
      <4> QED  BY <2>4, <2>6, <3>1, <4>1, LastFacts
    <3>5. ASSUME ~Unread(r, fault)
          PROVE  news = History(new) \ History(old) /\ tip = new
      <4>1. \A c \in History(new) \ History(old) : Readable(c, fault)
        BY <2>1, <3>5 DEF Unread, old, new
      <4>2. news = list
        BY <2>2, <2>3, <4>1
      <4> HIDE DEF tip, news
      <4>3. \A d \in list : ~(o[tip] < o[d])
        <5> TAKE d \in list
        <5>1. o[d] \in Nat /\ o[tip] \in Nat /\ o[d] <= o[tip]
          BY <3>3, <3>4, <4>2
        <5> QED  BY <5>1
      <4>4. tip = new
        BY <3>3, <3>4, <4>2, <4>3
      <4> QED  BY <2>3, <4>2, <4>4
    <3> HIDE DEF news, tip, old, new
    <3>6. MovedAt(b, r, fault, o)
      BY <2>1, <2>3, <2>4, <3>4, <3>5 DEF MovedAt, news, tip, old, new
    <3> QED  BY <2>4, <3>4, <3>6 DEF news, tip
  <2> QED  BY <2>5, <2>6
<1> QED  BY <1>2, <1>3

-----------------------------------------------------------------------------
(* What the steps do, in terms of the branches and tags.                   *)

TakenFact(r, bs, ts) ==
    /\ base' \in Sets
    /\ \A b \in Branches : base'[b] = base[b] \cup (IF b \in bs THEN History(r.heads[b]) ELSE {})
    /\ \A t \in Tags : base'[t] = base[t] \cup (IF t \in ts THEN {r.tags[t]} \ {None} ELSE {})

LEMMA TakenFacts ==
    ASSUME base \in Sets, NEW r \in Refs, NEW bs \in SUBSET Branches, NEW ts \in SUBSET Tags,
           Taken(r, bs, ts)
    PROVE  TakenFact(r, bs, ts)
<1> DEFINE More(k) == IF k \in bs THEN History(r.heads[k])
                      ELSE IF k \in ts THEN {r.tags[k]} \ {None} ELSE {}
<1>1. base' = [k \in Names |-> base[k] \cup More(k)]
  BY DEF Taken, Sets
<1>2. \A b \in Branches : b \notin ts /\ b \in Names /\ r.heads[b] \in Commits \cup {None}
  BY GitAssumption DEF Names, Refs
<1>3. \A t \in Tags : t \notin bs /\ t \in Names /\ r.tags[t] \in Objects \cup {None}
  BY GitAssumption DEF Names, Refs
<1>4. \A b \in Branches : More(b) = IF b \in bs THEN History(r.heads[b]) ELSE {}
  BY <1>2
<1>5. \A t \in Tags : More(t) = IF t \in ts THEN {r.tags[t]} \ {None} ELSE {}
  BY <1>3
<1>6. \A b \in Branches : More(b) \subseteq Objects
  BY <1>2, <1>4, HistoryFacts DEF Objects
<1>7. \A t \in Tags : More(t) \subseteq Objects
  BY <1>3, <1>5
<1>8. \A k \in Names : base[k] \cup More(k) \in SUBSET Objects
  BY <1>6, <1>7 DEF Sets, Names
<1> HIDE DEF More
<1> QED  BY <1>1, <1>2, <1>3, <1>4, <1>5, <1>8 DEF Sets, TakenFact

LEMMA BatchFacts ==
    ASSUME NEW cs, NEW o
    PROVE  /\ Batch(o, cs) \subseteq cs
           /\ (\A c \in cs : o[c] \in Nat) =>
                  \A c \in Batch(o, cs), d \in cs : Before(o, d, c) => d \in Batch(o, cs)
<1> SUFFICES ASSUME \A c \in cs : o[c] \in Nat,
                    NEW c \in Batch(o, cs), NEW d \in cs, Before(o, d, c)
             PROVE  d \in Batch(o, cs)
  BY DEF Batch
<1>1. c \in cs /\ \A e \in cs : Before(o, e, c) =>
                       e = FirstOfList(o, cs) \/ Fits({f \in cs : Before(o, f, e)})
  BY DEF Batch
<1>2. ASSUME NEW e \in cs, Before(o, e, d)
      PROVE  Before(o, e, c)
  <2>1. o[e] \in Nat /\ o[c] \in Nat /\ o[d] \in Nat
    BY <1>1
  <2> QED  BY <1>2, <2>1 DEF Before
<1> QED  BY <1>1, <1>2 DEF Batch

\* A message: of a tag, or with commits of a branch, in their order.
OfTag(k, what) ==
    /\ k \in Tags /\ k \in out.tags /\ what = {mirror.tags[k]}
    /\ out' = [out EXCEPT !.tags = @ \ {k}]

OfBranch(k, what) ==
    /\ k \in Branches /\ what \subseteq out.news[k]
    /\ (\A c \in out.news[k] : order[k][c] \in Nat) =>
           \A c \in what, d \in out.news[k] : Before(order[k], d, c) => d \in what
    /\ out'.news[k] = out.news[k] \ what
    /\ \A b \in Branches \ {k} : out'.news[b] = out.news[b]
    /\ out'.tags = out.tags

SendFact(k, what) ==
    /\ k \in Names /\ what \subseteq Objects /\ Post(k, what)
    /\ OfTag(k, what) \/ OfBranch(k, what)
    /\ out' \in Outs

LEMMA SendFacts ==
    ASSUME StateInv, Send
    PROVE  \E k, what : SendFact(k, what)
<1>0. /\ out \in Outs /\ phase = "send" /\ mirror \in Refs
      /\ \A t \in out.tags : t \in Tags /\ mirror.tags[t] \in Objects
  <2>1. out \in Outs /\ phase = "send" /\ mirror \in Refs /\ \A t \in out.tags : mirror.tags[t] # None
    BY DEF StateInv, Typed, Phases, Send
  <2> QED  BY <2>1 DEF Outs, Refs
<1>1. CASE SendTag
  <2> DEFINE t == ByName(out.tags)
  <2>1. t \in out.tags
    BY <1>1 DEF SendTag, ByName
  <2>2. Post(t, {mirror.tags[t]}) /\ out' = [out EXCEPT !.tags = @ \ {t}]
    BY <1>1 DEF SendTag
  <2> HIDE DEF t
  <2>3. out' \in Outs
    BY <1>0, <2>2 DEF Outs
  <2>4. OfTag(t, {mirror.tags[t]})
    BY <1>0, <2>1, <2>2 DEF OfTag
  <2>5. SendFact(t, {mirror.tags[t]})
    BY <1>0, <2>1, <2>2, <2>3, <2>4 DEF SendFact, Names
  <2> QED  BY <2>5
<1>2. CASE SendBranch
  <2> DEFINE b == ByName(Untold)
  <2>1. b \in Branches
    BY <1>2 DEF SendBranch, ByName, Untold
  <2>2. \/ Post(b, {}) /\ out' = [out EXCEPT !.blank = @ \ {b}]
        \/ /\ Post(b, Batch(order[b], out.news[b]))
           /\ out' = [out EXCEPT !.news[b] = @ \ Batch(order[b], @)]
    BY <1>2 DEF SendBranch
  <2> HIDE DEF b
  <2>3. out.news[b] \in SUBSET Commits
    BY <1>0, <2>1 DEF Outs
  <2>4. CASE Post(b, {}) /\ out' = [out EXCEPT !.blank = @ \ {b}]
    <3>1. out' \in Outs
      BY <1>0, <2>4 DEF Outs
    <3>2. out'.news = out.news /\ out'.tags = out.tags
      BY <1>0, <2>4 DEF Outs
    <3>3. OfBranch(b, {})
      BY <2>1, <3>2 DEF OfBranch
    <3>4. SendFact(b, {})
      BY <2>1, <2>4, <3>1, <3>3 DEF SendFact, Names
    <3> QED  BY <3>4
  <2>5. CASE /\ Post(b, Batch(order[b], out.news[b]))
             /\ out' = [out EXCEPT !.news[b] = @ \ Batch(order[b], @)]
    <3> DEFINE what == Batch(order[b], out.news[b])
    <3>1. /\ what \subseteq out.news[b]
          /\ (\A c \in out.news[b] : order[b][c] \in Nat) =>
                 \A c \in what, d \in out.news[b] : Before(order[b], d, c) => d \in what
      BY BatchFacts
    <3>2. Post(b, what) /\ out' = [out EXCEPT !.news[b] = out.news[b] \ what]
      BY <2>5
    <3> HIDE DEF what
    <3>3. /\ out'.news = [out.news EXCEPT ![b] = out.news[b] \ what]
          /\ out'.tags = out.tags /\ out'.blank = out.blank
          /\ out' = [tags |-> out.tags, news |-> out'.news, blank |-> out.blank]
      BY <1>0, <3>2 DEF Outs
    <3>4. out.news \in [Branches -> SUBSET Commits] /\ out.news[b] \ what \in SUBSET Commits
      BY <1>0, <2>3 DEF Outs
    <3>5. out'.news \in [Branches -> SUBSET Commits]
      BY <3>3, <3>4
    <3>6. out' \in Outs
      BY <1>0, <3>3, <3>5 DEF Outs
    <3>7. OfBranch(b, what)
      BY <2>1, <3>1, <3>3, <3>4 DEF OfBranch
    <3>8. SendFact(b, what)
      BY <2>1, <2>3, <3>1, <3>2, <3>6, <3>7 DEF SendFact, Names, Objects
    <3> QED  BY <3>8
  <2> QED  BY <2>2, <2>4, <2>5
<1> QED  BY <1>1, <1>2 DEF Send

PollFact(fault) ==
    /\ mirror' = remote /\ st' \in Refs /\ out' \in Outs
    /\ \A b \in Branches : /\ order'[b] \in Orders(List(b, remote, fault), remote.heads[b])
                           /\ out'.news[b] = News(b, remote, fault)
                           /\ st'.heads[b] = SeenTip(b, remote, fault, order'[b])
                           /\ base'[b] = base[b] \cup
                                (IF fault # <<"heads">> /\ st.heads[b] = None
                                 THEN History(remote.heads[b]) ELSE {})
    /\ \A t \in Tags : /\ st'.tags[t] = SeenTag(t, remote, fault)
                       /\ base'[t] = base[t]
    /\ out'.tags = ToldTags(remote, fault)
    /\ base' \in Sets
    /\ Unread(remote, fault) => "unread" \in mishaps'
    /\ \A b \in Branches : SkewedList(order'[b]) => "skewed" \in mishaps'

LEMMA PollFacts ==
    ASSUME StateInv, NEW fault, Collect(fault)
    PROVE  PollFact(fault)
<1>0. remote \in Refs /\ st \in Refs /\ base \in Sets
  BY DEF StateInv, Typed
<1>1. /\ mirror' = remote
      /\ st' = [heads |-> [b \in Branches |-> SeenTip(b, remote, fault, order'[b])],
                tags |-> [t \in Tags |-> SeenTag(t, remote, fault)]]
      /\ out' = Messages(remote, fault, order')
      /\ \A b \in Branches : order'[b] \in Orders(List(b, remote, fault), remote.heads[b])
  BY DEF Collect, ListOrders
<1>2. \A b \in Branches : /\ News(b, remote, fault) \in SUBSET Commits
                          /\ SeenTip(b, remote, fault, order'[b]) \in Commits \cup {None}
  BY <1>0, <1>1, PollOfBranch
<1>3. \A t \in Tags : SeenTag(t, remote, fault) \in Objects \cup {None}
  <2> TAKE t \in Tags
  <2>1. st.tags[t] \in Objects \cup {None} /\ remote.tags[t] \in Objects \cup {None}
    BY <1>0 DEF Refs
  <2>2. CASE t \in NewTags(remote, fault)
    <3>1. remote.tags[t] \in Objects
      BY <2>1, <2>2 DEF NewTags
    <3>2. CommitOf(remote.tags[t]) \in Commits
      BY <3>1, GitAssumption DEF CommitOf, Objects
    <3> QED  BY <2>2, <3>1, <3>2 DEF SeenTag, Objects
  <2>3. CASE t \notin NewTags(remote, fault)
    BY <2>1, <2>3 DEF SeenTag
  <2> QED  BY <2>2, <2>3
<1>4. st' \in Refs
  <2> DEFINE hs == [b \in Branches |-> SeenTip(b, remote, fault, order'[b])]
             ts == [t \in Tags |-> SeenTag(t, remote, fault)]
  <2>1. hs \in [Branches -> Commits \cup {None}] /\ ts \in [Tags -> Objects \cup {None}]
    BY <1>2, <1>3
  <2>2. st' = [heads |-> hs, tags |-> ts]
    BY <1>1
  <2> HIDE DEF hs, ts
  <2> QED  BY <2>1, <2>2 DEF Refs
<1>5. /\ out'.tags = ToldTags(remote, fault)
      /\ out'.news = [b \in Branches |-> News(b, remote, fault)]
      /\ out' \in Outs
  <2> DEFINE news == [b \in Branches |-> News(b, remote, fault)]
             blank == {b \in Branches : news[b] # {} /\ ~Fits({FirstOfList(order'[b], news[b])})}
  <2>1. out' = [tags |-> ToldTags(remote, fault), news |-> news, blank |-> blank]
    BY <1>1 DEF Messages
  <2>2. news \in [Branches -> SUBSET Commits] /\ blank \in SUBSET Branches
    BY <1>2
  <2>3. ToldTags(remote, fault) \in SUBSET Tags
    BY DEF ToldTags, NewTags
  <2> HIDE DEF blank
  <2>4. out'.news = news
    BY <2>1
  <2> HIDE DEF news
  <2>5. out' \in Outs /\ out'.tags = ToldTags(remote, fault)
    BY <2>1, <2>2, <2>3 DEF Outs
  <2> QED  BY <2>4, <2>5 DEF news
<1>6. /\ base' \in Sets
      /\ \A b \in Branches : base'[b] = base[b] \cup
                               (IF fault # <<"heads">> /\ st.heads[b] = None
                                THEN History(remote.heads[b]) ELSE {})
      /\ \A t \in Tags : base'[t] = base[t]
  <2> DEFINE bs == {b \in Branches : st.heads[b] = None}
  <2>1. CASE fault = <<"heads">>
    BY <1>0, <2>1 DEF Collect
  <2>2. CASE fault # <<"heads">>
    <3>1. Taken(remote, bs, {})
      BY <2>2 DEF Collect
    <3>2. bs \in SUBSET Branches /\ {} \in SUBSET Tags
      OBVIOUS
    <3>3. \A b \in Branches : b \in bs <=> st.heads[b] = None
      OBVIOUS
    <3> HIDE DEF bs
    <3>4. TakenFact(remote, bs, {})
      BY <1>0, <3>1, <3>2, TakenFacts
    <3> QED  BY <2>2, <3>3, <3>4 DEF TakenFact
  <2> QED  BY <2>1, <2>2
<1>7. /\ Unread(remote, fault) => "unread" \in mishaps'
      /\ \A b \in Branches : SkewedList(order'[b]) => "skewed" \in mishaps'
  BY DEF Collect, Troubles
<1> QED  BY <1>1, <1>4, <1>5, <1>6, <1>7 DEF PollFact

LEMMA EmptyFacts ==
    /\ EmptyState \in Refs /\ NoMessages \in Outs /\ Nowhere \in Sets
    /\ \A b \in Branches : EmptyState.heads[b] = None /\ NoMessages.news[b] = {} /\ Nowhere[b] = {}
    /\ \A t \in Tags : EmptyState.tags[t] = None /\ Nowhere[t] = {}
    /\ NoMessages.tags = {}
  BY DEF EmptyState, NoRefs, NoMessages, Nowhere, Refs, Outs, Sets, Names

\* What a post does to what is told of a name.
LEMMA PostFacts ==
    ASSUME NEW k \in Names, NEW what, what \subseteq Objects, Post(k, what),
           posted \in Sets, again \in Sets, lost \in Sets
    PROVE  /\ posted' \in Sets /\ again' \in Sets /\ lost' \in Sets
           /\ \A j \in Names \ {k} :
                posted'[j] = posted[j] /\ again'[j] = again[j] /\ lost'[j] = lost[j]
           /\ \/ /\ posted'[k] = posted[k] \cup what /\ lost' = lost
                 /\ again'[k] = again[k] \cup (what \cap (posted[k] \cup base[k]))
              \/ posted' = posted /\ again' = again /\ lost'[k] = lost[k] \cup what
           /\ mishaps \subseteq mishaps'
<1>1. posted[k] \subseteq Objects /\ again[k] \subseteq Objects /\ lost[k] \subseteq Objects
  BY DEF Sets
<1>2. CASE /\ posted' = [posted EXCEPT ![k] = @ \cup what]
           /\ again' = [again EXCEPT ![k] = @ \cup (what \cap (posted[k] \cup base[k]))]
           /\ UNCHANGED <<lost, mishaps>>
  <2> DEFINE more == what \cap (posted[k] \cup base[k])
  <2>1. posted' = [posted EXCEPT ![k] = posted[k] \cup what] /\ again' = [again EXCEPT ![k] = again[k] \cup more]
    BY <1>2
  <2>2. posted[k] \cup what \in SUBSET Objects /\ again[k] \cup more \in SUBSET Objects
    BY <1>1
  <2>3. more = what \cap (posted[k] \cup base[k])
    OBVIOUS
  <2> HIDE DEF more
  <2>4. posted' \in Sets /\ again' \in Sets
    BY <2>1, <2>2 DEF Sets
  <2>5. /\ posted'[k] = posted[k] \cup what /\ again'[k] = again[k] \cup more
        /\ \A j \in Names \ {k} : posted'[j] = posted[j] /\ again'[j] = again[j]
    BY <2>1 DEF Sets
  <2> QED  BY <1>2, <2>3, <2>4, <2>5
<1>3. CASE /\ lost' = [lost EXCEPT ![k] = @ \cup what]
           /\ UNCHANGED <<posted, again>>
           /\ mishaps \subseteq mishaps'
  <2>1. lost[k] \cup what \in SUBSET Objects
    BY <1>1
  <2>2. lost' \in Sets
    BY <1>3, <2>1 DEF Sets
  <2>3. lost'[k] = lost[k] \cup what /\ \A j \in Names \ {k} : lost'[j] = lost[j]
    BY <1>3 DEF Sets
  <2> QED  BY <1>3, <2>2, <2>3
<1>4. \/ /\ posted' = [posted EXCEPT ![k] = @ \cup what]
         /\ again' = [again EXCEPT ![k] = @ \cup (what \cap (posted[k] \cup base[k]))]
         /\ UNCHANGED <<lost, mishaps>>
      \/ /\ lost' = [lost EXCEPT ![k] = @ \cup what]
         /\ UNCHANGED <<posted, again>>
         /\ mishaps \subseteq mishaps'
  BY DEF Post, Mishap
<1> QED  BY <1>2, <1>3, <1>4

LEMMA SaveFacts ==
    ASSUME NEW s, SaveOf(s)
    PROVE  /\ disk' = s \/ (disk' = disk /\ "unsaved" \in mishaps')
           /\ mishaps \subseteq mishaps'
  BY DEF SaveOf, Mishap

SeedFact ==
    /\ mirror \in Refs /\ out = NoMessages /\ st' \in Refs
    /\ \/ Seeded /\ st' = st /\ base' = base
       \/ ~Seeded /\ st' = mirror /\ TakenFact(mirror, Branches, Tags)
    /\ base' \in Sets

LEMMA SeedFacts ==
    ASSUME StateInv, Seed
    PROVE  SeedFact
<1>1. mirror \in Refs /\ out = NoMessages /\ st \in Refs /\ base \in Sets
  BY DEF Seed, StateInv, Typed, Phases
<1>2. CASE Seeded
  <2>1. st' = st /\ base' = base
    BY <1>2 DEF Seed
  <2> QED  BY <1>1, <1>2, <2>1 DEF SeedFact
<1>3. CASE ~Seeded
  <2>1. st' = mirror /\ Taken(mirror, Branches, Tags)
    BY <1>3 DEF Seed
  <2>2. TakenFact(mirror, Branches, Tags)
    BY <1>1, <2>1, TakenFacts
  <2>3. base' \in Sets
    BY <2>2 DEF TakenFact
  <2> QED  BY <1>1, <1>3, <2>1, <2>2, <2>3 DEF SeedFact
<1> QED  BY <1>2, <1>3

SeedFailsFact ==
    /\ mirror \in Refs /\ out = NoMessages /\ st = EmptyState
    /\ disk' \in Refs /\ disk' # None /\ disk'.heads = mirror.heads
    /\ TakenFact(mirror, Branches, {})
    /\ "halfseed" \in mishaps' /\ mishaps \subseteq mishaps'

LEMMA SeedFailsFacts ==
    ASSUME StateInv, SeedFails
    PROVE  SeedFailsFact
<1>1. mirror \in Refs /\ out = NoMessages /\ st = EmptyState /\ base \in Sets
  BY DEF SeedFails, StateInv, Typed, Phases, Seeded
<1>2. disk' \in Refs /\ disk'.heads = mirror.heads
  BY <1>1, EmptyFacts DEF SeedFails, Refs
<1>3. disk' # None
  BY <1>2, GitAssumption
<1>4. TakenFact(mirror, Branches, {})
  <2>1. Taken(mirror, Branches, {}) /\ {} \in SUBSET Tags
    BY DEF SeedFails
  <2> QED  BY <1>1, <2>1, TakenFacts
<1>5. "halfseed" \in mishaps' /\ mishaps \subseteq mishaps'
  BY DEF SeedFails, Mishap
<1> QED  BY <1>1, <1>2, <1>3, <1>4, <1>5 DEF SeedFailsFact

\* What ends the process leaves the memory empty and nothing to post.
LEMMA EndedFacts ==
    ASSUME Ended
    PROVE  phase' = "off" /\ st' = EmptyState /\ out' = NoMessages
  BY DEF Ended

-----------------------------------------------------------------------------
(* Every step keeps the types, and what a phase has in hand.               *)

LEMMA BootKeeps == ASSUME StateInv, Boot PROVE StateInv'
<1>1. /\ st' = Loaded /\ mirror' = Cloned /\ phase' = "seed" /\ out = NoMessages
      /\ UNCHANGED <<remote, disk, out, posted, again, lost, base>>
  BY DEF Boot, histVars, StateInv, Phases
<1>2. st' \in Refs /\ mirror' \in Refs /\ mirror' # None
  BY <1>1, EmptyFacts, GitAssumption DEF StateInv, Typed, Loaded, Cloned
<1>3. Typed'
  BY <1>1, <1>2 DEF StateInv, Typed
<1>4. Phases'
  BY <1>1, <1>2, EmptyFacts DEF Phases
<1> QED  BY <1>3, <1>4 DEF StateInv

LEMMA BootFailsKeeps == ASSUME StateInv, BootFails PROVE StateInv'
<1>1. /\ disk' = Loaded \/ disk' = EmptyState
      /\ UNCHANGED <<remote, mirror, st, phase, out, posted, again, lost, base>>
  BY DEF BootFails
<1>2. disk' \in Refs
  BY <1>1, EmptyFacts DEF StateInv, Typed, Loaded
<1>3. Typed'
  BY <1>1, <1>2 DEF StateInv, Typed
<1>4. Phases'
  BY <1>1 DEF StateInv, Phases
<1> QED  BY <1>3, <1>4 DEF StateInv

LEMMA SeedKeeps == ASSUME StateInv, Seed PROVE StateInv'
<1>1. /\ SeedFact
      /\ disk' = st' \/ disk' = disk
      /\ phase' = "idle"
      /\ UNCHANGED <<remote, mirror, out, posted, again, lost>>
  BY SeedFacts DEF Seed, SaveOf
<1>2. Typed'
  BY <1>1 DEF StateInv, Typed, SeedFact
<1>3. mirror # None
  BY <1>1, GitAssumption DEF SeedFact
<1>4. Phases'
  BY <1>1, <1>3, EmptyFacts DEF SeedFact, Phases
<1> QED  BY <1>2, <1>4 DEF StateInv

LEMMA SeedFailsKeeps == ASSUME StateInv, SeedFails PROVE StateInv'
<1>1. /\ SeedFailsFact
      /\ phase' = "off" /\ st' = EmptyState /\ out' = NoMessages
      /\ UNCHANGED <<remote, mirror, posted, again, lost>>
  BY SeedFailsFacts DEF SeedFails, Ended
<1>2. base' \in Sets /\ disk' \in Refs
  BY <1>1 DEF SeedFailsFact, TakenFact
<1>3. Typed'
  BY <1>1, <1>2, EmptyFacts DEF StateInv, Typed
<1>4. Phases'
  BY <1>1, EmptyFacts DEF Phases
<1> QED  BY <1>3, <1>4 DEF StateInv

LEMMA CollectKeeps == ASSUME StateInv, NEW fault, Collect(fault) PROVE StateInv'
<1>1. /\ PollFact(fault)
      /\ phase' = IF out' = NoMessages THEN "idle" ELSE "send"
      /\ UNCHANGED <<remote, disk, posted, again, lost>>
  BY PollFacts DEF Collect
<1>2. Typed'
  BY <1>1 DEF StateInv, Typed, PollFact
<1>3. mirror' # None
  BY <1>1, GitAssumption DEF StateInv, Typed, PollFact
<1>4. \A t \in out'.tags : mirror'.tags[t] # None
  BY <1>1 DEF PollFact, ToldTags, NewTags
<1>5. Phases'
  BY <1>1, <1>3, <1>4 DEF Phases
<1> QED  BY <1>2, <1>5 DEF StateInv

LEMMA SendKeeps == ASSUME StateInv, Send PROVE StateInv'
<1>1. PICK k, what : SendFact(k, what)
  BY SendFacts
<1>2. posted' \in Sets /\ again' \in Sets /\ lost' \in Sets
  BY <1>1, PostFacts DEF SendFact, StateInv, Typed
<1>3. phase = "send" /\ UNCHANGED <<remote, mirror, st, disk, phase, base>>
  BY DEF Send
<1>4. out' \in Outs
  BY <1>1 DEF SendFact
<1>5. \A t \in out'.tags : t \in out.tags
  <2>1. CASE OfTag(k, what)
    <3>1. out'.tags = out.tags \ {k}
      BY <2>1 DEF OfTag, StateInv, Typed, Outs
    <3> QED  BY <3>1
  <2>2. CASE OfBranch(k, what)
    BY <2>2 DEF OfBranch
  <2> QED  BY <1>1, <2>1, <2>2 DEF SendFact
<1>6. Typed'
  BY <1>2, <1>3, <1>4 DEF StateInv, Typed
<1>7. Phases'
  BY <1>3, <1>5 DEF StateInv, Phases
<1> QED  BY <1>6, <1>7 DEF StateInv

LEMMA SentKeeps == ASSUME StateInv, Sent PROVE StateInv'
<1>1. /\ disk' = st \/ disk' = disk
      /\ phase = "send" /\ phase' = "idle" /\ out = NoMessages
      /\ UNCHANGED <<remote, mirror, st, out, posted, again, lost, base>>
  BY DEF Sent, SaveOf
<1>2. Typed'
  BY <1>1 DEF StateInv, Typed
<1>3. Phases'
  BY <1>1, EmptyFacts DEF StateInv, Phases
<1> QED  BY <1>2, <1>3 DEF StateInv

LEMMA CancelledKeeps == ASSUME StateInv, Cancelled PROVE StateInv'
<1>1. UNCHANGED <<remote, mirror, st, disk, phase, out, histVars>>
  BY DEF Cancelled
<1>2. Typed'
  BY <1>1 DEF StateInv, Typed, histVars
<1>3. Phases'
  BY <1>1 DEF StateInv, Phases
<1> QED  BY <1>2, <1>3 DEF StateInv

LEMMA ExitKeeps == ASSUME StateInv, Exit PROVE StateInv'
<1>1. /\ disk' = st \/ disk' = disk
      /\ phase' = "off" /\ st' = EmptyState /\ out' = NoMessages
      /\ UNCHANGED <<remote, mirror, posted, again, lost, base>>
  BY DEF Exit, Ended, SaveOf
<1>2. Typed'
  BY <1>1, EmptyFacts DEF StateInv, Typed
<1>3. Phases'
  BY <1>1, EmptyFacts DEF Phases
<1> QED  BY <1>2, <1>3 DEF StateInv

LEMMA CrashKeeps == ASSUME StateInv, Crash PROVE StateInv'
<1>1. /\ phase' = "off" /\ st' = EmptyState /\ out' = NoMessages
      /\ UNCHANGED <<remote, mirror, disk, posted, again, lost, base>>
  BY DEF Crash, Ended
<1>2. Typed'
  BY <1>1, EmptyFacts DEF StateInv, Typed
<1>3. Phases'
  BY <1>1, EmptyFacts DEF Phases
<1> QED  BY <1>2, <1>3 DEF StateInv

LEMMA OthersKeep == ASSUME StateInv, ScenarioInv, Others PROVE StateInv'
<1>1. UNCHANGED <<mirror, st, disk, phase, out, posted, again, lost, base>>
  BY DEF Others, Push, ForcePush, Tag, MoveTag, histVars
<1>2. remote' \in Refs
  <2>1. remote \in Refs
    BY DEF StateInv, Typed
  <2>2. ASSUME NEW b \in Branches, NEW c \in Commits \cup {None},
               remote' = [remote EXCEPT !.heads[b] = c]
        PROVE  remote' \in Refs
    BY <2>1, <2>2 DEF Refs
  <2>3. ASSUME NEW t \in Tags, NEW o \in Objects, remote' = [remote EXCEPT !.tags[t] = o]
        PROVE  remote' \in Refs
    BY <2>1, <2>3 DEF Refs
  <2>4. ASSUME NEW b \in Branches, Push(b) PROVE remote' \in Refs
    BY <2>2, <2>4 DEF Push, ScenarioInv
  <2>5. ASSUME NEW b \in Branches, ForcePush(b) PROVE remote' \in Refs
    BY <2>2, <2>5 DEF ForcePush, ScenarioInv
  <2>6. ASSUME NEW t \in Tags, Tag(t) PROVE remote' \in Refs
    BY <2>3, <2>6 DEF Tag, ScenarioInv
  <2>7. ASSUME NEW t \in Tags, MoveTag(t) PROVE remote' \in Refs
    BY <2>3, <2>7 DEF MoveTag, ScenarioInv
  <2> QED  BY <2>4, <2>5, <2>6, <2>7 DEF Others
<1>3. Typed'
  BY <1>1, <1>2 DEF StateInv, Typed
<1>4. Phases'
  BY <1>1 DEF StateInv, Phases
<1> QED  BY <1>3, <1>4 DEF StateInv

LEMMA StateKept ==
    ASSUME StateInv, ScenarioInv, [Next]_vars
    PROVE  StateInv' /\ ScenarioInv'
<1>1. CASE UNCHANGED vars
  <2>1. UNCHANGED <<remote, mirror, st, disk, phase, out, posted, again, lost, base, scenario>>
    BY <1>1 DEF vars, progVars, histVars
  <2>2. Typed' /\ Phases'
    BY <2>1 DEF StateInv, Typed, Phases
  <2> QED  BY <2>1, <2>2 DEF StateInv, ScenarioInv
<1>2. CASE Next
  <2>1. scenario' = scenario /\ Step
    BY <1>2 DEF Next
  <2>2. StateInv'
    BY <2>1, BootKeeps, BootFailsKeeps, SeedKeeps, SeedFailsKeeps, CollectKeeps, SendKeeps,
       SentKeeps, CancelledKeeps, ExitKeeps, CrashKeeps, OthersKeep DEF Step, Poll
  <2> QED  BY <2>1, <2>2 DEF ScenarioInv
<1> QED  BY <1>1, <1>2

LEMMA StateInit == ASSUME Init PROVE StateInv /\ ScenarioInv
<1>1. scenario.heads \subseteq Commits /\ scenario.objects \subseteq Objects
  BY GitAssumption DEF Init
<1>2. remote \in Refs
  BY <1>1 DEF Init, NoRefs, Refs
<1>3. Typed
  BY <1>2, EmptyFacts DEF Init, Typed
<1>4. Phases
  BY EmptyFacts DEF Init, Phases
<1> QED  BY <1>1, <1>3, <1>4 DEF StateInv, ScenarioInv

\* What went wrong is not forgotten.
LEMMA MishapsGrow == ASSUME [Next]_vars PROVE mishaps \subseteq mishaps'
<1>1. CASE UNCHANGED vars
  BY <1>1 DEF vars, progVars, histVars
<1>2. CASE Next
  <2>2. ASSUME NEW k, NEW what, Post(k, what)
        PROVE  mishaps \subseteq mishaps'
    BY <2>2 DEF Post, Mishap
  <2>3. Send => mishaps \subseteq mishaps'
    BY <2>2 DEF Send, SendTag, SendBranch
  <2>4. Boot \/ Cancelled \/ Others => mishaps \subseteq mishaps'
    BY DEF Boot, Cancelled, Others, Push, ForcePush, Tag, MoveTag, histVars, Mishap
  <2>5. BootFails \/ SeedFails \/ Crash => mishaps \subseteq mishaps'
    BY DEF BootFails, SeedFails, Crash, Mishap
  <2>6. Seed \/ Sent \/ Exit => mishaps \subseteq mishaps'
    BY DEF Seed, Sent, Exit, SaveOf, Mishap
  <2>7. Poll => mishaps \subseteq mishaps'
    BY DEF Poll, Collect
  <2> QED  BY <1>2, <2>3, <2>4, <2>5, <2>6, <2>7 DEF Next, Step
<1> QED  BY <1>1, <1>2

\* git-monitor keeps its types, and what a phase has in hand.
THEOREM StateHolds == Spec => [](StateInv /\ ScenarioInv)
<1>1. Init => StateInv /\ ScenarioInv
  BY StateInit
<1>2. StateInv /\ ScenarioInv /\ [Next]_vars => (StateInv /\ ScenarioInv)'
  BY StateKept
<1> QED  BY <1>1, <1>2, PTL DEF Spec

-----------------------------------------------------------------------------
(* What is remembered was announced.                                       *)

\* What is done with, of a branch.
Settled(b) == base[b] \cup posted[b] \cup lost[b]

\* All that was read of a branch: what is in memory is settled or about to be
\* posted, what is in the file is settled, and what is to be posted is seen.
Announced(b) ==
    /\ History(st.heads[b]) \subseteq Settled(b) \cup out.news[b]
    /\ disk # None => History(disk.heads[b]) \subseteq Settled(b)
    /\ out.news[b] \subseteq History(st.heads[b])

AnnouncedInv == Had({"unread"}) \/ \A b \in Branches : Announced(b)

LEMMA AnnouncedStep ==
    ASSUME StateInv, [Next]_vars, NEW b \in Branches, Announced(b), "unread" \notin mishaps'
    PROVE  Announced(b)'
<1>0. /\ st \in Refs /\ remote \in Refs /\ b \in Names
      /\ History(None) = {} /\ History(EmptyState.heads[b]) = {} /\ NoMessages.news[b] = {}
      /\ out = NoMessages => out.news[b] = {}
      /\ phase # "send" => out.news[b] = {}
  BY EmptyFacts, HistoryFacts DEF StateInv, Typed, Phases, Names
<1>1. CASE UNCHANGED vars
  BY <1>1 DEF vars, progVars, histVars, Announced, Settled
<1>2. CASE Boot
  <2>1. /\ st' = Loaded /\ out.news[b] = {}
        /\ UNCHANGED <<disk, out, posted, lost, base>>
    BY <1>0, <1>2 DEF Boot, histVars
  <2> QED  BY <1>0, <2>1 DEF Announced, Settled, Loaded
<1>3. CASE BootFails
  <2>1. /\ disk' = Loaded \/ disk' = EmptyState
        /\ UNCHANGED <<st, out, posted, lost, base>>
    BY <1>3 DEF BootFails
  <2> QED  BY <1>0, <2>1 DEF Announced, Settled, Loaded
<1>4. CASE Seed
  <2>1. /\ SeedFact /\ (disk' = st' \/ disk' = disk)
        /\ UNCHANGED <<out, posted, lost>>
    BY <1>4, SeedFacts DEF Seed, SaveOf
  <2>2. CASE Seeded /\ st' = st /\ base' = base
    BY <1>0, <2>1, <2>2 DEF Announced, Settled, SeedFact
  <2>3. CASE st' = mirror /\ TakenFact(mirror, Branches, Tags)
    <3>1. base'[b] = base[b] \cup History(mirror.heads[b])
      BY <2>3 DEF TakenFact
    <3> QED  BY <1>0, <2>1, <2>3, <3>1 DEF Announced, Settled, SeedFact
  <2> QED  BY <2>1, <2>2, <2>3 DEF SeedFact
<1>5. CASE SeedFails
  <2>1. /\ SeedFailsFact /\ st' = EmptyState /\ out' = NoMessages
        /\ UNCHANGED <<posted, lost>>
    BY <1>5, SeedFailsFacts DEF SeedFails, Ended
  <2>2. base'[b] = base[b] \cup History(mirror.heads[b]) /\ disk'.heads = mirror.heads
    BY <2>1 DEF SeedFailsFact, TakenFact
  <2> QED  BY <1>0, <2>1, <2>2 DEF Announced, Settled
<1>6. CASE Poll
  <2>1. PICK fault : Collect(fault)
    BY <1>6 DEF Poll
  <2>2. /\ PollFact(fault) /\ ~Unread(remote, fault) /\ out.news[b] = {}
        /\ UNCHANGED <<disk, posted, lost>>
    BY <1>0, <2>1, PollFacts DEF Collect, PollFact
  <2>3. /\ out'.news[b] = News(b, remote, fault) /\ st'.heads[b] = SeenTip(b, remote, fault, order'[b])
        /\ base'[b] = base[b] \cup (IF fault # <<"heads">> /\ st.heads[b] = None
                                    THEN History(remote.heads[b]) ELSE {})
    BY <2>2 DEF PollFact
  <2>4. CASE KeptAt(b, remote, fault, order'[b])
    BY <2>2, <2>3, <2>4 DEF KeptAt, Announced, Settled
  <2>5. CASE SeededAt(b, remote, fault, order'[b])
    BY <2>2, <2>3, <2>5 DEF SeededAt, Announced, Settled
  <2>6. CASE MovedAt(b, remote, fault, order'[b])
    BY <2>2, <2>3, <2>6 DEF MovedAt, Announced, Settled
  <2>7. order'[b] \in Orders(List(b, remote, fault), remote.heads[b])
    BY <2>2 DEF PollFact
  <2> QED  BY <1>0, <2>4, <2>5, <2>6, <2>7, PollOfBranch
<1>7. CASE Send
  <2>1. PICK k, what : SendFact(k, what)
    BY <1>7, SendFacts
  <2>2. UNCHANGED <<st, disk, base>>
    BY <1>7 DEF Send
  <2>3. /\ k # b => posted'[b] = posted[b] /\ lost'[b] = lost[b]
        /\ k = b => posted[b] \cup lost[b] \cup what = posted'[b] \cup lost'[b]
    BY <1>0, <2>1, PostFacts DEF SendFact, StateInv, Typed
  <2>4. CASE OfTag(k, what)
    <3>1. k # b
      BY <2>4, GitAssumption DEF OfTag
    <3>2. out'.news = out.news
      BY <2>4 DEF OfTag, StateInv, Typed, Outs
    <3> QED  BY <2>2, <2>3, <3>1, <3>2 DEF Announced, Settled
  <2>5. CASE OfBranch(k, what)
    <3>1. CASE k = b
      <4>1. out'.news[b] = out.news[b] \ what
        BY <2>5, <3>1 DEF OfBranch
      <4>2. what \subseteq out.news[b]
        BY <2>5, <3>1 DEF OfBranch
      <4> QED  BY <2>2, <2>3, <3>1, <4>1, <4>2 DEF Announced, Settled
    <3>2. CASE k # b
      <4>1. out'.news[b] = out.news[b]
        BY <2>5, <3>2 DEF OfBranch
      <4> QED  BY <2>2, <2>3, <3>2, <4>1 DEF Announced, Settled
    <3> QED  BY <3>1, <3>2
  <2> QED  BY <2>1, <2>4, <2>5 DEF SendFact
<1>8. CASE Sent
  <2>1. /\ disk' = st \/ disk' = disk
        /\ out = NoMessages
        /\ UNCHANGED <<st, out, posted, lost, base>>
    BY <1>8 DEF Sent, SaveOf
  <2> QED  BY <1>0, <2>1 DEF Announced, Settled
<1>9. CASE Cancelled \/ Others
  <2>1. UNCHANGED <<st, disk, out, posted, lost, base>>
    BY <1>9 DEF Cancelled, Others, Push, ForcePush, Tag, MoveTag, histVars
  <2> QED  BY <2>1 DEF Announced, Settled
<1>10. CASE Exit
  <2>1. /\ disk' = st \/ disk' = disk
        /\ out.news[b] = {} /\ st' = EmptyState /\ out' = NoMessages
        /\ UNCHANGED <<posted, lost, base>>
    BY <1>0, <1>10 DEF Exit, Ended, SaveOf
  <2> QED  BY <1>0, <2>1 DEF Announced, Settled
<1>11. CASE Crash
  <2>1. /\ st' = EmptyState /\ out' = NoMessages
        /\ UNCHANGED <<disk, posted, lost, base>>
    BY <1>11 DEF Crash, Ended
  <2> QED  BY <1>0, <2>1 DEF Announced, Settled
<1> QED  BY <1>1, <1>2, <1>3, <1>4, <1>5, <1>6, <1>7, <1>8, <1>9, <1>10, <1>11 DEF Next, Step

LEMMA AnnouncedKept ==
    ASSUME StateInv, AnnouncedInv, [Next]_vars
    PROVE  AnnouncedInv'
<1>1. mishaps \subseteq mishaps'
  BY MishapsGrow
<1>2. CASE "unread" \in mishaps'
  BY <1>2 DEF AnnouncedInv, Had
<1>3. CASE "unread" \notin mishaps'
  <2>1. \A b \in Branches : Announced(b)
    BY <1>1, <1>3 DEF AnnouncedInv, Had
  <2>2. \A b \in Branches : Announced(b)'
    BY <1>3, <2>1, AnnouncedStep
  <2> QED  BY <2>2 DEF AnnouncedInv
<1> QED  BY <1>2, <1>3

LEMMA AnnouncedInit == ASSUME Init PROVE AnnouncedInv
<1> SUFFICES ASSUME NEW b \in Branches PROVE Announced(b)
  BY DEF AnnouncedInv
<1>1. History(st.heads[b]) = {} /\ out.news[b] = {} /\ disk = None
  BY EmptyFacts, HistoryFacts DEF Init
<1> QED  BY <1>1 DEF Announced

\* Nothing is skipped: what the monitor remembers as seen was announced, is
\* about to be, was given up by Post or was there when the branch was first
\* seen, and what the file remembers needs no announcement any more, so that a
\* crash at any step loses none (Start saves after sendAnnouncements).
THEOREM RememberedIsAnnounced == Spec => []SeenIsAnnounced
<1>1. Init => StateInv /\ ScenarioInv /\ AnnouncedInv
  BY StateInit, AnnouncedInit
<1>2. StateInv /\ ScenarioInv /\ AnnouncedInv /\ [Next]_vars
          => (StateInv /\ ScenarioInv /\ AnnouncedInv)'
  BY StateKept, AnnouncedKept
<1>3. AnnouncedInv => SeenIsAnnounced
  BY DEF AnnouncedInv, Announced, Settled, SeenIsAnnounced
<1> QED  BY <1>1, <1>2, <1>3, PTL DEF Spec

-----------------------------------------------------------------------------
(* What is announced comes after its ancestors.                            *)

\* What is to be posted has places in its list, ancestors first.
Placed(b) == \A c \in out.news[b] : order[b][c] \in Nat

InOrder(b) == \A c, a \in out.news[b] : a \in Ancestors[c] => Before(order[b], a, c)

OrderInv == \A b \in Branches : Placed(b) /\ (Had({"skewed"}) \/ InOrder(b))

LEMMA OrderPoll ==
    ASSUME StateInv, NEW fault, Collect(fault)
    PROVE  OrderInv'
<1> SUFFICES ASSUME NEW b \in Branches
             PROVE  Placed(b)' /\ ("skewed" \in mishaps' \/ InOrder(b)')
  BY DEF OrderInv, Had
<1> DEFINE list == List(b, remote, fault)
<1>1. /\ out'.news[b] = News(b, remote, fault) /\ order'[b] \in Orders(list, remote.heads[b])
      /\ SkewedList(order'[b]) => "skewed" \in mishaps'
  BY PollFacts DEF PollFact
<1>2. list \in SUBSET Commits
  <2>1. CASE Moved(b, remote, fault)
    <3>1. /\ st.heads[b] \in Commits \cup {None} /\ remote.heads[b] \in Commits \cup {None}
          /\ st.heads[b] # None /\ remote.heads[b] # None
      BY <2>1 DEF StateInv, Typed, Refs, Moved
    <3> QED  BY <2>1, <3>1, ListFacts DEF List
  <2> QED  BY <2>1 DEF List
<1>3. out'.news[b] \subseteq list
  BY <1>1 DEF News
<1> HIDE DEF list
<1>4. DOMAIN order'[b] = list /\ \A c \in list : order'[b][c] \in Nat
  BY <1>1, <1>2, OrderFacts
<1>5. ASSUME ~SkewedList(order'[b]), NEW c \in list, NEW a \in list, a \in Ancestors[c]
      PROVE  order'[b][a] <= order'[b][c]
  <2>1. ~(order'[b][c] < order'[b][a])
    BY <1>4, <1>5 DEF SkewedList
  <2> QED  BY <1>4, <2>1
<1> QED  BY <1>1, <1>3, <1>4, <1>5 DEF Placed, InOrder, Before

LEMMA OrderKept ==
    ASSUME StateInv, OrderInv, [Next]_vars
    PROVE  OrderInv'
<1>1. mishaps \subseteq mishaps'
  BY MishapsGrow
<1>2. ASSUME order' = order, \A b \in Branches : out'.news[b] \subseteq out.news[b]
      PROVE  OrderInv'
  BY <1>1, <1>2 DEF OrderInv, Placed, InOrder, Had
<1>3. ASSUME out' = NoMessages
      PROVE  OrderInv'
  BY <1>3, EmptyFacts DEF OrderInv, Placed, InOrder
<1>4. CASE Poll
  BY <1>4, OrderPoll DEF Poll
<1>5. CASE Send
  <2>1. PICK k, what : SendFact(k, what)
    BY <1>5, SendFacts
  <2>2. order' = order
    BY <1>5 DEF Send
  <2>3. ASSUME OfTag(k, what) PROVE out'.news = out.news
    BY <2>3 DEF OfTag, StateInv, Typed, Outs
  <2>4. ASSUME OfBranch(k, what), NEW b \in Branches PROVE out'.news[b] \subseteq out.news[b]
    BY <2>4 DEF OfBranch
  <2> QED  BY <1>2, <2>1, <2>2, <2>3, <2>4 DEF SendFact
<1>6. CASE UNCHANGED vars \/ Boot \/ BootFails \/ Seed \/ Cancelled \/ Others
  <2>1. UNCHANGED <<out, order>>
    BY <1>6 DEF vars, progVars, Boot, BootFails, Seed, Cancelled, Others, Push, ForcePush, Tag, MoveTag
  <2> QED  BY <1>2, <2>1
<1>7. CASE SeedFails \/ Sent \/ Exit \/ Crash
  <2>1. out' = NoMessages
    BY <1>7 DEF SeedFails, Sent, Exit, Crash, Ended
  <2> QED  BY <1>3, <2>1
<1> QED  BY <1>4, <1>5, <1>6, <1>7 DEF Next, Step

LEMMA OrderInit == ASSUME Init PROVE OrderInv
  BY EmptyFacts DEF Init, OrderInv, Placed, InOrder

\* What of a branch needs no announcement any more after the step.
Done(b) == base[b] \cup lost[b] \cup posted'[b]

LEMMA PostedAfter ==
    ASSUME StateInv, AnnouncedInv, OrderInv, [Next]_vars, ~Had({"unread"}),
           NEW b \in Branches, NEW c \in posted'[b] \ posted[b]
    PROVE  /\ Ancestors[c] \subseteq Done(b) \cup out'.news[b]
           /\ Had({"skewed"}) \/ Ancestors[c] \subseteq Done(b)
<1>1. Send
  <2>1. ~Send => posted' = posted
    BY DEF Next, Step, vars, progVars, histVars, Boot, BootFails, Seed, SeedFails,
       Poll, Collect, Sent, Cancelled, Exit, Crash, Others, Push, ForcePush, Tag, MoveTag
  <2> QED  BY <2>1
<1>2. PICK k, what : SendFact(k, what)
  BY <1>1, SendFacts
<1>3. b \in Names /\ posted \in Sets /\ again \in Sets /\ lost \in Sets
  BY DEF Names, StateInv, Typed
<1>4. k = b
  BY <1>2, <1>3, PostFacts DEF SendFact
<1>5. OfBranch(b, what)
  <2>1. ~OfTag(b, what)
    BY GitAssumption DEF OfTag
  <2> QED  BY <1>2, <1>4, <2>1 DEF SendFact
<1>6. posted'[b] = posted[b] \cup what /\ c \in what
  <2>1. posted'[b] = posted[b] \cup what \/ posted'[b] = posted[b]
    BY <1>2, <1>3, <1>4, PostFacts DEF SendFact
  <2> QED  BY <2>1
<1>7. Announced(b) /\ Placed(b) /\ (Had({"skewed"}) \/ InOrder(b))
  BY DEF AnnouncedInv, OrderInv
<1>8. /\ what \subseteq out.news[b] /\ out'.news[b] = out.news[b] \ what
      /\ \A e \in what, d \in out.news[b] : Before(order[b], d, e) => d \in what
  BY <1>5, <1>7 DEF OfBranch, Placed
<1>9. Ancestors[c] \subseteq base[b] \cup posted[b] \cup lost[b] \cup out.news[b]
  <2>1. c \in History(st.heads[b])
    BY <1>6, <1>7, <1>8 DEF Announced
  <2>2. st.heads[b] \in Commits \cup {None}
    BY DEF StateInv, Typed, Refs
  <2>3. History(c) \subseteq History(st.heads[b]) /\ c \in Commits
    BY <2>1, <2>2, HistoryFacts
  <2>4. History(c) = Ancestors[c]
    BY <2>3, GitAssumption DEF History, Objects
  <2> QED  BY <1>7, <2>3, <2>4 DEF Announced, Settled
<1>10. Ancestors[c] \subseteq Done(b) \cup out'.news[b]
  BY <1>6, <1>8, <1>9 DEF Done
<1>11. ASSUME InOrder(b), NEW a \in Ancestors[c], a \in out.news[b]
       PROVE  a \in what
  BY <1>6, <1>8, <1>11 DEF InOrder
<1>12. InOrder(b) => Ancestors[c] \subseteq Done(b)
  BY <1>6, <1>9, <1>11 DEF Done
<1> QED  BY <1>7, <1>10, <1>12

\* Over all messages of a branch no commit is announced before its ancestors,
\* but for those of the same poll when the dates in its list are wrong: git
\* lists the oldest first, the batches keep the order of the list, and what
\* came before was announced by an earlier poll.
THEOREM ParentsFirst == Spec => AncestorsFirst
<1> DEFINE First(b) ==
             \A c \in posted'[b] \ posted[b] :
                /\ Ancestors[c] \subseteq (posted'[b] \cup base[b] \cup lost[b]) \cup out'.news[b]
                   \/ Had({"unread"})
                /\ Ancestors[c] \subseteq posted'[b] \cup base[b] \cup lost[b]
                   \/ Had({"unread", "skewed"})
<1>1. ASSUME StateInv, AnnouncedInv, OrderInv, [Next]_vars, NEW b \in Branches
      PROVE  First(b)
  <2> SUFFICES ASSUME NEW c \in posted'[b] \ posted[b], ~Had({"unread"})
               PROVE  /\ Ancestors[c] \subseteq Done(b) \cup out'.news[b]
                      /\ Had({"skewed"}) \/ Ancestors[c] \subseteq Done(b)
    BY DEF Done, Had
  <2> QED  BY <1>1, PostedAfter
<1>2. StateInv /\ AnnouncedInv /\ OrderInv /\ [Next]_vars => [\A b \in Branches : First(b)]_vars
  BY <1>1
<1>3. Init => StateInv /\ ScenarioInv /\ AnnouncedInv /\ OrderInv
  BY StateInit, AnnouncedInit, OrderInit
<1>4. StateInv /\ ScenarioInv /\ AnnouncedInv /\ OrderInv /\ [Next]_vars
          => (StateInv /\ ScenarioInv /\ AnnouncedInv /\ OrderInv)'
  BY StateKept, AnnouncedKept, OrderKept
<1> QED  BY <1>2, <1>3, <1>4, PTL DEF Spec, AncestorsFirst

-----------------------------------------------------------------------------
(* The memory across a stop and a start.                                   *)

LEMMA CurrentType ==
    ASSUME StateInv
    PROVE  Current \in Refs /\ Loaded \in Refs /\ Current # None
  BY EmptyFacts, GitAssumption DEF StateInv, Typed, Current, Loaded

\* Unless it was lost, it is what a poll or the seeding made of it.
LEMMA CurrentStep ==
    ASSUME StateInv, [Next]_vars, "crash" \notin mishaps', "unsaved" \notin mishaps'
    PROVE  \/ Current' = Current
           \/ BootFails /\ Current' = EmptyState /\ "badstate" \in mishaps'
           \/ (Poll \/ Seed) /\ Current = st /\ Current' = st'
           \/ SeedFails /\ Current = st /\ Current' = disk'
<1>0. st \in Refs /\ st # None /\ Loaded \in Refs /\ Loaded # None
  BY CurrentType, GitAssumption DEF StateInv, Typed
<1>1. CASE UNCHANGED vars
  BY <1>1 DEF vars, progVars, Current, Loaded
<1>2. CASE Boot
  BY <1>2 DEF Boot, Current
<1>3. CASE BootFails
  <2>1. phase = "off" /\ phase' = "off"
    BY <1>3 DEF BootFails
  <2>2. \/ disk' = Loaded
        \/ disk' = EmptyState /\ "badstate" \in mishaps'
    BY <1>3 DEF BootFails, Mishap
  <2> QED  BY <1>0, <1>3, <2>1, <2>2 DEF Current, Loaded
<1>4. CASE Seed \/ Poll
  <2>1. phase # "off" /\ phase' # "off"
    BY <1>4 DEF Seed, Poll, Collect
  <2> QED  BY <1>4, <2>1 DEF Current
<1>5. CASE SeedFails
  <2>1. phase # "off" /\ phase' = "off" /\ disk' # None
    BY <1>5, SeedFailsFacts DEF SeedFails, Ended, SeedFailsFact
  <2> QED  BY <1>5, <2>1 DEF Current, Loaded
<1>6. CASE Send \/ Sent \/ Cancelled
  <2>1. phase # "off" /\ phase' # "off" /\ st' = st
    BY <1>6 DEF Send, Sent, Cancelled
  <2> QED  BY <2>1 DEF Current
<1>7. CASE Exit
  <2>1. phase # "off" /\ phase' = "off" /\ disk' = st
    BY <1>7, SaveFacts DEF Exit, Ended
  <2> QED  BY <1>0, <2>1 DEF Current, Loaded
<1>8. CASE Crash
  BY <1>8 DEF Crash, Mishap
<1>9. CASE Others
  <2>1. UNCHANGED <<st, disk, phase>>
    BY <1>9 DEF Others, Push, ForcePush, Tag, MoveTag
  <2> QED  BY <2>1 DEF Current, Loaded
<1> QED  BY <1>1, <1>2, <1>3, <1>4, <1>5, <1>6, <1>7, <1>8, <1>9 DEF Next, Step

\* What is taken as seen grows only when there is nothing in memory.
LEMMA BaseStep ==
    ASSUME StateInv, [Next]_vars
    PROVE  base' = base \/ Seed \/ SeedFails \/ Poll
  BY DEF Next, Step, vars, progVars, histVars, Boot, BootFails, Send, Sent, Cancelled, Exit,
     Crash, Others, Push, ForcePush, Tag, MoveTag

-----------------------------------------------------------------------------
(* A branch is seeded once.                                                *)

HasTip(b) == base[b] # {} => Current.heads[b] # None

TipInv == Had({"crash", "unsaved", "badstate"}) \/ \A b \in Branches : HasTip(b)

\* What a step takes as seen is of a branch of which nothing was.
LEMMA TipNew ==
    ASSUME StateInv, [Next]_vars, NEW b \in Branches, HasTip(b)
    PROVE  base'[b] # base[b] => base[b] = {}
<1>0. EmptyState.heads[b] = None
  BY EmptyFacts
<1>1. CASE Seed
  <2>1. SeedFact /\ Current = st
    BY <1>1, SeedFacts DEF Seed, Current
  <2>2. base' # base => st = EmptyState
    BY <2>1 DEF SeedFact, Seeded
  <2> QED  BY <1>0, <2>1, <2>2 DEF HasTip
<1>2. CASE SeedFails
  <2>1. st = EmptyState /\ Current = st
    BY <1>2 DEF SeedFails, Seeded, Current
  <2> QED  BY <1>0, <2>1 DEF HasTip
<1>3. CASE Poll
  <2>1. PICK fault : Collect(fault)
    BY <1>3 DEF Poll
  <2>2. PollFact(fault) /\ Current = st
    BY <2>1, PollFacts DEF Collect, Current
  <2>3. base'[b] # base[b] => st.heads[b] = None
    BY <2>2 DEF PollFact
  <2> QED  BY <2>2, <2>3 DEF HasTip
<1>4. CASE base' = base
  BY <1>4
<1> QED  BY <1>1, <1>2, <1>3, <1>4, BaseStep

LEMMA TipStep ==
    ASSUME StateInv, [Next]_vars, NEW b \in Branches, HasTip(b),
           "crash" \notin mishaps', "unsaved" \notin mishaps', "badstate" \notin mishaps'
    PROVE  HasTip(b)'
<1>0. History(None) = {} /\ EmptyState.heads[b] = None
  BY HistoryFacts, EmptyFacts
<1>1. CASE Seed
  <2>1. SeedFact /\ Current' = st'
    BY <1>1, SeedFacts DEF Seed, Current
  <2>2. Current = st
    BY <1>1 DEF Seed, Current
  <2>3. CASE st' = st /\ base' = base
    BY <2>1, <2>2, <2>3 DEF HasTip
  <2>4. CASE ~Seeded /\ st' = mirror /\ TakenFact(mirror, Branches, Tags)
    <3>1. st = EmptyState /\ base'[b] = base[b] \cup History(mirror.heads[b])
      BY <2>4 DEF Seeded, TakenFact
    <3>2. base[b] = {}
      BY <1>0, <2>2, <3>1 DEF HasTip
    <3>3. base'[b] # {} => Current'.heads[b] # None
      BY <1>0, <2>1, <2>4, <3>1, <3>2
    <3> QED  BY <3>2, <3>3 DEF HasTip
  <2> QED  BY <2>1, <2>3, <2>4 DEF SeedFact
<1>2. CASE SeedFails
  <2>1. SeedFailsFact /\ Current = st /\ phase' = "off"
    BY <1>2, SeedFailsFacts DEF SeedFails, Current, Ended
  <2>2. /\ base'[b] = base[b] \cup History(mirror.heads[b])
        /\ Current'.heads[b] = mirror.heads[b] /\ st = EmptyState
    BY <2>1 DEF SeedFailsFact, TakenFact, Current, Loaded
  <2>3. base[b] = {}
    BY <1>0, <2>1, <2>2 DEF HasTip
  <2> QED  BY <1>0, <2>2, <2>3 DEF HasTip
<1>3. CASE Poll
  <2>1. PICK fault : Collect(fault)
    BY <1>3 DEF Poll
  <2>2. PollFact(fault) /\ Current = st /\ Current' = st'
    BY <2>1, PollFacts DEF Collect, Current
  <2>3. /\ st'.heads[b] = SeenTip(b, remote, fault, order'[b])
        /\ base'[b] = base[b] \cup (IF fault # <<"heads">> /\ st.heads[b] = None
                                    THEN History(remote.heads[b]) ELSE {})
    BY <2>2 DEF PollFact
  <2>4. /\ st \in Refs /\ remote \in Refs
        /\ order'[b] \in Orders(List(b, remote, fault), remote.heads[b])
    BY <2>2 DEF StateInv, Typed, PollFact
  <2>5. st.heads[b] # None => SeenTip(b, remote, fault, order'[b]) # None
    <3>1. News(b, remote, fault) \subseteq Commits /\ None \notin Commits
      BY <2>4, PollOfBranch, GitAssumption DEF Objects
    <3>2. /\ \/ KeptAt(b, remote, fault, order'[b]) \/ SeededAt(b, remote, fault, order'[b])
             \/ MovedAt(b, remote, fault, order'[b])
      BY <2>4, PollOfBranch
    <3> QED  BY <3>1, <3>2 DEF KeptAt, SeededAt, MovedAt
  <2>6. base'[b] # {} => st'.heads[b] # None
    <3>1. CASE base'[b] = base[b]
      BY <2>2, <2>3, <2>5, <3>1 DEF HasTip
    <3>2. CASE base'[b] # base[b]
      <4>1. fault # <<"heads">> /\ st.heads[b] = None /\ History(remote.heads[b]) # {}
        BY <2>3, <3>2
      <4>2. SeenTip(b, remote, fault, order'[b]) = remote.heads[b]
        BY <4>1 DEF SeenTip
      <4> QED  BY <1>0, <2>3, <4>1, <4>2
    <3> QED  BY <3>1, <3>2
  <2> QED  BY <2>2, <2>6 DEF HasTip
<1>4. CASE ~Seed /\ ~SeedFails /\ ~Poll
  <2>1. base' = base /\ Current' = Current
    BY <1>4, BaseStep, CurrentStep
  <2> QED  BY <2>1 DEF HasTip
<1> QED  BY <1>1, <1>2, <1>3, <1>4

LEMMA TipKept ==
    ASSUME StateInv, TipInv, [Next]_vars
    PROVE  TipInv'
<1>1. mishaps \subseteq mishaps'
  BY MishapsGrow
<1>2. CASE Had({"crash", "unsaved", "badstate"})'
  BY <1>2 DEF TipInv
<1>3. CASE ~Had({"crash", "unsaved", "badstate"})'
  <2>1. "crash" \notin mishaps' /\ "unsaved" \notin mishaps' /\ "badstate" \notin mishaps'
    BY <1>3 DEF Had
  <2>2. \A b \in Branches : HasTip(b)
    BY <1>1, <2>1 DEF TipInv, Had
  <2>3. \A b \in Branches : HasTip(b)'
    BY <2>1, <2>2, TipStep
  <2> QED  BY <2>3 DEF TipInv
<1> QED  BY <1>2, <1>3

LEMMA TipInit == ASSUME Init PROVE TipInv
  BY EmptyFacts DEF Init, TipInv, HasTip

\* A branch is taken as seen without being announced at most once, unless the
\* state was lost: one that is deleted and comes back keeps its tip and is
\* announced (collectAnnouncements leaves LastSeen of an absent branch alone).
THEOREM BranchSeededOnce == Spec => SeededOnce
<1> DEFINE Once == \A b \in Branches :
             base'[b] # base[b] /\ base[b] # {} => Had({"crash", "unsaved", "badstate"})
<1>1. StateInv /\ TipInv /\ [Next]_vars => [Once]_vars
  BY TipNew DEF TipInv
<1>2. Init => StateInv /\ ScenarioInv /\ TipInv
  BY StateInit, TipInit
<1>3. StateInv /\ ScenarioInv /\ TipInv /\ [Next]_vars => (StateInv /\ ScenarioInv /\ TipInv)'
  BY StateKept, TipKept
<1> QED  BY <1>1, <1>2, <1>3, PTL DEF Spec, SeededOnce

-----------------------------------------------------------------------------
(* Nothing is announced twice: the branches.                               *)

LEMMA BehindFacts ==
    ASSUME NEW c \in Commits \cup {None}, NEW d \in Commits \cup {None}, Behind(c, d)
    PROVE  /\ History(c) \subseteq History(d)
           /\ \A e \in Commits \cup {None} : Behind(d, e) => Behind(c, e)
<1>1. History(c) \subseteq History(d)
  BY HistoryFacts DEF Behind
<1>2. \A e \in Commits \cup {None} : Behind(d, e) => Behind(c, e)
  <2> SUFFICES ASSUME NEW e \in Commits \cup {None}, Behind(d, e), c # None PROVE Behind(c, e)
    BY DEF Behind
  <2>1. c \in History(d) /\ d # None
    BY HistoryFacts DEF Behind
  <2>2. d \in History(e)
    BY <2>1 DEF Behind
  <2>3. History(d) \subseteq History(e)
    BY <2>2, HistoryFacts
  <2> QED  BY <2>1, <2>3 DEF Behind
<1> QED  BY <1>1, <1>2

LEMMA BehindSelf == ASSUME NEW c \in Commits \cup {None} PROVE Behind(c, c)
  BY HistoryFacts DEF Behind

\* The remote branch only moves forward.
LEMMA RemoteStep ==
    ASSUME StateInv, ScenarioInv, [Next]_vars, NEW b \in Branches, "forced" \notin mishaps'
    PROVE  Behind(remote.heads[b], remote'.heads[b])
<1>0. remote \in Refs /\ remote.heads[b] \in Commits \cup {None}
  BY DEF StateInv, Typed, Refs
<1>1. CASE remote'.heads[b] = remote.heads[b]
  BY <1>0, <1>1, BehindSelf
<1>2. ASSUME NEW d \in Branches, Push(d)
      PROVE  Behind(remote.heads[b], remote'.heads[b])
  <2>1. PICK c \in scenario.heads :
            /\ IF remote.heads[d] = None THEN base[d] = {} ELSE remote.heads[d] \in Ancestors[c] \ {c}
            /\ remote' = [remote EXCEPT !.heads[d] = c]
    BY <1>2 DEF Push
  <2>2. c \in Commits /\ c # None
    BY GitAssumption DEF ScenarioInv, Objects
  <2>3. CASE d = b
    <3>1. remote'.heads[b] = c
      BY <1>0, <2>1, <2>3 DEF Refs
    <3> QED  BY <2>1, <2>2, <2>3, <3>1 DEF Behind, History
  <2>4. CASE d # b
    <3>1. remote'.heads[b] = remote.heads[b]
      BY <1>0, <2>1, <2>4 DEF Refs
    <3> QED  BY <1>1, <3>1
  <2> QED  BY <2>3, <2>4
<1>3. ASSUME NEW t \in Tags, Tag(t)
      PROVE  remote'.heads = remote.heads
  BY <1>0, <1>3 DEF Tag, Refs
<1>4. Others => (\E d \in Branches : Push(d)) \/ (\E t \in Tags : Tag(t))
  BY DEF Others, ForcePush, MoveTag, Mishap
<1>5. CASE ~Others
  <2>1. remote' = remote
    BY <1>5 DEF Next, Step, vars, progVars, Boot, BootFails, Seed, SeedFails, Poll, Collect,
       Send, Sent, Cancelled, Exit, Crash
  <2> QED  BY <1>1, <2>1
<1> QED  BY <1>1, <1>2, <1>3, <1>4, <1>5

LEMMA BranchPoll ==
    ASSUME StateInv, NEW b \in Branches, BranchInv(b), NEW fault, Collect(fault),
           "unread" \notin mishaps'
    PROVE  BranchInv(b)'
<1>0. /\ PollFact(fault) /\ ~Unread(remote, fault) /\ out.news[b] = {}
      /\ UNCHANGED <<remote, posted, again>> /\ Current = st /\ Current' = st'
      /\ mirror # None
  BY PollFacts, EmptyFacts, ZenonT(40) DEF Collect, PollFact, Current, StateInv, Phases
<1> DEFINE old == st.heads[b]
           new == remote.heads[b]
           seen == Told(b)
<1>1. /\ old \in Commits \cup {None} /\ new \in Commits \cup {None}
      /\ mirror.heads[b] \in Commits \cup {None} /\ st \in Refs /\ remote \in Refs
  BY <1>0 DEF StateInv, Typed, Refs
<1>2. /\ mirror' = remote /\ mirror' # None
      /\ out'.news[b] = News(b, remote, fault) /\ st'.heads[b] = SeenTip(b, remote, fault, order'[b])
      /\ Told(b)' = seen \cup (IF fault # <<"heads">> /\ old = None THEN History(new) ELSE {})
  <2>1. base'[b] = base[b] \cup (IF fault # <<"heads">> /\ old = None THEN History(new) ELSE {})
    BY <1>0 DEF PollFact
  <2>2. Told(b)' = posted[b] \cup base'[b]
    BY <1>0 DEF Told
  <2>3. mirror' = remote /\ out'.news[b] = News(b, remote, fault)
        /\ st'.heads[b] = SeenTip(b, remote, fault, order'[b])
    BY <1>0 DEF PollFact
  <2>4. remote # None
    BY <1>1, GitAssumption
  <2> QED  BY <2>1, <2>2, <2>3, <2>4 DEF Told
<1>3. /\ again[b] = {} /\ (old # None => seen \subseteq History(old))
      /\ seen \subseteq History(mirror.heads[b])
      /\ Behind(mirror.heads[b], new) /\ Behind(old, new)
  BY <1>0 DEF BranchInv
<1> HIDE DEF seen
<1>4. seen \subseteq History(new)
  BY <1>1, <1>3, BehindFacts
<1>5. CASE KeptAt(b, remote, fault, order'[b])
  <2>1. out'.news[b] = {} /\ st'.heads[b] = old
    BY <1>2, <1>5 DEF KeptAt
  <2>2. Told(b)' \subseteq History(new) /\ (old # None => Told(b)' = seen)
    BY <1>2, <1>4
  <2>3. Behind(new, new)
    BY <1>1, BehindSelf
  <2> QED  BY <1>0, <1>2, <1>3, <2>1, <2>2, <2>3 DEF BranchInv
<1>6. CASE SeededAt(b, remote, fault, order'[b])
  <2>1. out'.news[b] = {} /\ st'.heads[b] = new /\ Told(b)' = seen \cup History(new)
    BY <1>2, <1>6 DEF SeededAt
  <2>2. Told(b)' \subseteq History(new) /\ Behind(new, new)
    BY <1>1, <1>4, <2>1, BehindSelf
  <2> QED  BY <1>0, <1>2, <1>3, <2>1, <2>2 DEF BranchInv
<1>7. CASE MovedAt(b, remote, fault, order'[b])
  <2>1. /\ out'.news[b] = History(new) \ History(old) /\ st'.heads[b] = new
        /\ old # None /\ Told(b)' = seen
    BY <1>0, <1>2, <1>7 DEF MovedAt
  <2>2. Behind(new, new)
    BY <1>1, BehindSelf
  <2> HIDE DEF old, new
  <2>3. out'.news[b] \cap Told(b)' = {} /\ Told(b)' \cup out'.news[b] \subseteq History(new)
    BY <1>3, <1>4, <2>1
  <2>4. mirror'.heads[b] = new /\ remote'.heads[b] = new /\ Current'.heads[b] = new
    BY <1>0, <1>2, <2>1 DEF new
  <2> QED  BY <1>0, <1>2, <1>3, <2>1, <2>2, <2>3, <2>4 DEF BranchInv
<1>8. order'[b] \in Orders(List(b, remote, fault), remote.heads[b])
  BY <1>0 DEF PollFact
<1> QED  BY <1>1, <1>5, <1>6, <1>7, <1>8, PollOfBranch

LEMMA BranchSeed ==
    ASSUME StateInv, NEW b \in Branches, BranchInv(b), Seed \/ SeedFails
    PROVE  BranchInv(b)'
<1> DEFINE h == mirror.heads[b]
<1>1. /\ mirror \in Refs /\ mirror # None /\ h \in Commits \cup {None}
      /\ out = NoMessages /\ out.news[b] = {} /\ out' = NoMessages /\ out'.news[b] = {}
      /\ UNCHANGED <<remote, mirror, posted, again>> /\ Current = st
  BY EmptyFacts, GitAssumption DEF Seed, SeedFails, StateInv, Typed, Phases, Refs, Ended, Current
<1>2. /\ again[b] = {} /\ Told(b) \subseteq History(h) /\ Behind(h, remote.heads[b])
      /\ Behind(Current.heads[b], remote.heads[b])
  BY <1>1 DEF BranchInv
<1>3. CASE base' = base /\ Current' = Current
  BY <1>1, <1>2, <1>3 DEF BranchInv, Told
<1>4. CASE base'[b] = base[b] \cup History(h) /\ Current'.heads[b] = h
  <2>1. Told(b)' \subseteq History(h)
    BY <1>1, <1>2, <1>4 DEF Told
  <2> QED  BY <1>1, <1>2, <1>4, <2>1 DEF BranchInv
<1>5. CASE Seed
  <2>1. SeedFact /\ Current' = st'
    BY <1>5, SeedFacts DEF Seed, Current
  <2> QED  BY <1>1, <1>3, <1>4, <2>1 DEF SeedFact, TakenFact
<1>6. CASE SeedFails
  <2>1. SeedFailsFact /\ Current' = disk'
    BY <1>6, SeedFailsFacts DEF SeedFails, SeedFailsFact, Ended, Current, Loaded
  <2> QED  BY <1>1, <1>4, <2>1 DEF SeedFailsFact, TakenFact
<1> QED  BY <1>5, <1>6

LEMMA BranchSend ==
    ASSUME StateInv, NEW b \in Branches, BranchInv(b), Send
    PROVE  BranchInv(b)'
<1>1. PICK k, what : SendFact(k, what)
  BY SendFacts
<1>2. /\ UNCHANGED <<remote, mirror, st, base>> /\ Current = st /\ Current' = st /\ mirror # None
      /\ b \in Names /\ posted \in Sets /\ again \in Sets /\ lost \in Sets
  BY DEF Send, Current, StateInv, Typed, Phases, Names
<1>3. /\ again[b] = {}
      /\ st.heads[b] # None => Told(b) \subseteq History(st.heads[b])
      /\ Told(b) \cup out.news[b] \subseteq History(mirror.heads[b])
      /\ Behind(mirror.heads[b], remote.heads[b]) /\ Behind(st.heads[b], remote.heads[b])
      /\ out.news[b] \cap Told(b) = {} /\ out.news[b] \subseteq History(st.heads[b])
  BY <1>2 DEF BranchInv
<1>4. ASSUME posted'[b] = posted[b], again'[b] = again[b], out'.news[b] \subseteq out.news[b]
      PROVE  BranchInv(b)'
  <2>1. Told(b)' = Told(b)
    BY <1>2, <1>4 DEF Told
  <2> QED  BY <1>2, <1>3, <1>4, <2>1 DEF BranchInv
<1>5. CASE OfTag(k, what)
  <2>1. k # b
    BY <1>5, GitAssumption DEF OfTag
  <2>2. out'.news = out.news
    BY <1>5 DEF OfTag, StateInv, Typed, Outs
  <2>3. posted'[b] = posted[b] /\ again'[b] = again[b]
    BY <1>1, <1>2, <2>1, PostFacts DEF SendFact
  <2> QED  BY <1>4, <2>2, <2>3
<1>6. CASE OfBranch(k, what) /\ k # b
  <2>1. posted'[b] = posted[b] /\ again'[b] = again[b]
    BY <1>1, <1>2, <1>6, PostFacts DEF SendFact
  <2>2. out'.news[b] = out.news[b]
    BY <1>6 DEF OfBranch
  <2> QED  BY <1>4, <2>1, <2>2
<1>7. CASE OfBranch(k, what) /\ k = b
  <2>1. what \subseteq out.news[b] /\ out'.news[b] = out.news[b] \ what
    BY <1>7 DEF OfBranch
  <2>2. \/ posted'[b] = posted[b] \cup what /\ again'[b] = again[b] \cup (what \cap Told(b))
        \/ posted'[b] = posted[b] /\ again'[b] = again[b]
    BY <1>1, <1>2, <1>7, PostFacts DEF SendFact, Told
  <2>3. CASE posted'[b] = posted[b] /\ again'[b] = again[b]
    BY <1>4, <2>1, <2>3
  <2>4. CASE posted'[b] = posted[b] \cup what /\ again'[b] = again[b] \cup (what \cap Told(b))
    <3>1. Told(b)' = Told(b) \cup what /\ again'[b] = {}
      BY <1>2, <1>3, <2>1, <2>4 DEF Told
    <3>2. /\ st.heads[b] # None => Told(b)' \subseteq History(st.heads[b])
          /\ Told(b)' \cup out'.news[b] \subseteq History(mirror.heads[b])
          /\ out'.news[b] \cap Told(b)' = {} /\ out'.news[b] \subseteq History(st.heads[b])
      BY <1>3, <2>1, <3>1
    <3> QED  BY <1>2, <1>3, <3>1, <3>2 DEF BranchInv
  <2> QED  BY <2>2, <2>3, <2>4
<1> QED  BY <1>1, <1>5, <1>6, <1>7 DEF SendFact

LEMMA BranchStep ==
    ASSUME StateInv, ScenarioInv, [Next]_vars, NEW b \in Branches, BranchInv(b),
           "crash" \notin mishaps', "unsaved" \notin mishaps',
           "unread" \notin mishaps', "forced" \notin mishaps'
    PROVE  BranchInv(b)'
<1>1. CASE Poll
  BY <1>1, BranchPoll DEF Poll
<1>2. CASE Seed \/ SeedFails
  BY <1>2, BranchSeed
<1>3. CASE Send
  BY <1>3, BranchSend
<1>4. CASE ~Poll /\ ~Seed /\ ~SeedFails /\ ~Send
  <2> DEFINE new == remote'.heads[b]
  <2>1. /\ remote.heads[b] \in Commits \cup {None} /\ new \in Commits \cup {None}
        /\ mirror # None => mirror.heads[b] \in Commits \cup {None}
        /\ Current.heads[b] \in Commits \cup {None} /\ EmptyState.heads[b] = None
        /\ remote # None
    <3>1. StateInv'
      BY StateKept
    <3> QED  BY <3>1, CurrentType, EmptyFacts, GitAssumption DEF StateInv, Typed, Refs
  <2>2. Behind(remote.heads[b], new)
    BY RemoteStep
  <2>3. \/ Current'.heads[b] = Current.heads[b]
        \/ Current'.heads[b] = None
    BY <1>4, <2>1, CurrentStep
  <2>4. UNCHANGED <<posted, again, base>>
    BY <1>4 DEF Next, Step, vars, progVars, histVars, Boot, BootFails, Sent, Cancelled, Exit,
       Crash, Others, Push, ForcePush, Tag, MoveTag
  <2>5. Told(b)' = Told(b)
    BY <2>4 DEF Told
  <2>6. \/ mirror' = mirror
        \/ Boot /\ mirror = None /\ mirror' = remote /\ remote' = remote
    BY <1>4 DEF Next, Step, vars, progVars, Boot, Cloned, BootFails, Sent, Cancelled, Exit,
       Crash, Others, Push, ForcePush, Tag, MoveTag
  <2>7. (out'.news[b] = out.news[b] /\ st' = st) \/ out'.news[b] = {}
    <3>1. NoMessages.news[b] = {} /\ (phase = "off" => out = NoMessages)
      BY EmptyFacts DEF StateInv, Phases
    <3>2. (out' = out /\ st' = st) \/ out' = NoMessages
      BY <1>4, <3>1 DEF Next, Step, vars, progVars, Boot, BootFails, Sent, Cancelled, Exit,
         Crash, Ended, Others, Push, ForcePush, Tag, MoveTag
    <3> QED  BY <3>1, <3>2
  <2>8. /\ again'[b] = {}
        /\ out'.news[b] \cap Told(b)' = {} /\ out'.news[b] \subseteq History(st'.heads[b])
    BY <2>4, <2>5, <2>7 DEF BranchInv
  <2>9. /\ Current'.heads[b] # None => Told(b)' \subseteq History(Current'.heads[b])
        /\ Behind(Current'.heads[b], new)
    <3>1. Behind(Current.heads[b], new)
      BY <2>1, <2>2, BehindFacts DEF BranchInv
    <3> HIDE DEF new
    <3>2. CASE Current'.heads[b] = None
      BY <3>2 DEF Behind
    <3>3. CASE Current'.heads[b] = Current.heads[b]
      BY <2>5, <3>1, <3>3 DEF BranchInv
    <3> QED  BY <2>3, <3>2, <3>3
  <2>10. /\ mirror' = None => Told(b)' = {}
         /\ mirror' # None => /\ Told(b)' \cup out'.news[b] \subseteq History(mirror'.heads[b])
                              /\ Behind(mirror'.heads[b], new)
    <3>1. CASE mirror' = mirror
      <4>1. mirror # None => Behind(mirror.heads[b], new)
        BY <2>1, <2>2, BehindFacts DEF BranchInv
      <4> HIDE DEF new
      <4> QED  BY <2>5, <2>7, <3>1, <4>1 DEF BranchInv
    <3>2. CASE Boot /\ mirror = None /\ mirror' = remote /\ remote' = remote
      <4>1. Told(b)' = {} /\ out'.news[b] = {}
        <5>1. out = NoMessages /\ out' = out
          BY <3>2 DEF Boot, StateInv, Phases
        <5> QED  BY <2>5, <3>2, <5>1, EmptyFacts DEF BranchInv
      <4> QED  BY <2>1, <2>2, <3>2, <4>1
    <3> QED  BY <2>6, <3>1, <3>2
  <2> QED  BY <2>8, <2>9, <2>10 DEF BranchInv
<1> QED  BY <1>1, <1>2, <1>3, <1>4

-----------------------------------------------------------------------------
(* Nothing is announced twice: the lightweight tags.                       *)

\* The remote tag is only set once.
LEMMA RemoteTagStep ==
    ASSUME StateInv, [Next]_vars, NEW t \in Tags, "forced" \notin mishaps'
    PROVE  remote'.tags[t] = remote.tags[t] \/ remote.tags[t] = None
<1>0. remote \in Refs
  BY DEF StateInv, Typed
<1>1. ASSUME NEW b \in Branches, Push(b) PROVE remote'.tags = remote.tags
  BY <1>0, <1>1 DEF Push, Refs
<1>2. ASSUME NEW u \in Tags, Tag(u) PROVE remote'.tags[t] = remote.tags[t] \/ remote.tags[t] = None
  BY <1>0, <1>2 DEF Tag, Refs
<1>3. Others => (\E b \in Branches : Push(b)) \/ (\E u \in Tags : Tag(u))
  BY DEF Others, ForcePush, MoveTag, Mishap
<1>4. ~Others => remote' = remote
  BY DEF Next, Step, vars, progVars, Boot, BootFails, Seed, SeedFails, Poll, Collect,
     Send, Sent, Cancelled, Exit, Crash
<1> QED  BY <1>1, <1>2, <1>3, <1>4

LEMMA TagPoll ==
    ASSUME StateInv, NEW t \in Tags, TagInv(t), NEW fault, Collect(fault)
    PROVE  TagInv(t)'
<1> DEFINE o == remote.tags[t]
           seen == Told(t)
<1>0. /\ PollFact(fault) /\ phase = "idle" /\ mirror # None
      /\ UNCHANGED <<remote, posted, again>> /\ Current = st /\ Current' = st'
  BY PollFacts DEF Collect, Current, StateInv, Phases
<1>1. /\ remote \in Refs /\ remote # None /\ o \in Objects \cup {None} /\ None \notin Objects
      /\ seen \subseteq Objects
  BY GitAssumption DEF StateInv, Typed, Refs, Told, Sets, Names
<1>2. /\ mirror' = remote /\ Told(t)' = seen
      /\ st'.tags[t] = SeenTag(t, remote, fault) /\ out'.tags = ToldTags(remote, fault)
  BY <1>0 DEF PollFact, Told
<1>3. /\ again[t] \cap Commits = {} /\ seen \subseteq {mirror.tags[t]}
      /\ mirror.tags[t] \in {None, o} /\ seen \cap Commits \subseteq {st.tags[t]}
  BY <1>0 DEF TagInv
<1> HIDE DEF o, seen
<1>4. seen \subseteq {o}
  BY <1>1, <1>3
<1>5. CASE t \in NewTags(remote, fault)
  <2>1. o # st.tags[t] /\ st'.tags[t] \in {o, CommitOf(o)}
    BY <1>2, <1>5 DEF NewTags, SeenTag, o
  <2>2. o \in Commits => st'.tags[t] = o /\ o \notin seen
    BY <1>3, <2>1, GitAssumption DEF CommitOf
  <2>3. seen \cap Commits \subseteq {st'.tags[t]}
    BY <1>4, <2>2
  <2> QED  BY <1>0, <1>1, <1>2, <1>3, <1>4, <2>1, <2>2, <2>3 DEF TagInv, o
<1>6. CASE t \notin NewTags(remote, fault)
  <2>1. t \notin out'.tags /\ st'.tags[t] = st.tags[t]
    BY <1>2, <1>6 DEF ToldTags, SeenTag
  <2> QED  BY <1>0, <1>1, <1>2, <1>3, <1>4, <2>1 DEF TagInv, o
<1> QED  BY <1>5, <1>6

LEMMA TagSeed ==
    ASSUME StateInv, NEW t \in Tags, TagInv(t), Seed
    PROVE  TagInv(t)'
<1> DEFINE o == mirror.tags[t]
<1>1. /\ SeedFact /\ mirror # None /\ out'.tags = {} /\ o \in Objects \cup {None}
      /\ UNCHANGED <<remote, mirror, posted, again>> /\ Current = st /\ Current' = st'
  BY SeedFacts, EmptyFacts, GitAssumption DEF Seed, SeedFact, Refs, Current
<1>2. again[t] \cap Commits = {} /\ Told(t) \subseteq {o} /\ o \in {None, remote.tags[t]}
  BY <1>1 DEF TagInv
<1>3. CASE Seeded /\ st' = st /\ base' = base
  <2>1. Told(t) \cap Commits \subseteq {st.tags[t]} /\ Told(t)' = Told(t)
    BY <1>1, <1>3 DEF TagInv, Seeded, Told
  <2> QED  BY <1>1, <1>2, <1>3, <2>1 DEF TagInv
<1>4. CASE st' = mirror /\ TakenFact(mirror, Branches, Tags)
  <2>1. Told(t)' = Told(t) \cup ({o} \ {None})
    BY <1>1, <1>4 DEF TakenFact, Told
  <2>2. Told(t)' \subseteq {o} /\ Told(t)' \cap Commits \subseteq {Current'.tags[t]}
    BY <1>1, <1>2, <1>4, <2>1
  <2> QED  BY <1>1, <1>2, <2>2 DEF TagInv
<1> QED  BY <1>1, <1>3, <1>4 DEF SeedFact

LEMMA TagSend ==
    ASSUME StateInv, NEW t \in Tags, TagInv(t), Send
    PROVE  TagInv(t)'
<1> DEFINE o == mirror.tags[t]
<1>1. PICK k, what : SendFact(k, what)
  BY SendFacts
<1>2. /\ phase = "send" /\ phase' = "send" /\ mirror # None /\ out \in Outs
      /\ UNCHANGED <<remote, mirror, st, base>> /\ Current = st /\ Current' = st
      /\ t \in Names /\ posted \in Sets /\ again \in Sets /\ lost \in Sets
  BY DEF Send, Current, StateInv, Typed, Phases, Names
<1>3. /\ again[t] \cap Commits = {} /\ Told(t) \subseteq {o} /\ o \in {None, remote.tags[t]}
      /\ Told(t) \cap Commits \subseteq {st.tags[t]}
      /\ t \in out.tags /\ o \in Commits => o \notin Told(t) /\ o = st.tags[t]
  BY <1>2 DEF TagInv
<1>4. ASSUME posted'[t] = posted[t], again'[t] = again[t], out'.tags \subseteq out.tags
      PROVE  TagInv(t)'
  <2>1. Told(t)' = Told(t)
    BY <1>2, <1>4 DEF Told
  <2> QED  BY <1>2, <1>3, <1>4, <2>1 DEF TagInv
<1>5. CASE k # t
  <2>1. posted'[t] = posted[t] /\ again'[t] = again[t]
    BY <1>1, <1>2, <1>5, PostFacts DEF SendFact
  <2>2. out'.tags \subseteq out.tags
    BY <1>1, <1>2 DEF SendFact, OfTag, OfBranch, Outs
  <2> QED  BY <1>4, <2>1, <2>2
<1>6. CASE k = t
  <2>1. OfTag(t, what)
    <3>1. ~OfBranch(t, what)
      BY GitAssumption DEF OfBranch
    <3> QED  BY <1>1, <1>6, <3>1 DEF SendFact
  <2>2. t \in out.tags /\ what = {o} /\ out'.tags = out.tags \ {t}
    BY <1>2, <2>1 DEF OfTag, Outs
  <2>3. \/ posted'[t] = posted[t] \cup {o} /\ again'[t] = again[t] \cup ({o} \cap Told(t))
        \/ posted'[t] = posted[t] /\ again'[t] = again[t]
    BY <1>1, <1>2, <1>6, <2>2, PostFacts DEF SendFact, Told
  <2>4. CASE posted'[t] = posted[t] \cup {o} /\ again'[t] = again[t] \cup ({o} \cap Told(t))
    <3>1. Told(t)' = Told(t) \cup {o} /\ again'[t] \cap Commits = {}
      BY <1>2, <1>3, <2>2, <2>4 DEF Told
    <3>2. Told(t)' \subseteq {o} /\ Told(t)' \cap Commits \subseteq {st.tags[t]} /\ t \notin out'.tags
      BY <1>3, <2>2, <3>1
    <3> QED  BY <1>2, <1>3, <3>1, <3>2 DEF TagInv
  <2> QED  BY <1>4, <2>2, <2>3, <2>4
<1> QED  BY <1>5, <1>6

LEMMA TagStep ==
    ASSUME StateInv, [Next]_vars, NEW t \in Tags, TagInv(t),
           "crash" \notin mishaps', "unsaved" \notin mishaps',
           "halfseed" \notin mishaps', "forced" \notin mishaps'
    PROVE  TagInv(t)'
<1>1. CASE Poll
  BY <1>1, TagPoll DEF Poll
<1>2. CASE Seed
  BY <1>2, TagSeed
<1>3. CASE Send
  BY <1>3, TagSend
<1>4. CASE SeedFails
  BY <1>4, SeedFailsFacts DEF SeedFailsFact
<1>5. CASE ~Poll /\ ~Seed /\ ~SeedFails /\ ~Send
  <2>1. UNCHANGED <<posted, again, base>>
    BY <1>5 DEF Next, Step, vars, progVars, histVars, Boot, BootFails, Sent, Cancelled, Exit,
       Crash, Others, Push, ForcePush, Tag, MoveTag
  <2>2. Told(t)' = Told(t)
    BY <2>1 DEF Told
  <2>3. \/ mirror' = mirror
        \/ Boot /\ mirror = None /\ mirror' = remote /\ remote' = remote
    BY <1>5 DEF Next, Step, vars, progVars, Boot, Cloned, BootFails, Sent, Cancelled, Exit,
       Crash, Others, Push, ForcePush, Tag, MoveTag
  <2>4. (out' = out /\ st' = st) \/ out'.tags = {}
    <3>1. NoMessages.tags = {} /\ (phase = "off" => out = NoMessages)
      BY EmptyFacts DEF StateInv, Phases
    <3>2. (out' = out /\ st' = st) \/ out' = NoMessages
      BY <1>5, <3>1 DEF Next, Step, vars, progVars, Boot, BootFails, Sent, Cancelled, Exit,
         Crash, Ended, Others, Push, ForcePush, Tag, MoveTag
    <3> QED  BY <3>1, <3>2
  <2>5. \/ Current' = Current
        \/ Current' = EmptyState /\ phase' = "off"
    BY <1>5, CurrentStep DEF BootFails
  <2>6. phase \in {"off", "seed"} => phase' \in {"off", "seed"}
    BY <1>5 DEF Next, Step, vars, progVars, Boot, BootFails, Sent, Cancelled, Exit,
       Crash, Ended, Others, Push, ForcePush, Tag, MoveTag
  <2>7. \/ Told(t)' \cap Commits \subseteq {Current'.tags[t]}
        \/ Current' = EmptyState /\ phase' \in {"off", "seed"}
    BY <2>2, <2>5, <2>6 DEF TagInv
  <2>8. remote'.tags[t] = remote.tags[t] \/ remote.tags[t] = None
    BY RemoteTagStep
  <2>9. CASE mirror' = mirror
    <3>1. mirror # None => /\ Told(t)' \subseteq {mirror.tags[t]}
                           /\ mirror.tags[t] \in {None, remote'.tags[t]}
      BY <2>2, <2>8 DEF TagInv
    <3>2. t \in out'.tags /\ mirror.tags[t] \in Commits =>
              mirror.tags[t] \notin Told(t)' /\ mirror.tags[t] = st'.tags[t]
      BY <2>2, <2>4 DEF TagInv
    <3>3. again'[t] \cap Commits = {} /\ (mirror = None => Told(t)' = {})
      BY <2>1, <2>2 DEF TagInv
    <3> QED  BY <2>7, <2>9, <3>1, <3>2, <3>3 DEF TagInv
  <2>10. CASE Boot /\ mirror = None /\ mirror' = remote /\ remote' = remote
    <3>1. out'.tags = {}
      BY <2>10, EmptyFacts DEF Boot, StateInv, Phases
    <3>2. again'[t] \cap Commits = {} /\ Told(t)' = {}
      BY <2>1, <2>2, <2>10 DEF TagInv
    <3> QED  BY <2>7, <2>10, <3>1, <3>2 DEF TagInv
  <2> QED  BY <2>3, <2>9, <2>10
<1> QED  BY <1>1, <1>2, <1>3, <1>4, <1>5

-----------------------------------------------------------------------------
(* Nothing is announced twice.                                             *)

OnceInv ==
    /\ Had({"crash", "unsaved", "unread", "forced"}) \/ \A b \in Branches : BranchInv(b)
    /\ Had({"crash", "unsaved", "halfseed", "forced"}) \/ \A t \in Tags : TagInv(t)

LEMMA OnceInit == ASSUME Init PROVE OnceInv
<1>1. /\ Loaded = EmptyState /\ Current = EmptyState /\ mirror = None
      /\ \A k \in Names : posted[k] = {} /\ again[k] = {} /\ base[k] = {}
      /\ \A b \in Branches : EmptyState.heads[b] = None /\ out.news[b] = {} /\ b \in Names
      /\ \A t \in Tags : EmptyState.tags[t] = None /\ t \notin out.tags /\ t \in Names
      /\ phase = "off"
  BY EmptyFacts DEF Init, Loaded, Current, Names, Nowhere
<1>2. \A b \in Branches : BranchInv(b)
  BY <1>1 DEF BranchInv, Told, Behind
<1>3. \A t \in Tags : TagInv(t)
  BY <1>1 DEF TagInv, Told
<1> QED  BY <1>2, <1>3 DEF OnceInv

LEMMA OnceKept ==
    ASSUME StateInv, ScenarioInv, OnceInv, [Next]_vars
    PROVE  OnceInv'
<1>0. mishaps \subseteq mishaps'
  BY MishapsGrow
<1>1. ASSUME ~Had({"crash", "unsaved", "unread", "forced"})', NEW b \in Branches
      PROVE  BranchInv(b)'
  <2>1. /\ "crash" \notin mishaps' /\ "unsaved" \notin mishaps'
        /\ "unread" \notin mishaps' /\ "forced" \notin mishaps'
    BY <1>1 DEF Had
  <2>2. BranchInv(b)
    BY <1>0, <2>1 DEF OnceInv, Had
  <2> QED  BY <2>1, <2>2, BranchStep
<1>2. ASSUME ~Had({"crash", "unsaved", "halfseed", "forced"})', NEW t \in Tags
      PROVE  TagInv(t)'
  <2>1. /\ "crash" \notin mishaps' /\ "unsaved" \notin mishaps'
        /\ "halfseed" \notin mishaps' /\ "forced" \notin mishaps'
    BY <1>2 DEF Had
  <2>2. TagInv(t)
    BY <1>0, <2>1 DEF OnceInv, Had
  <2> QED  BY <2>1, <2>2, TagStep
<1> QED  BY <1>1, <1>2 DEF OnceInv

\* Of a branch no commit is announced twice, nor one that was there when the
\* branch was first seen, unless the state was lost, a commit could not be read
\* or the branch was rewritten; a lightweight tag likewise (State is persisted
\* to avoid duplicates).
THEOREM AnnouncedOnce == Spec => []NoRepeats
<1>1. Init => StateInv /\ ScenarioInv /\ OnceInv
  BY StateInit, OnceInit
<1>2. StateInv /\ ScenarioInv /\ OnceInv /\ [Next]_vars => (StateInv /\ ScenarioInv /\ OnceInv)'
  BY StateKept, OnceKept
<1>3. OnceInv => NoRepeats
  BY DEF OnceInv, BranchInv, TagInv, NoRepeats
<1> QED  BY <1>1, <1>2, <1>3, PTL DEF Spec
=============================================================================
