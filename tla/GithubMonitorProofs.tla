-------------------------- MODULE GithubMonitorProofs --------------------------
(***************************************************************************)
(* Proofs about github-monitor: for every size and number of pages, every  *)
(* clock, every set of events of no interest and every mishap, what the    *)
(* watermark passes is announced, nothing is announced twice, and the      *)
(* announcements are in order.                                             *)
(***************************************************************************)
EXTENDS GithubMonitor, OrderProofs, SequenceTheorems, TLAPS

-----------------------------------------------------------------------------
(* The invariant.                                                          *)

States == [at : Nat, ids : SUBSET Nat, etag : Nat]

Gots == [n : Nat, events : Seq(Nat), etag : Nat]

\* e is before f in the list, with the seconds in c.
NewerIn(c, e, f) == c[e] > c[f] \/ (c[e] = c[f] /\ e > f)

Newer(e, f) == NewerIn(created, e, f)

Typed ==
    /\ created \in Seq(Nat) /\ list \in Seq(Nat) /\ now \in Nat
    /\ st \in States /\ disk \in States
    /\ phase \in {"off", "idle", "fetch", "send"}
    /\ got \in Gots
    /\ out \in SUBSET Nat
    /\ posted \in SUBSET Events /\ lost \in SUBSET Events /\ base \in SUBSET Events

\* The list has the events in their order.
Listed ==
    /\ Len(list) = Len(created)
    /\ \A e \in Events : created[e] \in 1..now
    /\ \A i \in DOMAIN list : list[i] \in Events
    /\ \A e \in Events : \E i \in DOMAIN list : list[i] = e
    /\ \A i, j \in DOMAIN list : i < j => Newer(list[i], list[j])

\* A watermark is of the past, and its events are of its second.
Dated(s) == s.at <= now /\ \A e \in s.ids : e \in Events /\ created[e] = s.at

\* What a phase has in hand.
Phases ==
    /\ phase = "off" => st = Fresh
    /\ phase # "send" => out = {}
    /\ phase \in {"off", "idle"} => got = NoPages
    /\ phase = "fetch" => /\ got.n \in Nat \ {0} /\ got.n < MaxPages
                          /\ got.n * PageSize <= Len(list)
    /\ phase \in {"fetch", "send"} => got.etag \in 1..Etag
    /\ \A i \in DOMAIN got.events : got.events[i] \in Events
    /\ phase = "send" => /\ st.etag # 0
                         /\ out \in SUBSET (DOMAIN got.events)
                         /\ \A i \in out : /\ got.events[i] \in Passed(st)
                                           /\ got.events[i] \notin Ignored

\* The event at place i of the list was read, is still to be read, or came since
\* the first page and is not older than what was read.
PageKnows(g, i) ==
    \/ \E j \in DOMAIN g.events : g.events[j] = list[i]
    \/ i > g.n * PageSize
    \/ /\ list[i] >= g.etag
       /\ \A j \in DOMAIN g.events : created[g.events[j]] <= created[list[i]]

PagesKnow == phase = "fetch" => \A i \in DOMAIN list : PageKnows(got, i)

\* Pages of one list: they are its beginning.
OneList(g) ==
    /\ g.etag = Etag
    /\ \A i \in DOMAIN g.events : i <= Len(list) /\ g.events[i] = list[i]
    /\ Len(g.events) <= Len(list)
    /\ Len(g.events) <= g.n * PageSize
    /\ Len(g.events) = g.n * PageSize \/ Len(g.events) = Len(list)

InOrder(es) == \A i, j \in DOMAIN es : i < j => Newer(es[i], es[j])

PagesAgree ==
    "shift" \notin mishaps =>
        /\ InOrder(got.events)
        /\ phase = "fetch" => OneList(got)

MonitorInv ==
    /\ Typed /\ Listed /\ Dated(st) /\ Dated(disk)
    /\ Phases /\ PagesKnow /\ PagesAgree

-----------------------------------------------------------------------------
(* What was announced, and what not.                                       *)

\* The events that no poll will read any more.
Deep == {e \in Events : \A i \in DOMAIN list : list[i] = e => i > MaxPages * PageSize}

Unseeded(s) == s.at = 0 /\ s.etag = 0

\* The watermark that counts: in memory, or of the next start.
Current == IF phase = "off" THEN disk ELSE st

Covers(s, es) == Unseeded(s) \/ es \subseteq Passed(s) \cup Deep

RepeatInv ==
    \/ Had({"crash", "unsaved", "shift"})
    \/ /\ again = {}
       /\ Covers(Current, posted \cup base)
       /\ phase = "send" => \A i \in out : got.events[i] \notin posted \cup base

\* What is due under the watermark s is not older than what was posted.
Later(s) ==
    \/ Unseeded(s)
    \/ \A e \in Events \ (posted \cup Ignored \cup lost \cup base), f \in posted :
           e \notin Passed(s) => created[f] <= created[e]

Disordered ==
    \/ Had({"late", "badstate", "overflow", "boundary", "shift"})
    \/ lost # {} /\ Had({"crash", "unsaved"})

OrderedInv ==
    \/ Disordered
    \/ /\ Later(disk) /\ Covers(disk, base)
       /\ phase # "off" => /\ Later(st) /\ Covers(st, base)
                           /\ Unseeded(st) => Unseeded(disk)
       /\ Had({"crash", "unsaved"}) \/ lost \subseteq Passed(Current)
       /\ phase = "send" =>
              \A i \in out, f \in posted :
                  got.events[i] \in posted \/ created[f] <= created[got.events[i]]

SeededInv ==
    \/ Had({"badstate", "unsaved"})
    \/ seeded => disk.etag # 0 /\ (phase # "off" => st.etag # 0)

-----------------------------------------------------------------------------
(* Sequences and numbers.                                                  *)

LEMMA PageEnds ==
    \A n \in Nat : n * PageSize \in Nat /\ (n + 1) * PageSize = n * PageSize + PageSize
BY GithubAssumption, SMT

LEMMA PagesWithin ==
    ASSUME NEW n \in Nat, n <= MaxPages
    PROVE  n * PageSize <= MaxPages * PageSize /\ MaxPages * PageSize \in Nat
BY GithubAssumption, SMT

\* all is es with the items of l from after lo up to hi.
Joined(all, es, l, lo, hi) ==
    /\ all \in Seq(Nat) /\ Len(all) = Len(es) + (hi - lo)
    /\ \A j \in DOMAIN all :
           \/ j \in DOMAIN es /\ all[j] = es[j]
           \/ /\ j > Len(es)
              /\ j - Len(es) + lo \in (lo + 1)..hi
              /\ j - Len(es) + lo \in DOMAIN l
              /\ all[j] = l[j - Len(es) + lo]
    /\ \A j \in DOMAIN es : j \in DOMAIN all /\ all[j] = es[j]
    /\ \A i \in (lo + 1)..hi : \E j \in DOMAIN all : all[j] = l[i]

LEMMA Extended ==
    ASSUME NEW es \in Seq(Nat), NEW l \in Seq(Nat), NEW lo \in Nat, NEW hi \in Nat,
           lo <= hi, hi <= Len(l),
           NEW all, all = es \o SubSeq(l, lo + 1, hi)
    PROVE  Joined(all, es, l, lo, hi)
<1> DEFINE p == SubSeq(l, lo + 1, hi)
<1>1. p \in Seq(Nat) /\ Len(p) = hi - lo /\ \A i \in 1..(hi - lo) : p[i] = l[lo + i]
  OBVIOUS
<1>2. all = es \o p
  OBVIOUS
<1> HIDE DEF p

<1>3. /\ all \in Seq(Nat) /\ Len(all) = Len(es) + Len(p)
      /\ \A i \in 1..Len(es) + Len(p) :
             all[i] = IF i <= Len(es) THEN es[i] ELSE p[i - Len(es)]
  BY ONLY <1>1, <1>2, ConcatProperties, es \in Seq(Nat)
<1>0. /\ Len(es) \in Nat /\ Len(p) \in Nat /\ Len(all) \in Nat
      /\ DOMAIN es = 1..Len(es) /\ DOMAIN all = 1..Len(all) /\ DOMAIN l = 1..Len(l)
      /\ Len(l) \in Nat
  BY ONLY <1>1, <1>3, LenProperties, es \in Seq(Nat), l \in Seq(Nat)
<1>4. \A j \in DOMAIN es : j \in DOMAIN all /\ all[j] = es[j]
  BY ONLY <1>0, <1>3
<1>5. ASSUME NEW j \in DOMAIN all
      PROVE  \/ j \in DOMAIN es /\ all[j] = es[j]
             \/ /\ j > Len(es)
                /\ j - Len(es) + lo \in (lo + 1)..hi
                /\ j - Len(es) + lo \in DOMAIN l
                /\ all[j] = l[j - Len(es) + lo]
  <2>0. j <= Len(es) => j \in DOMAIN es /\ all[j] = es[j]
    BY ONLY <1>0, <1>4, j \in DOMAIN all
  <2> SUFFICES ASSUME ~(j <= Len(es))
               PROVE  /\ j - Len(es) + lo \in (lo + 1)..hi
                      /\ j - Len(es) + lo \in DOMAIN l
                      /\ all[j] = l[j - Len(es) + lo]
    <3>1. ~(j <= Len(es)) => j > Len(es)
      BY ONLY <1>0, j \in DOMAIN all
    <3> QED  BY <2>0, <3>1, Zenon
  <2>1. j - Len(es) \in 1..(hi - lo)
    <3> DEFINE m == Len(es)
               q == Len(p)
    <3>1. m \in Nat /\ q = hi - lo /\ j \in 1..m + q /\ ~(j <= m)
      BY ONLY <1>0, <1>1, <1>3, j \in DOMAIN all, ~(j <= Len(es))
    <3> HIDE DEF m, q
    <3>2. j - m \in 1..(hi - lo)
      BY ONLY <3>1, lo \in Nat, hi \in Nat, lo <= hi
    <3> QED  BY ONLY <3>2 DEF m
  <2>2. all[j] = p[j - Len(es)]
    BY ONLY <1>0, <1>1, <1>3, j \in DOMAIN all, ~(j <= Len(es))
  <2>3. p[j - Len(es)] = l[lo + (j - Len(es))]
    BY ONLY <1>1, <2>1
  <2>4. lo + (j - Len(es)) = j - Len(es) + lo /\ j \in Nat
    BY ONLY <1>0, j \in DOMAIN all, lo \in Nat
  <2>5. all[j] = l[j - Len(es) + lo]
    BY ONLY <2>2, <2>3, <2>4
  <2>6. /\ j - Len(es) + lo \in (lo + 1)..hi
        /\ j - Len(es) + lo \in DOMAIN l
    <3> DEFINE m == Len(es)
               n == Len(l)
    <3>1. m \in Nat /\ n \in Nat /\ hi <= n /\ j \in Nat
      BY ONLY <1>0, <2>4, hi <= Len(l)
    <3>2. DOMAIN l = 1..n
      BY ONLY <1>0
    <3>3. j - m \in 1..(hi - lo)
      BY ONLY <2>1
    <3> HIDE DEF m, n
    <3>4. j - m + lo \in (lo + 1)..hi
      BY ONLY <3>1, <3>3, lo \in Nat, hi \in Nat, lo <= hi
    <3>5. j - m + lo \in 1..n
      BY ONLY <3>1, <3>4, lo \in Nat, hi \in Nat
    <3>6. j - m + lo \in DOMAIN l
      BY ONLY <3>2, <3>5, Zenon
    <3> QED  BY ONLY <3>4, <3>6, Zenon DEF m
  <2> QED  BY ONLY <2>5, <2>6
<1>6. \A i \in (lo + 1)..hi : \E j \in DOMAIN all : all[j] = l[i]
  <2> SUFFICES ASSUME NEW i \in (lo + 1)..hi PROVE \E j \in DOMAIN all : all[j] = l[i]
    OBVIOUS
  <2> DEFINE j == Len(es) + (i - lo)
  <2>1. j \in DOMAIN all /\ j \in 1..Len(es) + Len(p) /\ ~(j <= Len(es))
        /\ j - Len(es) = i - lo /\ i - lo \in 1..(hi - lo) /\ lo + (i - lo) = i
    BY ONLY <1>0, <1>1, <1>3, lo \in Nat, hi \in Nat, i \in (lo + 1)..hi
  <2>2. p[i - lo] = l[lo + (i - lo)]
    BY ONLY <1>1, <2>1
  <2> HIDE DEF j
  <2>3. all[j] = p[j - Len(es)]
    BY ONLY <1>3, <2>1
  <2>4. all[j] = l[i]
    BY ONLY <2>1, <2>2, <2>3
  <2> QED  BY ONLY <2>1, <2>4
<1>7. Len(all) = Len(es) + (hi - lo)
  BY ONLY <1>1, <1>3
<1> QED  BY ONLY <1>3, <1>4, <1>5, <1>6, <1>7 DEF Joined

\* new is l with e put in at place k.
Widened(new, l, k, e) ==
    /\ new \in Seq(Nat) /\ Len(new) = Len(l) + 1
    /\ new[k] = e
    /\ \A i \in DOMAIN new : /\ i < k => i \in DOMAIN l /\ new[i] = l[i]
                             /\ i > k => i - 1 \in DOMAIN l /\ new[i] = l[i - 1]
    /\ \A i \in DOMAIN l : /\ i < k => i \in DOMAIN new /\ new[i] = l[i]
                           /\ i >= k => i + 1 \in DOMAIN new /\ new[i + 1] = l[i]

LEMMA Inserted ==
    ASSUME NEW l \in Seq(Nat), NEW k \in 1..Len(l) + 1, NEW e \in Nat,
           NEW new, new = InsertAt(l, k, e)
    PROVE  Widened(new, l, k, e)
<1> DEFINE a == SubSeq(l, 1, k - 1)
           b == SubSeq(l, k, Len(l))
<1>1. a \in Seq(Nat) /\ Len(a) = k - 1 /\ \A i \in 1..(k - 1) : a[i] = l[i]
  OBVIOUS
<1>2. b \in Seq(Nat) /\ Len(b) = Len(l) - k + 1 /\ \A i \in 1..(Len(l) - k + 1) : b[i] = l[k + i - 1]
  OBVIOUS
<1>3. new = (a \o <<e>>) \o b
  BY DEF InsertAt
<1> HIDE DEF a, b
<1>4. /\ a \o <<e>> \in Seq(Nat) /\ Len(a \o <<e>>) = k
      /\ \A i \in 1..k : (a \o <<e>>)[i] = IF i < k THEN l[i] ELSE e
  <2>1. <<e>> \in Seq(Nat) /\ Len(<<e>>) = 1 /\ <<e>>[1] = e
    OBVIOUS
  <2> DEFINE u == <<e>>
  <2> HIDE DEF u
  <2>2. u \in Seq(Nat) /\ Len(u) = 1 /\ u[1] = e
    BY ONLY <2>1 DEF u
  <2>3. /\ a \o u \in Seq(Nat) /\ Len(a \o u) = Len(a) + 1
        /\ \A i \in 1..Len(a) + 1 : (a \o u)[i] = IF i <= Len(a) THEN a[i] ELSE u[i - Len(a)]
    <3>1. /\ a \o u \in Seq(Nat) /\ Len(a \o u) = Len(a) + Len(u)
          /\ \A i \in 1..Len(a) + Len(u) :
                 (a \o u)[i] = IF i <= Len(a) THEN a[i] ELSE u[i - Len(a)]
      BY ONLY <1>1, <2>2, ConcatProperties
    <3> QED  BY ONLY <3>1, <2>2
  <2>4. k \in Nat /\ k - 1 + 1 = k /\ Len(a) + 1 = k /\ \A i \in 1..k : i <= Len(a) <=> i < k
    BY <1>1
  <2>5. \A i \in 1..k : (a \o u)[i] = IF i < k THEN l[i] ELSE e
    <3> SUFFICES ASSUME NEW i \in 1..k PROVE (a \o u)[i] = IF i < k THEN l[i] ELSE e
      OBVIOUS
    <3>1. (a \o u)[i] = IF i <= Len(a) THEN a[i] ELSE u[i - Len(a)]
      BY ONLY <2>3, <2>4
    <3>2. CASE i < k
      <4>1. i \in 1..(k - 1)
        BY ONLY <2>4, <3>2
      <4> QED  BY ONLY <1>1, <2>4, <3>1, <3>2, <4>1
    <3>3. CASE ~(i < k)
      <4>1. i = k /\ i - Len(a) = 1
        BY ONLY <2>4, <1>1, <3>3
      <4> QED  BY ONLY <2>2, <2>4, <3>1, <3>3, <4>1
    <3> QED  BY ONLY <3>2, <3>3
  <2> QED  BY ONLY <2>3, <2>4, <2>5 DEF u
<1> DEFINE c == a \o <<e>>
<1>5. c \in Seq(Nat) /\ Len(c) = k /\ \A i \in 1..k : c[i] = IF i < k THEN l[i] ELSE e
  BY <1>4
<1>6. new = c \o b
  BY <1>3
<1> HIDE DEF c
<1>7. /\ new \in Seq(Nat) /\ Len(new) = Len(c) + Len(b)
      /\ \A i \in 1..Len(c) + Len(b) : new[i] = IF i <= Len(c) THEN c[i] ELSE b[i - Len(c)]
  BY ONLY <1>2, <1>5, <1>6, ConcatProperties
<1>8. /\ Len(new) = Len(l) + 1 /\ Len(l) \in Nat /\ k \in 1..Len(l) + 1 /\ k \in Nat
      /\ DOMAIN new = 1..Len(l) + 1 /\ DOMAIN l = 1..Len(l)
      /\ Len(c) = k /\ Len(c) + Len(b) = Len(l) + 1
  <2>1. Len(l) \in Nat /\ DOMAIN l = 1..Len(l) /\ DOMAIN new = 1..Len(new)
    BY ONLY <1>7, LenProperties, l \in Seq(Nat)
  <2> QED  BY ONLY <2>1, <1>2, <1>5, <1>7, k \in 1..Len(l) + 1
<1>9. \A i \in 1..Len(l) + 1 :
          /\ i < k => new[i] = l[i]
          /\ i = k => new[i] = e
          /\ i > k => new[i] = l[i - 1]
  <2> SUFFICES ASSUME NEW i \in 1..Len(l) + 1
               PROVE  /\ i < k => new[i] = l[i]
                      /\ i = k => new[i] = e
                      /\ i > k => new[i] = l[i - 1]
    OBVIOUS
  <2>1. new[i] = IF i <= k THEN c[i] ELSE b[i - k]
    BY ONLY <1>7, <1>8
  <2>2. i <= k => i \in 1..k
    BY ONLY <1>8
  <2>3. i > k => i - k \in 1..(Len(l) - k + 1) /\ k + (i - k) - 1 = i - 1 /\ ~(i <= k)
    BY ONLY <1>8
  <2>4. i > k => b[i - k] = l[k + (i - k) - 1]
    BY ONLY <1>2, <2>3
  <2>5. /\ i < k => i <= k /\ ~(i = k)
        /\ i = k => i <= k /\ ~(i < k)
    BY ONLY <1>8
  <2> QED  BY ONLY <1>5, <2>1, <2>2, <2>3, <2>4, <2>5
<1>10. \A i \in DOMAIN new : /\ i < k => i \in DOMAIN l /\ new[i] = l[i]
                             /\ i > k => i - 1 \in DOMAIN l /\ new[i] = l[i - 1]
  BY ONLY <1>8, <1>9
<1>11. \A i \in DOMAIN l : /\ i < k => i \in DOMAIN new /\ new[i] = l[i]
                           /\ i >= k => i + 1 \in DOMAIN new /\ new[i + 1] = l[i]
  <2> SUFFICES ASSUME NEW i \in DOMAIN l
               PROVE  /\ i < k => i \in DOMAIN new /\ new[i] = l[i]
                      /\ i >= k => i + 1 \in DOMAIN new /\ new[i + 1] = l[i]
    OBVIOUS
  <2>1. i \in DOMAIN new /\ i + 1 \in DOMAIN new /\ (i + 1) - 1 = i /\ (i >= k => i + 1 > k)
    BY ONLY <1>8
  <2> QED  BY ONLY <1>8, <1>9, <2>1
<1>12. new[k] = e
  BY ONLY <1>8, <1>9
<1> QED  BY ONLY <1>7, <1>8, <1>10, <1>11, <1>12 DEF Widened

-----------------------------------------------------------------------------
(* The pages.                                                              *)

LEMMA NewestFacts ==
    ASSUME Typed, Listed, NEW es \in SUBSET Events, es # {}
    PROVE  /\ Newest(es) \in 1..now
           /\ \E e \in es : created[e] = Newest(es)
           /\ \A e \in es : created[e] <= Newest(es)
<1> DEFINE S == {created[e] : e \in es}
<1>1. S \subseteq 1..now /\ S # {} /\ now \in Nat
  BY DEF Typed, Listed
<1>2. IsFiniteSet(1..now)
  <2>1. 1 \in Int /\ now \in Int
    BY <1>1
  <2> QED  BY <2>1, FS_Interval
<1> HIDE DEF S
<1>3. IsFiniteSet(S)
  BY <1>1, <1>2, FS_Subset
<1>4. S \subseteq Nat
  BY <1>1
<1>5. Greatest(S) \in S /\ \A n \in S : n <= Greatest(S)
  BY <1>1, <1>3, <1>4, GreatestNatural
<1>6. Newest(es) = Greatest(S)
  BY DEF Newest, S
<1> QED  BY <1>1, <1>5, <1>6 DEF S

LEMMA NewIsNotPassed ==
    ASSUME Typed, Listed, Dated(st)
    PROVE  \A e \in Events : IsNew(e) <=> e \notin Passed(st)
<1> SUFFICES ASSUME NEW e \in Events PROVE IsNew(e) <=> e \notin Passed(st)
  OBVIOUS
<1>1. created[e] \in Nat /\ st.at \in Nat
  BY DEF Typed, Listed, States
<1>2. e \in st.ids => created[e] = st.at
  BY DEF Dated
<1> QED  BY <1>1, <1>2 DEF IsNew, Passed

\* What is known of the pages read so far, with the etag of the first one.
Knows(g) ==
    /\ g \in Gots /\ g.etag \in 1..Etag
    /\ \A j \in DOMAIN g.events : g.events[j] \in Events
    /\ \A i \in DOMAIN list : PageKnows(g, i)
    /\ "shift" \notin mishaps => InOrder(g.events) /\ OneList(g)

LEMMA KnowsSoFar ==
    ASSUME MonitorInv, phase \in {"idle", "fetch"}
    PROVE  /\ Knows([got EXCEPT !.etag = Got.etag])
           /\ got.n < MaxPages /\ got.n * PageSize <= Len(list)
<1>0. Len(list) \in Nat /\ PageSize \in Nat /\ MaxPages \in Nat \ {0} /\ Etag \in Nat \ {0}
      /\ Etag = Len(list) + 1
  BY GithubAssumption DEF MonitorInv, Typed, Etag
<1>1. CASE phase = "fetch"
  <2>1. got.n # 0 /\ got.n \in Nat /\ got \in Gots
    BY <1>1 DEF MonitorInv, Phases, Typed, Gots
  <2>2. Got.etag = got.etag
    BY <2>1 DEF Got, Gots
  <2>3. [got EXCEPT !.etag = Got.etag] = got
    BY <2>1, <2>2 DEF Gots
  <2> QED  BY <1>1, <2>1, <2>3 DEF MonitorInv, Phases, PagesKnow, PagesAgree, Knows
<1>2. CASE phase = "idle"
  <2>1. got = NoPages
    BY <1>2 DEF MonitorInv, Phases
  <2>2. Got.etag = Etag
    BY <2>1 DEF Got, NoPages
  <2> DEFINE g == [got EXCEPT !.etag = Got.etag]
  <2>3. g.n = 0 /\ g.events = <<>> /\ g.etag = Etag /\ g \in Gots
    <3>1. g = [n |-> 0, events |-> <<>>, etag |-> Etag]
      BY <2>1, <2>2 DEF NoPages
    <3>2. <<>> \in Seq(Nat)
      OBVIOUS
    <3> HIDE DEF g
    <3> QED  BY <1>0, <3>1, <3>2 DEF Gots
  <2> HIDE DEF g
  <2>4. DOMAIN g.events = {} /\ Len(g.events) = 0
    BY <2>3
  <2>5. 0 * PageSize = 0
    BY <1>0
  <2>6. \A i \in DOMAIN list : PageKnows(g, i)
    <3>1. \A i \in DOMAIN list : i > 0
      BY DEF MonitorInv, Typed
    <3> QED  BY <2>3, <2>5, <3>1 DEF PageKnows
  <2>7. InOrder(g.events) /\ OneList(g)
    BY <1>0, <2>3, <2>4, <2>5 DEF InOrder, OneList
  <2>8. Knows(g)
    BY <1>0, <2>3, <2>4, <2>6, <2>7 DEF Knows
  <2> QED  BY <1>0, <2>1, <2>5, <2>8 DEF NoPages, g
<1> QED  BY <1>1, <1>2

LEMMA NextPageKnows ==
    ASSUME MonitorInv, NEW h, Knows(h), h.n < MaxPages, h.n * PageSize <= Len(list),
           NEW g, g = [n |-> h.n + 1, events |-> h.events \o Page(h.n + 1), etag |-> h.etag]
    PROVE  /\ Knows(g) /\ g.n \in Nat \ {0} /\ g.n <= MaxPages
           /\ More(g.n) => g.n * PageSize <= Len(list)
<1> DEFINE lo == h.n * PageSize
           all == g.events
<1>0. /\ list \in Seq(Nat) /\ Len(list) \in Nat /\ DOMAIN list = 1..Len(list)
      /\ PageSize \in Nat \ {0} /\ MaxPages \in Nat
      /\ h.n \in Nat /\ h.events \in Seq(Nat) /\ h.etag \in Nat
  BY GithubAssumption, LenProperties DEF MonitorInv, Typed, Knows, Gots
<1>1. lo \in Nat /\ (h.n + 1) * PageSize = lo + PageSize
  BY <1>0, PageEnds
<1>2. g.n = h.n + 1 /\ g.etag = h.etag /\ g.n * PageSize = lo + PageSize
  BY <1>1
<1>5. h.n * PageSize = lo /\ lo <= Len(list)
  OBVIOUS
<1>3. PICK hi \in Nat : /\ lo <= hi /\ hi <= Len(list)
                        /\ hi <= lo + PageSize /\ (hi < lo + PageSize => hi >= Len(list))
                        /\ Page(h.n + 1) = SubSeq(list, lo + 1, hi)
  <2>1. (h.n + 1) - 1 = h.n
    BY <1>0
  <2>2. Page(h.n + 1) = SubSeq(list, lo + 1, IF lo + PageSize < Len(list) THEN lo + PageSize ELSE Len(list))
    BY <1>1, <2>1 DEF Page
  <2> HIDE DEF lo
  <2> DEFINE hi == IF lo + PageSize < Len(list) THEN lo + PageSize ELSE Len(list)
  <2>4. lo \in Nat /\ lo <= Len(list) /\ Len(list) \in Nat /\ PageSize \in Nat \ {0}
    BY ONLY <1>0, <1>1, <1>5
  <2>3. hi \in Nat /\ lo <= hi /\ hi <= Len(list)
        /\ hi <= lo + PageSize /\ (hi < lo + PageSize => hi >= Len(list))
    BY ONLY <2>4
  <2> QED  BY <2>2, <2>3
<1>4. all = h.events \o SubSeq(list, lo + 1, hi)
  BY <1>3
<1> HIDE DEF lo, all
<1>20. /\ lo \in Nat /\ hi \in Nat /\ PageSize \in Nat \ {0} /\ Len(list) \in Nat
      /\ lo <= hi /\ hi <= Len(list) /\ lo <= Len(list)
      /\ hi <= lo + PageSize /\ (hi < lo + PageSize => hi >= Len(list))
  <2>1. Len(list) \in Nat /\ PageSize \in Nat \ {0}
    BY ONLY <1>0
  <2> QED  BY ONLY <2>1, <1>1, <1>3, <1>5, hi \in Nat
<1>21. DOMAIN list = 1..Len(list) /\ Len(list) \in Nat
  BY ONLY <1>0
<1>6. /\ all \in Seq(Nat) /\ Len(all) = Len(h.events) + (hi - lo)
      /\ \A j \in DOMAIN all :
             \/ j \in DOMAIN h.events /\ all[j] = h.events[j]
             \/ /\ j > Len(h.events)
                /\ j - Len(h.events) + lo \in (lo + 1)..hi
                /\ j - Len(h.events) + lo \in DOMAIN list
                /\ all[j] = list[j - Len(h.events) + lo]
      /\ \A j \in DOMAIN h.events : j \in DOMAIN all /\ all[j] = h.events[j]
      /\ \A i \in (lo + 1)..hi : \E j \in DOMAIN all : all[j] = list[i]
  <2>1. h.events \in Seq(Nat) /\ list \in Seq(Nat)
    BY ONLY <1>0
  <2>2. lo \in Nat /\ hi \in Nat /\ lo <= hi /\ hi <= Len(list)
    BY ONLY <1>20
  <2> DEFINE es == h.events
  <2>3. es \in Seq(Nat) /\ list \in Seq(Nat) /\ all = es \o SubSeq(list, lo + 1, hi)
    BY ONLY <1>4, <2>1
  <2> HIDE DEF es
  <2>4. Joined(all, es, list, lo, hi)
    BY ONLY <2>3, <2>2, Extended
  <2> QED  BY ONLY <2>4 DEF es, Joined
<1>7. /\ \A e \in Events : created[e] \in Nat
      /\ \A i \in DOMAIN list : list[i] \in Events
      /\ \A i, j \in DOMAIN list : i < j => created[list[j]] <= created[list[i]]
  BY DEF MonitorInv, Listed, Newer, NewerIn
<1>8. g \in Gots /\ g.etag \in 1..Etag /\ g.events = all
  <2>1. g.events = all
    BY DEF all
  <2>2. g.n \in Nat /\ g.etag \in Nat /\ g.events \in Seq(Nat)
    BY ONLY <1>0, <1>2, <1>6, <2>1
  <2>3. g = [n |-> g.n, events |-> g.events, etag |-> g.etag]
    OBVIOUS
  <2>4. g \in Gots
    BY ONLY <2>2, <2>3 DEF Gots
  <2> QED  BY <1>2, <2>1, <2>4 DEF Knows
<1>9. \A j \in DOMAIN all : all[j] \in Events
  BY <1>6, <1>7 DEF Knows
<1>10. ASSUME NEW i \in DOMAIN list PROVE PageKnows(g, i)
  <2>6. i \in Nat
    BY ONLY <1>21, i \in DOMAIN list
  <2>10. i <= Len(list)
    BY ONLY <1>21, i \in DOMAIN list
  <2>1. CASE \E j \in DOMAIN h.events : h.events[j] = list[i]
    BY <1>6, <1>8, <2>1 DEF PageKnows
  <2>2. CASE i > lo /\ i <= hi
    <3>1. i \in (lo + 1)..hi
      BY ONLY <1>20, <2>2, <2>6
    <3> QED  BY <1>6, <1>8, <3>1 DEF PageKnows
  <2>3. CASE i > lo /\ i > hi
    <3>1. i > lo + PageSize
      BY ONLY <1>20, <2>3, <2>6, <2>10
    <3> QED  BY <1>2, <3>1 DEF PageKnows
  <2>4. CASE /\ i <= lo /\ list[i] >= h.etag
             /\ \A j \in DOMAIN h.events : created[h.events[j]] <= created[list[i]]
    <3>1. ASSUME NEW j \in DOMAIN all PROVE created[all[j]] <= created[list[i]]
      <4>1. CASE j \in DOMAIN h.events /\ all[j] = h.events[j]
        BY <2>4, <4>1
      <4>2. CASE /\ j - Len(h.events) + lo \in (lo + 1)..hi
                 /\ j - Len(h.events) + lo \in DOMAIN list
                 /\ all[j] = list[j - Len(h.events) + lo]
        <5> DEFINE m == j - Len(h.events) + lo
        <5>1. m \in (lo + 1)..hi /\ m \in DOMAIN list /\ all[j] = list[m]
          BY <4>2
        <5> HIDE DEF m
        <5>2. i < m
          BY ONLY <1>20, <2>4, <5>1, <2>6
        <5> QED  BY <1>7, <5>1, <5>2
      <4> QED  BY <1>6, <4>1, <4>2
    <3> QED  BY <1>2, <1>8, <2>4, <3>1 DEF PageKnows
  <2>5. PageKnows(h, i)
    BY DEF Knows
  <2>7. \/ \E j \in DOMAIN h.events : h.events[j] = list[i]
        \/ i > lo
        \/ /\ list[i] >= h.etag
           /\ \A j \in DOMAIN h.events : created[h.events[j]] <= created[list[i]]
    BY <1>5, <2>5 DEF PageKnows
  <2>8. i > lo \/ i <= lo
    BY ONLY <1>20, <2>6
  <2>9. i > hi \/ i <= hi
    BY ONLY <1>20, <2>6
  <2> QED  BY <2>1, <2>2, <2>3, <2>4, <2>7, <2>8, <2>9
<1>11. ASSUME "shift" \notin mishaps PROVE InOrder(all) /\ OneList(g)
  <2>1. InOrder(h.events) /\ OneList(h)
    BY <1>11 DEF Knows
  <2>2. Len(h.events) \in Nat /\ DOMAIN h.events = 1..Len(h.events)
        /\ Len(all) \in Nat /\ DOMAIN all = 1..Len(all)
    BY <1>0, <1>6, LenProperties
  <2>3. Len(h.events) = lo
    BY <1>0, <1>1, <1>5, <2>1, <2>2 DEF OneList
  <2>4. Len(all) = hi
    BY ONLY <1>20, <1>6, <2>2, <2>3
  <2>5. \A j \in DOMAIN all : j <= Len(list) /\ all[j] = list[j]
    <3> SUFFICES ASSUME NEW j \in DOMAIN all PROVE j <= Len(list) /\ all[j] = list[j]
      OBVIOUS
    <3>1. j <= Len(list) /\ j \in Nat
      BY <1>3, <2>2, <2>4
    <3>2. CASE j \in DOMAIN h.events /\ all[j] = h.events[j]
      BY <2>1, <3>1, <3>2 DEF OneList
    <3>3. CASE all[j] = list[j - Len(h.events) + lo]
      <4>1. j - Len(h.events) + lo = j
        BY <1>1, <2>3, <3>1
      <4> QED  BY <3>1, <3>3, <4>1
    <3> QED  BY <1>6, <3>2, <3>3
  <2>6. InOrder(all)
    <3>1. \A i \in DOMAIN all : i \in DOMAIN list
      BY <1>0, <2>2, <2>5
    <3>2. \A i, j \in DOMAIN list : i < j => Newer(list[i], list[j])
      BY DEF MonitorInv, Listed
    <3> QED  BY <2>5, <3>1, <3>2 DEF InOrder
  <2>7. OneList(g)
    <3>1. hi <= g.n * PageSize /\ (hi = g.n * PageSize \/ hi = Len(list)) /\ hi <= Len(list)
      BY <1>20, <1>2
    <3> QED  BY <1>2, <1>8, <2>1, <2>4, <2>5, <3>1 DEF OneList
  <2> QED  BY <2>6, <2>7
<1>12. Knows(g)
  BY <1>8, <1>9, <1>10, <1>11 DEF Knows
<1>13. More(g.n) => g.n * PageSize <= Len(list)
  BY <1>0, <1>1, <1>2 DEF More
<1>14. g.n \in Nat \ {0} /\ g.n <= MaxPages
  BY <1>0, <1>2
<1> QED  BY <1>12, <1>13, <1>14

LEMMA GotFacts ==
    ASSUME MonitorInv, phase \in {"idle", "fetch"}
    PROVE  /\ Knows(Got) /\ Got.n \in Nat \ {0} /\ Got.n <= MaxPages
           /\ More(Got.n) => Got.n * PageSize <= Len(list)
<1> DEFINE h == [got EXCEPT !.etag = Got.etag]
           g == [n |-> h.n + 1, events |-> h.events \o Page(h.n + 1), etag |-> h.etag]
<1>1. Knows(h) /\ got.n < MaxPages /\ got.n * PageSize <= Len(list)
  BY KnowsSoFar
<1>2. h.n = got.n /\ h.events = got.events /\ h.etag = Got.etag
  BY DEF MonitorInv, Typed, Gots
<1>3. Got = g
  BY <1>2 DEF Got
<1> HIDE DEF h
<1>4. Knows(h) /\ h.n < MaxPages /\ h.n * PageSize <= Len(list)
  BY <1>1, <1>2
<1>5. g = [n |-> h.n + 1, events |-> h.events \o Page(h.n + 1), etag |-> h.etag]
  OBVIOUS
<1> HIDE DEF g
<1>6. /\ Knows(g) /\ g.n \in Nat \ {0} /\ g.n <= MaxPages
      /\ More(g.n) => g.n * PageSize <= Len(list)
  BY <1>4, <1>5, NextPageKnows
<1> QED  BY <1>3, <1>6

-----------------------------------------------------------------------------
(* The invariant holds.                                                    *)

LEMMA QuietList ==
    ASSUME Typed, Listed, UNCHANGED <<created, list>>, now' \in Nat, now <= now'
    PROVE  /\ Events' = Events /\ Listed'
           /\ \A s \in States : Dated(s) => Dated(s)'
<1>1. Events' = Events /\ Len(list)' = Len(list)
  BY DEF Events
<1>2. \A e \in Events : created'[e] \in 1..now'
  BY DEF Typed, Listed
<1>3. Listed'
  BY <1>1, <1>2 DEF Listed, Newer, NewerIn
<1>4. ASSUME NEW s \in States, Dated(s) PROVE Dated(s)'
  <2>1. s.at \in Nat /\ now \in Nat
    BY DEF States, Typed
  <2> QED  BY <1>1, <1>4, <2>1 DEF Dated
<1> QED  BY <1>1, <1>3, <1>4

LEMMA FreshIsDated == Typed => Fresh \in States /\ Dated(Fresh)
BY DEF Typed, Fresh, States, Dated

LEMMA SeedDates ==
    ASSUME Typed, Listed, Dated(st), NEW es \in SUBSET Events, NEW etag \in Nat,
           Seed(es, etag)
    PROVE  /\ st' \in States /\ Dated(st') /\ disk' \in {st', disk}
           /\ base' \in SUBSET Events /\ out' = {} /\ st'.etag = etag
<1>1. CASE es = {}
  <2>1. st' = [st EXCEPT !.etag = etag]
    BY <1>1 DEF Seed
  <2>2. st' \in States /\ st'.at = st.at /\ st'.ids = st.ids /\ st'.etag = etag
    BY <2>1 DEF Typed, States
  <2> QED  BY <2>2 DEF Seed, SaveOf, Typed, Dated
<1>2. CASE es # {}
  <2>1. st' = [at |-> Newest(es), ids |-> AtSecond(es, Newest(es)), etag |-> etag]
    BY <1>2 DEF Seed
  <2>2. Newest(es) \in 1..now /\ now \in Nat
    BY <1>2, NewestFacts DEF Typed
  <2>3. AtSecond(es, Newest(es)) \in SUBSET Nat
    <3>1. Len(created) \in Nat
      BY LenProperties DEF Typed
    <3>2. Events \subseteq Nat
      BY <3>1 DEF Events
    <3> QED  BY <3>2 DEF AtSecond
  <2>4. st' \in States /\ st'.at = Newest(es) /\ st'.ids = AtSecond(es, Newest(es)) /\ st'.etag = etag
    BY <2>1, <2>2, <2>3 DEF States
  <2>5. Dated(st')
    BY <2>2, <2>4 DEF Dated, AtSecond
  <2> QED  BY <2>4, <2>5 DEF Seed, SaveOf, Typed
<1> QED  BY <1>1, <1>2

LEMMA AdvancedFacts ==
    ASSUME Typed, Listed, Dated(st), NEW es \in SUBSET Events, es # {},
           \A e \in es : IsNew(e), NEW etag \in Nat,
           NEW s, s = Advanced(es, etag)
    PROVE  /\ s \in States /\ Dated(s) /\ s.at = Newest(es) /\ s.etag = etag
           /\ es \subseteq Passed(s) /\ Passed(st) \subseteq Passed(s)
           /\ \A e \in Passed(s) : e \in Passed(st) \/ e \in es \/ created[e] < Newest(es)
<1>1. /\ Newest(es) \in 1..now /\ now \in Nat
      /\ \E e \in es : created[e] = Newest(es)
      /\ \A e \in es : created[e] <= Newest(es)
  BY NewestFacts DEF Typed
<1>2. /\ st.at \in Nat /\ \A e \in Events : created[e] \in Nat /\ e \in Nat
      /\ \A e \in st.ids : e \in Events /\ created[e] = st.at
  BY DEF Typed, Listed, States, Dated, Events
<1>3. st.at <= Newest(es)
  <2>1. PICK e \in es : created[e] = Newest(es)
    BY <1>1
  <2> QED  BY <1>1, <1>2, <2>1 DEF IsNew
<1> DEFINE ids == AtSecond(es, Newest(es)) \cup IF Newest(es) = st.at THEN st.ids ELSE {}
<1>4. ids \in SUBSET Nat
  BY <1>2 DEF AtSecond
<1>5. s.at = Newest(es) /\ s.ids = ids /\ s.etag = etag /\ s = [at |-> Newest(es), ids |-> ids, etag |-> etag]
  BY DEF Advanced
<1>6. \A e \in ids : e \in Events /\ created[e] = Newest(es)
  BY <1>2 DEF AtSecond
<1>7. s \in States
  <2> HIDE DEF ids
  <2> QED  BY <1>1, <1>4, <1>5 DEF States
<1>8. Dated(s)
  BY <1>1, <1>5, <1>6 DEF Dated
<1>9. es \subseteq Passed(s)
  BY <1>1, <1>2, <1>5 DEF Passed, AtSecond
<1>10. Passed(st) \subseteq Passed(s)
  BY <1>1, <1>2, <1>3, <1>5 DEF Passed
<1>11. \A e \in Passed(s) : e \in Passed(st) \/ e \in es \/ created[e] < Newest(es)
  BY <1>2, <1>5 DEF Passed, AtSecond
<1> QED  BY <1>5, <1>7, <1>8, <1>9, <1>10, <1>11

LEMMA InitMonitor == Init => MonitorInv
<1> SUFFICES ASSUME Init PROVE MonitorInv
  OBVIOUS
<1>1. created \in Seq(Nat) /\ Len(created) \in 0..1 /\ (Len(created) = 1 => created[1] = 1)
  BY DEF Init
<1>2. DOMAIN created = 1..Len(created)
  BY <1>1
<1>3. list \in Seq(Nat) /\ Len(list) = Len(created) /\ \A i \in DOMAIN list : list[i] = i
      /\ DOMAIN list = 1..Len(list)
  <2>1. list = [i \in 1..Len(created) |-> i]
    BY <1>2 DEF Init
  <2> QED  BY <1>1, <2>1
<1>4. \A e \in Events : e = 1 /\ created[e] = 1
  <2> SUFFICES ASSUME NEW e \in Events PROVE e = 1 /\ created[e] = 1
    OBVIOUS
  <2> DEFINE n == Len(created)
  <2>1. n \in 0..1 /\ e \in 1..n
    BY <1>1 DEF Events
  <2> HIDE DEF n
  <2>2. e = 1 /\ n = 1
    BY ONLY <2>1
  <2> QED  BY ONLY <1>1, <2>2 DEF n
<1>5. Typed
  BY <1>1, <1>3 DEF Init, Typed, Fresh, States, NoPages, Gots
<1>6. Listed
  <2>1. \A i, j \in DOMAIN list : ~(i < j)
    BY <1>1, <1>3
  <2> QED  BY <1>1, <1>3, <1>4, <2>1 DEF Listed, Events, Init
<1>7. Dated(st) /\ Dated(disk)
  BY DEF Dated, Init, Fresh
<1>8. Phases /\ PagesKnow /\ PagesAgree
  <2>1. DOMAIN got.events = {}
    BY DEF Init, NoPages
  <2> QED  BY <2>1 DEF Init, Phases, PagesKnow, PagesAgree, InOrder
<1> QED  BY <1>5, <1>6, <1>7, <1>8 DEF MonitorInv

\* The four ends of reading a page.
Reads ==
    /\ phase \in {"idle", "fetch"}
    /\ UNCHANGED <<created, list, now, stopping, posted, again, lost>>

ReadsOn ==
    /\ Reads /\ ~Done(Got.n) /\ got' = Got /\ phase' = "fetch"
    /\ UNCHANGED <<st, disk, out, base, seeded, mishaps>>

ReadsSeed ==
    /\ Reads /\ Done(Got.n) /\ FirstRun
    /\ Seed(ToSet(Got.events), Got.etag) /\ got' = NoPages /\ phase' = "idle"

ReadsNews ==
    /\ Reads /\ Done(Got.n) /\ ~FirstRun
    /\ Announce(Got.events, Got.etag) /\ Unread /\ got' = Got /\ phase' = "send"

ReadsNothing ==
    /\ Reads /\ ~FirstRun
    /\ NothingNew(Got.events, Got.etag) /\ got' = NoPages /\ phase' = "idle"

LEMMA FetchSplits == FetchPage => ReadsOn \/ ReadsSeed \/ ReadsNews \/ ReadsNothing
BY DEF FetchPage, Reads, ReadsOn, ReadsSeed, ReadsNews, ReadsNothing, listVars

\* The events that are announced, or would be if they were of interest.
Taken == {Got.events[i] : i \in Accepted(Got.events)}

LEMMA ReadFacts ==
    ASSUME MonitorInv, phase \in {"idle", "fetch"}
    PROVE  /\ ToSet(Got.events) \in SUBSET Events /\ Taken \in SUBSET ToSet(Got.events)
           /\ Taken \in SUBSET Events /\ \A e \in Taken : IsNew(e)
           /\ \A e \in ToSet(Got.events) : IsNew(e) => e \in Taken
           /\ Accepted(Got.events) # {} => Taken # {}
           /\ Got.etag \in Nat \ {0} /\ Got \in Gots
           /\ Accepted(Got.events) \in SUBSET Nat
<1>1. Knows(Got)
  BY GotFacts
<1>2. ToSet(Got.events) \in SUBSET Events
  BY <1>1 DEF Knows, ToSet
<1>3. Taken \in SUBSET ToSet(Got.events) /\ (\A e \in Taken : IsNew(e))
      /\ (Accepted(Got.events) # {} => Taken # {})
      /\ \A e \in ToSet(Got.events) : IsNew(e) => e \in Taken
  BY DEF Taken, Accepted, ToSet
<1>4. Got.etag \in Nat \ {0} /\ Got \in Gots
  <2>1. Etag \in Nat
    BY LenProperties DEF MonitorInv, Typed, Etag
  <2> QED  BY <1>1, <2>1 DEF Knows
<1>5. DOMAIN Got.events \subseteq Nat
  <2>1. Got.events \in Seq(Nat)
    BY <1>4 DEF Gots
  <2>2. DOMAIN Got.events = 1..Len(Got.events)
    BY <2>1, LenProperties
  <2> QED  BY <2>2
<1> QED  BY <1>2, <1>3, <1>4, <1>5 DEF Accepted

LEMMA Rests ==
    ASSUME got' = NoPages, out' = {}, phase' \in {"off", "idle"}, phase' = "off" => st' = Fresh
    PROVE  Phases' /\ PagesKnow' /\ PagesAgree'
<1>1. DOMAIN NoPages.events = {}
  BY DEF NoPages
<1> QED  BY <1>1 DEF Phases, PagesKnow, PagesAgree, InOrder

\* A step after which nothing is read or sent.
LEMMA RestKeeps ==
    ASSUME MonitorInv, UNCHANGED <<created, list, now>>,
           st' \in States, Dated(st'), disk' \in {st, st', disk},
           got' = NoPages, out' = {}, phase' \in {"off", "idle"}, phase' = "off" => st' = Fresh,
           posted' = posted, lost' = lost, base' \in SUBSET Events
    PROVE  MonitorInv'
<1>1. Typed /\ Listed /\ Dated(st) /\ Dated(disk) /\ now \in Nat
  BY DEF MonitorInv, Typed
<1>2. Events' = Events /\ Listed' /\ \A s \in States : Dated(s) => Dated(s)'
  BY <1>1, QuietList
<1>3. disk' \in States /\ Dated(disk')
  BY <1>1 DEF Typed
<1>4. Dated(st)' /\ Dated(disk)'
  BY <1>1, <1>2, <1>3 DEF Dated
<1>5. NoPages \in Gots
  BY DEF NoPages, Gots
<1>6. Typed'
  BY <1>1, <1>2, <1>3, <1>5 DEF Typed
<1>7. Phases' /\ PagesKnow' /\ PagesAgree'
  BY Rests
<1> QED  BY <1>2, <1>4, <1>6, <1>7 DEF MonitorInv

LEMMA BootKeeps == ASSUME MonitorInv, Boot PROVE MonitorInv'
<1>1. st' \in {disk, Fresh} /\ phase' = "idle" /\ UNCHANGED <<created, list, now, disk, got, out, posted, lost, base>>
  BY DEF Boot, listVars
<1>2. got = NoPages /\ out = {} /\ base \in SUBSET Events
  BY DEF Boot, MonitorInv, Phases, Typed
<1>3. st' \in States /\ Dated(st')
  BY <1>1, FreshIsDated DEF MonitorInv, Typed
<1> QED  BY <1>1, <1>2, <1>3, RestKeeps

LEMMA EndKeeps ==
    ASSUME MonitorInv, Exit \/ Crash
    PROVE  MonitorInv'
<1>1. /\ UNCHANGED <<created, list, now, posted, lost, base>> /\ disk' \in {st, disk}
      /\ phase' = "off" /\ st' = Fresh /\ got' = NoPages /\ out' = {}
  BY DEF Exit, Crash, Ended, listVars, SaveOf
<1>2. st' \in States /\ Dated(st') /\ base \in SUBSET Events
  BY <1>1, FreshIsDated DEF MonitorInv, Typed
<1> QED  BY <1>1, <1>2, RestKeeps

LEMMA BackKeeps ==
    ASSUME MonitorInv, FetchFails \/ Sent
    PROVE  MonitorInv'
<1>1. /\ UNCHANGED <<created, list, now, posted, lost, base, st>> /\ disk' \in {st, disk}
      /\ phase' = "idle" /\ got' = NoPages /\ out' = {}
  BY DEF FetchFails, Sent, listVars, histVars, SaveOf, MonitorInv, Phases
<1>2. st' \in States /\ Dated(st') /\ base \in SUBSET Events
  BY <1>1 DEF MonitorInv, Typed
<1> QED  BY <1>1, <1>2, RestKeeps

LEMMA SeedKeeps == ASSUME MonitorInv, ReadsSeed PROVE MonitorInv'
<1>1. phase \in {"idle", "fetch"} /\ Seed(ToSet(Got.events), Got.etag)
  BY DEF ReadsSeed, Reads
<1>2. ToSet(Got.events) \in SUBSET Events /\ Got.etag \in Nat
  BY <1>1, ReadFacts
<1>3. Typed /\ Listed /\ Dated(st)
  BY DEF MonitorInv
<1>4. /\ st' \in States /\ Dated(st') /\ disk' \in {st', disk}
      /\ base' \in SUBSET Events /\ out' = {}
  BY <1>1, <1>2, <1>3, SeedDates
<1>5. /\ UNCHANGED <<created, list, now, posted, lost>>
      /\ phase' = "idle" /\ got' = NoPages
  BY DEF ReadsSeed, Reads
<1> QED  BY <1>4, <1>5, RestKeeps

LEMMA NothingKeeps == ASSUME MonitorInv, ReadsNothing PROVE MonitorInv'
<1>1. phase \in {"idle", "fetch"} /\ NothingNew(Got.events, Got.etag)
  BY DEF ReadsNothing, Reads
<1>2. Got.etag \in Nat
  BY <1>1, ReadFacts
<1>3. st' = [st EXCEPT !.etag = Got.etag] /\ disk' \in {st', disk} /\ out' = {} /\ base' = base
  BY <1>1 DEF NothingNew, SaveOf
<1>4. st' \in States /\ st'.at = st.at /\ st'.ids = st.ids
  BY <1>2, <1>3 DEF MonitorInv, Typed, States
<1>5. Dated(st') /\ base' \in SUBSET Events
  BY <1>3, <1>4 DEF MonitorInv, Dated, Typed
<1>6. /\ UNCHANGED <<created, list, now, posted, lost>>
      /\ phase' = "idle" /\ got' = NoPages
  BY DEF ReadsNothing, Reads
<1> QED  BY <1>3, <1>4, <1>5, <1>6, RestKeeps

LEMMA OnKeeps == ASSUME MonitorInv, ReadsOn PROVE MonitorInv'
<1>1. /\ UNCHANGED <<created, list, now, st, disk, posted, lost, base, out, mishaps>>
      /\ phase \in {"idle", "fetch"} /\ phase' = "fetch" /\ got' = Got /\ ~Done(Got.n)
  BY DEF ReadsOn, Reads
<1>2. Typed /\ Listed /\ Dated(st) /\ Dated(disk) /\ now \in Nat /\ now <= now
  BY DEF MonitorInv, Typed
<1>3. Events' = Events /\ Listed' /\ \A s \in States : Dated(s) => Dated(s)'
  BY <1>1, <1>2, QuietList
<1>4. /\ Knows(Got) /\ Got.n \in Nat \ {0} /\ Got.n <= MaxPages
      /\ More(Got.n) => Got.n * PageSize <= Len(list)
  BY <1>1, GotFacts
<1>5. More(Got.n) /\ Got.n # MaxPages
  BY <1>1 DEF Done
<1>6. Typed'
  BY <1>1, <1>2, <1>3, <1>4 DEF Typed, Knows
<1>7. Dated(st)' /\ Dated(disk)'
  BY <1>1, <1>2, <1>3 DEF Typed, Dated
<1>8. Phases'
  <2>1. out = {}
    BY <1>1 DEF MonitorInv, Phases
  <2>2. Got.n < MaxPages
    BY <1>4, <1>5, GithubAssumption
  <2> QED  BY <1>1, <1>3, <1>4, <1>5, <2>1, <2>2 DEF Phases, Knows, Etag
<1>9. PagesKnow' /\ PagesAgree'
  BY <1>1, <1>4 DEF PagesKnow, PagesAgree, Knows, PageKnows, InOrder, OneList, Newer, NewerIn, Etag
<1> QED  BY <1>3, <1>6, <1>7, <1>8, <1>9 DEF MonitorInv

LEMMA NewsKeeps == ASSUME MonitorInv, ReadsNews PROVE MonitorInv'
<1>1. /\ UNCHANGED <<created, list, now, disk, posted, lost, base>>
      /\ phase \in {"idle", "fetch"} /\ phase' = "send" /\ got' = Got
      /\ Announce(Got.events, Got.etag) /\ mishaps \subseteq mishaps'
  BY DEF ReadsNews, Reads, Announce, Unread
<1>2. Typed /\ Listed /\ Dated(st) /\ Dated(disk) /\ now \in Nat /\ now <= now
  BY DEF MonitorInv, Typed
<1>3. Events' = Events /\ Listed' /\ \A s \in States : Dated(s) => Dated(s)'
  BY <1>1, <1>2, QuietList
<1>4. Knows(Got)
  BY <1>1, GotFacts
<1>5. /\ Taken \in SUBSET Events /\ (\A e \in Taken : IsNew(e)) /\ Taken # {}
      /\ Got.etag \in Nat \ {0} /\ Got \in Gots /\ Accepted(Got.events) \in SUBSET Nat
  BY <1>1, ReadFacts DEF Announce
<1>6. st' = Advanced(Taken, Got.etag)
  BY <1>1 DEF Announce, Taken
<1>7. /\ st' \in States /\ Dated(st') /\ st'.etag = Got.etag /\ Taken \subseteq Passed(st')
  BY <1>2, <1>5, <1>6, AdvancedFacts
<1>8. out' \in SUBSET Accepted(Got.events)
      /\ \A i \in out' : Got.events[i] \in Taken /\ Got.events[i] \notin Ignored
  BY <1>1 DEF Announce, Taken, Wanted
<1>9. Typed'
  BY <1>1, <1>2, <1>3, <1>5, <1>7, <1>8 DEF Typed
<1>10. Dated(st)' /\ Dated(disk)'
  BY <1>1, <1>2, <1>3, <1>7 DEF Typed, Dated
<1>11. Passed(st)' = Passed(st')
  BY <1>1, <1>3 DEF Passed
<1>12. Phases'
  <2>1. out' \in SUBSET (DOMAIN Got.events)
    BY <1>8 DEF Accepted
  <2> QED  BY <1>1, <1>3, <1>4, <1>5, <1>7, <1>8, <1>11, <2>1 DEF Phases, Knows, Etag
<1>13. PagesKnow' /\ PagesAgree'
  BY <1>1, <1>4 DEF PagesKnow, PagesAgree, Knows, InOrder, Newer
<1> QED  BY <1>3, <1>9, <1>10, <1>12, <1>13 DEF MonitorInv

\* Nothing but the clock, the stop, and what is sent.
LEMMA SameKeeps ==
    ASSUME MonitorInv, UNCHANGED <<created, list, st, disk, phase, got, base>>,
           now' \in {now, now + 1}, out' \in SUBSET out, mishaps \subseteq mishaps',
           posted' \in SUBSET Events, lost' \in SUBSET Events
    PROVE  MonitorInv'
<1>1. Typed /\ Listed /\ Dated(st) /\ Dated(disk) /\ now \in Nat /\ now' \in Nat /\ now <= now'
  BY DEF MonitorInv, Typed
<1>2. Events' = Events /\ Listed' /\ \A s \in States : Dated(s) => Dated(s)'
  BY <1>1, QuietList
<1>3. Typed'
  BY <1>1, <1>2 DEF Typed
<1>4. Dated(st)' /\ Dated(disk)'
  BY <1>1, <1>2, <1>3 DEF Typed, Dated
<1>5. Passed(st)' = Passed(st)
  BY <1>2 DEF Passed
<1>6. Phases'
  BY <1>2, <1>5 DEF MonitorInv, Phases, Etag
<1>7. PagesKnow' /\ PagesAgree'
  BY DEF MonitorInv, PagesKnow, PagesAgree, PageKnows, InOrder, OneList, Newer, NewerIn, Etag
<1> QED  BY <1>2, <1>3, <1>4, <1>6, <1>7 DEF MonitorInv

\* The next event to post.
Upcoming == got.events[Following(out)]

LEMMA SendFacts ==
    ASSUME MonitorInv, Send
    PROVE  /\ Following(out) \in out /\ \A i \in out : i <= Following(out)
           /\ Upcoming \in Events /\ Upcoming \in Passed(st) /\ Upcoming \notin Ignored
           /\ Upcoming \in Remaining
           /\ out' = out \ {Following(out)}
           /\ UNCHANGED <<created, list, now, st, disk, phase, got, base, seeded, stopping>>
           /\ mishaps \subseteq mishaps' /\ mishaps' \subseteq mishaps \cup {"unsent"}
           /\ \/ /\ posted' = posted \cup {Upcoming} /\ lost' = lost
                 /\ again' = again \cup ({Upcoming} \cap (posted \cup base))
              \/ posted' = posted /\ lost' = lost \cup {Upcoming} /\ again' = again
<1>1. phase = "send" /\ out # {} /\ out \in SUBSET Nat
  BY DEF Send, MonitorInv, Typed
<1>2. out \in SUBSET (DOMAIN got.events) /\ got.events \in Seq(Nat)
  BY <1>1 DEF MonitorInv, Phases, Typed, Gots
<1>3. IsFiniteSet(out)
  <2>1. Len(got.events) \in Nat /\ DOMAIN got.events = 1..Len(got.events)
    BY <1>2, LenProperties
  <2> DEFINE n == Len(got.events)
  <2>2. 1 \in Int /\ n \in Int /\ out \in SUBSET (1..n)
    BY <1>2, <2>1
  <2> HIDE DEF n
  <2> QED  BY <2>2, FS_Interval, FS_Subset
<1>4. Greatest(out) \in out /\ \A i \in out : i <= Greatest(out)
  BY <1>1, <1>3, GreatestNatural
<1>5. Following(out) = Greatest(out)
  BY DEF Following
<1>6. Upcoming \in Events /\ Upcoming \in Passed(st) /\ Upcoming \notin Ignored
  BY <1>1, <1>2, <1>4, <1>5 DEF MonitorInv, Phases, Upcoming
<1>7. Upcoming \in Remaining
  BY <1>4, <1>5 DEF Remaining, Upcoming
<1>8. /\ out' = out \ {Following(out)}
      /\ UNCHANGED <<created, list, now, st, disk, phase, got, base, seeded, stopping>>
      /\ mishaps \subseteq mishaps' /\ mishaps' \subseteq mishaps \cup {"unsent"}
      /\ \/ /\ posted' = posted \cup {Upcoming} /\ lost' = lost
            /\ again' = again \cup ({Upcoming} \cap (posted \cup base))
         \/ posted' = posted /\ lost' = lost \cup {Upcoming} /\ again' = again
  BY DEF Send, Upcoming, Mishap, listVars
<1> QED  BY <1>4, <1>5, <1>6, <1>7, <1>8

LEMMA SendKeeps == ASSUME MonitorInv, Send PROVE MonitorInv'
<1>1. /\ UNCHANGED <<created, list, st, disk, phase, got, base>> /\ now' = now
      /\ out' \in SUBSET out /\ mishaps \subseteq mishaps'
  BY SendFacts
<1>2. posted \in SUBSET Events /\ lost \in SUBSET Events
  BY DEF MonitorInv, Typed
<1>3. posted' \in SUBSET Events /\ lost' \in SUBSET Events
  BY <1>2, SendFacts
<1> QED  BY <1>1, <1>3, SameKeeps

LEMMA IdleKeeps ==
    ASSUME MonitorInv, Cancelled \/ Tick \/ UNCHANGED vars
    PROVE  MonitorInv'
<1>1. /\ UNCHANGED <<created, list, st, disk, phase, got, base, posted, lost, mishaps, out>>
      /\ now' \in {now, now + 1}
  BY DEF Cancelled, Tick, vars, progVars, listVars, histVars
<1>2. posted' \in SUBSET Events /\ lost' \in SUBSET Events
  BY <1>1 DEF MonitorInv, Typed
<1> QED  BY <1>1, <1>2, SameKeeps

\* A new event, at place k of the list.
ArriveFact(t, e, k) ==
    /\ e = Len(created) + 1 /\ e \in Nat /\ e \notin Events
    /\ created' = Append(created, t) /\ created' \in Seq(Nat)
    /\ Events' = Events \cup {e}
    /\ created'[e] = t /\ \A f \in Events : created'[f] = created[f] /\ f < e
    /\ k \in 1..Len(list) + 1 /\ k \in Nat
    /\ \A i \in DOMAIN list : i \in Nat /\ (created[list[i]] > t <=> i < k)
    /\ list' \in Seq(Nat) /\ Len(list)' = Len(list) + 1
    /\ k \in DOMAIN list' /\ list'[k] = e
    /\ \A i \in DOMAIN list' : i \in Nat
    /\ \A i \in DOMAIN list' : /\ i < k => i \in DOMAIN list /\ list'[i] = list[i]
                               /\ i > k => i - 1 \in DOMAIN list /\ list'[i] = list[i - 1]
    /\ \A i \in DOMAIN list : /\ i < k => i \in DOMAIN list' /\ list'[i] = list[i]
                              /\ i >= k => i + 1 \in DOMAIN list' /\ list'[i + 1] = list[i]

LEMMA ArriveFacts ==
    ASSUME MonitorInv, NEW t \in 1..now, Arrive(t)
    PROVE  \E e, k \in Nat : ArriveFact(t, e, k)
<1> DEFINE e == Len(created) + 1
<1>1. /\ created \in Seq(Nat) /\ list \in Seq(Nat) /\ Len(list) = Len(created) /\ now \in Nat /\ t \in Nat
  BY DEF MonitorInv, Typed, Listed
<1>2. Len(created) \in Nat /\ DOMAIN list = 1..Len(list)
  BY <1>1, LenProperties
<1>3. e \in Nat
  BY <1>2
<1>4. created' = Append(created, t)
  BY DEF Arrive
<1>5. /\ created' \in Seq(Nat) /\ Len(created') = e
      /\ created'[e] = t /\ \A f \in 1..Len(created) : created'[f] = created[f]
  BY ONLY <1>1, <1>2, <1>4
<1>6. PICK k \in 1..Len(list) + 1 :
          /\ \A i \in DOMAIN list : created[list[i]] > t <=> i < k
          /\ list' = InsertAt(list, k, e)
  BY <1>5 DEF Arrive
<1>7. Events' = Events \cup {e} /\ e \notin Events /\ \A f \in Events : f < e
  BY <1>2, <1>5 DEF Events
<1>8. \A f \in Events : created'[f] = created[f]
  BY <1>5 DEF Events
<1> HIDE DEF e
<1>9. /\ list' \in Seq(Nat) /\ Len(list') = Len(list) + 1
      /\ list'[k] = e
      /\ \A i \in DOMAIN list' : /\ i < k => i \in DOMAIN list /\ list'[i] = list[i]
                                 /\ i > k => i - 1 \in DOMAIN list /\ list'[i] = list[i - 1]
      /\ \A i \in DOMAIN list : /\ i < k => i \in DOMAIN list' /\ list'[i] = list[i]
                                /\ i >= k => i + 1 \in DOMAIN list' /\ list'[i + 1] = list[i]
  <2> DEFINE new == list'
  <2>1. new = InsertAt(list, k, e) /\ list \in Seq(Nat) /\ e \in Nat /\ k \in 1..Len(list) + 1
    BY ONLY <1>1, <1>3, <1>6
  <2> HIDE DEF new
  <2>2. Widened(new, list, k, e)
    BY ONLY <2>1, Inserted
  <2> QED  BY ONLY <2>2 DEF new, Widened
<1>10. k \in Nat /\ Len(list) \in Nat
  BY <1>1, <1>2
<1>11. DOMAIN list' = 1..Len(list')
  BY <1>9, LenProperties
<1>12. k \in DOMAIN list' /\ \A i \in DOMAIN list' : i \in Nat
  BY ONLY <1>6, <1>9, <1>10, <1>11
<1>13. \A i \in DOMAIN list : i \in Nat
  BY ONLY <1>2, <1>10
<1>14. ArriveFact(t, e, k)
  BY <1>3, <1>4, <1>5, <1>6, <1>7, <1>8, <1>9, <1>10, <1>12, <1>13 DEF ArriveFact, e
<1> QED  BY <1>3, <1>10, <1>14

LEMMA ArriveListed ==
    ASSUME MonitorInv, NEW t \in 1..now, Arrive(t), NEW e \in Nat, NEW k \in Nat, ArriveFact(t, e, k)
    PROVE  Listed'
<1>0. /\ Len(list) = Len(created) /\ now' = now /\ now \in Nat
      /\ \A f \in Events : created[f] \in 1..now
      /\ \A i \in DOMAIN list : list[i] \in Events
      /\ \A f \in Events : \E i \in DOMAIN list : list[i] = f
      /\ \A i, j \in DOMAIN list : i < j => Newer(list[i], list[j])
  BY DEF MonitorInv, Typed, Listed, Arrive
<1>1. Len(list)' = Len(created)'
  <2>1. created \in Seq(Nat) /\ t \in Nat
    BY <1>0 DEF MonitorInv, Typed
  <2>2. Len(Append(created, t)) = Len(created) + 1
    BY <2>1
  <2> QED  BY <1>0, <2>2 DEF ArriveFact
<1>2. \A f \in Events' : created'[f] \in 1..now'
  BY <1>0 DEF ArriveFact
<1>3. \A i \in DOMAIN list' : list'[i] \in Events'
  <2> SUFFICES ASSUME NEW i \in DOMAIN list' PROVE list'[i] \in Events'
    OBVIOUS
  <2>1. i < k \/ i = k \/ i > k
    BY DEF ArriveFact
  <2> QED  BY <1>0, <2>1 DEF ArriveFact
<1>4. \A f \in Events' : \E i \in DOMAIN list' : list'[i] = f
  <2> SUFFICES ASSUME NEW f \in Events' PROVE \E i \in DOMAIN list' : list'[i] = f
    OBVIOUS
  <2>1. CASE f = e
    BY <2>1 DEF ArriveFact
  <2>2. CASE f \in Events
    <3>1. PICK i \in DOMAIN list : list[i] = f
      BY <1>0, <2>2
    <3>2. i < k \/ i >= k
      BY DEF ArriveFact
    <3> QED  BY <3>1, <3>2 DEF ArriveFact
  <2> QED  BY <2>1, <2>2 DEF ArriveFact
<1>5. \A f, g \in Events : Newer(f, g) => NewerIn(created', f, g)
  BY DEF Newer, NewerIn, ArriveFact
<1>6. ASSUME NEW i \in DOMAIN list', NEW j \in DOMAIN list', i < j PROVE NewerIn(created', list'[i], list'[j])
  <2>0. i \in Nat /\ j \in Nat /\ k \in Nat
    BY DEF ArriveFact
  <2>1. CASE j < k
    <3>1. i < k
      BY <1>6, <2>0, <2>1
    <3> QED  BY <1>0, <1>5, <1>6, <2>1, <3>1 DEF ArriveFact
  <2>2. CASE j = k
    <3>1. i \in DOMAIN list /\ list'[i] = list[i] /\ created[list[i]] > t /\ list[i] \in Events
      BY <1>0, <1>6, <2>2 DEF ArriveFact
    <3>2. created'[list'[i]] > created'[list'[j]]
      BY <2>2, <3>1 DEF ArriveFact
    <3> QED  BY <3>2 DEF NewerIn
  <2>3. CASE i < k /\ k < j
    <3>1. i \in DOMAIN list /\ list'[i] = list[i] /\ j - 1 \in DOMAIN list /\ list'[j] = list[j - 1]
      BY <2>3 DEF ArriveFact
    <3>2. i < j - 1
      BY <2>0, <2>3
    <3>3. Newer(list[i], list[j - 1])
      BY <1>0, <3>1, <3>2
    <3> QED  BY <1>0, <1>5, <3>1, <3>3
  <2>4. CASE i = k
    <3>1. j - 1 \in DOMAIN list /\ list'[j] = list[j - 1]
      BY <1>6, <2>4 DEF ArriveFact
    <3>2. ~(j - 1 < k) /\ list[j - 1] \in Events
      BY <1>0, <1>6, <2>0, <2>4, <3>1
    <3>3. ~(created[list[j - 1]] > t) /\ list[j - 1] < e /\ created'[list[j - 1]] = created[list[j - 1]]
      BY <3>1, <3>2 DEF ArriveFact
    <3>4. created[list[j - 1]] \in Nat /\ t \in Nat /\ list'[i] = e /\ created'[e] = t /\ e \in Nat
          /\ list[j - 1] \in Nat
      <4>1. Len(created) \in Nat
        BY <1>0, LenProperties DEF MonitorInv, Typed
      <4>2. created[list[j - 1]] \in Nat /\ t \in Nat
        BY <1>0, <3>2
      <4>3. list'[i] = e /\ created'[e] = t /\ e \in Nat
        BY <2>4 DEF ArriveFact
      <4>4. list[j - 1] \in Nat
        BY <3>2, <4>1 DEF Events
      <4> QED  BY <4>2, <4>3, <4>4
    <3> QED  BY <3>1, <3>3, <3>4 DEF NewerIn
  <2>5. CASE k < i
    <3>1. i - 1 \in DOMAIN list /\ list'[i] = list[i - 1] /\ j - 1 \in DOMAIN list /\ list'[j] = list[j - 1]
      <4>1. k < j
        BY <1>6, <2>0, <2>5
      <4> QED  BY <2>5, <4>1 DEF ArriveFact
    <3>2. i - 1 < j - 1
      BY <1>6, <2>0
    <3>3. Newer(list[i - 1], list[j - 1])
      BY <1>0, <3>1, <3>2
    <3> QED  BY <1>0, <1>5, <3>1, <3>3
  <2> QED  BY <1>6, <2>0, <2>1, <2>2, <2>3, <2>4, <2>5
<1> QED  BY <1>1, <1>2, <1>3, <1>4, <1>6 DEF Listed, Newer

\* Where an event of the list is after an arrival.
LEMMA ArrivePlaces ==
    ASSUME MonitorInv, NEW t, NEW e \in Nat, NEW k \in Nat, ArriveFact(t, e, k),
           NEW i \in DOMAIN list'
    PROVE  \/ i = k /\ list'[i] = e
           \/ \E j \in DOMAIN list : list[j] = list'[i] /\ j <= i
<1>1. i \in Nat /\ (i < k \/ i = k \/ i > k)
  BY DEF ArriveFact
<1>2. CASE i < k
  BY <1>1, <1>2 DEF ArriveFact
<1>3. CASE i = k
  BY <1>3 DEF ArriveFact
<1>4. CASE i > k
  <2>1. i - 1 \in DOMAIN list /\ list[i - 1] = list'[i]
    BY <1>4 DEF ArriveFact
  <2> QED  BY <1>1, <2>1
<1> QED  BY <1>1, <1>2, <1>3, <1>4

LEMMA ArriveKeeps == ASSUME MonitorInv, NEW t \in 1..now, Arrive(t) PROVE MonitorInv'
<1>1. PICK e \in Nat, k \in Nat : ArriveFact(t, e, k)
  BY ArriveFacts
<1>2. Listed'
  BY <1>1, ArriveListed
<1>3. /\ UNCHANGED <<now, st, disk, phase, got, out, posted, lost, base>>
      /\ mishaps \subseteq mishaps'
      /\ phase = "fetch" => t = now /\ "shift" \in mishaps'
  BY DEF Arrive, Mishap
<1>4. /\ created' \in Seq(Nat) /\ list' \in Seq(Nat) /\ Events' = Events \cup {e}
      /\ created'[e] = t /\ \A f \in Events : created'[f] = created[f] /\ f < e
      /\ e = Etag /\ Etag \in Nat /\ Etag' = Etag + 1 /\ Len(list) \in Nat
      /\ Len(list)' = Len(list) + 1
  <2>1. Len(list) \in Nat /\ Len(list) = Len(created)
    BY LenProperties DEF MonitorInv, Typed, Listed
  <2>2. e = Etag /\ Etag \in Nat
    BY ONLY <1>1, <2>1 DEF ArriveFact, Etag
  <2>4. Etag' = Etag + 1
    BY ONLY <1>1, <2>1 DEF Etag, ArriveFact
  <2>5. /\ created' \in Seq(Nat) /\ list' \in Seq(Nat) /\ Events' = Events \cup {e}
        /\ created'[e] = t /\ \A f \in Events : created'[f] = created[f] /\ f < e
        /\ Len(list)' = Len(list) + 1
    BY ONLY <1>1 DEF ArriveFact
  <2> QED  BY ONLY <2>1, <2>2, <2>4, <2>5
<1>5. Typed'
  BY <1>3, <1>4 DEF MonitorInv, Typed
<1>6. Dated(st)' /\ Dated(disk)'
  BY <1>3, <1>4 DEF MonitorInv, Dated
<1>7. Passed(st) \subseteq Passed(st)'
  BY <1>3, <1>4 DEF Passed
<1>8. Phases'
  <2>1. got.n \in Nat /\ got.n * PageSize \in Nat
    BY PageEnds DEF MonitorInv, Typed, Gots
  <2>2. got.n * PageSize <= Len(list) => got.n * PageSize <= Len(list)'
    BY <1>4, <2>1
  <2>3. got.etag \in 1..Etag => got.etag \in 1..Etag'
    BY <1>4
  <2> QED  BY <1>3, <1>4, <1>7, <2>2, <2>3 DEF MonitorInv, Phases
<1>9. PagesKnow'
  <2> SUFFICES ASSUME phase = "fetch", NEW i \in DOMAIN list' PROVE PageKnows(got, i)'
    BY <1>3 DEF PagesKnow
  <2>0. /\ \A j \in DOMAIN got.events : got.events[j] \in Events
        /\ got.etag \in 1..Etag /\ \A f \in Events : created[f] \in 1..now
        /\ got.n * PageSize \in Nat /\ now \in Nat
    BY PageEnds DEF MonitorInv, Typed, Gots, Phases, Listed
  <2>1. CASE list'[i] = e
    <3>1. e >= got.etag
      BY <1>4, <2>0
    <3>2. \A j \in DOMAIN got.events : created'[got.events[j]] <= created'[e]
      <4> SUFFICES ASSUME NEW j \in DOMAIN got.events
                   PROVE  created'[got.events[j]] <= created'[e]
        OBVIOUS
      <4>1. got.events[j] \in Events
        BY <2>0
      <4>2. created[got.events[j]] \in 1..now /\ created'[got.events[j]] = created[got.events[j]]
        BY <1>4, <2>0, <4>1
      <4>3. created'[e] = now
        BY <1>3, <1>4
      <4> QED  BY <2>0, <4>2, <4>3
    <3> QED  BY <1>3, <2>1, <3>1, <3>2 DEF PageKnows
  <2>2. ASSUME NEW j \in DOMAIN list, list[j] = list'[i], j <= i
        PROVE  PageKnows(got, i)'
    <3>1. PageKnows(got, j)
      BY DEF MonitorInv, PagesKnow
    <3>2. j > got.n * PageSize => i > got.n * PageSize
      <4>1. j \in Nat /\ i \in Nat
        BY <1>1 DEF ArriveFact
      <4> QED  BY <2>0, <2>2, <4>1
    <3>3. list[j] \in Events
      BY DEF MonitorInv, Listed
    <3> QED  BY <1>3, <1>4, <2>0, <2>2, <3>1, <3>2, <3>3 DEF PageKnows
  <2> QED  BY <1>1, <2>1, <2>2, ArrivePlaces
<1>10. PagesAgree'
  <2>1. \A j \in DOMAIN got.events : got.events[j] \in Events
    BY DEF MonitorInv, Phases
  <2>2. InOrder(got.events) => InOrder(got.events)'
    <3>1. \A f, g \in Events : Newer(f, g) => NewerIn(created', f, g)
      BY <1>4 DEF Newer, NewerIn
    <3>2. got' = got
      BY <1>3
    <3> QED  BY <2>1, <3>1, <3>2 DEF InOrder, Newer
  <2> QED  BY <1>3, <2>2 DEF MonitorInv, PagesAgree
<1> QED  BY <1>2, <1>5, <1>6, <1>8, <1>9, <1>10 DEF MonitorInv

LEMMA MonitorStep == MonitorInv /\ [Next]_vars => MonitorInv'
<1> SUFFICES ASSUME MonitorInv, [Next]_vars PROVE MonitorInv'
  OBVIOUS
<1>1. CASE Boot
  BY <1>1, BootKeeps
<1>2. CASE Exit \/ Crash
  BY <1>2, EndKeeps
<1>3. CASE FetchPage
  BY <1>3, FetchSplits, OnKeeps, SeedKeeps, NewsKeeps, NothingKeeps
<1>4. CASE FetchFails \/ Sent
  BY <1>4, BackKeeps
<1>5. CASE Send
  BY <1>5, SendKeeps
<1>6. ASSUME NEW t \in 1..now, Arrive(t) PROVE MonitorInv'
  BY <1>6, ArriveKeeps
<1>7. CASE Cancelled \/ Tick \/ UNCHANGED vars
  BY <1>7, IdleKeeps
<1> QED  BY <1>1, <1>2, <1>3, <1>4, <1>5, <1>6, <1>7 DEF Next, Step

\* MonitorInv is an invariant: the list is in order, the watermarks are of the
\* past, and what a poll has read and is to post is known.
THEOREM MonitorHolds == Spec => []MonitorInv
BY InitMonitor, MonitorStep, PTL DEF Spec

-----------------------------------------------------------------------------
(* What the watermarks pass is announced.                                  *)

Accounted == base \cup posted \cup lost \cup Ignored

Excused == Had({"late", "overflow", "boundary"})

LEMMA FreshPassesNone == Typed /\ Listed => Passed(Fresh) = {}
<1> SUFFICES ASSUME Typed, Listed, NEW e \in Passed(Fresh) PROVE FALSE
  OBVIOUS
<1>1. e \in Events /\ (created[e] < 0 \/ e \in {})
  BY DEF Passed, Fresh
<1>2. created[e] \in Nat
  BY <1>1 DEF Typed, Listed
<1> QED  BY <1>1, <1>2

LEMMA IdleRemains == MonitorInv /\ phase # "send" => Remaining = {}
BY DEF MonitorInv, Phases, Remaining

\* A step that sends nothing and passes nothing.
LEMMA RestTells ==
    ASSUME MonitorInv, PassedIsAnnounced, ~Excused, UNCHANGED created,
           out = {} \/ st' = Fresh, out' = {}, base \subseteq base', posted' = posted, lost' = lost,
           Passed(st') \subseteq Passed(st) \cup Passed(disk) \cup base',
           disk' \in {st', disk} \/ (disk' = st /\ out = {})
    PROVE  PassedIsAnnounced'
<1>1. Passed(disk) \subseteq Accounted /\ Passed(st) \subseteq Accounted \cup Remaining
  BY DEF PassedIsAnnounced, Excused, Accounted
<1>2. out = {} => Remaining = {}
  BY DEF Remaining
<1>3. Accounted \subseteq Accounted' /\ base' \subseteq Accounted'
  BY DEF Accounted
<1>4. Passed(st)' = Passed(st') /\ Passed(disk)' = Passed(disk')
  BY DEF Passed, Events
<1>5. Passed(st') \subseteq Accounted'
  <2>1. CASE out = {}
    BY <1>1, <1>2, <1>3, <2>1
  <2>2. CASE st' = Fresh
    <3>1. Passed(st') = {}
      BY <2>2, FreshPassesNone DEF MonitorInv
    <3> QED  BY <3>1
  <2> QED  BY <2>1, <2>2
<1>6. Passed(disk') \subseteq Accounted'
  BY <1>1, <1>2, <1>3, <1>5
<1> QED  BY <1>4, <1>5, <1>6 DEF PassedIsAnnounced, Accounted

LEMMA SeedPasses ==
    ASSUME MonitorInv, ReadsSeed
    PROVE  Passed(st') \subseteq Passed(st) \cup base' /\ base \subseteq base'
<1>1. phase \in {"idle", "fetch"} /\ Seed(ToSet(Got.events), Got.etag)
  BY DEF ReadsSeed, Reads
<1> DEFINE es == ToSet(Got.events)
<1>2. es \in SUBSET Events
  BY <1>1, ReadFacts
<1> HIDE DEF es
<1>3. Seed(es, Got.etag)
  BY <1>1 DEF es
<1>4. base \subseteq base'
  BY <1>3 DEF Seed
<1>5. CASE es = {}
  <2>1. st' = [st EXCEPT !.etag = Got.etag] /\ st \in States
    BY <1>3, <1>5 DEF Seed, MonitorInv, Typed
  <2>2. st'.at = st.at /\ st'.ids = st.ids
    BY <2>1 DEF States
  <2> QED  BY <1>4, <2>2 DEF Passed
<1>6. CASE es # {}
  <2>1. st' = [at |-> Newest(es), ids |-> AtSecond(es, Newest(es)), etag |-> Got.etag]
    BY <1>3, <1>6 DEF Seed
  <2>2. st'.at = Newest(es) /\ st'.ids = AtSecond(es, Newest(es))
    BY <2>1
  <2>3. base' = base \cup {e \in Events : es # {} /\ created[e] <= Newest(es)
                                          /\ (created[e] = Newest(es) => e \in es)}
    BY <1>3 DEF Seed
  <2>4. Typed /\ Listed /\ Newest(es) \in 1..now /\ now \in Nat
    BY <1>2, <1>6, NewestFacts DEF MonitorInv, Typed
  <2>5. \A e \in Events : created[e] \in Nat
    BY <2>4 DEF Listed
  <2>6. ASSUME NEW e \in Passed(st') PROVE e \in base'
    <3>1. e \in Events /\ (created[e] < Newest(es) \/ (e \in es /\ created[e] = Newest(es)))
      BY <2>2, <2>6 DEF Passed, AtSecond
    <3>2. Newest(es) \in Nat /\ created[e] \in Nat
      BY <2>4, <2>5, <3>1
    <3>3. created[e] <= Newest(es) /\ (created[e] = Newest(es) => e \in es)
      BY <3>1, <3>2
    <3> QED  BY <1>6, <2>3, <3>1, <3>3
  <2> QED  BY <1>4, <2>6
<1> QED  BY <1>5, <1>6

\* An event that the new watermark passes was passed, or is taken, or else the
\* paging missed it.
LEMMA NewsMiss ==
    ASSUME MonitorInv, ReadsNews, NEW e \in Passed(st'), e \notin Passed(st), e \notin Taken
    PROVE  /\ More(Got.n) /\ e \in Events \ ToSet(Got.events)
           /\ mishaps' \cap {"overflow", "boundary"} # {}
<1>1. /\ phase \in {"idle", "fetch"}
      /\ Announce(Got.events, Got.etag) /\ Unread
  BY DEF ReadsNews, Reads
<1>2. Typed /\ Listed /\ Dated(st) /\ now \in Nat
  BY DEF MonitorInv, Typed
<1>3. /\ Taken \in SUBSET Events /\ (\A f \in Taken : IsNew(f)) /\ Taken # {}
      /\ Got.etag \in Nat \ {0} /\ Got \in Gots
      /\ ToSet(Got.events) \in SUBSET Events /\ Taken \in SUBSET ToSet(Got.events)
      /\ \A f \in ToSet(Got.events) : IsNew(f) => f \in Taken
  BY <1>1, ReadFacts DEF Announce
<1>4. st' = Advanced(Taken, Got.etag)
  BY <1>1 DEF Announce, Taken
<1>5. \A f \in Passed(st') : f \in Passed(st) \/ f \in Taken \/ created[f] < Newest(Taken)
  BY <1>2, <1>3, <1>4, AdvancedFacts
<1>6. e \in Events /\ created[e] < Newest(Taken)
  BY <1>5 DEF Passed
<1>7. IsNew(e)
  BY <1>2, <1>6, NewIsNotPassed
<1>8. e \notin ToSet(Got.events)
  BY <1>3, <1>7
<1>9. PICK f \in Taken : created[f] = Newest(Taken)
  BY <1>2, <1>3, NewestFacts
<1>10. f \in ToSet(Got.events) /\ created[e] < created[f]
  BY <1>3, <1>6, <1>9
<1>11. \A g \in Events : created[g] \in Nat
  BY <1>2 DEF Listed
<1>12. More(Got.n)
  <2> SUFFICES ASSUME ~More(Got.n) PROVE FALSE
    OBVIOUS
  <2>1. PICK i \in DOMAIN list : list[i] = e
    BY <1>2, <1>6 DEF Listed
  <2>2. Knows(Got) /\ Got.n \in Nat
    BY <1>1, GotFacts
  <2>3. i \in Nat /\ i <= Len(list) /\ Len(list) \in Nat
    <3>1. Len(list) \in Nat /\ DOMAIN list = 1..Len(list)
      BY <1>2, LenProperties DEF Typed
    <3> QED  BY <3>1
  <2>4. ~(i > Got.n * PageSize)
    <3>1. Got.n * PageSize \in Nat
      BY <2>2, PageEnds
    <3> QED  BY <2>3, <3>1 DEF More
  <2>5. PageKnows(Got, i)
    BY <2>2 DEF Knows
  <2>6. \A j \in DOMAIN Got.events : created[Got.events[j]] <= created[e]
    <3>1. ~(\E j \in DOMAIN Got.events : Got.events[j] = list[i])
      BY <1>8, <2>1 DEF ToSet
    <3> QED  BY <2>1, <2>4, <2>5, <3>1 DEF PageKnows
  <2>7. created[f] <= created[e]
    BY <1>10, <2>6 DEF ToSet
  <2>8. created[e] \in Nat /\ created[f] \in Nat
    BY <1>3, <1>6, <1>11
  <2> QED  BY <1>10, <2>7, <2>8
<1>13. created[e] < Newest(ToSet(Got.events))
  <2>1. created[f] <= Newest(ToSet(Got.events)) /\ Newest(ToSet(Got.events)) \in 1..now
    BY <1>2, <1>3, <1>10, NewestFacts
  <2>2. created[e] \in Nat /\ created[f] \in Nat
    BY <1>3, <1>6, <1>11
  <2> QED  BY <1>2, <1>10, <2>1, <2>2
<1>14. e \in Events \ ToSet(Got.events)
  BY <1>6, <1>8
<1>15. mishaps' = mishaps \cup {IF Reached(Page(Got.n)) THEN "boundary" ELSE "overflow"}
  BY <1>1, <1>7, <1>12, <1>13, <1>14 DEF Unread
<1> QED  BY <1>12, <1>14, <1>15

LEMMA NewsTells ==
    ASSUME MonitorInv, PassedIsAnnounced, ReadsNews, ~Excused' PROVE PassedIsAnnounced'
<1>1. /\ phase \in {"idle", "fetch"} /\ UNCHANGED <<created, posted, lost, base, disk>>
      /\ Announce(Got.events, Got.etag) /\ got' = Got /\ mishaps \subseteq mishaps'
  BY DEF ReadsNews, Reads, Announce, Unread
<1>2. Passed(st)' = Passed(st') /\ Passed(disk)' = Passed(disk) /\ Accounted' = Accounted
  BY <1>1 DEF Passed, Events, Accounted
<1>3. Passed(disk) \subseteq Accounted /\ Passed(st) \subseteq Accounted
  <2>1. ~Excused
    BY <1>1 DEF Excused, Had
  <2>2. Remaining = {}
    BY <1>1, IdleRemains
  <2> QED  BY <2>1, <2>2 DEF PassedIsAnnounced, Excused, Accounted
<1>4. Taken \subseteq Ignored \cup Remaining'
  BY <1>1 DEF Announce, Taken, Wanted, Remaining
<1>5. Passed(st') \subseteq Passed(st) \cup Taken
  <2> SUFFICES ASSUME NEW e \in Passed(st'), e \notin Passed(st), e \notin Taken PROVE FALSE
    OBVIOUS
  <2>1. mishaps' \cap {"overflow", "boundary"} # {}
    BY NewsMiss
  <2> QED  BY <2>1 DEF Excused, Had
<1>6. Passed(st)' \subseteq Accounted' \cup Remaining' /\ Passed(disk)' \subseteq Accounted'
  BY <1>2, <1>3, <1>4, <1>5 DEF Accounted
<1> QED  BY <1>6 DEF PassedIsAnnounced, Accounted

LEMMA ArrivePasses ==
    ASSUME MonitorInv, NEW t \in 1..now, Arrive(t), "late" \notin mishaps',
           NEW s \in States, Dated(s)
    PROVE  Passed(s)' = Passed(s)
<1>1. PICK e \in Nat, k \in Nat : ArriveFact(t, e, k)
  BY ArriveFacts
<1>2. t = now /\ s.at <= now /\ now \in Nat /\ s.at \in Nat
  BY DEF Arrive, Mishap, Dated, MonitorInv, Typed, States
<1>3. /\ Events' = Events \cup {e} /\ e \notin Events
      /\ created'[e] = t /\ \A f \in Events : created'[f] = created[f]
  BY <1>1 DEF ArriveFact
<1>4. e \notin s.ids /\ ~(created'[e] < s.at)
  BY <1>2, <1>3 DEF Dated
<1> QED  BY <1>3, <1>4 DEF Passed

LEMMA SendTells ==
    ASSUME MonitorInv, PassedIsAnnounced, ~Excused, Send PROVE PassedIsAnnounced'
<1>1. /\ Following(out) \in out /\ out' = out \ {Following(out)}
      /\ UNCHANGED <<created, st, disk, got, base>>
      /\ \/ posted' = posted \cup {Upcoming} /\ lost' = lost
         \/ posted' = posted /\ lost' = lost \cup {Upcoming}
  BY SendFacts
<1>2. Passed(st)' = Passed(st) /\ Passed(disk)' = Passed(disk)
  BY <1>1 DEF Passed, Events
<1>3. Accounted \subseteq Accounted' /\ Upcoming \in Accounted'
  BY <1>1 DEF Accounted
<1>4. Remaining \subseteq Remaining' \cup {Upcoming}
  BY <1>1 DEF Remaining, Upcoming
<1>5. Passed(disk) \subseteq Accounted /\ Passed(st) \subseteq Accounted \cup Remaining
  BY DEF PassedIsAnnounced, Excused, Accounted
<1>6. Passed(st)' \subseteq Accounted' \cup Remaining' /\ Passed(disk)' \subseteq Accounted'
  BY <1>2, <1>3, <1>4, <1>5
<1> QED  BY <1>6 DEF PassedIsAnnounced, Accounted

LEMMA MishapsStay == [Next]_vars => mishaps \subseteq mishaps'
BY DEF Next, Step, Boot, Cancelled, Exit, Crash, FetchPage, Seed, Announce, Unread,
       NothingNew, FetchFails, Send, Sent, Arrive, Tick, SaveOf, Mishap, vars, progVars, histVars

LEMMA TellsStep ==
    MonitorInv /\ PassedIsAnnounced /\ [Next]_vars => PassedIsAnnounced'
<1> SUFFICES ASSUME MonitorInv, PassedIsAnnounced, [Next]_vars, ~Excused' PROVE PassedIsAnnounced'
  BY DEF PassedIsAnnounced, Excused
<1>0. ~Excused
  BY MishapsStay DEF Excused, Had
<1>01. Passed(Fresh) = {}
  BY FreshPassesNone DEF MonitorInv
<1>1. CASE Boot
  <2>1. out = {}
    BY <1>1 DEF Boot, MonitorInv, Phases
  <2>2. /\ st' \in {disk, Fresh} /\ UNCHANGED <<created, out, base, posted, lost, disk>>
    BY <1>1 DEF Boot, listVars
  <2> QED  BY <1>0, <1>01, <2>1, <2>2, RestTells
<1>2. CASE Exit \/ Crash
  <2>1. /\ UNCHANGED <<created, base, posted, lost>> /\ st' = Fresh /\ out' = {}
        /\ disk' = disk \/ (disk' = st /\ out = {})
    BY <1>2 DEF Exit, Crash, Ended, SaveOf, listVars, MonitorInv, Phases
  <2> QED  BY <1>0, <1>01, <2>1, RestTells
<1>3. CASE FetchFails \/ Sent
  <2>1. /\ UNCHANGED <<created, base, posted, lost, st, out>> /\ out = {}
        /\ disk' \in {st', disk}
    BY <1>3 DEF FetchFails, Sent, SaveOf, listVars, histVars, MonitorInv, Phases
  <2> QED  BY <1>0, <2>1, RestTells
<1>4. CASE ReadsOn
  <2>1. UNCHANGED <<created, base, posted, lost, st, disk, out>> /\ out = {}
    BY <1>4 DEF ReadsOn, Reads, MonitorInv, Phases
  <2> QED  BY <1>0, <2>1, RestTells
<1>5. CASE ReadsSeed
  <2>1. UNCHANGED <<created, posted, lost>> /\ out = {} /\ out' = {} /\ disk' \in {st', disk}
    BY <1>5 DEF ReadsSeed, Reads, Seed, SaveOf, MonitorInv, Phases
  <2>2. Passed(st') \subseteq Passed(st) \cup base' /\ base \subseteq base'
    BY <1>5, SeedPasses
  <2> QED  BY <1>0, <2>1, <2>2, RestTells
<1>6. CASE ReadsNothing
  <2>1. /\ UNCHANGED <<created, posted, lost, base>> /\ out = {} /\ out' = {} /\ disk' \in {st', disk}
        /\ st' = [st EXCEPT !.etag = Got.etag] /\ st \in States
    BY <1>6 DEF ReadsNothing, Reads, NothingNew, SaveOf, MonitorInv, Phases, Typed
  <2>2. Passed(st') = Passed(st)
    BY <2>1 DEF Passed, States
  <2> QED  BY <1>0, <2>1, <2>2, RestTells
<1>7. CASE ReadsNews
  BY <1>7, NewsTells
<1>8. CASE Send
  BY <1>0, <1>8, SendTells
<1>9. ASSUME NEW t \in 1..now, Arrive(t) PROVE PassedIsAnnounced'
  <2>1. UNCHANGED <<st, disk, out, got, base, posted, lost>> /\ "late" \notin mishaps'
    BY <1>9 DEF Arrive, Excused, Had
  <2>2. st \in States /\ disk \in States /\ Dated(st) /\ Dated(disk)
    BY DEF MonitorInv, Typed
  <2>3. \A s \in States : Dated(s) => {f \in Events' : created'[f] < s.at \/ f \in s.ids} = Passed(s)
    BY <1>9, <2>1, ArrivePasses DEF Passed
  <2>4. Passed(st)' = Passed(st) /\ Passed(disk)' = Passed(disk)
    BY <2>1, <2>2, <2>3 DEF Passed
  <2> QED  BY <1>0, <2>1, <2>4 DEF PassedIsAnnounced, Excused, Remaining
<1>10. CASE Cancelled \/ Tick \/ UNCHANGED vars
  <2>1. UNCHANGED <<created, st, disk, out, got, base, posted, lost, mishaps>>
    BY <1>10 DEF Cancelled, Tick, vars, progVars, listVars, histVars
  <2> QED  BY <2>1 DEF PassedIsAnnounced, Passed, Events, Remaining, Had
<1> QED  BY <1>1, <1>2, <1>3, <1>4, <1>5, <1>6, <1>7, <1>8, <1>9, <1>10, FetchSplits DEF Next, Step

\* PassedIsAnnounced holds: what a watermark has passed was announced, or is
\* among what is still to announce when it is the one in memory, unless an event
\* came late or the paging could not reach one.
THEOREM WatermarkIsAnnounced == Spec => []PassedIsAnnounced
<1>1. Init => PassedIsAnnounced
  <2> SUFFICES ASSUME Init PROVE PassedIsAnnounced
    OBVIOUS
  <2>1. Typed /\ Listed
    BY InitMonitor DEF MonitorInv
  <2>2. Passed(st) = {} /\ Passed(disk) = {}
    BY <2>1, FreshPassesNone DEF Init
  <2> QED  BY <2>2 DEF PassedIsAnnounced
<1> QED  BY <1>1, TellsStep, MonitorHolds, PTL DEF Spec

-----------------------------------------------------------------------------
(* What the pages reach.                                                   *)

LEMMA QuietEvents ==
    ASSUME UNCHANGED <<created, list>>
    PROVE  Events' = Events /\ Deep' = Deep
BY DEF Deep, Events

\* The deep events stay deep, and what is passed stays passed.
LEMMA ArriveDeepens ==
    ASSUME MonitorInv, NEW t \in 1..now, Arrive(t)
    PROVE  /\ Deep \subseteq Deep' /\ Events \subseteq Events'
           /\ Passed(st) \subseteq Passed(st)' /\ Passed(disk) \subseteq Passed(disk)'
           /\ \A e \in Events : created'[e] = created[e]
           /\ \A e \in Events' \ Events : created'[e] = t
<1>1. PICK e \in Nat, k \in Nat : ArriveFact(t, e, k)
  BY ArriveFacts
<1>2. /\ Events' = Events \cup {e} /\ e \notin Events /\ created'[e] = t
      /\ \A f \in Events : created'[f] = created[f]
      /\ \A i \in DOMAIN list : i \in Nat
      /\ \A i \in DOMAIN list' : i \in Nat
  BY <1>1 DEF ArriveFact
<1>3. st' = st /\ disk' = disk
  BY DEF Arrive
<1>4. Passed(st) \subseteq Passed(st)' /\ Passed(disk) \subseteq Passed(disk)'
  BY <1>2, <1>3 DEF Passed
<1>5. ASSUME NEW d \in Deep PROVE d \in Deep'
  <2>1. d \in Events /\ \A i \in DOMAIN list : list[i] = d => i > MaxPages * PageSize
    BY <1>5 DEF Deep
  <2>2. ASSUME NEW i \in DOMAIN list', list'[i] = d PROVE i > MaxPages * PageSize
    <3>1. PICK j \in DOMAIN list : list[j] = list'[i] /\ j <= i
      BY <1>1, <1>2, <2>1, <2>2, ArrivePlaces
    <3>2. j > MaxPages * PageSize
      BY <2>1, <2>2, <3>1
    <3>3. MaxPages * PageSize \in Nat /\ i \in Nat /\ j \in Nat
      <4>1. MaxPages \in Nat
        BY GithubAssumption
      <4> QED  BY <1>2, <4>1, PageEnds
    <3> QED  BY <3>1, <3>2, <3>3
  <2> QED  BY <1>2, <2>1, <2>2 DEF Deep
<1> QED  BY <1>2, <1>4, <1>5

\* Pages of one list are its beginning, so what was read is not deep.
LEMMA ReadIsShallow ==
    ASSUME MonitorInv, phase \in {"idle", "fetch"}, "shift" \notin mishaps
    PROVE  \A e \in ToSet(Got.events) : e \notin Deep
<1> SUFFICES ASSUME NEW e \in ToSet(Got.events), e \in Deep PROVE FALSE
  OBVIOUS
<1>1. Knows(Got) /\ Got.n \in Nat /\ Got.n <= MaxPages
  BY GotFacts
<1>2. OneList(Got)
  BY <1>1 DEF Knows
<1>3. PICK i \in DOMAIN Got.events : Got.events[i] = e
  BY DEF ToSet
<1>4. /\ Got.events \in Seq(Nat) /\ list \in Seq(Nat)
  BY <1>1 DEF Knows, Gots, MonitorInv, Typed
<1>5. /\ Len(Got.events) \in Nat /\ DOMAIN Got.events = 1..Len(Got.events)
      /\ Len(list) \in Nat /\ DOMAIN list = 1..Len(list)
  BY <1>4, LenProperties
<1>6. i <= Len(list) /\ list[i] = e /\ Len(Got.events) <= Got.n * PageSize
  BY <1>2, <1>3 DEF OneList
<1>7. i \in Nat /\ i <= Len(Got.events) /\ i \in DOMAIN list
  <2>1. i \in 1..Len(Got.events)
    BY <1>5
  <2> QED  BY ONLY <2>1, <1>5, <1>6
<1>8. i > MaxPages * PageSize
  BY <1>6, <1>7 DEF Deep
<1>9. Got.n * PageSize <= MaxPages * PageSize /\ Got.n * PageSize \in Nat /\ MaxPages * PageSize \in Nat
  BY <1>1, PagesWithin, PageEnds
<1> QED  BY ONLY <1>5, <1>6, <1>7, <1>8, <1>9

LEMMA PageLast ==
    ASSUME MonitorInv, NEW n \in Nat \ {0}, Page(n) # <<>>
    PROVE  Last(Page(n)) \in Events
<1>1. list \in Seq(Events)
  <2>1. \A i \in DOMAIN list : list[i] \in Events
    BY DEF MonitorInv, Listed
  <2>2. list \in Seq(Nat) /\ Len(list) \in Nat /\ DOMAIN list = 1..Len(list)
    BY LenProperties DEF MonitorInv, Typed
  <2> HIDE DEF Events
  <2> QED  BY <2>1, <2>2
<1> DEFINE lo == (n - 1) * PageSize + 1
           hi == IF n * PageSize < Len(list) THEN n * PageSize ELSE Len(list)
<1>2. lo \in Nat \ {0} /\ hi \in Nat /\ hi <= Len(list) /\ Len(list) \in Nat
  <2>1. n - 1 \in Nat /\ n \in Nat
    OBVIOUS
  <2>2. (n - 1) * PageSize \in Nat /\ n * PageSize \in Nat
    BY <2>1, PageEnds
  <2>3. Len(list) \in Nat
    BY <1>1, LenProperties
  <2> QED  BY <2>2, <2>3
<1>3. Page(n) = SubSeq(list, lo, hi)
  BY DEF Page
<1> HIDE DEF lo, hi, Events
<1>4. \A i \in lo..hi : list[i] \in Events
  BY <1>1, <1>2
<1>5. SubSeq(list, lo, hi) \in Seq(Events)
  BY ONLY <1>1, <1>2, <1>4, SubSeqProperties
<1> DEFINE p == Page(n)
<1>6. p \in Seq(Events) /\ p # <<>>
  BY <1>3, <1>5
<1> HIDE DEF p
<1>7. Last(p) \in Events
  BY ONLY <1>6 DEF Last
<1> QED  BY <1>7 DEF p

\* A first run that reads one list reads what is not deep.
LEMMA SeedReads ==
    ASSUME MonitorInv, ReadsSeed, "shift" \notin mishaps
    PROVE  /\ Events \subseteq ToSet(Got.events) \cup Deep
           /\ ToSet(Got.events) = {} => Events = {}
           /\ Got.etag = Etag
<1>0. phase \in {"idle", "fetch"} /\ Done(Got.n) /\ st.at = 0
  BY DEF ReadsSeed, Reads, FirstRun
<1>1. Knows(Got) /\ Got.n \in Nat \ {0} /\ Got.n <= MaxPages
  BY <1>0, GotFacts
<1>2. OneList(Got)
  BY <1>1 DEF Knows
<1>4. /\ Got.events \in Seq(Nat) /\ list \in Seq(Nat) /\ Len(list) = Len(created)
  BY <1>1 DEF Knows, Gots, MonitorInv, Typed, Listed
<1>5. /\ Len(Got.events) \in Nat /\ DOMAIN Got.events = 1..Len(Got.events)
      /\ Len(list) \in Nat /\ DOMAIN list = 1..Len(list)
  BY <1>4, LenProperties
<1>6. ~Reached(Page(Got.n))
  <2> SUFFICES ASSUME Page(Got.n) # <<>>, created[Last(Page(Got.n))] <= st.at PROVE FALSE
    BY DEF Reached
  <2>1. Last(Page(Got.n)) \in Events
    BY <1>1, PageLast
  <2>2. created[Last(Page(Got.n))] \in 1..now /\ now \in Nat
    BY <2>1 DEF MonitorInv, Typed, Listed
  <2> QED  BY <1>0, <2>2
<1>7. More(Got.n) => Got.n = MaxPages
  BY <1>0, <1>6 DEF Done
<1>8. ASSUME NEW e \in Events, e \notin ToSet(Got.events) PROVE e \in Deep
  <2> SUFFICES ASSUME NEW i \in DOMAIN list, list[i] = e PROVE i > MaxPages * PageSize
    BY DEF Deep
  <2>1. i \notin DOMAIN Got.events
    BY <1>2, <1>8 DEF OneList, ToSet
  <2>2. i \in Nat /\ i >= 1 /\ i <= Len(list) /\ i > Len(Got.events)
    <3>1. i \in 1..Len(list) /\ i \notin 1..Len(Got.events)
      BY <1>5, <2>1
    <3> QED  BY ONLY <1>5, <3>1
  <2>3. Len(Got.events) = Got.n * PageSize \/ Len(Got.events) = Len(list)
    BY <1>2 DEF OneList
  <2>4. Len(Got.events) = Got.n * PageSize /\ Got.n * PageSize < Len(list)
    BY ONLY <1>5, <2>2, <2>3
  <2>5. Got.n = MaxPages
    BY <1>7, <2>4 DEF More
  <2> QED  BY ONLY <2>2, <2>4, <2>5
<1>9. ASSUME ToSet(Got.events) = {} PROVE Events = {}
  <2>1. DOMAIN Got.events = {}
    BY <1>9 DEF ToSet
  <2>2. Len(Got.events) = 0
    <3>1. ~(1 <= Len(Got.events))
      <4> SUFFICES ASSUME 1 <= Len(Got.events) PROVE FALSE
        OBVIOUS
      <4>1. 1 \in 1..Len(Got.events)
        BY ONLY <1>5, 1 <= Len(Got.events)
      <4>2. 1 \in DOMAIN Got.events
        BY ONLY <1>5, <4>1
      <4> QED  BY ONLY <2>1, <4>2
    <3> QED  BY ONLY <1>5, <3>1
  <2>3. Len(Got.events) = Got.n * PageSize \/ Len(Got.events) = Len(list)
    BY <1>2 DEF OneList
  <2>4. Got.n * PageSize >= 1
    <3>1. Got.n - 1 \in Nat /\ (Got.n - 1) + 1 = Got.n
      BY <1>1
    <3>2. (Got.n - 1) * PageSize \in Nat /\ Got.n * PageSize = (Got.n - 1) * PageSize + PageSize
      BY <3>1, PageEnds
    <3> QED  BY <3>2, GithubAssumption
  <2>5. Len(list) = 0
    BY ONLY <1>5, <2>2, <2>3, <2>4
  <2> QED  BY <1>4, <2>5 DEF Events
<1> QED  BY <1>2, <1>8, <1>9 DEF OneList

LEMMA SeedCovers ==
    ASSUME MonitorInv, ReadsSeed, "shift" \notin mishaps
    PROVE  Events \subseteq Passed(st') \cup Deep /\ ToSet(Got.events) \subseteq Passed(st')
<1> DEFINE es == ToSet(Got.events)
<1>1. Events \subseteq es \cup Deep
  BY SeedReads
<1>2. phase \in {"idle", "fetch"} /\ Seed(es, Got.etag) /\ es \in SUBSET Events
  BY ReadFacts DEF ReadsSeed, Reads
<1> HIDE DEF es
<1>3. es \subseteq Passed(st')
  <2> SUFFICES ASSUME NEW e \in es PROVE e \in Passed(st')
    OBVIOUS
  <2>0. Typed /\ Listed /\ now \in Nat
    BY DEF MonitorInv, Typed
  <2>1. st' = [at |-> Newest(es), ids |-> AtSecond(es, Newest(es)), etag |-> Got.etag]
    BY <1>2 DEF Seed
  <2>2. st'.at = Newest(es) /\ st'.ids = AtSecond(es, Newest(es))
    BY <2>1
  <2>3. created[e] <= Newest(es) /\ Newest(es) \in 1..now
    BY <1>2, <2>0, NewestFacts
  <2>4. e \in Events /\ created[e] \in Nat
    BY <1>2, <2>0 DEF Listed
  <2>5. created[e] < Newest(es) \/ created[e] = Newest(es)
    BY <2>0, <2>3, <2>4
  <2> QED  BY <2>2, <2>4, <2>5 DEF Passed, AtSecond
<1> QED  BY <1>1, <1>3 DEF es

-----------------------------------------------------------------------------
(* Nothing is announced twice.                                             *)

LEMMA RepeatMoves ==
    ASSUME RepeatInv, ~Had({"crash", "unsaved", "shift"}),
           UNCHANGED <<created, list, again>>, phase' # "send",
           Covers(Current', posted' \cup base')
    PROVE  RepeatInv'
<1>1. Events' = Events /\ Deep' = Deep
  BY QuietEvents
<1>2. Passed(Current)' = Passed(Current')
  BY DEF Passed, Events
<1>3. Covers(Current, posted \cup base)'
  BY <1>1, <1>2 DEF Covers
<1> QED  BY <1>3 DEF RepeatInv

\* What is taken was not announced before, if the pages are of one list.
LEMMA TakenIsFresh ==
    ASSUME MonitorInv, ReadsNews, "shift" \notin mishaps, NEW es, Covers(st, es)
    PROVE  /\ ~Unseeded(st) /\ es \subseteq Passed(st) \cup Deep
           /\ \A i \in out' : /\ Got.events[i] \in Taken /\ Got.events[i] \notin es
                              /\ Got.events[i] \in Events /\ Got.events[i] \notin Passed(st)
                              /\ Got.events[i] \notin Ignored
<1>1. phase \in {"idle", "fetch"} /\ ~FirstRun /\ Announce(Got.events, Got.etag)
  BY DEF ReadsNews, Reads
<1>2. ~Unseeded(st)
  BY <1>1 DEF FirstRun, Unseeded
<1>3. Typed /\ Listed /\ Dated(st)
  BY DEF MonitorInv
<1>4. /\ Taken \in SUBSET ToSet(Got.events) /\ Taken \in SUBSET Events /\ \A e \in Taken : IsNew(e)
  BY <1>1, ReadFacts
<1>5. \A e \in Taken : e \notin Passed(st)
  BY <1>3, <1>4, NewIsNotPassed
<1>6. \A e \in Taken : e \notin Deep
  BY <1>1, <1>4, ReadIsShallow
<1>7. \A i \in out' : Got.events[i] \in Taken /\ Got.events[i] \notin Ignored
  BY <1>1 DEF Announce, Taken, Wanted
<1>8. es \subseteq Passed(st) \cup Deep
  BY <1>2 DEF Covers
<1> QED  BY <1>2, <1>4, <1>5, <1>6, <1>7, <1>8

LEMMA NewsAdvance ==
    ASSUME MonitorInv, ReadsNews
    PROVE  /\ UNCHANGED <<created, list, now, stopping, disk, posted, lost, base, again, seeded>>
           /\ phase # "off" /\ phase' = "send" /\ got' = Got /\ mishaps \subseteq mishaps'
           /\ Passed(st) \subseteq Passed(st') /\ st'.etag # 0 /\ Knows(Got)
<1>1. /\ UNCHANGED <<created, list, now, stopping, disk, posted, lost, base, again, seeded>>
      /\ phase \in {"idle", "fetch"} /\ phase' = "send" /\ got' = Got
      /\ Announce(Got.events, Got.etag) /\ mishaps \subseteq mishaps'
  BY DEF ReadsNews, Reads, Announce, Unread
<1>2. /\ Taken \in SUBSET Events /\ (\A e \in Taken : IsNew(e)) /\ Taken # {}
      /\ Got.etag \in Nat \ {0}
  BY <1>1, ReadFacts DEF Announce
<1>3. st' = Advanced(Taken, Got.etag)
  BY <1>1 DEF Announce, Taken
<1>4. Typed /\ Listed /\ Dated(st)
  BY DEF MonitorInv
<1>5. Passed(st) \subseteq Passed(st') /\ st'.etag = Got.etag
  BY <1>2, <1>3, <1>4, AdvancedFacts
<1> QED  BY <1>1, <1>2, <1>5, GotFacts

LEMMA NewsRepeats ==
    ASSUME MonitorInv, RepeatInv, ~Had({"crash", "unsaved", "shift"}), ReadsNews
    PROVE  RepeatInv'
<1>1. /\ UNCHANGED <<created, list, posted, base, again>>
      /\ phase # "off" /\ phase' = "send" /\ got' = Got
      /\ Passed(st) \subseteq Passed(st')
  BY NewsAdvance
<1>2. again = {} /\ Covers(st, posted \cup base) /\ "shift" \notin mishaps
  BY <1>1 DEF RepeatInv, Current, Had
<1> DEFINE es == posted \cup base
<1>3. Covers(st, es)
  BY <1>2
<1> HIDE DEF es
<1>4. /\ es \subseteq Passed(st) \cup Deep
      /\ \A i \in out' : Got.events[i] \notin es
  BY <1>2, <1>3, TakenIsFresh
<1>5. Events' = Events /\ Deep' = Deep /\ Passed(st)' = Passed(st')
  BY <1>1, QuietEvents DEF Passed, Events
<1>6. Covers(Current, posted \cup base)'
  BY <1>1, <1>4, <1>5 DEF Covers, Current, es
<1> QED  BY <1>1, <1>2, <1>4, <1>6 DEF RepeatInv, es

LEMMA SendRepeats ==
    ASSUME MonitorInv, RepeatInv, ~Had({"crash", "unsaved", "shift"}), Send
    PROVE  RepeatInv'
<1>1. /\ phase = "send" /\ st.etag # 0 /\ out \in SUBSET (DOMAIN got.events)
      /\ "shift" \notin mishaps
  BY DEF Send, MonitorInv, Phases, Had
<1>2. /\ Following(out) \in out /\ \A i \in out : i <= Following(out)
      /\ Upcoming \in Passed(st)
      /\ out' = out \ {Following(out)}
      /\ UNCHANGED <<created, list, now, st, disk, phase, got, base>>
      /\ \/ /\ posted' = posted \cup {Upcoming}
            /\ again' = again \cup ({Upcoming} \cap (posted \cup base))
         \/ posted' = posted /\ again' = again
  BY SendFacts
<1>3. /\ again = {} /\ Covers(st, posted \cup base)
      /\ \A i \in out : got.events[i] \notin posted \cup base
  BY <1>1 DEF RepeatInv, Current
<1>4. again' = {}
  BY <1>2, <1>3 DEF Upcoming
<1>5. Events' = Events /\ Deep' = Deep /\ Passed(st)' = Passed(st)
  BY <1>2, QuietEvents DEF Passed, Events
<1>6. Covers(Current, posted \cup base)'
  BY <1>1, <1>2, <1>3, <1>5 DEF Covers, Current, Unseeded
<1>7. ASSUME NEW i \in out' PROVE got.events[i] \notin posted' \cup base'
  <2>1. i \in out /\ i # Following(out) /\ i <= Following(out)
    BY <1>2
  <2>2. i \in Nat /\ Following(out) \in Nat
    BY <1>2, <2>1 DEF MonitorInv, Typed
  <2>3. i < Following(out)
    BY <2>1, <2>2
  <2>4. Newer(got.events[i], Upcoming)
    BY <1>1, <1>2, <2>1, <2>3 DEF MonitorInv, PagesAgree, InOrder, Upcoming
  <2>5. got.events[i] # Upcoming
    <3>1. Upcoming \in Events
      BY SendFacts
    <3>2. created[Upcoming] \in Nat /\ Upcoming \in Nat
      <4>1. Len(created) \in Nat
        BY LenProperties DEF MonitorInv, Typed
      <4> QED  BY <3>1, <4>1 DEF MonitorInv, Listed, Typed, Events
    <3> QED  BY <2>4, <3>2 DEF Newer, NewerIn
  <2> QED  BY <1>2, <1>3, <2>1, <2>5
<1> QED  BY <1>2, <1>4, <1>6, <1>7 DEF RepeatInv

LEMMA RepeatStep ==
    MonitorInv /\ RepeatInv /\ [Next]_vars => RepeatInv'
<1> SUFFICES ASSUME MonitorInv, RepeatInv, [Next]_vars, ~Had({"crash", "unsaved", "shift"})'
             PROVE  RepeatInv'
  BY DEF RepeatInv
<1>0. ~Had({"crash", "unsaved", "shift"}) /\ "shift" \notin mishaps
  BY MishapsStay DEF Had
<1>00. /\ again = {} /\ Covers(Current, posted \cup base)
       /\ phase = "send" => \A i \in out : got.events[i] \notin posted \cup base
  BY <1>0 DEF RepeatInv
<1>1. CASE Boot
  <2>1. /\ st' \in {disk, Fresh} /\ UNCHANGED <<created, list, again, posted, base, disk>>
        /\ phase = "off" /\ phase' = "idle"
    BY <1>1 DEF Boot, listVars
  <2>2. Covers(Current', posted' \cup base')
    BY <1>00, <2>1 DEF Current, Covers, Unseeded, Fresh
  <2> QED  BY <1>0, <2>1, <2>2, RepeatMoves
<1>2. CASE Exit
  <2>1. /\ UNCHANGED <<created, list, again, posted, base>> /\ phase = "idle" /\ phase' = "off"
        /\ disk' = st
    BY <1>2 DEF Exit, Ended, SaveOf, Mishap, listVars, Had
  <2>2. Covers(Current', posted' \cup base')
    BY <1>00, <2>1 DEF Current
  <2> QED  BY <1>0, <2>1, <2>2, RepeatMoves
<1>3. CASE Crash
  BY <1>3 DEF Crash, Mishap, Had
<1>4. CASE FetchFails \/ Sent \/ ReadsOn
  <2>1. /\ UNCHANGED <<created, list, again, posted, base, st>> /\ phase # "off"
        /\ phase' \in {"idle", "fetch"}
    BY <1>4 DEF FetchFails, Sent, ReadsOn, Reads, SaveOf, listVars, histVars
  <2>2. Covers(Current', posted' \cup base')
    BY <1>00, <2>1 DEF Current
  <2> QED  BY <1>0, <2>1, <2>2, RepeatMoves
<1>5. CASE ReadsSeed
  <2>1. /\ UNCHANGED <<created, list, again, posted>> /\ phase' = "idle"
    BY <1>5 DEF ReadsSeed, Reads
  <2>2. Events \subseteq Passed(st') \cup Deep
    BY <1>0, <1>5, SeedCovers
  <2>3. posted \subseteq Events /\ base' \subseteq Events
    <3>1. base' \subseteq Events' /\ Events' = Events
      BY <1>5, <2>1, SeedKeeps, QuietEvents DEF MonitorInv, Typed
    <3> QED  BY <3>1 DEF MonitorInv, Typed
  <2>4. Covers(Current', posted' \cup base')
    BY <2>1, <2>2, <2>3 DEF Current, Covers
  <2> QED  BY <1>0, <2>1, <2>4, RepeatMoves
<1>6. CASE ReadsNothing
  <2>1. /\ UNCHANGED <<created, list, again, posted, base>> /\ phase # "off" /\ phase' = "idle"
        /\ st' = [st EXCEPT !.etag = Got.etag] /\ st \in States /\ ~FirstRun
    BY <1>6 DEF ReadsNothing, Reads, NothingNew, MonitorInv, Typed
  <2>2. Passed(st') = Passed(st)
    BY <2>1 DEF Passed, States
  <2>3. Covers(Current', posted' \cup base')
    BY <1>00, <2>1, <2>2 DEF Current, Covers, Unseeded, FirstRun
  <2> QED  BY <1>0, <2>1, <2>3, RepeatMoves
<1>7. CASE ReadsNews
  BY <1>0, <1>7, NewsRepeats
<1>8. CASE Send
  BY <1>0, <1>8, SendRepeats
<1>9. ASSUME NEW t \in 1..now, Arrive(t) PROVE RepeatInv'
  <2>1. UNCHANGED <<st, disk, out, got, base, posted, phase, again>>
    BY <1>9 DEF Arrive
  <2>2. /\ Deep \subseteq Deep'
        /\ Passed(st) \subseteq Passed(st)' /\ Passed(disk) \subseteq Passed(disk)'
    BY <1>9, ArriveDeepens
  <2>3. Covers(Current, posted \cup base)'
    <3>1. CASE phase = "off"
      BY <1>00, <2>1, <2>2, <3>1 DEF Covers, Current, Unseeded
    <3>2. CASE phase # "off"
      BY <1>00, <2>1, <2>2, <3>2 DEF Covers, Current, Unseeded
    <3> QED  BY <3>1, <3>2
  <2> QED  BY <1>00, <2>1, <2>3 DEF RepeatInv
<1>10. CASE Cancelled \/ Tick \/ UNCHANGED vars
  <2>1. UNCHANGED <<created, list, st, disk, phase, out, got, base, posted, again, mishaps>>
    BY <1>10 DEF Cancelled, Tick, vars, progVars, listVars, histVars
  <2> QED  BY <2>1, QuietEvents DEF RepeatInv, Had, Covers, Unseeded, Current, Passed
<1> QED  BY <1>1, <1>2, <1>3, <1>4, <1>5, <1>6, <1>7, <1>8, <1>9, <1>10, FetchSplits DEF Next, Step

\* NoRepeatsBut holds: an event is announced once unless the monitor died,
\* could not save, or read pages of two lists.
THEOREM AnnouncedOnce == Spec => []NoRepeatsBut
<1>1. Init => RepeatInv
  BY DEF Init, RepeatInv, Covers, Unseeded, Current, Fresh
<1>2. RepeatInv => NoRepeatsBut
  BY DEF RepeatInv, NoRepeatsBut
<1> QED  BY <1>1, <1>2, RepeatStep, MonitorHolds, PTL DEF Spec

-----------------------------------------------------------------------------
(* The announcements are in order.                                         *)

\* What is due, for what was posted and given up so far.
Due == Events \ (posted \cup Ignored \cup lost \cup base)

\* What OrderedInv says of a watermark.
Sound(s) == Later(s) /\ Covers(s, base)

Losses == Had({"crash", "unsaved"}) \/ lost \subseteq Passed(Current)

Queued ==
    \A i \in out, f \in posted :
        got.events[i] \in posted \/ created[f] <= created[got.events[i]]

LEMMA OrderedParts ==
    ASSUME OrderedInv, ~Disordered
    PROVE  /\ Sound(disk) /\ Losses
           /\ phase # "off" => Sound(st) /\ (Unseeded(st) => Unseeded(disk))
           /\ phase = "send" => Queued
           /\ {"late", "badstate", "overflow", "boundary", "shift"} \cap mishaps = {}
           /\ lost = {} \/ ~Had({"crash", "unsaved"})
BY DEF OrderedInv, Sound, Losses, Queued, Disordered, Had

\* A step that posts nothing and does not touch the list.
LEMMA OrderMoves ==
    ASSUME UNCHANGED <<created, list, posted, lost>>, phase' # "send",
           Sound(disk)' /\ (phase' # "off" => Sound(st)' /\ (Unseeded(st') => Unseeded(disk'))),
           Had({"crash", "unsaved"})' \/ lost \subseteq Passed(Current')
    PROVE  OrderedInv'
<1>1. Passed(Current)' = Passed(Current')
  BY DEF Passed, Events
<1>2. Losses'
  BY <1>1 DEF Losses
<1> QED  BY <1>2 DEF OrderedInv, Losses, Sound, Unseeded

\* A watermark is as sound as one that passes no more.
LEMMA SoundStays ==
    ASSUME UNCHANGED <<created, list, posted, lost, base>>
    PROVE  /\ disk' \in {st, disk} /\ Sound(disk) /\ Sound(st) => Sound(disk)'
           /\ disk' = disk /\ Sound(disk) => Sound(disk)'
           /\ st' = st /\ Sound(st) => Sound(st)'
           /\ st' = disk /\ Sound(disk) => Sound(st)'
           /\ disk' = st /\ Sound(st) => Sound(disk)'
           /\ ~Unseeded(st) /\ ~Unseeded(st') /\ Passed(st) \subseteq Passed(st') /\ Sound(st) => Sound(st)'
<1>1. Events' = Events /\ Deep' = Deep
  BY QuietEvents
<1>2. \A s : {e \in Events' : created'[e] < s.at \/ e \in s.ids} = Passed(s)
  BY <1>1 DEF Passed
<1>3. Passed(st)' = Passed(st') /\ Passed(disk)' = Passed(disk')
  BY <1>1, <1>2 DEF Passed
<1>4. /\ Sound(st)' <=> /\ Unseeded(st') \/ \A e \in Due, f \in posted :
                              e \notin Passed(st') => created[f] <= created[e]
                        /\ Unseeded(st') \/ base \subseteq Passed(st') \cup Deep
      /\ Sound(disk)' <=> /\ Unseeded(disk') \/ \A e \in Due, f \in posted :
                                e \notin Passed(disk') => created[f] <= created[e]
                          /\ Unseeded(disk') \/ base \subseteq Passed(disk') \cup Deep
  BY <1>1, <1>3 DEF Sound, Later, Covers, Due, Unseeded
<1>5. /\ Sound(st) <=> /\ Unseeded(st) \/ \A e \in Due, f \in posted :
                             e \notin Passed(st) => created[f] <= created[e]
                       /\ Unseeded(st) \/ base \subseteq Passed(st) \cup Deep
      /\ Sound(disk) <=> /\ Unseeded(disk) \/ \A e \in Due, f \in posted :
                               e \notin Passed(disk) => created[f] <= created[e]
                         /\ Unseeded(disk) \/ base \subseteq Passed(disk) \cup Deep
  BY DEF Sound, Later, Covers, Due
<1>6. ~Unseeded(st) /\ ~Unseeded(st') /\ Passed(st) \subseteq Passed(st') /\ Sound(st) => Sound(st)'
  BY <1>4, <1>5
<1>7. /\ st' = st /\ Sound(st) => Sound(st)'
      /\ st' = disk /\ Sound(disk) => Sound(st)'
  BY <1>4, <1>5
<1>8. /\ disk' = disk /\ Sound(disk) => Sound(disk)'
      /\ disk' = st /\ Sound(st) => Sound(disk)'
  BY <1>4, <1>5
<1> QED  BY <1>6, <1>7, <1>8

\* A first run of one list leaves nothing unread but what is flagged.
LEMMA SeedOrders ==
    ASSUME MonitorInv, OrderedInv, ~Disordered, ~Disordered', ReadsSeed
    PROVE  OrderedInv'
<1>1. /\ UNCHANGED <<created, list, posted, lost>> /\ phase \in {"idle", "fetch"} /\ phase' = "idle"
      /\ FirstRun /\ Seed(ToSet(Got.events), Got.etag)
  BY DEF ReadsSeed, Reads
<1>2. /\ "shift" \notin mishaps /\ "overflow" \notin mishaps'
      /\ Losses
      /\ lost = {} \/ ~Had({"crash", "unsaved"})
  BY OrderedParts DEF Disordered, Had
<1>3. /\ Events \subseteq Passed(st') \cup Deep /\ ToSet(Got.events) \subseteq Passed(st')
      /\ Got.etag = Etag
  BY <1>2, SeedCovers, SeedReads
<1>4. Unseeded(st) /\ Unseeded(disk)
  BY <1>1, OrderedParts DEF Unseeded, FirstRun
<1>5. disk' \in {st', disk} /\ base \subseteq base'
  BY <1>1 DEF Seed, SaveOf
<1>6. Events' = Events /\ Deep' = Deep /\ Passed(st)' = Passed(st')
  BY <1>1, QuietEvents DEF Passed, Events
<1>7. Etag - 1 = Len(created) /\ Events = 1..Etag - 1
  <2>1. Len(created) \in Nat /\ Len(list) = Len(created)
    BY LenProperties DEF MonitorInv, Typed, Listed
  <2> QED  BY <2>1 DEF Etag, Events
<1>8. Events \subseteq ToSet(Got.events) \cup base'
  <2> SUFFICES ASSUME NEW e \in Events, e \notin ToSet(Got.events) \cup base' PROVE FALSE
    OBVIOUS
  <2>1. \E x \in 1..Got.etag - 1 : x \notin ToSet(Got.events) \cup base'
    BY <1>3, <1>7
  <2>2. "overflow" \in mishaps'
    BY <1>1, <2>1 DEF Seed
  <2> QED  BY <1>2, <2>2
<1>9. base' \subseteq Events
  BY <1>6, SeedKeeps DEF MonitorInv, Typed
<1>10. Sound(st)'
  BY <1>3, <1>6, <1>8, <1>9 DEF Sound, Later, Covers
<1>11. Sound(disk)'
  <2>1. CASE disk' = st'
    BY <1>10, <2>1 DEF Sound, Later, Covers, Unseeded, Passed
  <2>2. CASE disk' = disk
    BY <1>4, <2>2 DEF Sound, Later, Covers, Unseeded
  <2> QED  BY <1>5, <2>1, <2>2
<1>12. Unseeded(st') => Unseeded(disk')
  BY <1>4, <1>5
<1>13. Passed(st) = {}
  <2> SUFFICES ASSUME NEW e \in Passed(st) PROVE FALSE
    OBVIOUS
  <2>1. st.at = 0 /\ e \in Events /\ created[e] \in 1..now /\ now \in Nat
    BY <1>4 DEF Unseeded, Passed, MonitorInv, Typed, Listed
  <2>2. e \in st.ids => created[e] = st.at
    BY DEF MonitorInv, Dated
  <2> QED  BY <2>1, <2>2 DEF Passed
<1>14. lost = {}
  BY <1>1, <1>2, <1>13 DEF Losses, Current
<1> QED  BY <1>1, <1>10, <1>11, <1>12, <1>14, OrderMoves

LEMMA NewsOrders ==
    ASSUME MonitorInv, OrderedInv, ~Disordered, ~Disordered', ReadsNews
    PROVE  OrderedInv'
<1>1. /\ UNCHANGED <<created, list, disk, posted, lost, base>>
      /\ phase # "off" /\ phase' = "send" /\ got' = Got
      /\ Passed(st) \subseteq Passed(st') /\ st'.etag # 0
      /\ mishaps \subseteq mishaps'
  BY NewsAdvance
<1>2. /\ "shift" \notin mishaps /\ Sound(disk) /\ Sound(st) /\ Losses
      /\ lost = {} \/ ~Had({"crash", "unsaved"})
  BY <1>1, OrderedParts
<1>3. Covers(st, base)
  BY <1>2 DEF Sound
<1>4. /\ ~Unseeded(st)
      /\ \A i \in out' : /\ Got.events[i] \notin base /\ Got.events[i] \in Events
                         /\ Got.events[i] \notin Passed(st) /\ Got.events[i] \notin Ignored
  <2> DEFINE es == base
  <2>1. Covers(st, es)
    BY <1>3
  <2> HIDE DEF es
  <2>2. /\ ~Unseeded(st)
        /\ \A i \in out' : /\ Got.events[i] \notin es /\ Got.events[i] \in Events
                           /\ Got.events[i] \notin Passed(st) /\ Got.events[i] \notin Ignored
    BY <1>2, <2>1, TakenIsFresh
  <2> QED  BY <2>2 DEF es
<1>5. ~Unseeded(st')
  BY <1>1 DEF Unseeded
<1>6. Sound(st)' /\ Sound(disk)'
  BY <1>1, <1>2, <1>4, <1>5, SoundStays
<1>7. lost \subseteq Passed(st)
  BY <1>1, <1>2 DEF Losses, Current
<1>8. Losses'
  <2>1. Passed(st)' = Passed(st')
    BY <1>1 DEF Passed, Events
  <2> QED  BY <1>1, <1>7, <2>1 DEF Losses, Current
<1>9. ASSUME NEW i \in out', NEW f \in posted
      PROVE  Got.events[i] \in posted \/ created[f] <= created[Got.events[i]]
  <2>1. Got.events[i] \notin lost /\ Got.events[i] \notin Passed(st)
    BY <1>4, <1>7
  <2> QED  BY <1>2, <1>4, <2>1 DEF Sound, Later
<1> QED  BY <1>1, <1>5, <1>6, <1>8, <1>9 DEF OrderedInv, Sound, Losses, Unseeded

LEMMA SendOrders ==
    ASSUME MonitorInv, PassedIsAnnounced, OrderedInv, ~Disordered, ~Disordered', Send
    PROVE  OrderedInv'
<1>1. /\ phase = "send" /\ st.etag # 0 /\ out \in SUBSET (DOMAIN got.events) /\ out \in SUBSET Nat
      /\ \A i \in out : got.events[i] \in Events
  BY DEF Send, MonitorInv, Phases, Typed
<1>2. /\ Following(out) \in out /\ \A i \in out : i <= Following(out)
      /\ Upcoming \in Passed(st) /\ Upcoming \in Events
      /\ out' = out \ {Following(out)}
      /\ UNCHANGED <<created, list, st, disk, phase, got, base>>
      /\ mishaps \subseteq mishaps'
      /\ \/ posted' = posted \cup {Upcoming} /\ lost' = lost
         \/ posted' = posted /\ lost' = lost \cup {Upcoming}
  BY SendFacts
<1>3. /\ Sound(disk) /\ Sound(st) /\ Losses /\ Queued /\ (Unseeded(st) => Unseeded(disk))
      /\ {"late", "badstate", "overflow", "boundary", "shift"} \cap mishaps = {}
  BY <1>1, OrderedParts
<1>4. Events' = Events /\ Deep' = Deep /\ Passed(st)' = Passed(st) /\ Passed(disk)' = Passed(disk)
  BY <1>2, QuietEvents DEF Passed, Events
<1>5. \A e \in Events : created[e] \in Nat
  BY DEF MonitorInv, Listed, Typed
\* What is after the next event is not older.
<1>6. ASSUME NEW i \in out' PROVE created[Upcoming] <= created[got.events[i]]
  <2>1. i \in out /\ i < Following(out)
    <3>1. i \in out /\ i # Following(out) /\ i <= Following(out)
      BY <1>2
    <3>2. i \in Nat /\ Following(out) \in Nat
      BY <1>1, <1>2, <3>1
    <3> QED  BY <3>1, <3>2
  <2>2. Newer(got.events[i], Upcoming)
    BY <1>1, <1>2, <1>3, <2>1 DEF MonitorInv, PagesAgree, InOrder, Upcoming
  <2>3. created[Upcoming] \in Nat /\ created[got.events[i]] \in Nat
    BY <1>1, <1>2, <1>5, <2>1
  <2> QED  BY <2>2, <2>3 DEF Newer, NewerIn
\* And what is not passed either.
<1>7. ASSUME NEW e \in Events, e \notin Passed(st) PROVE created[Upcoming] <= created[e]
  <2>1. st.at \in Nat /\ created[e] \in Nat /\ created[Upcoming] \in Nat
    BY <1>2, <1>5 DEF MonitorInv, Typed, States
  <2>2. ~(created[e] < st.at)
    BY <1>7 DEF Passed
  <2>3. created[Upcoming] < st.at \/ created[Upcoming] = st.at
    BY <1>2 DEF Passed, MonitorInv, Dated
  <2> QED  BY <2>1, <2>2, <2>3
<1>8. ASSUME NEW e \in Due, e \notin Remaining \ {Upcoming}, e # Upcoming
      PROVE  created[Upcoming] <= created[e]
  <2>1. e \in Events
    BY DEF Due
  <2>2. e \notin Passed(st)
    BY <1>3, <1>8 DEF PassedIsAnnounced, Had, Due
  <2> QED  BY <1>7, <2>1, <2>2
<1>9. ASSUME NEW e \in Remaining, e # Upcoming PROVE created[Upcoming] <= created[e]
  <2>1. PICK i \in out : got.events[i] = e
    BY DEF Remaining
  <2>2. i \in out'
    BY <1>2, <1>9, <2>1 DEF Upcoming
  <2> QED  BY <1>6, <2>1, <2>2
<1>10. ASSUME NEW e \in Due' PROVE /\ e \in Due
                                   /\ \A f \in posted' \ posted : created[f] <= created[e]
  <2>1. e \in Due /\ (e = Upcoming => FALSE)
    BY <1>2, <1>4 DEF Due
  <2>2. created[Upcoming] <= created[e]
    BY <1>8, <1>9, <2>1
  <2> QED  BY <1>2, <2>1, <2>2
<1>11. Later(st)' /\ Later(disk)'
  <2>1. Later(st)'
    BY <1>2, <1>3, <1>4, <1>10 DEF Later, Sound, Due, Unseeded
  <2>2. Later(disk)'
    BY <1>2, <1>3, <1>4, <1>10 DEF Later, Sound, Due, Unseeded
  <2> QED  BY <2>1, <2>2
<1>12. Covers(st, base)' /\ Covers(disk, base)'
  BY <1>2, <1>3, <1>4 DEF Covers, Sound, Unseeded
<1>13. Losses'
  <2>1. CASE Had({"crash", "unsaved"})
    BY <1>2, <2>1 DEF Losses, Had
  <2>2. CASE lost \subseteq Passed(Current)
    BY <1>1, <1>2, <1>4, <2>2 DEF Losses, Current
  <2> QED  BY <1>3, <2>1, <2>2 DEF Losses
<1>14. Queued'
  <2> SUFFICES ASSUME NEW i \in out', NEW f \in posted'
               PROVE  got.events[i] \in posted' \/ created[f] <= created[got.events[i]]
    BY <1>2 DEF Queued
  <2>1. CASE f \in posted
    BY <1>2, <1>3, <2>1 DEF Queued
  <2>2. CASE f = Upcoming
    BY <1>6, <2>2
  <2> QED  BY <1>2, <2>1, <2>2
<1> QED  BY <1>1, <1>2, <1>3, <1>11, <1>12, <1>13, <1>14 DEF OrderedInv, Losses, Queued, Unseeded

LEMMA ArriveOrders ==
    ASSUME MonitorInv, OrderedInv, ~Disordered, ~Disordered', NEW t \in 1..now, Arrive(t)
    PROVE  OrderedInv'
<1>1. UNCHANGED <<st, disk, out, got, base, posted, lost, phase>> /\ mishaps \subseteq mishaps'
  BY DEF Arrive, Mishap
<1>2. t = now
  BY DEF Arrive, Mishap, Disordered, Had
<1>3. /\ Deep \subseteq Deep' /\ Events \subseteq Events'
      /\ Passed(st) \subseteq Passed(st)' /\ Passed(disk) \subseteq Passed(disk)'
      /\ \A e \in Events : created'[e] = created[e]
      /\ \A e \in Events' \ Events : created'[e] = now
  BY <1>2, ArriveDeepens
<1>4. /\ Sound(disk) /\ Losses
      /\ phase # "off" => Sound(st) /\ (Unseeded(st) => Unseeded(disk))
      /\ phase = "send" => Queued
  BY OrderedParts
<1>5. /\ posted \subseteq Events /\ \A e \in Events : created[e] \in 1..now
      /\ now \in Nat /\ \A i \in DOMAIN got.events : got.events[i] \in Events
      /\ phase = "send" => out \subseteq DOMAIN got.events
  BY DEF MonitorInv, Typed, Listed, Phases
<1>6. \A e \in Due', f \in posted : /\ created'[f] = created[f]
                                    /\ \/ e \in Due /\ created'[e] = created[e]
                                       \/ created[f] <= created'[e]
  <2> SUFFICES ASSUME NEW e \in Due', NEW f \in posted
               PROVE  /\ created'[f] = created[f]
                      /\ \/ e \in Due /\ created'[e] = created[e]
                         \/ created[f] <= created'[e]
    OBVIOUS
  <2>1. CASE e \in Events
    BY <1>1, <1>3, <1>5, <2>1 DEF Due
  <2>2. CASE e \in Events' \ Events
    <3>1. created'[e] = now /\ created[f] \in 1..now
      BY <1>3, <1>5, <2>2
    <3> QED  BY <1>3, <1>5, <3>1
  <2> QED  BY <2>1, <2>2 DEF Due
<1>7. Sound(disk)'
  BY <1>1, <1>3, <1>4, <1>6 DEF Sound, Later, Covers, Due, Unseeded
<1>8. phase # "off" => Sound(st)'
  BY <1>1, <1>3, <1>4, <1>6 DEF Sound, Later, Covers, Due, Unseeded
<1>9. Losses'
  <2>1. CASE phase = "off"
    BY <1>1, <1>3, <1>4, <2>1 DEF Losses, Had, Current
  <2>2. CASE phase # "off"
    BY <1>1, <1>3, <1>4, <2>2 DEF Losses, Had, Current
  <2> QED  BY <2>1, <2>2
<1>10. phase = "send" => Queued'
  <2> SUFFICES ASSUME phase = "send", NEW i \in out, NEW f \in posted
               PROVE  got.events[i] \in posted \/ created'[f] <= created'[got.events[i]]
    BY <1>1 DEF Queued
  <2>1. got.events[i] \in Events /\ f \in Events
    BY <1>5
  <2> QED  BY <1>3, <1>4, <2>1 DEF Queued
<1> QED  BY <1>1, <1>4, <1>7, <1>8, <1>9, <1>10 DEF OrderedInv, Sound, Losses, Queued, Unseeded

LEMMA LossesStay == [Next]_vars => lost \subseteq lost'
BY DEF Next, Step, Boot, Cancelled, Exit, Crash, FetchPage, FetchFails, Send, Sent, Arrive, Tick,
       vars, progVars, histVars

LEMMA OrderedStep ==
    MonitorInv /\ PassedIsAnnounced /\ OrderedInv /\ [Next]_vars => OrderedInv'
<1> SUFFICES ASSUME MonitorInv, PassedIsAnnounced, OrderedInv, [Next]_vars, ~Disordered'
             PROVE  OrderedInv'
  BY DEF OrderedInv
<1>0. ~Disordered
  BY MishapsStay, LossesStay DEF Disordered, Had
<1>00. /\ Sound(disk) /\ Losses
       /\ phase # "off" => Sound(st) /\ (Unseeded(st) => Unseeded(disk))
       /\ {"late", "badstate", "overflow", "boundary", "shift"} \cap mishaps = {}
  BY <1>0, OrderedParts
<1>1. CASE Boot
  <2>1. /\ st' = disk /\ UNCHANGED <<created, list, posted, lost, base, disk>>
        /\ phase = "off" /\ phase' = "idle" /\ mishaps \subseteq mishaps'
    BY <1>1 DEF Boot, listVars, Mishap, Disordered, Had
  <2>2. Sound(disk)' /\ Sound(st)'
    BY <1>00, <2>1, SoundStays
  <2>3. Had({"crash", "unsaved"})' \/ lost \subseteq Passed(Current')
    BY <1>00, <2>1 DEF Losses, Current, Had
  <2> QED  BY <2>1, <2>2, <2>3, OrderMoves
<1>2. CASE Exit
  <2>1. /\ UNCHANGED <<created, list, posted, lost, base>> /\ phase = "idle" /\ phase' = "off"
        /\ disk' = st \/ (disk' = disk /\ "unsaved" \in mishaps')
        /\ mishaps \subseteq mishaps'
    BY <1>2 DEF Exit, Ended, SaveOf, Mishap, listVars
  <2>2. Sound(disk)'
    BY <1>00, <2>1, SoundStays
  <2>3. Had({"crash", "unsaved"})' \/ lost \subseteq Passed(Current')
    BY <1>00, <2>1 DEF Losses, Current, Had
  <2> QED  BY <2>1, <2>2, <2>3, OrderMoves
<1>3. CASE Crash
  <2>1. /\ UNCHANGED <<created, list, posted, lost, base, disk>> /\ phase' = "off"
        /\ Had({"crash", "unsaved"})'
    BY <1>3 DEF Crash, Ended, Mishap, listVars, Had
  <2>2. Sound(disk)'
    BY <1>00, <2>1, SoundStays
  <2> QED  BY <2>1, <2>2, OrderMoves
<1>4. CASE FetchFails \/ Sent \/ ReadsOn
  <2>1. /\ UNCHANGED <<created, list, posted, lost, base, st>> /\ phase # "off"
        /\ phase' \in {"idle", "fetch"} /\ disk' \in {st, disk} /\ mishaps \subseteq mishaps'
    BY <1>4 DEF FetchFails, Sent, ReadsOn, Reads, SaveOf, Mishap, listVars, histVars
  <2>2. Sound(disk)' /\ Sound(st)'
    BY <1>00, <2>1, SoundStays
  <2>3. Had({"crash", "unsaved"})' \/ lost \subseteq Passed(Current')
    BY <1>00, <2>1 DEF Losses, Current, Had
  <2>4. Unseeded(st') => Unseeded(disk')
    BY <1>00, <2>1
  <2> QED  BY <2>1, <2>2, <2>3, <2>4, OrderMoves
<1>5. CASE ReadsSeed
  BY <1>0, <1>5, SeedOrders
<1>6. CASE ReadsNothing
  <2>1. /\ UNCHANGED <<created, list, posted, lost, base>> /\ phase \in {"idle", "fetch"}
        /\ phase' = "idle" /\ st' = [st EXCEPT !.etag = Got.etag] /\ st \in States /\ ~FirstRun
        /\ disk' \in {st', disk} /\ mishaps \subseteq mishaps'
    BY <1>6 DEF ReadsNothing, Reads, NothingNew, SaveOf, Mishap, MonitorInv, Typed
  <2>2. Passed(st') = Passed(st) /\ st'.at = st.at /\ st'.etag = Got.etag
    BY <2>1 DEF Passed, States
  <2>3. ~Unseeded(st) /\ ~Unseeded(st')
    <3>1. Got.etag # 0
      BY <2>1, ReadFacts
    <3> QED  BY <2>1, <2>2, <3>1 DEF Unseeded, FirstRun
  <2>4. Sound(st)'
    BY <1>00, <2>1, <2>2, <2>3, SoundStays
  <2>5. Sound(disk)'
    <3>1. CASE disk' = st'
      BY <2>4, <3>1 DEF Sound, Later, Covers, Unseeded, Passed
    <3>2. CASE disk' = disk
      BY <1>00, <2>1, <3>2, SoundStays
    <3> QED  BY <2>1, <3>1, <3>2
  <2>6. Had({"crash", "unsaved"})' \/ lost \subseteq Passed(Current')
    BY <1>00, <2>1, <2>2 DEF Losses, Current, Had
  <2> QED  BY <2>1, <2>3, <2>4, <2>5, <2>6, OrderMoves
<1>7. CASE ReadsNews
  BY <1>0, <1>7, NewsOrders
<1>8. CASE Send
  BY <1>0, <1>8, SendOrders
<1>9. ASSUME NEW t \in 1..now, Arrive(t) PROVE OrderedInv'
  BY <1>0, <1>9, ArriveOrders
<1>10. CASE Cancelled \/ Tick \/ UNCHANGED vars
  <2>1. UNCHANGED <<created, list, st, disk, phase, out, got, base, posted, lost, mishaps>>
    BY <1>10 DEF Cancelled, Tick, vars, progVars, listVars, histVars
  <2>2. Events' = Events /\ Deep' = Deep /\ Passed(st)' = Passed(st) /\ Passed(disk)' = Passed(disk)
    BY <2>1, QuietEvents DEF Passed, Events
  <2> QED  BY <2>1, <2>2 DEF OrderedInv, Disordered, Had, Later, Covers, Unseeded, Current
<1> QED  BY <1>1, <1>2, <1>3, <1>4, <1>5, <1>6, <1>7, <1>8, <1>9, <1>10, FetchSplits DEF Next, Step

LEMMA OrderedHolds == Spec => []OrderedInv
<1>1. Init => OrderedInv
  <2> SUFFICES ASSUME Init PROVE OrderedInv
    OBVIOUS
  <2>1. lost \subseteq Passed(Current) /\ Unseeded(disk)
    BY DEF Init, Unseeded, Fresh
  <2> QED  BY <2>1 DEF Init, OrderedInv, Later, Covers
<1> QED  BY <1>1, OrderedStep, MonitorHolds, WatermarkIsAnnounced, PTL DEF Spec

\* Chronological holds: what is announced is not older than what was, over all
\* polls and restarts, but for what Post lost and for lists that shift, do not
\* fit, or get events late.
THEOREM AnnouncedInOrder == Spec => Chronological
<1> DEFINE Ordered == \A e \in posted' \ posted : \A f \in posted :
                          \/ created[f] <= created[e]
                          \/ Had({"late", "badstate", "overflow", "boundary", "shift"})
                          \/ lost # {} /\ Had({"crash", "unsaved"})
<1>1. MonitorInv /\ OrderedInv /\ [Next]_vars => [Ordered]_vars
  <2> SUFFICES ASSUME MonitorInv, OrderedInv, [Next]_vars, NEW e \in posted' \ posted,
                      NEW f \in posted, ~Disordered
               PROVE  created[f] <= created[e]
    BY DEF Disordered
  <2>1. Send
    BY DEF Next, Step, Boot, Cancelled, Exit, Crash, FetchPage, FetchFails, Sent, Arrive, Tick,
           vars, progVars, histVars
  <2>2. phase = "send" /\ Following(out) \in out /\ e = Upcoming
    BY <2>1, SendFacts DEF Send
  <2>3. Queued
    BY <2>2, OrderedParts
  <2> QED  BY <2>2, <2>3 DEF Queued, Upcoming
<1> QED  BY <1>1, MonitorHolds, OrderedHolds, PTL DEF Spec, Chronological

-----------------------------------------------------------------------------
(* There is one first run.                                                 *)

LEMMA SeededStep == MonitorInv /\ SeededInv /\ [Next]_vars => SeededInv'
<1> SUFFICES ASSUME MonitorInv, SeededInv, [Next]_vars, ~Had({"badstate", "unsaved"})'
             PROVE  SeededInv'
  BY DEF SeededInv
<1>0. ~Had({"badstate", "unsaved"})
  BY MishapsStay DEF Had
<1>00. seeded => disk.etag # 0 /\ (phase # "off" => st.etag # 0)
  BY <1>0 DEF SeededInv
<1>1. CASE Boot
  BY <1>00, <1>1 DEF Boot, Mishap, Had, SeededInv
<1>2. CASE Exit \/ Crash
  BY <1>00, <1>2 DEF Exit, Crash, Ended, SaveOf, Mishap, Had, SeededInv
<1>3. CASE FetchFails \/ Sent \/ ReadsOn
  BY <1>00, <1>3 DEF FetchFails, Sent, ReadsOn, Reads, SaveOf, histVars, SeededInv
<1>4. CASE ReadsSeed
  <2>1. Seed(ToSet(Got.events), Got.etag) /\ phase \in {"idle", "fetch"}
    BY <1>4 DEF ReadsSeed, Reads
  <2>2. disk' = st'
    BY <2>1 DEF Seed, SaveOf, Mishap, Had
  <2>3. st'.etag = Got.etag /\ Got.etag # 0
    <3>1. Typed /\ Listed /\ Dated(st)
      BY DEF MonitorInv
    <3>2. ToSet(Got.events) \in SUBSET Events /\ Got.etag \in Nat \ {0}
      BY <2>1, ReadFacts
    <3> DEFINE es == ToSet(Got.events)
               tag == Got.etag
    <3>3. es \in SUBSET Events /\ tag \in Nat /\ Seed(es, tag)
      BY <2>1, <3>2
    <3> HIDE DEF es, tag
    <3>4. st'.etag = tag
      BY <3>1, <3>3, SeedDates
    <3> QED  BY <3>2, <3>4 DEF tag
  <2> QED  BY <2>2, <2>3 DEF SeededInv
<1>5. CASE ReadsNothing
  <2>1. /\ st' = [st EXCEPT !.etag = Got.etag] /\ st \in States /\ phase \in {"idle", "fetch"}
        /\ disk' \in {st', disk} /\ seeded' = seeded
    BY <1>5 DEF ReadsNothing, Reads, NothingNew, SaveOf, MonitorInv, Typed
  <2>2. st'.etag # 0
    <3>1. Got.etag # 0
      BY <2>1, ReadFacts
    <3> QED  BY <2>1, <3>1 DEF States
  <2> QED  BY <1>00, <2>1, <2>2 DEF SeededInv
<1>6. CASE ReadsNews
  BY <1>00, <1>6, NewsAdvance DEF SeededInv
<1>7. CASE Send
  BY <1>00, <1>7, SendFacts DEF SeededInv
<1>8. CASE (\E t \in 1..now : Arrive(t)) \/ Cancelled \/ Tick \/ UNCHANGED vars
  BY <1>00, <1>8 DEF Arrive, Cancelled, Tick, vars, progVars, listVars, histVars, SeededInv
<1> QED  BY <1>1, <1>2, <1>3, <1>4, <1>5, <1>6, <1>7, <1>8, FetchSplits DEF Next, Step

\* OneFirstRun holds: once there was a first run, nothing more is taken as
\* backlog unless the state was lost.
THEOREM BacklogOnce == Spec => OneFirstRun
<1> DEFINE Once == base' # base /\ seeded => Had({"badstate", "unsaved"})
<1>1. Init => SeededInv
  BY DEF Init, SeededInv
<1>2. MonitorInv /\ SeededInv /\ [Next]_vars => [Once]_vars
  <2> SUFFICES ASSUME MonitorInv, SeededInv, [Next]_vars, base' # base, seeded
               PROVE  Had({"badstate", "unsaved"})
    OBVIOUS
  <2>1. FetchPage /\ FirstRun
    BY DEF Next, Step, Boot, Cancelled, Exit, Crash, FetchPage, Announce, NothingNew, FetchFails, Send, Sent,
           Arrive, Tick, vars, progVars, histVars
  <2>2. phase # "off" /\ st.etag = 0
    BY <2>1 DEF FetchPage, FirstRun
  <2> QED  BY <2>2 DEF SeededInv
<1> QED  BY <1>1, <1>2, SeededStep, MonitorHolds, PTL DEF Spec, OneFirstRun
=============================================================================
