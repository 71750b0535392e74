----------------------------- MODULE IrcBotProofs -----------------------------
(***************************************************************************)
(* Proofs about the seen store under the handlers of the IRC connection,   *)
(* and that the bot's mirror of its channels is the server's membership,   *)
(* for every set of channels and nicks, and every order of lines, writes   *)
(* and losses of the connection.                                           *)
(***************************************************************************)
EXTENDS IrcBot, TLAPS

-----------------------------------------------------------------------------
(* What each step does to the seen store.                                  *)

\* A handler runs only while the connection is up.
Handler ==
    /\ conn
    /\ UNCHANGED <<now, scenario, conn>>
    /\ \/ \E ch \in Chans, n \in Names, f \in DOMAIN Zero : Set(ch, n, f, now)
       \/ \E n \in Names : Quit(n, now)
       \/ \E old, neu \in Names : Rename(old, neu)

\* The connection, the clock and what the server does unheard.
Elsewhere ==
    /\ UNCHANGED <<seenVars, scenario>>
    /\ now' \in {now, now + 1}
    /\ conn' = conn \/ conn' = FALSE \/ saving = "no"

StoreStep ==
    \/ Handler
    \/ Elsewhere
    \/ Writer
    \/ StartStop /\ conn' = FALSE /\ UNCHANGED <<now, scenario>>
    \/ Reload /\ conn' = FALSE /\ UNCHANGED <<now, scenario>>

LEMMA Fields == DOMAIN Zero = {"join", "exit", "message"}
  BY DEF Zero

LEMMA StepOfStore == ASSUME scenario \in Scenarios, Next PROVE StoreStep
<1>1. scenario.chans \subseteq Chans /\ scenario.nicks \subseteq Names /\ Me \in Names
  BY IrcAssumption
<1>2. \A ch : ch \in Joined => conn /\ ch \in Chans
  BY DEF Joined
<1>3. CASE Connect
  BY <1>3 DEF Connect, StoreStep, Elsewhere
<1>4. CASE Disconnect
  BY <1>4 DEF Disconnect, Lost, StoreStep, Elsewhere
<1>5. CASE Tick
  BY <1>5 DEF Tick, StoreStep, Elsewhere
<1>6. CASE StopAll
  BY <1>6 DEF StopAll, Lost, StoreStep
<1>7. CASE Restart
  BY <1>7 DEF Restart, Lost, StoreStep
<1>8. ASSUME NEW ch \in scenario.chans, MeJoins(ch) PROVE StoreStep
  BY <1>1, <1>8, Fields DEF MeJoins, StoreStep, Handler
<1>9. ASSUME NEW ch \in scenario.chans, NEW n \in scenario.nicks, Joins(n, ch)
      PROVE  StoreStep
  BY <1>1, <1>2, <1>9, Fields DEF Joins, Unheard, StoreStep, Handler, Elsewhere
<1>10. ASSUME NEW ch \in scenario.chans, NEW n \in scenario.nicks \cup {Me}, Parts(n, ch)
       PROVE  StoreStep
  BY <1>1, <1>2, <1>10, Fields DEF Parts, StoreStep, Handler, Elsewhere
<1>11. ASSUME NEW ch \in scenario.chans, NEW n \in scenario.nicks, Speaks(n, ch)
       PROVE  StoreStep
  BY <1>1, <1>2, <1>11, Fields DEF Speaks, ircVars, StoreStep, Handler
<1>12. ASSUME NEW ch \in scenario.chans, NEW n \in scenario.nicks \cup {Me}, Kicked(n, ch)
       PROVE  StoreStep
  BY <1>1, <1>2, <1>12, Fields DEF Kicked, StoreStep, Handler
<1>13. CASE Names353
  BY <1>13 DEF Names353, StoreStep, Elsewhere
<1>14. ASSUME NEW n \in scenario.nicks, Quits(n) PROVE StoreStep
  BY <1>1, <1>2, <1>14 DEF Quits, Hears, StoreStep, Handler, Elsewhere
<1>15. ASSUME NEW old \in scenario.nicks, NEW neu \in scenario.nicks, Renames(old, neu)
       PROVE  StoreStep
  BY <1>1, <1>2, <1>15 DEF Renames, Hears, StoreStep, Handler, Elsewhere
<1>16. CASE Writer
  BY <1>16 DEF StoreStep
<1>17. QED
  BY <1>3, <1>4, <1>5, <1>6, <1>7, <1>8, <1>9, <1>10, <1>11, <1>12, <1>13, <1>14,
     <1>15, <1>16 DEF Next, Server

-----------------------------------------------------------------------------
(* The invariant.                                                          *)

Entry == [join : Nat, exit : Nat, message : Nat]

Data == [Chans -> [Names -> Entry]]

StoreType ==
    /\ scenario \in Scenarios
    /\ now \in Nat \ {0}
    /\ data \in Data
    /\ file \in Data
    /\ dirty \subseteq Chans
    /\ writer = NoWrite \/ writer \in [ch : Chans, snap : [Names -> Entry]]
    /\ saving \in {"no", "waiting", "saveAll", "done"}
    /\ left \subseteq Chans
    /\ failed \subseteq Chans

\* A channel with unsaved changes has an entry, so that saveAll writes it.
DirtyKnown == \A ch \in dirty : \E n \in Names : Known(ch, n)

\* From Stop on no handler runs, and what is unsaved is what is left.
StopInv ==
    /\ saving # "no" => ~conn
    /\ saving \in {"no", "waiting"} => left = {}
    /\ saving = "saveAll" => dirty \subseteq left
    /\ saving = "done" => dirty = {} /\ writer = NoWrite

\* What is being written of a clean channel is what is in memory, also after an
\* earlier write of it failed: CleanIsSaved alone is not inductive.
SnapFresh == writer # NoWrite /\ writer.ch \notin dirty => writer.snap = data[writer.ch]

StoreInv == StoreType /\ DirtyKnown /\ StopInv /\ SnapFresh /\ CleanIsSaved

LEMMA StoreInit == Init => StoreInv
<1> SUFFICES ASSUME Init PROVE StoreInv
  OBVIOUS
<1>1. Empty \in Data
  BY DEF Empty, Data, Entry, Zero
<1>2. StoreType
  <2>1. data = Empty /\ file = Empty /\ dirty = {} /\ left = {} /\ failed = {}
    BY DEF Init, SeenInit
  <2>2. writer = NoWrite /\ saving = "no" /\ conn = FALSE /\ now = 1 /\ scenario \in Scenarios
    BY DEF Init, SeenInit
  <2>3. data \in Data /\ file \in Data
    BY <1>1, <2>1
  <2>4. scenario \in Scenarios /\ now \in Nat \ {0}
    BY <2>2
  <2>5. dirty \subseteq Chans /\ left \subseteq Chans /\ failed \subseteq Chans
    BY <2>1
  <2>6. QED
    BY <2>2, <2>3, <2>4, <2>5 DEF StoreType
<1>3. DirtyKnown /\ StopInv /\ SnapFresh
  BY DEF Init, SeenInit, DirtyKnown, StopInv, SnapFresh
<1>4. CleanIsSaved
  BY SeenAssumption DEF Init, SeenInit, CleanIsSaved, NoWrite
<1>5. QED
  BY <1>2, <1>3, <1>4 DEF StoreInv

\* What a handler's step does: some channels change and become dirty, each with
\* an entry.
LEMMA Changes ==
    ASSUME StoreType, Handler
    PROVE  \E chs \in SUBSET Chans :
             /\ dirty' = dirty \cup chs
             /\ data' \in Data
             /\ \A ch \in Chans \ chs : data'[ch] = data[ch]
             /\ \A ch \in chs : \E n \in Names : data'[ch][n] # Zero
<1>1. data \in Data /\ now \in Nat /\ now # 0
  BY DEF StoreType
<1>2. ASSUME NEW c \in Chans, NEW n \in Names, NEW f \in DOMAIN Zero, Set(c, n, f, now)
      PROVE  /\ dirty' = dirty \cup {c}
             /\ data' \in Data
             /\ \A ch \in Chans \ {c} : data'[ch] = data[ch]
             /\ data'[c][n] # Zero
  <2>1. data' = [data EXCEPT ![c][n][f] = now]
    BY <1>2 DEF Set
  <2>2. f \in {"join", "exit", "message"} /\ data[c][n] \in Entry
    BY <1>1, Fields DEF Data
  <2>3. data'[c][n] = [data[c][n] EXCEPT ![f] = now]
    BY <1>1, <2>1, <2>2 DEF Data
  <2>4. data'[c][n] \in Entry /\ data'[c][n][f] = now
    BY <1>1, <2>2, <2>3 DEF Entry
  <2>5. data'[c] = [data[c] EXCEPT ![n] = data'[c][n]]
    BY <1>1, <2>1, <2>3 DEF Data
  <2>6. data' \in Data /\ \A ch \in Chans \ {c} : data'[ch] = data[ch]
    BY <1>1, <2>1, <2>4, <2>5 DEF Data
  <2>7. Zero[f] = 0
    BY <2>2 DEF Zero
  <2>8. QED
    BY <1>1, <1>2, <2>4, <2>6, <2>7 DEF Set
<1>3. ASSUME NEW n \in Names, NEW chs, Quit(n, now), chs = {ch \in Chans : Known(ch, n)}
      PROVE  /\ dirty' = dirty \cup chs
             /\ data' \in Data
             /\ \A ch \in Chans \ chs : data'[ch] = data[ch]
             /\ \A ch \in chs : data'[ch][n] # Zero
  <2>1. /\ dirty' = dirty \cup chs
        /\ data' = [ch \in Chans |-> IF ch \in chs THEN [data[ch] EXCEPT ![n].exit = now]
                                     ELSE data[ch]]
    BY <1>3 DEF Quit
  <2>2. ASSUME NEW ch \in chs
        PROVE  /\ data'[ch] \in [Names -> Entry]
               /\ data'[ch][n].exit = now
    <3>1. data'[ch] = [data[ch] EXCEPT ![n].exit = now] /\ data[ch] \in [Names -> Entry]
      BY <1>1, <1>3, <2>1 DEF Data
    <3>2. QED
      BY <1>1, <3>1 DEF Entry
  <2>3. \A ch \in Chans \ chs : data'[ch] = data[ch]
    BY <2>1
  <2>4. data' \in Data
    BY <1>1, <1>3, <2>1, <2>2, <2>3 DEF Data
  <2>5. QED
    BY <1>1, <2>1, <2>2, <2>3, <2>4 DEF Zero
<1>4. ASSUME NEW old \in Names, NEW neu \in Names, NEW chs, Rename(old, neu),
             chs = IF old = neu THEN {} ELSE {ch \in Chans : Known(ch, old)}
      PROVE  /\ dirty' = dirty \cup chs
             /\ data' \in Data
             /\ \A ch \in Chans \ chs : data'[ch] = data[ch]
             /\ \A ch \in chs : data'[ch][neu] # Zero
  <2>1. /\ dirty' = dirty \cup chs
        /\ data' = [ch \in Chans |->
                      IF ch \in chs
                      THEN [data[ch] EXCEPT ![old] = Zero, ![neu] = Merge(@, data[ch][old])]
                      ELSE data[ch]]
    BY <1>4 DEF Rename
  <2>2. ASSUME NEW ch \in chs
        PROVE  /\ data'[ch] \in [Names -> Entry]
               /\ data'[ch][neu] # Zero
    <3>1. /\ ch \in Chans /\ old # neu /\ data[ch][old] # Zero
          /\ data[ch] \in [Names -> Entry]
          /\ data'[ch] = [data[ch] EXCEPT ![old] = Zero, ![neu] = Merge(@, data[ch][old])]
      BY <1>1, <1>4, <2>1 DEF Known, Data
    <3> DEFINE d == data[ch][neu]
               e == data[ch][old]
               m == Merge(d, e)
    <3>2. d \in Entry /\ e \in Entry /\ e # Zero
      BY <3>1
    <3>3. data'[ch] = [data[ch] EXCEPT ![old] = Zero, ![neu] = m] /\ data'[ch][neu] = m
      BY <3>1
    <3>4. m = [f \in {"join", "exit", "message"} |-> IF d[f] = 0 THEN e[f] ELSE d[f]]
      BY Fields DEF Merge
    <3> HIDE DEF d, e, m
    <3>5. m = [join |-> m["join"], exit |-> m["exit"], message |-> m["message"]]
      BY <3>4
    <3>6. m["join"] \in Nat /\ m["exit"] \in Nat /\ m["message"] \in Nat
      BY <3>2, <3>4 DEF Entry
    <3>7. m \in Entry
      BY <3>5, <3>6 DEF Entry
    <3>8. Zero \in Entry
      BY DEF Zero, Entry
    <3>9. e.join # 0 \/ e.exit # 0 \/ e.message # 0
      BY <3>2 DEF Entry, Zero
    <3>10. m # Zero
      <4>1. m["join"] # 0 \/ m["exit"] # 0 \/ m["message"] # 0
        BY <3>4, <3>9
      <4>2. Zero["join"] = 0 /\ Zero["exit"] = 0 /\ Zero["message"] = 0
        BY DEF Zero
      <4>3. QED
        BY <4>1, <4>2
    <3>11. QED
      BY <3>1, <3>3, <3>7, <3>8, <3>10
  <2>3. \A ch \in Chans \ chs : data'[ch] = data[ch]
    BY <2>1
  <2>4. data' \in Data
    BY <1>1, <1>4, <2>1, <2>2, <2>3 DEF Data
  <2>5. QED
    BY <2>1, <2>2, <2>3, <2>4
<1>5. CASE \E c \in Chans, n \in Names, f \in DOMAIN Zero : Set(c, n, f, now)
  <2>1. PICK c \in Chans, n \in Names, f \in DOMAIN Zero : Set(c, n, f, now)
    BY <1>5
  <2> DEFINE chs == {c}
  <2>2. chs \in SUBSET Chans
    OBVIOUS
  <2>3. /\ dirty' = dirty \cup chs
        /\ data' \in Data
        /\ \A ch \in Chans \ chs : data'[ch] = data[ch]
        /\ data'[c][n] # Zero
    BY <1>2, <2>1
  <2>4. \A ch \in chs : data'[ch][n] # Zero
    BY <2>3
  <2> HIDE DEF chs
  <2>5. QED
    BY <2>2, <2>3, <2>4
<1>6. CASE \E n \in Names : Quit(n, now)
  <2>1. PICK n \in Names : Quit(n, now)
    BY <1>6
  <2> DEFINE chs == {ch \in Chans : Known(ch, n)}
  <2>2. chs \in SUBSET Chans /\ chs = {ch \in Chans : Known(ch, n)}
    OBVIOUS
  <2> HIDE DEF chs
  <2>3. /\ dirty' = dirty \cup chs
        /\ data' \in Data
        /\ \A ch \in Chans \ chs : data'[ch] = data[ch]
        /\ \A ch \in chs : data'[ch][n] # Zero
    BY <1>3, <2>1, <2>2
  <2>4. QED
    BY <2>2, <2>3
<1>7. CASE \E old, neu \in Names : Rename(old, neu)
  <2>1. PICK old \in Names, neu \in Names : Rename(old, neu)
    BY <1>7
  <2> DEFINE chs == IF old = neu THEN {} ELSE {ch \in Chans : Known(ch, old)}
  <2>2. /\ chs \in SUBSET Chans
        /\ chs = IF old = neu THEN {} ELSE {ch \in Chans : Known(ch, old)}
    OBVIOUS
  <2> HIDE DEF chs
  <2>3. /\ dirty' = dirty \cup chs
        /\ data' \in Data
        /\ \A ch \in Chans \ chs : data'[ch] = data[ch]
        /\ \A ch \in chs : data'[ch][neu] # Zero
    BY <1>4, <2>1, <2>2
  <2>4. QED
    BY <2>2, <2>3
<1>8. QED
  BY <1>5, <1>6, <1>7 DEF Handler

LEMMA HandlerKeeps == ASSUME StoreInv, Handler PROVE StoreInv'
<1>1. /\ UNCHANGED <<now, scenario, conn, file, writer, saving, left, failed>>
      /\ conn
  BY DEF Handler, Set, Quit, Rename
<1>2. PICK chs \in SUBSET Chans :
        /\ dirty' = dirty \cup chs
        /\ data' \in Data
        /\ \A ch \in Chans \ chs : data'[ch] = data[ch]
        /\ \A ch \in chs : \E n \in Names : data'[ch][n] # Zero
  BY Changes DEF StoreInv
<1>3. StoreType'
  BY <1>1, <1>2 DEF StoreInv, StoreType
<1>4. DirtyKnown'
  <2>1. \A ch \in dirty \ chs : data'[ch] = data[ch] /\ \E n \in Names : data[ch][n] # Zero
    BY <1>2 DEF StoreInv, StoreType, DirtyKnown, Known
  <2>2. QED
    BY <1>2, <2>1 DEF DirtyKnown, Known
<1>5. StopInv'
  BY <1>1 DEF StoreInv, StoreType, StopInv
<1>6. CleanIsSaved'
  BY <1>1, <1>2 DEF StoreInv, CleanIsSaved
<1>7. SnapFresh'
  BY <1>1, <1>2 DEF StoreInv, StoreType, SnapFresh
<1>8. QED
  BY <1>3, <1>4, <1>5, <1>6, <1>7 DEF StoreInv

LEMMA ElsewhereKeeps == ASSUME StoreInv, Elsewhere PROVE StoreInv'
<1>1. UNCHANGED <<data, dirty, file, writer, saving, left, failed, scenario>>
  BY DEF Elsewhere, seenVars
<1>2. now' \in Nat \ {0}
  BY DEF Elsewhere, StoreInv, StoreType
<1>3. conn' = conn \/ conn' = FALSE \/ saving = "no"
  BY DEF Elsewhere
<1>4. conn' => conn \/ saving = "no"
  BY <1>3
<1>5. StoreType'
  BY <1>1, <1>2, <1>4 DEF StoreInv, StoreType
<1>6. DirtyKnown' /\ CleanIsSaved' /\ SnapFresh'
  BY <1>1 DEF StoreInv, DirtyKnown, Known, CleanIsSaved, SnapFresh
<1>7. StopInv'
  BY <1>1, <1>4 DEF StoreInv, StopInv
<1>8. QED
  BY <1>5, <1>6, <1>7 DEF StoreInv

\* write(): the snapshot and the mark in one critical section.
LEMMA SnapshotKeeps ==
    ASSUME StoreInv, NEW c \in Chans, writer = NoWrite, Snapshot(c),
           UNCHANGED <<data, file, failed>>
    PROVE  /\ dirty' = dirty \ {c}
           /\ writer' \in [ch : Chans, snap : [Names -> Entry]]
           /\ DirtyKnown'
           /\ CleanIsSaved'
           /\ SnapFresh'
<1>1. dirty' = dirty \ {c} /\ writer' = [ch |-> c, snap |-> data[c]]
  BY DEF Snapshot
<1>2. data[c] \in [Names -> Entry]
  BY DEF StoreInv, StoreType, Data
<1>3. DirtyKnown'
  BY <1>1 DEF StoreInv, DirtyKnown, Known
<1>4. \A ch \in Chans \ (dirty \cup failed) : data[ch] = file[ch]
  BY SeenAssumption DEF StoreInv, CleanIsSaved, NoWrite
<1>5. CleanIsSaved'
  BY <1>1, <1>4 DEF CleanIsSaved
<1>6. SnapFresh'
  BY <1>1 DEF SnapFresh
<1>7. QED
  BY <1>1, <1>2, <1>3, <1>5, <1>6

LEMMA WriterKeeps == ASSUME StoreInv, Writer PROVE StoreInv'
<1>1. UNCHANGED <<conn, now, scenario>>
  BY DEF Writer, ircVars
<1>2. ASSUME NEW c \in Chans, Flush(c) PROVE StoreInv'
  <2>1. /\ writer = NoWrite /\ Snapshot(c) /\ saving \in {"no", "waiting"}
        /\ UNCHANGED <<data, file, saving, left, failed>>
    BY <1>2 DEF Flush
  <2>2. /\ dirty' = dirty \ {c}
        /\ writer' \in [ch : Chans, snap : [Names -> Entry]]
        /\ DirtyKnown' /\ CleanIsSaved' /\ SnapFresh'
    BY <2>1, SnapshotKeeps
  <2>3. StoreType'
    BY <1>1, <2>1, <2>2 DEF StoreInv, StoreType
  <2>4. StopInv'
    BY <1>1, <2>1 DEF StoreInv, StopInv
  <2>5. QED
    BY <2>2, <2>3, <2>4 DEF StoreInv
<1>3. ASSUME NEW c \in Chans, SaveOne(c) PROVE StoreInv'
  <2>1. /\ writer = NoWrite /\ Snapshot(c) /\ saving = "saveAll"
        /\ left' = left \ {c}
        /\ UNCHANGED <<data, file, saving, failed>>
    BY <1>3 DEF SaveOne
  <2>2. /\ dirty' = dirty \ {c}
        /\ writer' \in [ch : Chans, snap : [Names -> Entry]]
        /\ DirtyKnown' /\ CleanIsSaved' /\ SnapFresh'
    BY <2>1, SnapshotKeeps
  <2>3. StoreType'
    BY <1>1, <2>1, <2>2 DEF StoreInv, StoreType
  <2>4. StopInv'
    BY <1>1, <2>1, <2>2 DEF StoreInv, StopInv
  <2>5. QED
    BY <2>2, <2>3, <2>4 DEF StoreInv
<1>4. ASSUME EndWrite PROVE StoreInv'
  <2>1. /\ writer # NoWrite
        /\ writer' = NoWrite
        /\ UNCHANGED <<data, dirty, saving, left>>
        /\ \/ /\ file' = [file EXCEPT ![writer.ch] = writer.snap]
              /\ failed' = failed \ {writer.ch}
           \/ /\ UNCHANGED file
              /\ failed' = failed \cup {writer.ch}
    BY <1>4 DEF EndWrite
  <2>2. writer.ch \in Chans /\ writer.snap \in [Names -> Entry] /\ file \in Data
    BY <2>1 DEF StoreInv, StoreType
  <2>3. file' \in Data /\ \A ch \in Chans : ch # writer.ch => file'[ch] = file[ch]
    BY <2>1, <2>2 DEF Data
  <2>4. StoreType'
    BY <1>1, <2>1, <2>2, <2>3 DEF StoreInv, StoreType
  <2>5. ASSUME NEW ch \in Chans \ (dirty' \cup failed') PROVE data'[ch] = file'[ch]
    <3>1. CASE ch = writer.ch
      <4>1. writer.ch \notin failed'
        BY <3>1
      <4>2. /\ file' = [file EXCEPT ![writer.ch] = writer.snap]
            /\ failed' = failed \ {writer.ch}
        BY <2>1, <4>1
      <4>3. file'[ch] = writer.snap
        BY <2>2, <3>1, <4>2 DEF Data
      <4>4. ch \notin dirty /\ data' = data
        BY <2>1
      <4>5. writer.snap = data[ch]
        BY <2>1, <3>1, <4>4 DEF StoreInv, SnapFresh
      <4>6. QED
        BY <4>3, <4>4, <4>5
    <3>2. CASE ch # writer.ch
      <4>1. ch \in Chans \ (dirty \cup failed)
        BY <2>1, <3>2
      <4>2. QED
        BY <2>1, <2>3, <3>2, <4>1 DEF StoreInv, CleanIsSaved
    <3>3. QED
      BY <3>1, <3>2
  <2>6. CleanIsSaved'
    BY <2>1, <2>5, SeenAssumption DEF CleanIsSaved, NoWrite
  <2>7. DirtyKnown' /\ StopInv' /\ SnapFresh'
    BY <1>1, <2>1 DEF StoreInv, StopInv, DirtyKnown, Known, SnapFresh
  <2>8. QED
    BY <2>4, <2>6, <2>7 DEF StoreInv
<1>5. CASE StartSaveAll
  <2>1. /\ writer = NoWrite /\ saving = "waiting" /\ saving' = "saveAll"
        /\ left' = {ch \in Chans : \E n \in Names : Known(ch, n)}
        /\ UNCHANGED <<data, dirty, file, writer, failed>>
    BY <1>5 DEF StartSaveAll
  <2>2. StoreType'
    BY <1>1, <2>1 DEF StoreInv, StoreType
  <2>3. dirty' \subseteq left'
    BY <2>1 DEF StoreInv, StoreType, DirtyKnown
  <2>4. StopInv'
    BY <1>1, <2>1, <2>3 DEF StoreInv, StopInv
  <2>5. DirtyKnown' /\ CleanIsSaved' /\ SnapFresh'
    BY <2>1 DEF StoreInv, DirtyKnown, Known, CleanIsSaved, SnapFresh
  <2>6. QED
    BY <2>2, <2>4, <2>5 DEF StoreInv
<1>6. CASE Saved
  <2>1. /\ writer = NoWrite /\ saving = "saveAll" /\ saving' = "done" /\ left = {}
        /\ UNCHANGED <<data, dirty, file, writer, left, failed>>
    BY <1>6 DEF Saved
  <2>2. StoreType'
    BY <1>1, <2>1 DEF StoreInv, StoreType
  <2>3. StopInv'
    BY <1>1, <2>1 DEF StoreInv, StopInv
  <2>4. DirtyKnown' /\ CleanIsSaved' /\ SnapFresh'
    BY <2>1 DEF StoreInv, DirtyKnown, Known, CleanIsSaved, SnapFresh
  <2>5. QED
    BY <2>2, <2>3, <2>4 DEF StoreInv
<1>7. QED
  BY <1>2, <1>3, <1>4, <1>5, <1>6 DEF Writer

LEMMA StopsKeep ==
    ASSUME StoreInv, conn' = FALSE, UNCHANGED <<now, scenario>>, StartStop \/ Reload
    PROVE  StoreInv'
<1>1. CASE StartStop
  <2>1. saving = "no" /\ saving' = "waiting" /\ UNCHANGED <<data, dirty, file, writer, left, failed>>
    BY <1>1 DEF StartStop
  <2>2. StoreType' /\ StopInv'
    BY <2>1 DEF StoreInv, StoreType, StopInv
  <2>3. DirtyKnown' /\ CleanIsSaved' /\ SnapFresh'
    BY <2>1 DEF StoreInv, DirtyKnown, Known, CleanIsSaved, SnapFresh
  <2>4. QED
    BY <2>2, <2>3 DEF StoreInv
<1>2. CASE Reload
  <2>1. /\ data' = file /\ dirty' = {} /\ writer' = NoWrite /\ saving' = "no"
        /\ left' = {} /\ failed' = {} /\ file' = file
    BY <1>2 DEF Reload
  <2>2. StoreType' /\ StopInv'
    BY <2>1 DEF StoreInv, StoreType, StopInv
  <2>3. DirtyKnown' /\ CleanIsSaved' /\ SnapFresh'
    BY <2>1, SeenAssumption DEF DirtyKnown, CleanIsSaved, NoWrite, SnapFresh
  <2>4. QED
    BY <2>2, <2>3 DEF StoreInv
<1>3. QED
  BY <1>1, <1>2

\* The seen store's state in every reachable state, whatever the channels and
\* nicks.
THEOREM StoreHolds == Spec => []StoreInv
<1>1. Init => StoreInv
  BY StoreInit
<1>2. StoreInv /\ [Next]_vars => StoreInv'
  <2> SUFFICES ASSUME StoreInv, [Next]_vars PROVE StoreInv'
    OBVIOUS
  <2>1. CASE UNCHANGED vars
    <3>1. Elsewhere
      BY <2>1 DEF vars, ircVars, Elsewhere
    <3>2. QED
      BY <3>1, ElsewhereKeeps
  <2>2. CASE Next
    <3>1. scenario \in Scenarios
      BY DEF StoreInv, StoreType
    <3>2. QED
      BY <2>2, <3>1, StepOfStore, HandlerKeeps, ElsewhereKeeps, WriterKeeps, StopsKeep
      DEF StoreStep
  <2>3. QED
    BY <2>1, <2>2
<1>3. QED
  BY <1>1, <1>2, PTL DEF Spec

\* seen.go: every unsaved channel has an entry, so that the save at the end, which
\* writes the channels that have one, writes it.
THEOREM SeenTyped == Spec => []SeenTypeOK
<1>1. StoreInv => SeenTypeOK
  BY DEF StoreInv, StoreType, Data, DirtyKnown, StopInv, SeenTypeOK
<1>2. QED
  BY <1>1, StoreHolds, PTL

\* seen.go: a channel that is clean and not being written is on disk as it is in
\* memory, unless its last write failed.
THEOREM CleanSaved == Spec => []CleanIsSaved
<1>1. StoreInv => CleanIsSaved
  BY DEF StoreInv
<1>2. QED
  BY <1>1, StoreHolds, PTL

\* seen.go, main.go: when the seen store has stopped, everything the handlers
\* recorded is on disk, but for the channels whose last write failed.
THEOREM StoppedSaved == Spec => []StoppedIsSaved
<1>1. StoreInv => StoppedIsSaved
  <2> SUFFICES ASSUME StoreInv, saving = "done", NEW ch \in Chans \ failed
               PROVE  file[ch] = data[ch]
    BY DEF StoppedIsSaved
  <2>1. dirty = {} /\ writer = NoWrite
    BY DEF StoreInv, StopInv
  <2>2. QED
    BY <2>1, SeenAssumption DEF StoreInv, CleanIsSaved, NoWrite
<1>2. QED
  BY <1>1, StoreHolds, PTL

-----------------------------------------------------------------------------
(* The mirror of the channels: the invariant.                              *)

\* The bot is in the channel.
In(ch) == conn /\ Me \in on[ch]

MirrorTypes ==
    /\ scenario \in Scenarios
    /\ on \in [Chans -> SUBSET Names]
    /\ members \in [Chans -> {NoSet} \cup SUBSET Names]
    /\ asked \subseteq Chans
    /\ parted \subseteq Chans
    /\ naming = NoNames \/ naming \in [ch : Chans, rest : SUBSET Names]

\* A channel that the bot has still to join was not left.
AskedOut == \A ch \in asked : Me \notin on[ch] /\ ch \notin parted

DownIsEmpty ==
    ~conn => /\ asked = {} /\ parted = {} /\ naming = NoNames
             /\ \A ch \in Chans : members[ch] = NoSet /\ Me \notin on[ch]

\* The names that are still to come are of a channel the bot is in.
NamesToCome ==
    naming # NoNames =>
        /\ In(naming.ch) /\ naming.ch \notin parted
        /\ naming.rest \subseteq on[naming.ch] \ {Me}

\* The mirror of one channel when all names have come.
Mirrors(ch) ==
    IF ch \in parted
    THEN ~In(ch) /\ members[ch] # NoSet /\ Me \notin members[ch]
    ELSE members[ch] = IF In(ch) THEN on[ch] ELSE NoSet

\* The mirror of the channel whose names come.
MirrorsSoFar ==
    naming # NoNames => members[naming.ch] = on[naming.ch] \ naming.rest

MirrorInv ==
    /\ MirrorTypes /\ AskedOut /\ DownIsEmpty /\ NamesToCome /\ MirrorsSoFar
    /\ \A ch \in Chans : naming = NoNames \/ naming.ch # ch => Mirrors(ch)

LEMMA MirrorInit == Init => MirrorInv
<1> SUFFICES ASSUME Init PROVE MirrorInv
  OBVIOUS
<1>1. scenario \in Scenarios /\ scenario.nicks \subseteq Names \ {Me}
  BY IrcAssumption DEF Init
<1>2. /\ on \in [Chans -> SUBSET scenario.nicks] /\ members = [ch \in Chans |-> NoSet]
      /\ ~conn /\ asked = {} /\ parted = {} /\ naming = NoNames
  BY DEF Init, NoMembers
<1>3. on \in [Chans -> SUBSET Names] /\ \A ch \in Chans : Me \notin on[ch]
  BY <1>1, <1>2
<1> QED
  BY <1>1, <1>2, <1>3 DEF MirrorInv, MirrorTypes, AskedOut, DownIsEmpty, NamesToCome,
     MirrorsSoFar, Mirrors, In

-----------------------------------------------------------------------------
(* The steps that change the mirror.                                       *)

\* A line that comes when no names do.
LineStep ==
    /\ Quiet
    /\ UNCHANGED <<conn, asked, naming, scenario>>
    /\ on' \in [Chans -> SUBSET Names]
    /\ members' \in [Chans -> {NoSet} \cup SUBSET Names]
    /\ parted' \subseteq Chans
    /\ \A ch \in Chans : Me \in on'[ch] => Me \in on[ch]
    /\ \A ch \in parted' : ch \in parted \/ Me \in on[ch]

LEMMA LineInv ==
    ASSUME MirrorInv, LineStep, ~conn => UNCHANGED <<members, parted>>,
           \A ch \in Chans : Mirrors(ch)'
    PROVE  MirrorInv'
<1>1. naming = NoNames /\ naming' = NoNames /\ asked' = asked /\ conn' = conn
      /\ scenario' = scenario
  BY DEF LineStep, Quiet
<1>2. MirrorTypes'
  BY <1>1 DEF LineStep, MirrorInv, MirrorTypes
<1>3. AskedOut'
  BY <1>1 DEF LineStep, MirrorInv, MirrorTypes, AskedOut
<1>4. DownIsEmpty'
  <2> SUFFICES ASSUME ~conn' PROVE DownIsEmpty'
    BY DEF DownIsEmpty
  <2>1. ~conn
    BY <1>1
  <2> QED
    BY <1>1, <2>1 DEF LineStep, MirrorInv, DownIsEmpty
<1>5. NamesToCome' /\ MirrorsSoFar'
  BY <1>1 DEF NamesToCome, MirrorsSoFar
<1> QED
  BY <1>1, <1>2, <1>3, <1>4, <1>5 DEF MirrorInv

LEMMA LostInv == ASSUME MirrorInv, Lost, scenario' = scenario PROVE MirrorInv'
<1>1. /\ ~conn' /\ asked' = {} /\ parted' = {} /\ naming' = NoNames
      /\ members' = [ch \in Chans |-> NoSet] /\ on' = [ch \in Chans |-> on[ch] \ {Me}]
  BY DEF Lost, NoMembers
<1>2. on' \in [Chans -> SUBSET Names] /\ \A ch \in Chans : Me \notin on'[ch]
  BY <1>1 DEF MirrorInv, MirrorTypes
<1> QED
  BY <1>1, <1>2 DEF MirrorInv, MirrorTypes, AskedOut, DownIsEmpty, NamesToCome,
     MirrorsSoFar, Mirrors, In

LEMMA ConnectInv == ASSUME MirrorInv, Connect PROVE MirrorInv'
<1>1. /\ ~conn /\ conn' /\ asked' = scenario.chans
      /\ UNCHANGED <<on, members, naming, parted, scenario>>
  BY DEF Connect
<1>2. scenario.chans \subseteq Chans
  BY IrcAssumption DEF MirrorInv, MirrorTypes
<1>3. /\ parted = {} /\ naming = NoNames
      /\ \A ch \in Chans : members[ch] = NoSet /\ Me \notin on[ch]
  BY <1>1 DEF MirrorInv, DownIsEmpty
<1> QED
  BY <1>1, <1>2, <1>3 DEF MirrorInv, MirrorTypes, AskedOut, DownIsEmpty, NamesToCome,
     MirrorsSoFar, Mirrors, In

LEMMA MeJoinsInv == ASSUME MirrorInv, NEW c \in Chans, MeJoins(c) PROVE MirrorInv'
<1>1. /\ conn /\ conn' = conn /\ naming = NoNames /\ c \in asked
      /\ asked' = asked \ {c} /\ UNCHANGED <<parted, scenario>>
      /\ on' = [on EXCEPT ![c] = @ \cup {Me}]
      /\ members' = [members EXCEPT ![c] = {Me}]
      /\ naming' = [ch |-> c, rest |-> on[c]]
  BY DEF MeJoins, Quiet
<1>2. /\ Me \in Names /\ on[c] \subseteq Names /\ Me \notin on[c] /\ c \notin parted
      /\ on \in [Chans -> SUBSET Names]
      /\ members \in [Chans -> {NoSet} \cup SUBSET Names]
  BY <1>1, IrcAssumption DEF MirrorInv, MirrorTypes, AskedOut
<1>3. /\ on'[c] = on[c] \cup {Me} /\ members'[c] = {Me}
      /\ \A ch \in Chans : ch # c => on'[ch] = on[ch] /\ members'[ch] = members[ch]
  BY <1>1, <1>2
<1>4. naming' # NoNames /\ naming'.ch = c /\ naming'.rest = on[c]
  BY <1>1, SeenAssumption DEF NoNames
<1>5. MirrorTypes'
  BY <1>1, <1>2 DEF MirrorInv, MirrorTypes
<1>6. AskedOut' /\ DownIsEmpty'
  BY <1>1, <1>3 DEF MirrorInv, MirrorTypes, AskedOut, DownIsEmpty
<1>7. NamesToCome'
  BY <1>1, <1>2, <1>3, <1>4 DEF NamesToCome, In
<1>8. MirrorsSoFar'
  BY <1>2, <1>3, <1>4 DEF MirrorsSoFar
<1>9. ASSUME NEW ch \in Chans, ch # c PROVE Mirrors(ch)'
  BY <1>1, <1>3, <1>9 DEF MirrorInv, Mirrors, In
<1> QED
  BY <1>4, <1>5, <1>6, <1>7, <1>8, <1>9 DEF MirrorInv

\* To a set that there is.
LEMMA AddsTo ==
    ASSUME NEW ch, NEW ns, members[ch] # NoSet
    PROVE  Add(members, ch, ns) = [members EXCEPT ![ch] = ns \cup members[ch]]
BY DEF Add

LEMMA NamesInv == ASSUME MirrorInv, Names353 PROVE MirrorInv'
<1>1. naming # NoNames /\ UNCHANGED <<on, conn, asked, parted, scenario>>
  BY DEF Names353
<1>2. /\ naming \in [ch : Chans, rest : SUBSET Names] /\ on \in [Chans -> SUBSET Names]
      /\ members \in [Chans -> {NoSet} \cup SUBSET Names]
      /\ In(naming.ch) /\ naming.ch \notin parted /\ naming.ch \in Chans
      /\ naming.rest \subseteq on[naming.ch] \ {Me}
      /\ members[naming.ch] = on[naming.ch] \ naming.rest
  BY <1>1 DEF MirrorInv, MirrorTypes, NamesToCome, MirrorsSoFar
<1>3. AskedOut'
  BY <1>1 DEF MirrorInv, AskedOut
<1>4. conn /\ DownIsEmpty'
  BY <1>1, <1>2 DEF In, DownIsEmpty
<1>5. CASE naming.rest = {}
  <2>1. naming' = NoNames /\ members' = members
    BY <1>5 DEF Names353
  <2>2. ASSUME NEW ch \in Chans PROVE Mirrors(ch)'
    <3>1. CASE ch = naming.ch
      BY <1>1, <1>2, <1>5, <2>1, <3>1 DEF Mirrors, In
    <3>2. CASE ch # naming.ch
      BY <1>1, <2>1, <3>2 DEF MirrorInv, Mirrors, In
    <3> QED
      BY <3>1, <3>2
  <2>3. MirrorTypes'
    BY <1>1, <2>1 DEF MirrorInv, MirrorTypes
  <2>4. NamesToCome' /\ MirrorsSoFar'
    BY <2>1 DEF NamesToCome, MirrorsSoFar
  <2> QED
    BY <1>3, <1>4, <2>2, <2>3, <2>4 DEF MirrorInv
<1>6. CASE naming.rest # {}
  <2>1. PICK n \in naming.rest :
          members' = NamesReply({n}) /\ naming' = [naming EXCEPT !.rest = @ \ {n}]
    BY <1>6 DEF Names353
  <2>2. naming'.ch = naming.ch /\ naming'.rest = naming.rest \ {n}
        /\ naming' \in [ch : Chans, rest : SUBSET Names]
    BY <1>2, <2>1
  <2>3. naming' # NoNames
    <3>1. naming'.ch # ""
      BY <1>2, <2>2, SeenAssumption
    <3>2. NoNames.ch = ""
      BY DEF NoNames
    <3> QED
      BY <3>1, <3>2
  <2>4. members[naming.ch] # NoSet
    BY <1>2, IrcAssumption
  <2>5. members' = [members EXCEPT ![naming.ch] = {n} \cup members[naming.ch]]
    BY <1>2, <2>1, <2>4, AddsTo DEF NamesReply
  <2>6. /\ members'[naming.ch] = {n} \cup members[naming.ch]
        /\ \A ch \in Chans : ch # naming.ch => members'[ch] = members[ch]
        /\ members' \in [Chans -> {NoSet} \cup SUBSET Names]
    BY <1>2, <2>5
  <2>7. MirrorTypes'
    BY <1>1, <2>2, <2>6 DEF MirrorInv, MirrorTypes
  <2>8. NamesToCome'
    BY <1>1, <1>2, <2>2 DEF NamesToCome, In
  <2>9. MirrorsSoFar'
    BY <1>1, <1>2, <2>2, <2>6 DEF MirrorsSoFar
  <2>10. ASSUME NEW ch \in Chans, ch # naming.ch PROVE Mirrors(ch)'
    BY <1>1, <2>6, <2>10 DEF MirrorInv, Mirrors, In
  <2> QED
    BY <1>3, <1>4, <2>2, <2>3, <2>7, <2>8, <2>9, <2>10 DEF MirrorInv
<1> QED
  BY <1>5, <1>6

-----------------------------------------------------------------------------
(* The lines about others, and about the bot.                              *)

\* The nicks there are, and what the invariant says when no names come.
LEMMA QuietMirror ==
    ASSUME MirrorInv, Quiet
    PROVE  /\ scenario.chans \subseteq Chans /\ scenario.nicks \subseteq Names \ {Me}
           /\ Me \in Names /\ NoSet \notin SUBSET Names
           /\ on \in [Chans -> SUBSET Names]
           /\ members \in [Chans -> {NoSet} \cup SUBSET Names]
           /\ parted \subseteq Chans
           /\ \A ch \in Chans : Mirrors(ch)
           /\ ~conn => parted = {} /\ Joined = {}
           /\ \A ch \in Chans : ch \in Joined <=> In(ch)
BY IrcAssumption DEF MirrorInv, MirrorTypes, DownIsEmpty, Quiet, Joined, In

LEMMA JoinsInv ==
    ASSUME MirrorInv, NEW c \in scenario.chans, NEW n \in scenario.nicks, Joins(n, c)
    PROVE  MirrorInv'
<1>1. /\ Quiet /\ UNCHANGED <<conn, asked, naming, parted, scenario>>
      /\ on' = [on EXCEPT ![c] = @ \cup {n}]
      /\ members' = IF c \in Joined THEN Add(members, c, {n}) ELSE members
  BY DEF Joins, Unheard
<1>2. /\ c \in Chans /\ n \in Names /\ n # Me /\ on \in [Chans -> SUBSET Names]
      /\ members \in [Chans -> {NoSet} \cup SUBSET Names] /\ parted \subseteq Chans
      /\ ~conn => c \notin Joined
      /\ c \in Joined <=> In(c)
      /\ NoSet \notin SUBSET Names
  BY <1>1, QuietMirror
<1>3. \A ch \in Chans : Mirrors(ch)
  BY <1>1, QuietMirror
<1>4. /\ on'[c] = on[c] \cup {n} /\ on' \in [Chans -> SUBSET Names]
      /\ \A ch \in Chans : ch # c => on'[ch] = on[ch]
  BY <1>1, <1>2
<1>5. /\ \A ch \in Chans : ch # c => members'[ch] = members[ch]
      /\ members' \in [Chans -> {NoSet} \cup SUBSET Names]
      /\ In(c) /\ c \notin parted => members'[c] = {n} \cup on[c]
      /\ ~In(c) => members'[c] = members[c]
  <2>1. CASE In(c)
    <3>1. c \notin parted /\ members[c] = on[c]
      BY <1>2, <1>3, <2>1 DEF Mirrors
    <3>2. on[c] \in SUBSET Names /\ members[c] # NoSet
      BY <1>2, <3>1
    <3>3. members' = [members EXCEPT ![c] = {n} \cup members[c]]
      BY <1>1, <1>2, <2>1, <3>2, AddsTo
    <3> QED
      BY <1>2, <2>1, <3>1, <3>3
  <2>2. CASE ~In(c)
    BY <1>1, <1>2, <2>2
  <2> QED
    BY <2>1, <2>2
<1>6. ASSUME NEW ch \in Chans PROVE Mirrors(ch)'
  <2>1. CASE ch = c
    <3>1. In(c)' <=> In(c)
      BY <1>1, <1>2, <1>4 DEF In
    <3> QED
      BY <1>1, <1>2, <1>3, <1>4, <1>5, <2>1, <3>1 DEF Mirrors
  <2>2. CASE ch # c
    BY <1>1, <1>3, <1>4, <1>5, <2>2 DEF Mirrors, In
  <2> QED
    BY <2>1, <2>2
<1>7. LineStep
  BY <1>1, <1>2, <1>4, <1>5 DEF LineStep
<1>8. ~conn => UNCHANGED <<members, parted>>
  BY <1>1, <1>2
<1> QED
  BY <1>6, <1>7, <1>8, LineInv

\* Someone, or the bot, leaves a channel; its set is lost if the bot is kicked.
LEMMA LeavesInv ==
    ASSUME MirrorInv, NEW c \in scenario.chans, NEW n \in scenario.nicks \cup {Me},
           Parts(n, c) \/ Kicked(n, c)
    PROVE  MirrorInv'
<1>1. /\ Quiet /\ UNCHANGED <<conn, asked, naming, scenario>>
      /\ n \in on[c] /\ (n = Me => c \in Joined)
      /\ on' = [on EXCEPT ![c] = @ \ {n}]
  BY DEF Parts, Kicked, Leaves
<1>2. \/ members' = Del(members, c, n) /\ c \in Joined /\ n # Me /\ parted' = parted
      \/ members' = members /\ c \notin Joined /\ n # Me /\ parted' = parted
      \/ /\ members' = Del(members, c, n) /\ c \in Joined /\ n = Me
         /\ parted' = parted \cup {c}
      \/ /\ members' = [members EXCEPT ![c] = NoSet] /\ c \in Joined /\ n = Me
         /\ parted' = parted
  BY <1>1 DEF Parts, Kicked
<1>3. /\ c \in Chans /\ n \in Names /\ on \in [Chans -> SUBSET Names]
      /\ members \in [Chans -> {NoSet} \cup SUBSET Names] /\ parted \subseteq Chans
      /\ ~conn => c \notin Joined
      /\ c \in Joined <=> In(c)
      /\ NoSet \notin SUBSET Names
  BY <1>1, QuietMirror
<1>4. \A ch \in Chans : Mirrors(ch)
  BY <1>1, QuietMirror
<1>5. /\ on'[c] = on[c] \ {n} /\ on' \in [Chans -> SUBSET Names]
      /\ \A ch \in Chans : ch # c => on'[ch] = on[ch]
  BY <1>1, <1>3
<1>6. In(c) => c \notin parted /\ members[c] = on[c] /\ members[c] # NoSet
  BY <1>3, <1>4 DEF Mirrors
<1>7. In(c) => Del(members, c, n) = [members EXCEPT ![c] = on[c] \ {n}]
  BY <1>3, <1>6 DEF Del
<1>8. /\ \A ch \in Chans : ch # c => members'[ch] = members[ch]
      /\ members' \in [Chans -> {NoSet} \cup SUBSET Names]
  BY <1>2, <1>3, <1>7
<1>9. Mirrors(c)'
  <2>1. CASE ~In(c)
    <3>1. members' = members /\ parted' = parted /\ n # Me
      BY <1>2, <1>3, <2>1
    <3>2. ~In(c)'
      BY <1>1, <1>3, <1>5, <2>1, <3>1 DEF In
    <3> QED
      BY <1>3, <1>4, <2>1, <3>1, <3>2 DEF Mirrors
  <2>2. CASE In(c) /\ n # Me
    <3>1. In(c)' /\ c \notin parted'
      BY <1>1, <1>2, <1>3, <1>5, <1>6, <2>2 DEF In
    <3>2. members'[c] = on[c] \ {n}
      BY <1>2, <1>3, <1>7, <2>2
    <3> QED
      BY <1>5, <3>1, <3>2 DEF Mirrors
  <2>3. CASE In(c) /\ n = Me
    <3>1. ~In(c)'
      BY <1>3, <1>5, <2>3 DEF In
    <3>2. \/ c \in parted' /\ members'[c] = on[c] \ {Me}
          \/ c \notin parted' /\ members'[c] = NoSet
      BY <1>2, <1>3, <1>6, <1>7, <2>3
    <3>3. on[c] \ {Me} \in SUBSET Names
      BY <1>3
    <3> QED
      BY <1>3, <3>1, <3>2, <3>3 DEF Mirrors
  <2> QED
    BY <2>1, <2>2, <2>3
<1>10. ASSUME NEW ch \in Chans, ch # c PROVE Mirrors(ch)'
  BY <1>1, <1>2, <1>4, <1>5, <1>8, <1>10 DEF Mirrors, In
<1>11. LineStep
  BY <1>1, <1>2, <1>3, <1>5, <1>8 DEF LineStep
<1>12. ~conn => UNCHANGED <<members, parted>>
  BY <1>2, <1>3
<1> QED
  BY <1>9, <1>10, <1>11, <1>12, LineInv

LEMMA QuitsInv ==
    ASSUME MirrorInv, NEW n \in scenario.nicks, Quits(n)
    PROVE  MirrorInv'
<1>1. /\ Quiet /\ UNCHANGED <<conn, asked, naming, parted, scenario>>
      /\ on' = [ch \in Chans |-> on[ch] \ {n}]
      /\ Hears(n) => members' = DelMemberAll(n)
      /\ ~Hears(n) => members' = members
  BY DEF Quits
<1>2. /\ n \in Names /\ n # Me /\ on \in [Chans -> SUBSET Names]
      /\ members \in [Chans -> {NoSet} \cup SUBSET Names] /\ parted \subseteq Chans
      /\ ~conn => parted = {} /\ Joined = {}
      /\ \A ch \in Chans : ch \in Joined <=> In(ch)
      /\ NoSet \notin SUBSET Names
  BY <1>1, QuietMirror
<1>3. \A ch \in Chans : Mirrors(ch)
  BY <1>1, QuietMirror
<1>4. members' \in [Chans -> {NoSet} \cup SUBSET Names]
  BY <1>1, <1>2 DEF DelMemberAll
<1>5. ASSUME NEW ch \in Chans PROVE Mirrors(ch)'
  <2>1. on'[ch] = on[ch] \ {n} /\ (In(ch)' <=> In(ch))
    BY <1>1, <1>2 DEF In
  <2>2. CASE Hears(n)
    <3>1. members'[ch] = IF members[ch] = NoSet THEN NoSet ELSE members[ch] \ {n}
      BY <1>1, <2>2 DEF DelMemberAll
    <3>2. /\ members[ch] # NoSet => members[ch] \ {n} \in SUBSET Names
          /\ on[ch] \in SUBSET Names
      BY <1>2
    <3> QED
      BY <1>1, <1>2, <1>3, <2>1, <3>1, <3>2 DEF Mirrors
  <2>3. CASE ~Hears(n)
    <3>1. In(ch) => n \notin on[ch]
      BY <1>2, <2>3 DEF Hears
    <3>2. members'[ch] = members[ch] /\ (In(ch) => on'[ch] = on[ch])
      BY <1>1, <2>1, <2>3, <3>1
    <3> QED
      BY <1>1, <1>3, <2>1, <3>2 DEF Mirrors
  <2> QED
    BY <2>2, <2>3
<1>6. LineStep
  BY <1>1, <1>2, <1>4 DEF LineStep
<1>7. ~conn => UNCHANGED <<members, parted>>
  BY <1>1, <1>2 DEF Hears
<1> QED
  BY <1>5, <1>6, <1>7, LineInv

LEMMA RenamesInv ==
    ASSUME MirrorInv, NEW old \in scenario.nicks, NEW neu \in scenario.nicks,
           Renames(old, neu)
    PROVE  MirrorInv'
<1> DEFINE Renamed(ns) == IF old \in ns THEN (ns \ {old}) \cup {neu} ELSE ns
<1>1. /\ Quiet /\ UNCHANGED <<conn, asked, naming, parted, scenario>>
      /\ on' = [ch \in Chans |-> Renamed(on[ch])]
      /\ Hears(old) => members' = RenameMember(old, neu)
      /\ ~Hears(old) => members' = members
  BY DEF Renames
<1>2. /\ old \in Names /\ old # Me /\ neu \in Names /\ neu # Me
      /\ on \in [Chans -> SUBSET Names]
      /\ members \in [Chans -> {NoSet} \cup SUBSET Names] /\ parted \subseteq Chans
      /\ ~conn => parted = {} /\ Joined = {}
      /\ \A ch \in Chans : ch \in Joined <=> In(ch)
      /\ NoSet \notin SUBSET Names
  BY <1>1, QuietMirror
<1>3. \A ch \in Chans : Mirrors(ch)
  BY <1>1, QuietMirror
<1>4. ASSUME Hears(old), NEW ch \in Chans
      PROVE  members'[ch] = IF members[ch] = NoSet THEN NoSet ELSE Renamed(members[ch])
  BY <1>1, <1>4 DEF RenameMember, MemberChannels
<1>5. ASSUME NEW ns \in SUBSET Names
      PROVE  Renamed(ns) \in SUBSET Names /\ (Me \in Renamed(ns) <=> Me \in ns)
  BY <1>2
<1>6. members' \in [Chans -> {NoSet} \cup SUBSET Names]
  <2>1. CASE Hears(old)
    <3>1. ASSUME NEW ch \in Chans PROVE members'[ch] \in {NoSet} \cup SUBSET Names
      BY <1>2, <1>4, <1>5, <2>1
    <3> QED
      BY <1>1, <2>1, <3>1 DEF RenameMember
  <2>2. CASE ~Hears(old)
    BY <1>1, <1>2, <2>2
  <2> QED
    BY <2>1, <2>2
<1>7. ASSUME NEW ch \in Chans PROVE Mirrors(ch)'
  <2>1. /\ on'[ch] = Renamed(on[ch]) /\ on[ch] \in SUBSET Names
        /\ Me \in on'[ch] <=> Me \in on[ch]
    BY <1>1, <1>2, <1>5
  <2>2. In(ch)' <=> In(ch)
    BY <1>1, <2>1 DEF In
  <2>3. CASE Hears(old)
    <3>1. members[ch] # NoSet => /\ members'[ch] = Renamed(members[ch])
                                 /\ members[ch] \in SUBSET Names
      BY <1>2, <1>4, <2>3
    <3>2. members[ch] = NoSet => members'[ch] = NoSet
      BY <1>4, <2>3
    <3>3. /\ Renamed(on[ch]) \in SUBSET Names
          /\ members[ch] # NoSet => /\ Renamed(members[ch]) \in SUBSET Names
                                    /\ Me \in Renamed(members[ch]) <=> Me \in members[ch]
      BY <1>5, <2>1, <3>1
    <3> HIDE DEF Renamed
    <3>4. CASE ch \in parted
      BY <1>1, <1>2, <1>3, <2>2, <3>1, <3>3, <3>4 DEF Mirrors
    <3>5. CASE ch \notin parted /\ In(ch)
      BY <1>1, <1>2, <1>3, <2>1, <2>2, <3>1, <3>5 DEF Mirrors
    <3>6. CASE ch \notin parted /\ ~In(ch)
      BY <1>1, <1>3, <2>2, <3>2, <3>6 DEF Mirrors
    <3> QED
      BY <3>4, <3>5, <3>6
  <2>4. CASE ~Hears(old)
    <3>1. In(ch) => old \notin on[ch]
      BY <1>2, <2>4 DEF Hears
    <3>2. members'[ch] = members[ch] /\ (In(ch) => on'[ch] = on[ch])
      BY <1>1, <2>1, <2>4, <3>1
    <3> QED
      BY <1>1, <1>3, <2>2, <3>2 DEF Mirrors
  <2> QED
    BY <2>3, <2>4
<1>8. LineStep
  <2>1. on' \in [Chans -> SUBSET Names] /\ \A ch \in Chans : Me \in on'[ch] => Me \in on[ch]
    BY <1>1, <1>2, <1>5
  <2> QED
    BY <1>1, <1>2, <1>6, <2>1 DEF LineStep
<1>9. ~conn => UNCHANGED <<members, parted>>
  BY <1>1, <1>2 DEF Hears
<1> QED
  BY <1>7, <1>8, <1>9, LineInv

\* What neither the server nor the mirror sees.
LEMMA OtherInv ==
    ASSUME MirrorInv, UNCHANGED <<on, conn, asked, members, naming, parted, scenario>>
    PROVE  MirrorInv'
BY DEF MirrorInv, MirrorTypes, AskedOut, DownIsEmpty, NamesToCome, MirrorsSoFar, Mirrors, In

-----------------------------------------------------------------------------
THEOREM MirrorHolds == Spec => []MirrorInv
<1>1. Init => MirrorInv
  BY MirrorInit
<1>2. MirrorInv /\ [Next]_vars => MirrorInv'
  <2> SUFFICES ASSUME MirrorInv, [Next]_vars PROVE MirrorInv'
    OBVIOUS
  <2>1. scenario.chans \subseteq Chans
    BY IrcAssumption DEF MirrorInv, MirrorTypes
  <2>2. CASE Connect
    BY <2>2, ConnectInv
  <2>3. CASE Disconnect
    BY <2>3, LostInv DEF Disconnect
  <2>4. ASSUME NEW ch \in scenario.chans, MeJoins(ch) PROVE MirrorInv'
    BY <2>1, <2>4, MeJoinsInv
  <2>5. ASSUME NEW ch \in scenario.chans, NEW n \in scenario.nicks, Joins(n, ch)
        PROVE  MirrorInv'
    BY <2>5, JoinsInv
  <2>6. ASSUME NEW ch \in scenario.chans, NEW n \in scenario.nicks, Speaks(n, ch)
        PROVE  MirrorInv'
    BY <2>6, OtherInv DEF Speaks, ircVars
  <2>7. ASSUME NEW ch \in scenario.chans, NEW n \in scenario.nicks \cup {Me},
               Parts(n, ch) \/ Kicked(n, ch)
        PROVE  MirrorInv'
    BY <2>7, LeavesInv
  <2>8. CASE Names353
    BY <2>8, NamesInv
  <2>9. ASSUME NEW n \in scenario.nicks, Quits(n) PROVE MirrorInv'
    BY <2>9, QuitsInv
  <2>10. ASSUME NEW old \in scenario.nicks, NEW neu \in scenario.nicks, Renames(old, neu)
         PROVE  MirrorInv'
    BY <2>10, RenamesInv
  <2>11. CASE Tick
    BY <2>11, OtherInv DEF Tick
  <2>12. CASE Writer
    BY <2>12, OtherInv DEF Writer, ircVars
  <2>13. CASE StopAll \/ Restart
    BY <2>13, LostInv DEF StopAll, Restart
  <2>14. CASE UNCHANGED vars
    BY <2>14, OtherInv DEF vars, ircVars
  <2> QED
    BY <2>2, <2>3, <2>4, <2>5, <2>6, <2>7, <2>8, <2>9, <2>10, <2>11, <2>12, <2>13,
       <2>14 DEF Next, Server
<1> QED
  BY <1>1, <1>2, PTL DEF Spec

\* irc.go: after every line, the bot's set of a channel it is in is what the
\* server has, but for the names still to come.
THEOREM MirrorIsExact == Spec => []MirrorExact
<1>1. MirrorInv => MirrorExact
  <2> SUFFICES ASSUME MirrorInv, NEW ch \in Chans
               PROVE  IF ch \in parted
                      THEN ch \notin Joined /\ members[ch] # NoSet /\ Me \notin members[ch]
                      ELSE members[ch] = IF ch \notin Joined THEN NoSet
                             ELSE on[ch] \ (IF naming.ch = ch THEN naming.rest ELSE {})
    BY DEF MirrorExact
  <2>1. ch \in Joined <=> In(ch)
    BY DEF Joined, In
  <2>2. CASE naming # NoNames /\ naming.ch = ch
    BY <2>1, <2>2 DEF MirrorInv, NamesToCome, MirrorsSoFar
  <2>3. CASE naming = NoNames \/ naming.ch # ch
    <3>1. naming.ch # ch
      <4>1. NoNames.ch = ""
        BY DEF NoNames
      <4> QED
        BY <2>3, <4>1, SeenAssumption
    <3>2. Mirrors(ch)
      BY <2>3 DEF MirrorInv
    <3>3. CASE ch \in parted
      BY <2>1, <3>2, <3>3 DEF Mirrors
    <3>4. CASE ch \notin parted
      BY <2>1, <3>1, <3>2, <3>4 DEF Mirrors
    <3> QED
      BY <3>3, <3>4
  <2> QED
    BY <2>2, <2>3
<1> QED
  BY <1>1, MirrorHolds, PTL

-----------------------------------------------------------------------------
(* What the seen store knows of those who are in a channel.                *)

\* No time is of the future.
Past(e) == e.join <= now /\ e.exit <= now /\ e.message <= now

TimesPast ==
    /\ \A ch \in Chans, n \in Names : Past(data[ch][n]) /\ Past(file[ch][n])
    /\ writer # NoWrite => \A n \in Names : Past(writer.snap[n])

Stays(ch, n) == Known(ch, n) /\ data[ch][n].join >= data[ch][n].exit

PresentInv ==
    /\ TimesPast
    /\ observed \in [Chans -> SUBSET Names]
    /\ \A ch \in Chans : In(ch) =>
         observed[ch] \subseteq on[ch] /\ \A n \in observed[ch] : Stays(ch, n)

LEMMA SetDoes ==
    ASSUME data \in Data, NEW c \in Chans, NEW n \in Names,
           NEW f \in {"join", "exit", "message"}, Set(c, n, f, now)
    PROVE  /\ data'[c][n][f] = now
           /\ \A g \in {"join", "exit", "message"} :
                g # f => data'[c][n][g] = data[c][n][g]
           /\ \A ch \in Chans, m \in Names :
                ch # c \/ m # n => data'[ch][m] = data[ch][m]
<1>1. data' = [data EXCEPT ![c][n][f] = now]
  BY DEF Set
<1>2. data'[c] = [data[c] EXCEPT ![n] = [data[c][n] EXCEPT ![f] = now]]
  BY <1>1 DEF Data
<1>3. \A ch \in Chans : ch # c => data'[ch] = data[ch]
  BY <1>1 DEF Data
<1>4. data[c] \in [Names -> Entry] /\ data[c][n] \in Entry
  BY DEF Data
<1>5. data'[c][n] = [data[c][n] EXCEPT ![f] = now]
  BY <1>2, <1>4
<1>6. /\ data'[c][n][f] = now
      /\ \A g \in {"join", "exit", "message"} : g # f => data'[c][n][g] = data[c][n][g]
  BY <1>4, <1>5 DEF Entry
<1>7. \A ch \in Chans, m \in Names : ch # c \/ m # n => data'[ch][m] = data[ch][m]
  BY <1>2, <1>3, <1>4
<1> QED
  BY <1>6, <1>7

LEMMA QuitDoes ==
    ASSUME data \in Data, NEW n \in Names, Quit(n, now)
    PROVE  /\ \A ch \in Chans, m \in Names : m # n => data'[ch][m] = data[ch][m]
           /\ \A ch \in Chans : \/ data'[ch][n] = data[ch][n]
                                \/ data'[ch][n] = [data[ch][n] EXCEPT !.exit = now]
           /\ UNCHANGED <<file, writer>>
<1>1. ASSUME NEW ch \in Chans
      PROVE  data'[ch] = data[ch] \/ data'[ch] = [data[ch] EXCEPT ![n].exit = now]
  BY DEF Quit
<1>2. \A ch \in Chans : data[ch] \in [Names -> Entry]
  BY DEF Data
<1>3. UNCHANGED <<file, writer>>
  BY DEF Quit
<1> QED
  BY <1>1, <1>2, <1>3

LEMMA RenameDoes ==
    ASSUME data \in Data, NEW old \in Names, NEW neu \in Names, Rename(old, neu)
    PROVE  /\ \A ch \in Chans, m \in Names :
                m # old /\ m # neu => data'[ch][m] = data[ch][m]
           /\ \A ch \in Chans :
                \/ data'[ch] = data[ch] /\ (old = neu \/ ~Known(ch, old))
                \/ /\ old # neu /\ data'[ch][old] = Zero
                   /\ data'[ch][neu] = Merge(data[ch][neu], data[ch][old])
           /\ UNCHANGED <<file, writer>>
<1>1. ASSUME NEW ch \in Chans
      PROVE  \/ data'[ch] = data[ch] /\ (old = neu \/ ~Known(ch, old))
             \/ /\ old # neu
                /\ data'[ch] = [data[ch] EXCEPT ![old] = Zero,
                                                ![neu] = Merge(@, data[ch][old])]
  BY DEF Rename
<1>2. \A ch \in Chans : data[ch] \in [Names -> Entry]
  BY DEF Data
<1>3. UNCHANGED <<file, writer>>
  BY DEF Rename
<1> QED
  BY <1>1, <1>2, <1>3

LEMMA MergeIs ==
    ASSUME NEW d \in Entry, NEW e \in Entry
    PROVE  /\ Merge(d, e).join = IF d.join = 0 THEN e.join ELSE d.join
           /\ Merge(d, e).exit = IF d.exit = 0 THEN e.exit ELSE d.exit
           /\ Merge(d, e).message = IF d.message = 0 THEN e.message ELSE d.message
BY Fields DEF Merge

LEMMA HandlerTimes ==
    ASSUME StoreType, TimesPast, Handler PROVE TimesPast'
<1>1. data \in Data /\ now \in Nat /\ now' = now
  BY DEF StoreType, Handler
<1>2. \A ch \in Chans, n \in Names : data[ch][n] \in Entry /\ Past(data[ch][n])
  BY <1>1 DEF Data, TimesPast
<1>3. UNCHANGED <<file, writer>>
  BY DEF Handler, Set, Quit, Rename
<1>4. ASSUME NEW ch \in Chans, NEW n \in Names PROVE Past(data'[ch][n])
  <2>1. ASSUME NEW c \in Chans, NEW m \in Names, NEW f \in DOMAIN Zero, Set(c, m, f, now)
        PROVE  Past(data'[ch][n])
    <3>1. f \in {"join", "exit", "message"}
      BY Fields
    <3>2. /\ data'[c][m][f] = now
          /\ \A g \in {"join", "exit", "message"} : g # f => data'[c][m][g] = data[c][m][g]
          /\ \A x \in Chans, y \in Names : x # c \/ y # m => data'[x][y] = data[x][y]
      BY <1>1, <2>1, <3>1, SetDoes
    <3>3. Past(data'[c][m])
      BY <1>1, <1>2, <3>1, <3>2 DEF Past, Entry
    <3> QED
      BY <1>2, <3>2, <3>3
  <2>2. ASSUME NEW m \in Names, Quit(m, now) PROVE Past(data'[ch][n])
    <3>1. data'[ch][n] = data[ch][n] \/ data'[ch][n] = [data[ch][n] EXCEPT !.exit = now]
      BY <1>1, <2>2, QuitDoes
    <3> QED
      BY <1>1, <1>2, <3>1 DEF Past, Entry
  <2>3. ASSUME NEW old \in Names, NEW neu \in Names, Rename(old, neu)
        PROVE  Past(data'[ch][n])
    <3>1. \/ data'[ch][n] = data[ch][n]
          \/ data'[ch][n] = Zero
          \/ data'[ch][n] = Merge(data[ch][n], data[ch][old])
      BY <1>1, <2>3, RenameDoes
    <3>2. Past(Zero)
      BY <1>1 DEF Past, Zero
    <3>3. Past(Merge(data[ch][n], data[ch][old]))
      BY <1>2, MergeIs DEF Past
    <3> QED
      BY <1>2, <3>1, <3>2, <3>3
  <2> QED
    BY <2>1, <2>2, <2>3 DEF Handler
<1> QED
  BY <1>1, <1>3, <1>4 DEF TimesPast, Past

LEMMA TimesKept ==
    ASSUME StoreInv, TimesPast, StoreStep PROVE TimesPast'
<1>1. data \in Data /\ file \in Data /\ now \in Nat
  BY DEF StoreInv, StoreType
<1>2. \A ch \in Chans, n \in Names : data[ch][n] \in Entry /\ file[ch][n] \in Entry
  BY <1>1 DEF Data
<1>3. CASE Handler
  BY <1>3, HandlerTimes DEF StoreInv
<1>4. CASE Elsewhere
  <2>1. now' >= now /\ now' \in Nat /\ UNCHANGED <<data, file, writer>>
    BY <1>1, <1>4 DEF Elsewhere, seenVars
  <2>2. \A ch \in Chans, n \in Names : Past(data[ch][n])' /\ Past(file[ch][n])'
    BY <1>1, <1>2, <2>1 DEF TimesPast, Past, Entry
  <2>3. ASSUME writer # NoWrite, NEW n \in Names PROVE Past(writer.snap[n])'
    <3>1. writer.snap[n] \in Entry /\ Past(writer.snap[n])
      BY <2>3 DEF TimesPast, StoreInv, StoreType
    <3> QED
      BY <1>1, <2>1, <3>1 DEF Past, Entry
  <2> QED
    BY <2>1, <2>2, <2>3 DEF TimesPast, Past
<1>5. CASE Writer
  <2>1. now' = now /\ data' = data
    BY <1>5 DEF Writer, ircVars, Flush, SaveOne, EndWrite, StartSaveAll, Saved
  <2>2. CASE EndWrite
    <3>1. /\ writer # NoWrite /\ writer' = NoWrite
          /\ file' = file \/ file' = [file EXCEPT ![writer.ch] = writer.snap]
      BY <2>2 DEF EndWrite
    <3>2. \A ch \in Chans : file'[ch] = file[ch] \/ file'[ch] = writer.snap
      BY <1>1, <3>1 DEF Data
    <3>3. \A ch \in Chans, n \in Names : Past(file'[ch][n])
      BY <3>1, <3>2 DEF TimesPast
    <3> QED
      BY <2>1, <3>1, <3>3 DEF TimesPast, Past
  <2>3. ASSUME NEW ch \in Chans, Flush(ch) \/ SaveOne(ch) PROVE TimesPast'
    <3>1. file' = file /\ writer' = [ch |-> ch, snap |-> data[ch]]
      BY <2>3 DEF Flush, SaveOne, Snapshot
    <3> QED
      BY <2>1, <3>1 DEF TimesPast, Past
  <2>4. CASE StartSaveAll \/ Saved
    BY <2>1, <2>4 DEF StartSaveAll, Saved, TimesPast, Past
  <2> QED
    BY <1>5, <2>2, <2>3, <2>4 DEF Writer
<1>6. CASE StartStop /\ UNCHANGED now
  BY <1>6 DEF StartStop, TimesPast, Past
<1>7. CASE Reload /\ UNCHANGED now
  <2>1. data' = file /\ writer' = NoWrite /\ file' = file /\ now' = now
    BY <1>7 DEF Reload
  <2> QED
    BY <2>1 DEF TimesPast, Past
<1> QED
  BY <1>3, <1>4, <1>5, <1>6, <1>7 DEF StoreStep

-----------------------------------------------------------------------------
\* What a step must do to keep the observed ones present, channel by channel.
PresentOf(ch) ==
    In(ch) => observed[ch] \subseteq on[ch] /\ \A n \in observed[ch] : Stays(ch, n)

\* A nick's record in one channel is set, and its join is observed or it leaves.
LEMMA SetPresent ==
    ASSUME StoreInv, PresentInv, NEW c \in Chans, NEW n \in Names,
           NEW f \in {"join", "exit", "message"}, Set(c, n, f, now)
    PROVE  /\ \A ch \in Chans, m \in Names : ch # c \/ m # n => (Stays(ch, m)' <=> Stays(ch, m))
           /\ f = "join" => Stays(c, n)'
           /\ f = "message" /\ Stays(c, n) => Stays(c, n)'
<1>1. data \in Data /\ now \in Nat /\ now # 0 /\ data[c][n] \in Entry /\ Past(data[c][n])
  BY DEF StoreInv, StoreType, Data, PresentInv, TimesPast
<1>2. /\ data'[c][n][f] = now
      /\ \A g \in {"join", "exit", "message"} : g # f => data'[c][n][g] = data[c][n][g]
      /\ \A ch \in Chans, m \in Names : ch # c \/ m # n => data'[ch][m] = data[ch][m]
  BY <1>1, SetDoes
<1>3. \A ch \in Chans, m \in Names : ch # c \/ m # n => (Stays(ch, m)' <=> Stays(ch, m))
  BY <1>2 DEF Stays, Known
<1>4. Zero[f] = 0
  BY DEF Zero
<1>5. Known(c, n)'
  BY <1>1, <1>2, <1>4 DEF Known
<1>6. f = "join" => data'[c][n].join >= data'[c][n].exit
  BY <1>1, <1>2 DEF Entry, Past
<1>7. f = "message" => /\ data'[c][n].join = data[c][n].join
                       /\ data'[c][n].exit = data[c][n].exit
  BY <1>2
<1> QED
  BY <1>3, <1>5, <1>6, <1>7 DEF Stays

LEMMA PresentMeJoins ==
    ASSUME StoreInv, MirrorInv, PresentInv, NEW c \in Chans, MeJoins(c),
           NEW ch \in Chans
    PROVE  PresentOf(ch)'
<1>1. /\ conn' = conn /\ on' = [on EXCEPT ![c] = @ \cup {Me}]
      /\ observed' = [observed EXCEPT ![c] = {Me}] /\ Set(c, Me, "join", now)
  BY DEF MeJoins
<1>2. /\ on \in [Chans -> SUBSET Names] /\ observed \in [Chans -> SUBSET Names]
      /\ Me \in Names
  BY IrcAssumption DEF MirrorInv, MirrorTypes, PresentInv
<1>3. /\ \A x \in Chans, m \in Names : x # c \/ m # Me => (Stays(x, m)' <=> Stays(x, m))
      /\ Stays(c, Me)'
  BY <1>1, <1>2, SetPresent
<1>4. CASE ch = c
  <2>1. observed'[ch] = {Me} /\ Me \in on'[ch]
    BY <1>1, <1>2, <1>4
  <2> QED
    BY <1>3, <1>4, <2>1 DEF PresentOf
<1>5. CASE ch # c
  <2>1. observed'[ch] = observed[ch] /\ on'[ch] = on[ch] /\ (In(ch)' <=> In(ch))
    BY <1>1, <1>2, <1>5 DEF In
  <2> QED
    BY <1>2, <1>3, <1>5, <2>1 DEF PresentInv, PresentOf
<1> QED
  BY <1>4, <1>5

LEMMA PresentJoins ==
    ASSUME StoreInv, MirrorInv, PresentInv, NEW c \in scenario.chans,
           NEW n \in scenario.nicks, Joins(n, c), NEW ch \in Chans
    PROVE  PresentOf(ch)'
<1>1. /\ Quiet /\ conn' = conn /\ n \notin on[c] /\ on' = [on EXCEPT ![c] = @ \cup {n}]
      /\ c \in Joined => /\ Set(c, n, "join", now)
                         /\ observed' = [observed EXCEPT ![c] = @ \cup {n}]
      /\ c \notin Joined => UNCHANGED <<seenVars, observed>>
  BY DEF Joins, Unheard
<1>2. /\ on \in [Chans -> SUBSET Names] /\ n \in Names /\ n # Me /\ c \in Chans
      /\ c \in Joined <=> In(c)
  BY <1>1, QuietMirror
<1>3. observed \in [Chans -> SUBSET Names]
  BY DEF PresentInv
<1>4. /\ In(ch)' <=> In(ch)
      /\ on[ch] \subseteq on'[ch]
      /\ n \in on'[c]
  BY <1>1, <1>2 DEF In
<1>5. CASE In(c)
  <2>1. /\ \A x \in Chans, m \in Names : x # c \/ m # n => (Stays(x, m)' <=> Stays(x, m))
        /\ Stays(c, n)'
    BY <1>1, <1>2, <1>5, SetPresent
  <2>2. observed'[ch] = IF ch = c THEN observed[ch] \cup {n} ELSE observed[ch]
    BY <1>1, <1>2, <1>3, <1>5
  <2>3. ASSUME In(ch), NEW m \in observed'[ch] PROVE m \in on'[ch] /\ Stays(ch, m)'
    <3>1. CASE ch = c /\ m = n
      BY <1>4, <2>1, <3>1
    <3>2. CASE ~(ch = c /\ m = n)
      <4>1. m \in observed[ch] /\ m \in Names
        BY <1>3, <2>2, <2>3, <3>2
      <4>2. m \in on[ch] /\ Stays(ch, m)
        BY <2>3, <4>1 DEF PresentInv
      <4> QED
        BY <1>4, <2>1, <3>2, <4>1, <4>2
    <3> QED
      BY <3>1, <3>2
  <2> QED
    BY <1>4, <2>3 DEF PresentOf
<1>6. CASE ~In(c)
  <2>1. UNCHANGED <<data, observed>>
    BY <1>1, <1>2, <1>6 DEF seenVars
  <2> QED
    BY <1>4, <2>1 DEF PresentInv, PresentOf, Stays, Known
<1> QED
  BY <1>5, <1>6

LEMMA PresentLeaves ==
    ASSUME StoreInv, MirrorInv, PresentInv, NEW c \in scenario.chans,
           NEW n \in scenario.nicks \cup {Me}, Parts(n, c) \/ Kicked(n, c),
           NEW ch \in Chans
    PROVE  PresentOf(ch)'
<1>1. /\ Quiet /\ conn' = conn
      /\ on' = [on EXCEPT ![c] = @ \ {n}]
      /\ observed' = [observed EXCEPT ![c] = @ \ {n}]
      /\ Set(c, n, "exit", now) \/ UNCHANGED seenVars
  BY DEF Parts, Kicked, Leaves
<1>2. /\ on \in [Chans -> SUBSET Names] /\ n \in Names /\ c \in Chans
  BY <1>1, QuietMirror
<1>3. observed \in [Chans -> SUBSET Names]
  BY DEF PresentInv
<1>4. In(ch)' => In(ch)
  BY <1>1, <1>2 DEF In
<1>5. \A x \in Chans, m \in Names : x # c \/ m # n => (Stays(x, m)' <=> Stays(x, m))
  <2>1. CASE Set(c, n, "exit", now)
    BY <1>2, <2>1, SetPresent
  <2>2. CASE UNCHANGED seenVars
    BY <2>2 DEF seenVars, Stays, Known
  <2> QED
    BY <1>1, <2>1, <2>2
<1>6. ASSUME In(ch)', NEW m \in observed'[ch] PROVE m \in on'[ch] /\ Stays(ch, m)'
  <2>1. m \in observed[ch] /\ m \in Names /\ (ch # c \/ m # n)
    BY <1>1, <1>2, <1>3, <1>6
  <2>2. m \in on[ch] /\ Stays(ch, m)
    BY <1>4, <1>6, <2>1 DEF PresentInv
  <2>3. m \in on'[ch]
    BY <1>1, <1>2, <2>1, <2>2
  <2> QED
    BY <1>5, <2>1, <2>2, <2>3
<1> QED
  BY <1>6 DEF PresentOf

LEMMA PresentQuits ==
    ASSUME StoreInv, MirrorInv, PresentInv, NEW n \in scenario.nicks, Quits(n),
           NEW ch \in Chans
    PROVE  PresentOf(ch)'
<1>1. /\ Quiet /\ conn' = conn
      /\ on' = [x \in Chans |-> on[x] \ {n}]
      /\ observed' = [x \in Chans |-> observed[x] \ {n}]
      /\ Quit(n, now) \/ UNCHANGED seenVars
  BY DEF Quits
<1>2. on \in [Chans -> SUBSET Names] /\ n \in Names /\ n # Me
  BY <1>1, QuietMirror
<1>3. observed \in [Chans -> SUBSET Names] /\ data \in Data
  BY DEF PresentInv, StoreInv, StoreType
<1>4. In(ch)' => In(ch)
  BY <1>1 DEF In
<1>5. \A m \in Names : m # n => data'[ch][m] = data[ch][m]
  BY <1>1, <1>2, <1>3, QuitDoes DEF seenVars
<1>6. ASSUME In(ch)', NEW m \in observed'[ch] PROVE m \in on'[ch] /\ Stays(ch, m)'
  <2>1. m \in observed[ch] /\ m \in Names /\ m # n
    BY <1>1, <1>3, <1>6
  <2>2. m \in on[ch] /\ Stays(ch, m)
    BY <1>4, <1>6, <2>1 DEF PresentInv
  <2> QED
    BY <1>1, <1>5, <2>1, <2>2 DEF Stays, Known
<1> QED
  BY <1>6 DEF PresentOf

\* The record of the new nick is the old one's, unless there was one.
LEMMA PresentRenames ==
    ASSUME StoreInv, MirrorInv, PresentInv, NEW old \in scenario.nicks,
           NEW neu \in scenario.nicks, Renames(old, neu), NEW ch \in Chans
    PROVE  PresentOf(ch)'
<1>1. /\ Quiet /\ conn' = conn /\ neu \notin on[ch]
      /\ on' = [x \in Chans |-> IF old \in on[x] THEN (on[x] \ {old}) \cup {neu} ELSE on[x]]
      /\ observed' = [x \in Chans |->
                        IF old \in observed[x]
                        THEN (observed[x] \ {old}) \cup IF Known(x, neu) THEN {} ELSE {neu}
                        ELSE observed[x]]
      /\ Hears(old) => Rename(old, neu)
      /\ ~Hears(old) => UNCHANGED seenVars
  BY DEF Renames
<1>2. /\ on \in [Chans -> SUBSET Names] /\ old \in Names /\ neu \in Names
      /\ old # Me /\ neu # Me
      /\ ch \in Joined <=> In(ch)
  BY <1>1, QuietMirror
<1>3. observed \in [Chans -> SUBSET Names] /\ data \in Data
  BY DEF PresentInv, StoreInv, StoreType
<1>4. In(ch)' => In(ch)
  BY <1>1, <1>2 DEF In
<1>5. SUFFICES ASSUME In(ch)', NEW m \in observed'[ch] PROVE m \in on'[ch] /\ Stays(ch, m)'
  BY DEF PresentOf
<1>6. In(ch) /\ observed[ch] \subseteq on[ch] /\ \A x \in observed[ch] : Stays(ch, x)
  BY <1>4, <1>5 DEF PresentInv
<1>7. CASE m \in observed[ch] /\ m # old
  <2>1. m \in on[ch] /\ m # neu /\ m \in Names /\ Stays(ch, m)
    BY <1>1, <1>3, <1>6, <1>7
  <2>2. data'[ch][m] = data[ch][m]
    <3>1. CASE Hears(old)
      BY <1>1, <1>2, <1>3, <1>7, <2>1, <3>1, RenameDoes
    <3>2. CASE ~Hears(old)
      BY <1>1, <3>2 DEF seenVars
    <3> QED
      BY <3>1, <3>2
  <2>3. m \in on'[ch]
    BY <1>1, <1>7, <2>1
  <2> QED
    BY <2>1, <2>2, <2>3 DEF Stays, Known
<1>8. CASE ~(m \in observed[ch] /\ m # old)
  <2>1. old \in observed[ch] /\ m = neu /\ ~Known(ch, neu)
    BY <1>1, <1>3, <1>5, <1>6, <1>8
  <2>2. old \in on[ch] /\ Stays(ch, old)
    BY <1>6, <2>1
  <2>3. Hears(old)
    BY <1>2, <1>6, <2>2 DEF Hears
  <2>4. m \in on'[ch]
    BY <1>1, <2>1, <2>2
  <2>5. old # neu
    BY <1>1, <2>2
  <2>6. data'[ch][neu] = Merge(data[ch][neu], data[ch][old])
    BY <1>1, <1>2, <1>3, <2>2, <2>3, <2>5, RenameDoes DEF Stays
  <2>7. data[ch][neu] = Zero /\ data[ch][old] \in Entry /\ Zero \in Entry
    BY <1>2, <1>3, <2>1 DEF Known, Data, Entry, Zero
  <2>8. Zero.join = 0 /\ Zero.exit = 0 /\ Zero.message = 0
    BY DEF Zero
  <2>9. /\ data'[ch][neu].join = data[ch][old].join
        /\ data'[ch][neu].exit = data[ch][old].exit
        /\ data'[ch][neu].message = data[ch][old].message
    BY <2>6, <2>7, <2>8, MergeIs
  <2>10. data[ch][old].join # 0 \/ data[ch][old].exit # 0 \/ data[ch][old].message # 0
    <3>1. data[ch][old] # Zero
      BY <2>2 DEF Stays, Known
    <3> QED
      BY <2>7, <3>1 DEF Entry, Zero
  <2>11. Known(ch, neu)'
    BY <2>8, <2>9, <2>10 DEF Known
  <2> QED
    BY <2>1, <2>2, <2>4, <2>9, <2>11 DEF Stays
<1> QED
  BY <1>7, <1>8

\* The types of the history, whatever the step.
LEMMA ObservedTyped ==
    ASSUME MirrorInv, PresentInv, [Next]_vars
    PROVE  observed' \in [Chans -> SUBSET Names]
<1>1. /\ observed \in [Chans -> SUBSET Names] /\ Me \in Names
      /\ scenario.chans \subseteq Chans /\ scenario.nicks \subseteq Names
  BY IrcAssumption DEF PresentInv, MirrorInv, MirrorTypes
<1>2. ASSUME NEW c \in scenario.chans, MeJoins(c) PROVE observed' \in [Chans -> SUBSET Names]
  BY <1>1, <1>2 DEF MeJoins
<1>3. ASSUME NEW c \in scenario.chans, NEW n \in scenario.nicks, Joins(n, c)
      PROVE  observed' \in [Chans -> SUBSET Names]
  BY <1>1, <1>3 DEF Joins, Unheard
<1>4. ASSUME NEW c \in scenario.chans, NEW n \in scenario.nicks \cup {Me},
             Parts(n, c) \/ Kicked(n, c)
      PROVE  observed' \in [Chans -> SUBSET Names]
  BY <1>1, <1>4 DEF Parts, Kicked, Leaves
<1>5. ASSUME NEW n \in scenario.nicks, Quits(n) PROVE observed' \in [Chans -> SUBSET Names]
  BY <1>1, <1>5 DEF Quits
<1>6. ASSUME NEW old \in scenario.nicks, NEW neu \in scenario.nicks, Renames(old, neu)
      PROVE  observed' \in [Chans -> SUBSET Names]
  BY <1>1, <1>6 DEF Renames
<1>7. CASE Lost
  BY <1>1, <1>7 DEF Lost
<1>8. CASE UNCHANGED observed
  BY <1>1, <1>8
<1> QED
  BY <1>2, <1>3, <1>4, <1>5, <1>6, <1>7, <1>8
     DEF Next, Server, Connect, Disconnect, Speaks, Names353, Tick, Writer, StopAll,
         Restart, vars, ircVars

\* A step that leaves those in the channel and their records alone.
LEMMA PresentAlone ==
    ASSUME PresentInv, UNCHANGED <<on, data, observed>>, NEW ch \in Chans, In(ch)' => In(ch)
    PROVE  PresentOf(ch)'
BY DEF PresentInv, PresentOf, Stays, Known

THEOREM PresentHolds == Spec => []PresentInv
<1>1. Init => PresentInv
  <2> SUFFICES ASSUME Init PROVE PresentInv
    OBVIOUS
  <2>1. /\ data = Empty /\ file = Empty /\ writer = NoWrite /\ now = 1 /\ ~conn
        /\ observed = [ch \in Chans |-> {}]
    BY DEF Init, SeenInit
  <2>2. \A ch \in Chans, n \in Names : data[ch][n] = Zero /\ file[ch][n] = Zero
    BY <2>1 DEF Empty
  <2> QED
    BY <2>1, <2>2 DEF PresentInv, TimesPast, Past, Zero, In
<1>2. StoreInv /\ MirrorInv /\ PresentInv /\ [Next]_vars => PresentInv'
  <2> SUFFICES ASSUME StoreInv, MirrorInv, PresentInv, [Next]_vars PROVE PresentInv'
    OBVIOUS
  <2>1. TimesPast'
    <3>1. CASE Next
      BY <3>1, StepOfStore, TimesKept DEF StoreInv, StoreType, PresentInv
    <3>2. CASE UNCHANGED vars
      BY <3>2 DEF vars, seenVars, ircVars, PresentInv, TimesPast, Past
    <3> QED
      BY <3>1, <3>2
  <2>2. observed' \in [Chans -> SUBSET Names]
    BY ObservedTyped
  <2>3. ASSUME NEW ch \in Chans PROVE PresentOf(ch)'
    <3>1. scenario.chans \subseteq Chans /\ scenario.nicks \subseteq Names /\ Me \in Names
      BY IrcAssumption DEF MirrorInv, MirrorTypes
    <3>2. CASE Connect
      <4>1. on' = on /\ ~conn
        BY <3>2 DEF Connect
      <4> QED
        BY <4>1 DEF MirrorInv, DownIsEmpty, PresentOf, In
    <3>3. CASE Lost
      BY <3>3 DEF Lost, PresentOf, In
    <3>4. ASSUME NEW c \in scenario.chans, MeJoins(c) PROVE PresentOf(ch)'
      BY <3>1, <3>4, PresentMeJoins
    <3>5. ASSUME NEW c \in scenario.chans, NEW n \in scenario.nicks, Joins(n, c)
          PROVE  PresentOf(ch)'
      BY <3>5, PresentJoins
    <3>6. ASSUME NEW c \in scenario.chans, NEW n \in scenario.nicks, Speaks(n, c)
          PROVE  PresentOf(ch)'
      <4>1. UNCHANGED <<on, conn, observed>> /\ Set(c, n, "message", now)
        BY <3>6 DEF Speaks, ircVars
      <4>2. \A m \in Names : Stays(ch, m) => Stays(ch, m)'
        BY <3>1, <4>1, SetPresent
      <4> QED
        BY <4>1, <4>2 DEF PresentInv, PresentOf, In
    <3>7. ASSUME NEW c \in scenario.chans, NEW n \in scenario.nicks \cup {Me},
                 Parts(n, c) \/ Kicked(n, c)
          PROVE  PresentOf(ch)'
      BY <3>7, PresentLeaves
    <3>8. ASSUME NEW n \in scenario.nicks, Quits(n) PROVE PresentOf(ch)'
      BY <3>8, PresentQuits
    <3>9. ASSUME NEW old \in scenario.nicks, NEW neu \in scenario.nicks, Renames(old, neu)
          PROVE  PresentOf(ch)'
      BY <3>9, PresentRenames
    <3>10. CASE Names353 \/ Tick \/ Writer \/ UNCHANGED vars
      <4>1. UNCHANGED <<on, data, observed, conn>>
        BY <3>10 DEF Names353, Tick, Writer, Flush, SaveOne, EndWrite, StartSaveAll, Saved,
           vars, seenVars, ircVars
      <4> QED
        BY <4>1, PresentAlone DEF In
    <3> QED
      BY <3>2, <3>3, <3>4, <3>5, <3>6, <3>7, <3>8, <3>9, <3>10
         DEF Next, Server, Disconnect, StopAll, Restart
  <2> QED
    BY <2>1, <2>2, <2>3 DEF PresentInv, PresentOf
<1> QED
  BY <1>1, <1>2, StoreHolds, MirrorHolds, PTL DEF Spec

\* irc.go, seen.go: who is in a channel and was seen to join has no exit after
\* that join there, whatever the nick did elsewhere.
THEOREM JoinedArePresent == Spec => []PresentSinceJoin
<1>1. PresentInv => PresentSinceJoin
  BY DEF PresentInv, PresentSinceJoin, Joined, In, Stays
<1> QED
  BY <1>1, PresentHolds, PTL
=============================================================================
