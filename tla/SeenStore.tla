------------------------------- MODULE SeenStore -------------------------------
(***************************************************************************)
(* The seen database of dflybot: per channel and nick the last join, exit  *)
(* and message, kept in memory, flushed to one file per channel by a       *)
(* background loop, and saved as a whole when it is stopped.               *)
(*                                                                         *)
(* A nick stands for all its spellings.  An entry of three zeros is an     *)
(* absent one: no operation of the store writes such an entry.             *)
(***************************************************************************)
EXTENDS Naturals, FiniteSets

CONSTANTS
    Chans,       \* channels
    Names        \* nicks, up to case

\* The empty string stands for no channel.
ASSUME SeenAssumption == "" \notin Chans

VARIABLES
    data,        \* the databases in memory
    dirty,       \* the channels with unsaved changes
    file,        \* the databases on disk
    writer,      \* the write under way
    saving,      \* Stop: "no", "waiting" for the flush loop, its "saveAll", "done"
    left,        \* the channels saveAll has still to write
    failed       \* history: the channels whose last write failed

seenVars == <<data, dirty, file, writer, saving, left, failed>>

Zero == [join |-> 0, exit |-> 0, message |-> 0]

Empty == [ch \in Chans |-> [n \in Names |-> Zero]]

NoWrite == [ch |-> "", snap |-> <<>>]

SeenInit ==
    /\ data = Empty
    /\ dirty = {}
    /\ file = Empty
    /\ writer = NoWrite
    /\ saving = "no"
    /\ left = {}
    /\ failed = {}

Known(ch, n) == data[ch][n] # Zero

-----------------------------------------------------------------------------
(* What the handlers of the IRC connection call, under the lock.           *)

\* set(): Join, Leave and Message of one nick in one channel.
Set(ch, n, field, t) ==
    /\ data' = [data EXCEPT ![ch][n][field] = t]
    /\ dirty' = dirty \cup {ch}
    /\ UNCHANGED <<file, writer, saving, left, failed>>

Quit(n, t) ==
    LET chs == {ch \in Chans : Known(ch, n)} IN
    /\ data' = [ch \in Chans |-> IF ch \in chs THEN [data[ch] EXCEPT ![n].exit = t] ELSE data[ch]]
    /\ dirty' = dirty \cup chs
    /\ UNCHANGED <<file, writer, saving, left, failed>>

\* What the entry d is after the one e was moved onto it: the times d has stay.
Merge(d, e) == [f \in DOMAIN Zero |-> IF d[f] = 0 THEN e[f] ELSE d[f]]

Rename(old, neu) ==
    LET chs == IF old = neu THEN {} ELSE {ch \in Chans : Known(ch, old)} IN
    /\ data' = [ch \in Chans |->
                  IF ch \in chs
                  THEN [data[ch] EXCEPT ![old] = Zero, ![neu] = Merge(@, data[ch][old])]
                  ELSE data[ch]]
    /\ dirty' = dirty \cup chs
    /\ UNCHANGED <<file, writer, saving, left, failed>>

-----------------------------------------------------------------------------
(* The flush loop and Stop.                                                *)

\* Mutation of Snapshot: the channel is marked clean only after its write.
SnapshotStillDirty(ch) ==
    /\ writer' = [ch |-> ch, snap |-> data[ch]]
    /\ UNCHANGED dirty

\* write(): the snapshot is taken and the channel marked clean in one
\* critical section; the file is written outside of it.
Snapshot(ch) ==
    /\ writer' = [ch |-> ch, snap |-> data[ch]]
    /\ dirty' = dirty \ {ch}

\* flushDirty goes on until no channel is dirty; so does the flush loop when
\* it is told to stop in the middle of it.
Flush(ch) ==
    /\ saving \in {"no", "waiting"}
    /\ writer = NoWrite
    /\ ch \in dirty
    /\ Snapshot(ch)
    /\ UNCHANGED <<data, file, saving, left, failed>>

\* Mutation of EndWrite: what is written is what is in memory by then, and
\* the channel is clean.
EndWriteCleans ==
    /\ writer # NoWrite
    /\ file' = [file EXCEPT ![writer.ch] = writer.snap]
    /\ failed' = failed \ {writer.ch}
    /\ dirty' = dirty \ {writer.ch}
    /\ writer' = NoWrite
    /\ UNCHANGED <<data, saving, left>>

\* writeFile, by a rename, so that the file is the old or the new one; a
\* failure is logged, and the channel stays clean.
EndWrite ==
    /\ writer # NoWrite
    /\ \/ /\ file' = [file EXCEPT ![writer.ch] = writer.snap]
          /\ failed' = failed \ {writer.ch}
       \/ /\ UNCHANGED file
          /\ failed' = failed \cup {writer.ch}
    /\ writer' = NoWrite
    /\ UNCHANGED <<data, dirty, saving, left>>

StartStop ==
    /\ saving = "no"
    /\ saving' = "waiting"
    /\ UNCHANGED <<data, dirty, file, writer, left, failed>>

\* The flush loop is gone (it may leave channels dirty), saveAll begins.
StartSaveAll ==
    /\ saving = "waiting"
    /\ writer = NoWrite
    /\ saving' = "saveAll"
    /\ left' = {ch \in Chans : \E n \in Names : Known(ch, n)}
    /\ UNCHANGED <<data, dirty, file, writer, failed>>

SaveOne(ch) ==
    /\ saving = "saveAll"
    /\ writer = NoWrite
    /\ ch \in left
    /\ left' = left \ {ch}
    /\ Snapshot(ch)
    /\ UNCHANGED <<data, file, saving, failed>>

Saved ==
    /\ saving = "saveAll"
    /\ writer = NoWrite
    /\ left = {}
    /\ saving' = "done"
    /\ UNCHANGED <<data, dirty, file, writer, left, failed>>

\* The process ends or dies, and the next one loads the files.
Reload ==
    /\ data' = file
    /\ dirty' = {}
    /\ writer' = NoWrite
    /\ saving' = "no"
    /\ left' = {}
    /\ failed' = {}
    /\ UNCHANGED file

-----------------------------------------------------------------------------
SeenTypeOK ==
    /\ \A ch \in Chans : DOMAIN data[ch] = Names /\ DOMAIN file[ch] = Names
    /\ dirty \subseteq Chans
    /\ \A ch \in dirty : \E n \in Names : Known(ch, n)
    /\ writer = NoWrite \/ writer.ch \in Chans
    /\ saving \in {"no", "waiting", "saveAll", "done"}
    /\ left \subseteq Chans /\ failed \subseteq Chans
    /\ saving \in {"no", "waiting"} => left = {}

\* A channel that is clean and not being written is on disk as it is in
\* memory, unless its last write failed (write takes the snapshot and clears
\* the mark in one critical section).
CleanIsSaved ==
    \A ch \in Chans \ (dirty \cup failed) :
        data[ch] = IF writer.ch = ch THEN writer.snap ELSE file[ch]
=============================================================================
