------------------------------ MODULE ChannelLog ------------------------------
(***************************************************************************)
(* The channel logs of dflybot: the IRC handlers and the goroutines that   *)
(* post to channels append lines to one open file per channel, which holds *)
(* the lines of one day; a loop flushes them, Stop closes them.            *)
(*                                                                         *)
(* Lines are numbered as Record takes them, under the lock; everything     *)
(* under the lock is one step.  Writing a buffer out may fail after any    *)
(* line, and the file's buffered writer takes nothing more once it failed. *)
(***************************************************************************)
EXTENDS Functions, Order

CONSTANTS
    LogChans,       \* the channels
    Makers,         \* goroutines that record lines
    LastDay,        \* bound of the model: the last day
    MaxLines        \* bound of the model: lines recorded

ASSUME ChannelLogAssumption == LastDay \in Nat \ {0} /\ MaxLines \in Nat

VARIABLES
    logDay,      \* the day
    stamped,     \* per maker, the line it is about to record: its channel and day
    writers,     \* per channel, the open file: its day, or 0, and what is buffered
    broken,      \* the channels with an open file to which a write failed
    logFiles,    \* per channel and day, the lines in the file
    logState,    \* "open", "stopping" (stop closed), "waited" (the flush loop has
                 \* ended), "closed"
    lines,       \* history: how many lines Record took
    recorded,    \* history: per channel and day, the lines Record took
    missing      \* history: the lines that faults and kills cost

chanVars == <<logDay, stamped, writers, broken, logFiles, logState, lines, recorded, missing>>

LogDays == 1..LastDay

NoWriter == [day |-> 0, buf |-> <<>>]

NoLine == [ch |-> "", day |-> 0]

ChanInit ==
    /\ logDay = 1
    /\ stamped = [m \in Makers |-> NoLine]
    /\ writers = [ch \in LogChans |-> NoWriter] /\ broken = {}
    /\ logFiles = [ch \in LogChans |-> [d \in LogDays |-> <<>>]]
    /\ logState = "open"
    /\ lines = 0
    /\ recorded = [ch \in LogChans |-> [d \in LogDays |-> {}]]
    /\ missing = {}

-----------------------------------------------------------------------------
\* A handler or say makes a line with the time of now.
StampLine(m, ch) ==
    /\ stamped[m] = NoLine
    /\ stamped' = [stamped EXCEPT ![m] = [ch |-> ch, day |-> logDay]]
    /\ UNCHANGED <<logDay, writers, broken, logFiles, logState, lines, recorded, missing>>

\* The files of a channel once the first n buffered lines are written out.
FlushedTo(ch, n) ==
    IF writers[ch].day = 0 THEN logFiles[ch]
    ELSE [logFiles[ch] EXCEPT ![writers[ch].day] = @ \o SubSeq(writers[ch].buf, 1, n)]

\* How many buffered lines a write may bring to the file, the others being lost.
Reach(ch) == 0..Len(writers[ch].buf)

\* Those others.
Unwritten(ch, n) == {writers[ch].buf[i] : i \in n + 1..Len(writers[ch].buf)}

\* Mutation of Reopen: the file is written from its beginning.
ReopenTruncated(ch, d, n) ==
    /\ writers' = [writers EXCEPT ![ch] = [day |-> d, buf |-> <<lines + 1>>]]
    /\ broken' = broken \ {ch}
    /\ logFiles' = [logFiles EXCEPT ![ch] = [FlushedTo(ch, n) EXCEPT ![d] = <<>>]]
    /\ missing' = missing \cup Unwritten(ch, n)

\* The channel's open file is of another day, or there is none: what is open is
\* closed, and the file of the line's day opened to append.
Reopen(ch, d, n) ==
    /\ writers' = [writers EXCEPT ![ch] = [day |-> d, buf |-> <<lines + 1>>]]
    /\ broken' = broken \ {ch}
    /\ logFiles' = [logFiles EXCEPT ![ch] = FlushedTo(ch, n)]
    /\ missing' = missing \cup Unwritten(ch, n)

\* Opening failed: the line is lost, and the channel has no open file.
ReopenFails(ch, n) ==
    /\ writers' = [writers EXCEPT ![ch] = NoWriter]
    /\ broken' = broken \ {ch}
    /\ logFiles' = [logFiles EXCEPT ![ch] = FlushedTo(ch, n)]
    /\ missing' = missing \cup Unwritten(ch, n) \cup {lines + 1}

\* The open file is of the line's day: the line is buffered.
AppendLine(ch) ==
    /\ ch \notin broken
    /\ writers' = [writers EXCEPT ![ch].buf = Append(@, lines + 1)]
    /\ UNCHANGED <<broken, logFiles, missing>>

\* The buffer is full and written out, and then has the line.
Spill(ch) ==
    /\ ch \notin broken
    /\ writers' = [writers EXCEPT ![ch].buf = <<lines + 1>>]
    /\ logFiles' = [logFiles EXCEPT ![ch] = FlushedTo(ch, Len(writers[ch].buf))]
    /\ UNCHANGED <<broken, missing>>

\* Writing it out fails, or a write had failed: the line is lost too.
WriteFails(ch, n) ==
    /\ writers' = [writers EXCEPT ![ch].buf = <<>>]
    /\ broken' = broken \cup {ch}
    /\ logFiles' = [logFiles EXCEPT ![ch] = FlushedTo(ch, n)]
    /\ missing' = missing \cup Unwritten(ch, n) \cup {lines + 1}

\* Record: after Stop, lines are dropped.
Record(m) ==
    /\ stamped[m] # NoLine
    /\ LET ch == stamped[m].ch  d == stamped[m].day IN
       IF logState = "closed"
       THEN UNCHANGED <<writers, broken, logFiles, lines, recorded, missing>>
       ELSE /\ lines < MaxLines
            /\ lines' = lines + 1
            /\ recorded' = [recorded EXCEPT ![ch][d] = @ \cup {lines + 1}]
            /\ IF writers[ch].day = d
               THEN AppendLine(ch) \/ Spill(ch) \/ \E n \in Reach(ch) : WriteFails(ch, n)
               ELSE \E n \in Reach(ch) : Reopen(ch, d, n) \/ ReopenFails(ch, n)
    /\ stamped' = [stamped EXCEPT ![m] = NoLine]
    /\ UNCHANGED <<logDay, logState>>

\* What each channel's file gets when every buffer is written out.
Reaches == {n \in [LogChans -> 0..MaxLines] : \A ch \in LogChans : n[ch] \in Reach(ch)}

WriteOut(n) ==
    /\ logFiles' = [ch \in LogChans |-> FlushedTo(ch, n[ch])]
    /\ missing' = missing \cup UNION {Unwritten(ch, n[ch]) : ch \in LogChans}

\* flushLoop, on its ticker, which may be chosen over stop.
FlushAll ==
    /\ logState \in {"open", "stopping"}
    /\ \E n \in Reaches :
        /\ WriteOut(n)
        /\ broken' = broken \cup {ch \in LogChans : n[ch] < Len(writers[ch].buf)}
    /\ writers' = [ch \in LogChans |-> [writers[ch] EXCEPT !.buf = <<>>]]
    /\ UNCHANGED <<logDay, stamped, logState, lines, recorded>>

StopLog ==
    /\ logState = "open"
    /\ logState' = "stopping"
    /\ UNCHANGED <<logDay, stamped, writers, broken, logFiles, lines, recorded, missing>>

\* The loop ends, and Stop's wait for it.
LoopEnded ==
    /\ logState = "stopping"
    /\ logState' = "waited"
    /\ UNCHANGED <<logDay, stamped, writers, broken, logFiles, lines, recorded, missing>>

\* Stop closes every file, under the lock.
CloseAll ==
    /\ logState = "waited"
    /\ logState' = "closed"
    /\ \E n \in Reaches : WriteOut(n)
    /\ writers' = [ch \in LogChans |-> NoWriter] /\ broken' = {}
    /\ UNCHANGED <<logDay, stamped, lines, recorded>>

\* The process ends or is killed, and the next one starts: what was buffered is
\* lost.
NewLogStore ==
    /\ stamped' = [m \in Makers |-> NoLine]
    /\ writers' = [ch \in LogChans |-> NoWriter] /\ broken' = {}
    /\ logState' = "open"
    /\ missing' = missing \cup UNION {Unwritten(ch, 0) : ch \in LogChans}
    /\ UNCHANGED <<logDay, logFiles, lines, recorded>>

NextDay ==
    /\ logDay < LastDay
    /\ logDay' = logDay + 1
    /\ UNCHANGED <<stamped, writers, broken, logFiles, logState, lines, recorded, missing>>

ChanNext ==
    \/ \E m \in Makers : Record(m) \/ \E ch \in LogChans : StampLine(m, ch)
    \/ FlushAll \/ StopLog \/ LoopEnded \/ CloseAll \/ NewLogStore
    \/ NextDay

ChanSpec == ChanInit /\ [][ChanNext]_chanVars

-----------------------------------------------------------------------------
\* What is buffered for a channel's file of a day.
Buffered(ch, d) == IF writers[ch].day = d THEN writers[ch].buf ELSE <<>>

\* The file of each day has the lines Record took for that channel and day, once
\* each and in the order it took them, whichever makers come late at midnight with
\* a line of the day before; what is not in the file is buffered, or was lost: in
\* the buffer when writing it out failed or the process was killed, offered to an
\* open file after that, or not written because no file could be opened.  Once Stop
\* has closed the files nothing is buffered (Record, closeLocked, Stop).
LogHasLines ==
    \A ch \in LogChans, d \in LogDays :
        LET held == logFiles[ch][d] \o Buffered(ch, d) IN
        /\ Increasing(held)
        /\ Range(held) = recorded[ch][d] \ missing
        /\ logState = "closed" => Buffered(ch, d) = <<>>
=============================================================================
