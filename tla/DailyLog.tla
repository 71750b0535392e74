------------------------------- MODULE DailyLog -------------------------------
(***************************************************************************)
(* The access and error logs of urlshort: callers put records into a       *)
(* bounded channel and never wait; one goroutine writes them to a file for *)
(* each day, removes old files, and on Close drains what was accepted.     *)
(*                                                                         *)
(* Records are numbered in the order they were accepted, days from 1.      *)
(* Writing the buffer out may fail after any record: the code logs it, and *)
(* the file's buffered writer takes nothing more.                          *)
(***************************************************************************)
EXTENDS Order

CONSTANTS
    Callers,        \* goroutines that log
    QueueLen,       \* capacity of the channel, 4096 in the code
    LogRetention,   \* retention_days
    MaxRecords,     \* bound of the model: records accepted
    MaxDay,         \* bound of the model: the last day
    MaxLives        \* bound of the model: how often the process starts

ASSUME DailyLogAssumption ==
    /\ QueueLen \in Nat \ {0} /\ LogRetention \in Nat
    /\ MaxRecords \in Nat /\ MaxDay \in Nat \ {0} /\ MaxLives \in Nat

VARIABLES
    today,       \* the day
    caller,      \* per caller, whether it passed the check of closed
    ch,          \* the channel
    closing,     \* Close: "open", "closed" set, "stop" closed, "returned"
    writer,      \* the goroutine: "running", "draining", "done", "dead"
    file,        \* the file it has open: its day, or 0, and what is buffered
    stuck,       \* whether a write to that file failed
    cleaned,     \* lastCleanupDay
    disk,        \* per day, the records in its file
    accepted,    \* history: how many records the channel took
    early,       \* history: how many before Close began
    lost,        \* history: the records that faults and kills cost
    aged,        \* history: records retention removed
    lives        \* history: how often the process started

logVars == <<today, caller, ch, closing, writer, file, stuck, cleaned, disk,
             accepted, early, lost, aged, lives>>

Days == 1..MaxDay

NoFile == [day |-> 0, buf |-> <<>>]

LogInit ==
    /\ today = 1
    /\ caller = [c \in Callers |-> FALSE]
    /\ ch = <<>>
    /\ closing = "open"
    /\ writer = "dead"
    /\ file = NoFile /\ stuck = FALSE
    /\ cleaned = 0
    /\ disk = [d \in Days |-> <<>>]
    /\ accepted = 0 /\ early = 0 /\ lost = {} /\ aged = {} /\ lives = 0

-----------------------------------------------------------------------------
(* cleanup: the files of LogRetention days ago and before, 0 keeps all.    *)

Expired == {d \in Days : LogRetention > 0 /\ d + LogRetention <= today}

Records(s) == {s[i] : i \in DOMAIN s}

\* The records in the files of some days.
Held(files, days) == UNION {Records(files[d]) : d \in days}

\* newDailyLog: retention, which may fail for any file, and the writer.
NewDailyLog ==
    /\ writer = "dead" /\ lives < MaxLives
    /\ writer' = "running"
    /\ cleaned' = today
    /\ \E gone \in SUBSET Expired :
        /\ disk' = [d \in Days |-> IF d \in gone THEN <<>> ELSE disk[d]]
        /\ aged' = aged \cup Held(disk, gone)
    /\ lives' = lives + 1
    /\ UNCHANGED <<today, caller, ch, closing, file, stuck, accepted, early, lost>>

-----------------------------------------------------------------------------
(* The callers.                                                            *)

\* Write sees that the log is open.
StartWrite(c) ==
    /\ writer # "dead" /\ closing = "open" /\ ~caller[c]
    /\ caller' = [caller EXCEPT ![c] = TRUE]
    /\ UNCHANGED <<today, ch, closing, writer, file, stuck, cleaned, disk,
                   accepted, early, lost, aged, lives>>

\* enqueue: the record goes into the channel, and is dropped when that is full;
\* closed may have been set since it was looked at.
Enqueue(c) ==
    /\ caller[c]
    /\ caller' = [caller EXCEPT ![c] = FALSE]
    /\ \/ /\ Len(ch) < QueueLen /\ accepted < MaxRecords
          /\ ch' = Append(ch, accepted + 1)
          /\ accepted' = accepted + 1
       \/ Len(ch) = QueueLen /\ UNCHANGED <<ch, accepted>>
    /\ UNCHANGED <<today, closing, writer, file, stuck, cleaned, disk, early, lost, aged, lives>>

-----------------------------------------------------------------------------
(* The writer.                                                             *)

\* The disk once the first n buffered records are written out.
FlushedTo(n) ==
    IF file.day = 0 THEN disk
    ELSE [disk EXCEPT ![file.day] = @ \o SubSeq(file.buf, 1, n)]

\* How many buffered records a write may bring to the disk, the others being lost.
Reach == 0..Len(file.buf)

\* Those others.
Unwritten(n) == {file.buf[i] : i \in n + 1..Len(file.buf)}

\* The file of today is opened to append, and takes the record.
Opened(n) ==
    /\ file' = [day |-> today, buf |-> <<Head(ch)>>] /\ stuck' = FALSE
    /\ disk' = FlushedTo(n)
    /\ lost' = lost \cup Unwritten(n)

\* Opening failed: the record is lost, the next one tries again.
NotOpened(n) ==
    /\ file' = NoFile /\ stuck' = FALSE
    /\ disk' = FlushedTo(n)
    /\ lost' = lost \cup Unwritten(n) \cup {Head(ch)}

\* The open file is of today: the record is buffered.
Buffered ==
    /\ ~stuck
    /\ file' = [file EXCEPT !.buf = Append(@, Head(ch))]
    /\ UNCHANGED <<stuck, disk, lost>>

\* The buffer is full and written out, and then has the record.
Spilled ==
    /\ ~stuck
    /\ file' = [file EXCEPT !.buf = <<Head(ch)>>]
    /\ disk' = FlushedTo(Len(file.buf))
    /\ UNCHANGED <<stuck, lost>>

\* Writing it out fails, or a write had failed: the record is lost too.
WriteFails(n) ==
    /\ file' = [file EXCEPT !.buf = <<>>] /\ stuck' = TRUE
    /\ disk' = FlushedTo(n)
    /\ lost' = lost \cup Unwritten(n) \cup {Head(ch)}

\* Receive a record and write it, to another file when the day has changed.
WriteRecord ==
    /\ writer \in {"running", "draining"}
    /\ ch # <<>>
    /\ ch' = Tail(ch)
    /\ IF file.day = today
       THEN Buffered \/ Spilled \/ \E n \in Reach : WriteFails(n)
       ELSE \E n \in Reach : Opened(n) \/ NotOpened(n)
    /\ UNCHANGED <<today, caller, closing, writer, cleaned, accepted, early, aged, lives>>

\* The ticker: flush, and once a day retention, which may fail for any file.
Tick ==
    /\ writer = "running"
    /\ file' = [file EXCEPT !.buf = <<>>]
    /\ \E n \in Reach, gone \in SUBSET Expired :
        /\ cleaned = today => gone = {}
        /\ stuck' = (stuck \/ n < Len(file.buf))
        /\ disk' = [d \in Days |-> IF d \in gone THEN <<>> ELSE FlushedTo(n)[d]]
        /\ lost' = lost \cup Unwritten(n)
        /\ aged' = aged \cup Held(FlushedTo(n), gone)
    /\ cleaned' = today
    /\ UNCHANGED <<today, caller, ch, closing, writer, accepted, early, lives>>

\* Mutation of SeeStop: the writer returns at once.
SeeStopAtOnce ==
    /\ writer = "running" /\ closing = "stop"
    /\ writer' = "done"
    /\ disk' = FlushedTo(Len(file.buf)) /\ file' = NoFile
    /\ UNCHANGED <<today, caller, ch, closing, stuck, cleaned, accepted, early, lost,
                   aged, lives>>

\* stop is one of three channels the writer selects from.
SeeStop ==
    /\ writer = "running" /\ closing = "stop"
    /\ writer' = "draining"
    /\ UNCHANGED <<today, caller, ch, closing, file, stuck, cleaned, disk,
                   accepted, early, lost, aged, lives>>

\* The channel was empty: the file is flushed and closed.
Drained ==
    /\ writer = "draining" /\ ch = <<>>
    /\ writer' = "done"
    /\ file' = NoFile /\ stuck' = FALSE
    /\ \E n \in Reach : disk' = FlushedTo(n) /\ lost' = lost \cup Unwritten(n)
    /\ UNCHANGED <<today, caller, ch, closing, cleaned, accepted, early, aged, lives>>

-----------------------------------------------------------------------------
(* Close, in the two steps a caller can come between, and its return.      *)

SetClosed ==
    /\ writer = "running" /\ closing = "open"
    /\ closing' = "closed"
    /\ early' = accepted
    /\ UNCHANGED <<today, caller, ch, writer, file, stuck, cleaned, disk,
                   accepted, lost, aged, lives>>

CloseStop ==
    /\ closing = "closed"
    /\ closing' = "stop"
    /\ UNCHANGED <<today, caller, ch, writer, file, stuck, cleaned, disk,
                   accepted, early, lost, aged, lives>>

CloseReturns ==
    /\ closing = "stop" /\ writer = "done"
    /\ closing' = "returned"
    /\ UNCHANGED <<today, caller, ch, writer, file, stuck, cleaned, disk,
                   accepted, early, lost, aged, lives>>

\* The process ends, after Close or before: its memory is gone.
LogGone ==
    /\ writer # "dead"
    /\ writer' = "dead" /\ closing' = "open"
    /\ caller' = [c \in Callers |-> FALSE]
    /\ ch' = <<>> /\ file' = NoFile /\ stuck' = FALSE /\ cleaned' = 0
    /\ lost' = lost \cup Records(ch) \cup Records(file.buf)
    /\ UNCHANGED <<today, disk, accepted, early, aged, lives>>

DayPasses ==
    /\ today < MaxDay
    /\ today' = today + 1
    /\ UNCHANGED <<caller, ch, closing, writer, file, stuck, cleaned, disk,
                   accepted, early, lost, aged, lives>>

LogNext ==
    \/ NewDailyLog
    \/ \E c \in Callers : StartWrite(c) \/ Enqueue(c)
    \/ WriteRecord \/ Tick \/ SeeStop \/ Drained
    \/ SetClosed \/ CloseStop \/ CloseReturns
    \/ LogGone \/ DayPasses

LogSpec == LogInit /\ [][LogNext]_logVars

-----------------------------------------------------------------------------
\* Where the records are: the files from the oldest, the buffer, the channel.
Queue ==
    [n \in 1..(MaxDay + 2) |->
        IF n <= MaxDay THEN disk[n] ELSE IF n = MaxDay + 1 THEN file.buf ELSE ch]

AllBefore(s, t) == \A x \in Records(s), y \in Records(t) : x < y

\* Every record the channel took is, once and in order, in a file, in the buffer
\* or in the channel, unless its file aged out or it was lost: in memory when the
\* process was killed, in the buffer when writing it out failed, offered to an open
\* file after that, or without a file because none could be opened; and when Close
\* has returned, none that was accepted before Close began is still in memory
\* (run, Close), however callers, rotation, retention and restarts interleave.
LogComplete ==
    /\ \A n \in DOMAIN Queue : Increasing(Queue[n])
    /\ \A n, m \in DOMAIN Queue : n < m => AllBefore(Queue[n], Queue[m])
    /\ UNION {Records(Queue[n]) : n \in DOMAIN Queue} = (1..accepted) \ (lost \cup aged)
    /\ closing = "returned" =>
         file.buf = <<>> /\ \A i \in 1..Len(ch) : ch[i] > early
=============================================================================
