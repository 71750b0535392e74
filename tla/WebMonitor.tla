------------------------------ MODULE WebMonitor ------------------------------
(***************************************************************************)
(* web-monitor: one web.  Every poll probes it once, moves the state       *)
(* machine that declares it down and up, looks at the certificate, posts   *)
(* what there is to say and saves the state.                               *)
(*                                                                         *)
(* Time is days.  A certificate is the last day it is valid on; 0 is none. *)
(* The connection to the web is kept between polls and shows the           *)
(* certificate that was served when it was made.                           *)
(***************************************************************************)
EXTENDS Order

CONSTANTS
    DownRepeats, UpRepeats, \* consecutive results that declare a change
    ExpiringDays,           \* thresholds of the certificate warnings
    Certs,                  \* the certificates the web may serve
    LastDay,                \* bound of the model: days
    WebScenarios            \* bounds of the model: the sets of what may happen
                            \* of which a behaviour has one

WebKinds == {"crash", "unsaved", "badstate", "swap"}

ASSUME WebAssumption ==
    /\ DownRepeats \in Nat \ {0} /\ UpRepeats \in Nat \ {0}
    /\ ExpiringDays \subseteq Nat /\ ExpiringDays # {} /\ IsFiniteSet(ExpiringDays)
    /\ Certs \subseteq Nat \ {0} /\ Certs # {}
    /\ LastDay \in Nat \ {0}
    /\ WebScenarios \subseteq SUBSET WebKinds

VARIABLES
    today,       \* the day
    served,      \* the certificate that the web serves
    kept,        \* the certificate of the connection that is kept, 0 if none
    web, webDisk,\* the state in memory and in the file
    webPhase,    \* "off", "idle", "send"
    webOut,      \* the messages still to post
    row,         \* history: how many of the last probes failed or succeeded
    shaky,       \* history: the last success was the first one, after failures
    alert,       \* history: the last change that was handed to Post
    warnings,    \* history: the warnings that were handed to Post
    rewarned,    \* history: whether one was once more
    webMay,      \* what may happen in this behaviour
    webMishaps   \* history: what went wrong

webVars == <<today, served, kept, web, webDisk, webPhase, webOut,
             row, shaky, alert, warnings, rewarned, webMay, webMishaps>>

FreshWeb == [state |-> "unknown", up |-> 0, down |-> 0, cert |-> 0, warned |-> 0, date |-> 0]

WebInit ==
    /\ today = 1
    /\ served \in Certs
    /\ kept = 0
    /\ web = FreshWeb
    /\ webDisk = FreshWeb
    /\ webPhase = "off"
    /\ webOut = <<>>
    /\ row = [ok |-> 0, failed |-> 0]
    /\ shaky = FALSE
    /\ alert = "none"
    /\ warnings = {}
    /\ rewarned = FALSE
    /\ webMay \in WebScenarios
    /\ webMishaps = {}

WebMishap(what) == what \in webMay /\ webMishaps' = webMishaps \cup {what}

SaveWeb ==
    \/ webDisk' = web /\ UNCHANGED webMishaps
    \/ webDisk' = webDisk /\ webDisk # web /\ WebMishap("unsaved")

-----------------------------------------------------------------------------
(* updateState.                                                            *)

\* Mutation of Counted: a success between failures does not reset their count.
CountedKeeps(s, ok) ==
    IF s.state # "down"
    THEN IF ok THEN [s EXCEPT !.state = "up"] ELSE [s EXCEPT !.down = @ + 1]
    ELSE IF ok THEN [s EXCEPT !.up = @ + 1] ELSE [s EXCEPT !.up = 0]

\* The result counted; the first success does not reset the failures before it.
Counted(s, ok) ==
    IF s.state # "down"
    THEN IF ok THEN [s EXCEPT !.state = "up", !.down = IF s.state = "up" THEN 0 ELSE @]
         ELSE [s EXCEPT !.down = @ + 1]
    ELSE IF ok THEN [s EXCEPT !.up = @ + 1] ELSE [s EXCEPT !.up = 0]

\* Enough results in a row declare the change.
Declared(s) ==
    IF s.state # "down" /\ s.down >= DownRepeats THEN [s EXCEPT !.state = "down", !.down = 0]
    ELSE IF s.state = "down" /\ s.up >= UpRepeats THEN [s EXCEPT !.state = "up", !.up = 0]
    ELSE s

AfterProbe(s, ok) == Declared(Counted(s, ok))

ChangeMsg(s, t) ==
    IF t.state = "down" /\ s.state # "down" THEN <<[kind |-> "down"]>>
    ELSE IF t.state = "up" /\ s.state = "down" THEN <<[kind |-> "up"]>>
    ELSE <<>>

-----------------------------------------------------------------------------
(* updateCert.                                                             *)

\* A new certificate starts over.
ForCert(s, c) ==
    IF s.cert = c THEN s
    ELSE [s EXCEPT !.cert = c, !.warned = Greatest(ExpiringDays) + 1, !.date = 0]

Expired(c) == c < today

\* Mutation of Due: a threshold is not forgotten when it was warned of.
DueAgain(s, c) == {t \in ExpiringDays : c - today <= t /\ t <= s.warned}

\* The thresholds the certificate is at or below and has no warning of.
Due(s, c) == {t \in ExpiringDays : c - today <= t /\ t < s.warned}

\* The state after the certificate c was seen, and what there is to say: once a
\* day that it has expired, or the highest threshold that is due.
CertSeen(s, c) ==
    LET n == ForCert(s, c) IN
    IF c = 0 THEN [st |-> s, msg |-> <<>>]
    ELSE IF Expired(c)
    THEN [st |-> [n EXCEPT !.date = today],
          msg |-> IF n.date = today THEN <<>>
                  ELSE <<[kind |-> "expired", cert |-> c, at |-> today]>>]
    ELSE IF Due(n, c) = {} THEN [st |-> n, msg |-> <<>>]
    ELSE LET t == Greatest(Due(n, c)) IN
         [st |-> [n EXCEPT !.warned = t],
          msg |-> <<[kind |-> "expiring", cert |-> c, at |-> t]>>]

-----------------------------------------------------------------------------
(* The process.                                                            *)

\* Start: a state file that cannot be read is ignored.
WebBoot ==
    /\ webPhase = "off"
    /\ \/ web' = webDisk /\ UNCHANGED webMishaps
       \/ web' = FreshWeb /\ webDisk # FreshWeb /\ WebMishap("badstate")
    /\ webPhase' = "idle"
    /\ UNCHANGED <<today, served, kept, webDisk, webOut, row, shaky, alert, warnings, rewarned, webMay>>

WebGone == webPhase' = "off" /\ web' = FreshWeb /\ webOut' = <<>> /\ kept' = 0

\* Start returns between two polls, and its deferred function saves.
WebExit ==
    /\ webPhase = "idle"
    /\ SaveWeb
    /\ WebGone
    /\ UNCHANGED <<today, served, row, shaky, alert, warnings, rewarned, webMay>>

WebCrash ==
    /\ webPhase # "off"
    /\ WebMishap("crash")
    /\ WebGone
    /\ UNCHANGED <<today, served, webDisk, row, shaky, alert, warnings, rewarned, webMay>>

\* What a probe may find: whether the status was expected, and the certificate of
\* its connection, be it the one that was kept or a new one, which a certificate
\* that has expired does not allow; none with http, without verification, or when
\* there is no response.
Results == [ok : BOOLEAN, cert : {0, kept} \cup {c \in {served} : ~Expired(c)}]

\* Counts of the history stop at the threshold.
Streak(n, cap) == IF n < cap THEN n + 1 ELSE n

\* poll: one probe, what follows from it, and the messages about it.
Probe ==
    /\ webPhase = "idle"
    /\ \E r \in Results :
        LET s == AfterProbe(web, r.ok)
            c == CertSeen(s, r.cert)
        IN  /\ web' = c.st
            /\ webOut' = ChangeMsg(web, s) \o c.msg
            /\ kept' \in IF r.cert = 0 THEN {0, kept} ELSE {r.cert}
            /\ row' = IF r.ok THEN [ok |-> Streak(row.ok, UpRepeats), failed |-> 0]
                      ELSE [ok |-> 0, failed |-> Streak(row.failed, DownRepeats)]
            /\ shaky' = IF r.ok THEN web.state = "unknown" /\ web.down > 0 ELSE shaky
    /\ webPhase' = "send"
    /\ UNCHANGED <<today, served, webDisk, alert, warnings, rewarned, webMay, webMishaps>>

PostWeb ==
    /\ webPhase = "send"
    /\ webOut # <<>>
    /\ LET m == Head(webOut) IN
       IF m.kind \in {"down", "up"}
       THEN alert' = m.kind /\ UNCHANGED <<warnings, rewarned>>
       ELSE /\ rewarned' = (rewarned \/ m \in warnings)
            /\ warnings' = warnings \cup {m}
            /\ UNCHANGED alert
    /\ webOut' = Tail(webOut)
    /\ UNCHANGED <<today, served, kept, web, webDisk, webPhase, row, shaky, webMay, webMishaps>>

WebPolled ==
    /\ webPhase = "send"
    /\ webOut = <<>>
    /\ SaveWeb
    /\ webPhase' = "idle"
    /\ UNCHANGED <<today, served, kept, web, webOut, row, shaky, alert, warnings, rewarned, webMay>>

NextDay ==
    /\ today < LastDay
    /\ today' = today + 1
    /\ UNCHANGED <<served, kept, web, webDisk, webPhase, webOut, row, shaky, alert, warnings,
                   rewarned, webMay, webMishaps>>

\* The certificate is renewed, or another server answers.
Renew ==
    /\ \E c \in Certs \ {served} :
        /\ served' = c
        /\ IF c > served THEN UNCHANGED webMishaps ELSE WebMishap("swap")
    /\ UNCHANGED <<today, kept, web, webDisk, webPhase, webOut, row, shaky, alert, warnings,
                   rewarned, webMay>>

WebNext ==
    \/ WebBoot \/ WebExit \/ WebCrash
    \/ Probe \/ PostWeb \/ WebPolled
    \/ NextDay \/ Renew

-----------------------------------------------------------------------------
(* Properties.                                                             *)

WebHad(kinds) == webMishaps \cap kinds # {}

\* The probe of this step declares the web down or up.
Declares(k) ==
    /\ webPhase = "idle" /\ webPhase' = "send"
    /\ \E i \in DOMAIN webOut' : webOut'[i].kind = k

\* DOWN is said of a web that was not announced as down, after that many
\* failures in a row, and UP of one that was, after that many successes, also
\* across restarts (consecutive failures declare a web down).  The first
\* success of a new web does not reset the failures before it; a crash may
\* lose the result of a probe, and a lost state all of them.
ChangeDeserved ==
    /\ Declares("down") =>
          /\ row'.failed = DownRepeats \/ shaky \/ WebHad({"crash", "unsaved"})
          /\ alert # "down" \/ WebHad({"crash", "unsaved", "badstate"})
    /\ Declares("up") =>
          /\ row'.ok = UpRepeats \/ WebHad({"crash", "unsaved"})
          /\ alert = "down" \/ WebHad({"crash", "unsaved"})

AlertsDeserved == [][ChangeDeserved]_webVars

\* A warning about a certificate is given once for each threshold, and once a
\* day when it has expired (updateCert), unless certificates alternate or the
\* state was lost.
CertWarnedOnce == rewarned => WebHad({"crash", "unsaved", "badstate", "swap"})
=============================================================================
