--------------------------------- MODULE OpMe ---------------------------------
(***************************************************************************)
(* The !opme command of dflybot and the cache it remembers credentials in: *)
(* a credential names a user and a time, is accepted while the clock is    *)
(* within a leeway of that time, and is remembered for twice the leeway.   *)
(*                                                                         *)
(* The handler reads the clock when it checks a credential's time, again   *)
(* when it looks the credential up, and again when it remembers it: these  *)
(* are steps of their own.  Handlers run one after another.  Whether the   *)
(* MAC of a credential is right is part of the command.                    *)
(***************************************************************************)
EXTENDS Integers

CONSTANTS
    OpChans,        \* the configured channels
    Users,          \* usernames
    Creds,          \* per channel, the usernames it has a key for
    Leeway,         \* opmeLeeway, 60 seconds
    Stamps,         \* bound of the model: the times credentials are made for
    MaxClock,       \* bound of the model: the last second
    MaxGrants       \* bound of the model: up to where grants are counted

ASSUME OpMeAssumption ==
    /\ Creds \in [OpChans -> SUBSET Users]
    /\ Leeway \in Nat \ {0} /\ Stamps \subseteq Int /\ MaxClock \in Nat /\ MaxGrants \in Nat

VARIABLES
    clock,       \* the clock
    opped,       \* the channels where the bot is an operator
    cache,       \* per remembered credential, when it expires; 0 for none
    checked,     \* the credential the running handler has checked, if any
    fresh,       \* the one it has not found in the cache, if any
    granted,     \* history: per credential, how often this process granted it
    late         \* history: those looked up after their leeway had ended

opVars == <<clock, opped, cache, checked, fresh, granted, late>>

\* authID: the channel is not part of it.
AuthIDs == Users \X Stamps

Forgotten == [id \in AuthIDs |-> 0]

OpInit ==
    /\ clock = 0
    /\ opped = {}
    /\ cache = Forgotten
    /\ checked = {} /\ fresh = {}
    /\ granted = Forgotten
    /\ late = {}

-----------------------------------------------------------------------------
(* The cache.  An entry is expired strictly after its time.                *)

\* Mutation of IsExpired: an entry is expired at its time.
ExpiredAtTime(id) == cache[id] > 0 /\ cache[id] <= clock

IsExpired(id) == cache[id] > 0 /\ cache[id] < clock

\* Get.
Remembered(id) == cache[id] # 0 /\ ~IsExpired(id)

\* Add, with the default time to live, twice the leeway.  It finds that the entry
\* is expired, and makes the new one, under one lock; that the clock is read for
\* each changes nothing, as an expired entry stays expired.
Add(id) ==
    cache' = [cache EXCEPT ![id] = IF Remembered(id) THEN @ ELSE clock + 2 * Leeway]

\* The cleaning goroutine.
CleanCache ==
    /\ cache' = [id \in AuthIDs |-> IF IsExpired(id) THEN 0 ELSE cache[id]]
    /\ UNCHANGED <<clock, opped, checked, fresh, granted, late>>

-----------------------------------------------------------------------------
(* The command.  Whatever is refused is answered and changes nothing.      *)

\* No handler runs.
Idle == checked = {} /\ fresh = {}

InLeeway(id) == clock - id[2] \in -Leeway..Leeway

\* hasModeOp, then the checks of the time, the user and the MAC.
CheckOpMe(ch, id, genuine) ==
    /\ Idle
    /\ granted[id] < MaxGrants
    /\ ch \in opped
    /\ InLeeway(id)
    /\ id[1] \in Creds[ch]
    /\ genuine
    /\ checked' = {id}
    /\ UNCHANGED <<clock, opped, cache, fresh, granted, late>>

\* The look-up in the cache.
LookUpAuth(id) ==
    /\ id \in checked
    /\ checked' = {}
    /\ fresh' = IF Remembered(id) THEN {} ELSE {id}
    /\ late' = IF clock - id[2] > Leeway THEN late \cup {id} ELSE late
    /\ UNCHANGED <<clock, opped, cache, granted>>

\* The credential is remembered, and the mode given.
GrantOp(id) ==
    /\ id \in fresh
    /\ fresh' = {}
    /\ Add(id)
    /\ granted' = [granted EXCEPT ![id] = @ + 1]
    /\ UNCHANGED <<clock, opped, checked, late>>

\* The server gives or takes the bot's own operator mode; the state tracker hears
\* of it between two handlers.
ModeMe(ch) ==
    /\ Idle
    /\ opped' = IF ch \in opped THEN opped \ {ch} ELSE opped \cup {ch}
    /\ UNCHANGED <<clock, cache, checked, fresh, granted, late>>

\* The process restarts: the cache is empty.
OpRestart ==
    /\ cache' = Forgotten
    /\ granted' = Forgotten
    /\ opped' = {} /\ checked' = {} /\ fresh' = {} /\ late' = {}
    /\ UNCHANGED clock

ClockTick ==
    /\ clock < MaxClock
    /\ clock' = clock + 1
    /\ UNCHANGED <<opped, cache, checked, fresh, granted, late>>

OpNext ==
    \/ \E ch \in OpChans :
        ModeMe(ch) \/ \E id \in AuthIDs, genuine \in BOOLEAN : CheckOpMe(ch, id, genuine)
    \/ \E id \in AuthIDs : LookUpAuth(id) \/ GrantOp(id)
    \/ CleanCache \/ OpRestart \/ ClockTick

OpSpec == OpInit /\ [][OpNext]_opVars

-----------------------------------------------------------------------------
\* While the process runs a credential is granted at most once, in whichever
\* channels it is used and however the cache is cleaned: while its time is within
\* the leeway it is still remembered.  The time to live leaves no margin: a
\* handler that checked the time before the end of the leeway, and looked the
\* credential up after it, may grant it once more, and only once (handleOpMe,
\* isExpired).
GrantedOnce ==
    \A id \in AuthIDs : granted[id] <= 1 \/ (granted[id] = 2 /\ id \in late)
=============================================================================
