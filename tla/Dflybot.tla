-------------------------------- MODULE Dflybot --------------------------------
(***************************************************************************)
(* The process dflybot, but for who is in its channels: it passes          *)
(* notifications on and is shut down, logs the lines of its channels, and  *)
(* makes users operators.  The three share goroutines and no state, so a   *)
(* behaviour of the model follows one of them.                             *)
(***************************************************************************)
EXTENDS Pipeline, ChannelLog, OpMe

VARIABLE followed     \* the part that this behaviour follows

botVars == <<vars, chanVars, opVars, followed>>

BotParts == {"pipeline", "logs", "opme"}

BotInit ==
    /\ Init
    /\ ChanInit
    /\ OpInit
    /\ followed \in BotParts
    /\ followed # "pipeline" => load = CHOOSE l \in Loads : TRUE

BotNext ==
    /\ \/ followed = "pipeline" /\ Next /\ UNCHANGED <<chanVars, opVars>>
       \/ followed = "logs" /\ ChanNext /\ UNCHANGED <<vars, opVars>>
       \/ followed = "opme" /\ OpNext /\ UNCHANGED <<vars, chanVars>>
    /\ UNCHANGED followed

BotSpec == BotInit /\ [][BotNext]_botVars /\ Fairness
================================================================================
