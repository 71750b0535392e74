------------------------------ MODULE MCDflybot ------------------------------
(* Two attempts per message against channels of one message: two           *)
(* notifications, one beside a message from IRC, and one that meets the    *)
(* shutdown.  Two channels, two makers and three lines logged, over one    *)
(* midnight.  Two users with a key in one channel, one of them in the      *)
(* other, and credentials of two times.                                    *)
EXTENDS Dflybot

MCStoppers == <<"irc", "telegram", "webhook", "chlog", "seen">>

MCLoads == {[texts |-> 2, chatter |-> 0, signal |-> FALSE],
            [texts |-> 1, chatter |-> 1, signal |-> FALSE],
            [texts |-> 1, chatter |-> 0, signal |-> TRUE]}

MCCreds == [ch \in OpChans |-> IF ch = "#a" THEN {"al", "bo"} ELSE {"al"}]
==============================================================================
