------------------------------- MODULE MCIrcBot -------------------------------
(* Two nicks beside the bot's own in one channel, one nick in two, and one *)
(* nick in one channel with the saving of its records.                     *)
EXTENDS IrcBot

MCScenarios ==
    {[chans |-> {"#a"}, nicks |-> {"al", "bo"}, saves |-> FALSE],
     [chans |-> {"#a", "#b"}, nicks |-> {"al"}, saves |-> FALSE],
     [chans |-> {"#a"}, nicks |-> {"al"}, saves |-> TRUE]}

MCOneChan == {[chans |-> {"#a"}, nicks |-> {"al", "bo"}, saves |-> FALSE]}
=============================================================================
