--------------------------- MODULE MCStreamableLive ---------------------------
(* Two machines in one run, either of them: the sessions of a bridge, and    *)
(* the channel between controller, guard and worker of an upgrade for        *)
(* another account.                                                          *)
EXTENDS StreamableSessions, TaskChannel

CONSTANTS p1, p2, s1, c1, c2

VARIABLE part

sessionVars == vars

\* No channel, and nothing that fairness would ask of one.
NoChannel ==
    /\ channel = [alive |-> FALSE, failure |-> FALSE, closing |-> "none", got |-> <<>>]
    /\ guard = [at |-> "gone", reader |-> "off"]
    /\ peer = [inbox |-> <<>>]
    /\ calls = <<>> /\ stdin = <<>> /\ stdout = <<>>
    /\ world = [session |-> FALSE, rights |-> FALSE] /\ mishaps = 0

MCInit ==
    /\ Init
    /\ \/ part = "sessions" /\ NoChannel
       \/ part = "channel" /\ ChannelInit

MCNext ==
    \/ part = "sessions" /\ Next /\ UNCHANGED <<channelVars, part>>
    \/ part = "channel" /\ ChannelNext /\ UNCHANGED <<sessionVars, part>>
    \* A channel comes to an end.
    \/ part = "channel" /\ UNCHANGED <<sessionVars, channelVars, part>>

MCSpec == MCInit /\ [][MCNext]_<<sessionVars, channelVars, part>> /\ Fairness /\ ChannelFairness
===============================================================================
