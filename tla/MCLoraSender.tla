---------------------------- MODULE MCLoraSender ----------------------------
(* LoraSender on small instances.                                          *)
EXTENDS LoraSender

CONSTANTS e1, x1, p1, p2

\* An experiment of two combinations with two messages each.
MCSettings == {[head |-> 2, mid |-> 2, tail |-> e1]}

MCTails == {NoTail, Payload, e1, x1}
MCTexts == {x1}
NoTexts == {}
MCCombinations == [t \in MCTails |-> 1]
MCThread == 0 .. 3

\* What the receiving device may send.
ExperimentPackets == {Ping} \cup Settings
ExplorePackets == {ExplorePing(x1)}
NoPackets == {}
=============================================================================
