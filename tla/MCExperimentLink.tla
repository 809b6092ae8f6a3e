-------------------------- MODULE MCExperimentLink --------------------------
(* ExperimentLink on small instances.                                      *)
EXTENDS ExperimentLink

\* Two messages, and a delay in which a lost ACK can be repeated; one message,
\* and a delay in which it cannot; one message above 10 dBm, with no delay
\* beyond the reconnection.
MCExperiments ==
  {[n |-> 2, t |-> 2, d |-> 5, high |-> FALSE],
   [n |-> 1, t |-> 2, d |-> 1, high |-> FALSE],
   [n |-> 1, t |-> 3, d |-> 17, high |-> TRUE]}

ThirtyThree == {[n |-> 33, t |-> 2, d |-> 2, high |-> FALSE]}

MCAir == [c \in 0 .. Combos - 1 |-> IF c = StartCombo THEN 1712 ELSE 72]
=============================================================================
