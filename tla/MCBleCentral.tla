---------------------------- MODULE MCBleCentral ----------------------------
(* BleCentral on a small instance.                                         *)
EXTENDS BleCentral, TLC

\* The states as TLC tells them apart: the fields of objects that nobody refers to
\* are left out, and what a screen that was left keeps for its buttons.
View ==
  <<screen, scanning, central, writes, events, closed, crashed, races,
    [c \in Centrals |-> IF FreeCentral(c) THEN NewCentral ELSE cent[c]],
    [g \in Gatts |-> IF FreeGatt(g) THEN NoGatt ELSE gatt[g]],
    IF closed THEN << >> ELSE delayed, ~closed /\ ready>>

Symmetry == Permutations(Centrals) \cup Permutations(Gatts)
=============================================================================
