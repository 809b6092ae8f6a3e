---------------------------- MODULE MCWorkQueue ----------------------------
(* WorkQueue on a small instance: a plain and a delayable item.            *)
EXTENDS WorkQueue

CONSTANTS a, d, q1, q2, c1

MCWork == {a, d}
MCDelayable == {d}
MCQueue == {q1, q2}
MCUsers == [q \in MCQueue |-> IF q = q1 THEN {a, d} ELSE {a}]
MCClient == {c1}
=============================================================================
