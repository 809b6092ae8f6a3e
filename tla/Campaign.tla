------------------------------ MODULE Campaign ------------------------------
(***************************************************************************)
(* What an experiment of the two LoRa devices promises its phone: between  *)
(* its start and its end, messages are reported under the iteration and    *)
(* the number they were sent with, in the order of sending and each once,  *)
(* and an experiment that was started ends.                                *)
(***************************************************************************)
EXTENDS Integers, Sequences

VARIABLES
  running,   \* an experiment was started and has not ended
  told       \* what the phone was told of it: pairs of iteration and number,
             \*   as reported (label) and as transmitted (sent)

vars == <<running, told>>

Init ==
  /\ running = FALSE
  /\ told = << >>

\* The pair of iteration and number x comes before y.
Before(x, y) == x[1] < y[1] \/ (x[1] = y[1] /\ x[2] < y[2])

Begin ==
  /\ ~running
  /\ running' = TRUE
  /\ told' = << >>

\* One more message is reported, truthfully.
Report ==
  /\ running
  /\ Len(told') = Len(told) + 1
  /\ LET new == told'[Len(told')]
     IN  /\ new.label = new.sent
         /\ told' = Append(told, new)
         /\ told # << >> => Before(told[Len(told)].sent, new.sent)
  /\ UNCHANGED running

End ==
  /\ running
  /\ running' = FALSE
  /\ UNCHANGED told

Next == Begin \/ Report \/ End

Safety == Init /\ [][Next]_vars

Liveness == running ~> ~running

Spec == Safety /\ Liveness
=============================================================================
