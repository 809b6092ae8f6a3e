------------------------- MODULE ExploreLoopProofs -------------------------
(***************************************************************************)
(* Theorems about a sending loop of explore mode: whatever numbers a user  *)
(* enters, however often dialogs are dismissed, loops cancelled, screens   *)
(* left and connections lost.                                              *)
(***************************************************************************)
EXTENDS ExploreLoop, TLAPS

-----------------------------------------------------------------------------
(* Types.                                                                  *)

App ==
  [open : BOOLEAN, ready : BOOLEAN, looping : BOOLEAN,
   dialog : {"none", "number", "time"}, loopSeconds : Int,
   runnable : BOOLEAN, timer : [on : BOOLEAN, seconds : Int]]

Link == [up : BOOLEAN, out : Command]

Dev == [num : 0 .. Word - 1, time : 0 .. Byte - 1, on : BOOLEAN, i : 0 .. Word - 1]

\* The commands are well-typed, and a write leaves the link so.
LEMMA CommandTypes ==
  /\ \A n \in Numbers : [op |-> "number", arg |-> n] \in Command
  /\ \A t \in Times : [op |-> "time", arg |-> t] \in Command
  /\ \A op \in {"start", "cancel", "other", "none"} : Plain(op) \in Command
  /\ NoWrite \in Command
  BY DEF Command, Plain, NoWrite

LEMMA WriteTypes ==
  ASSUME link \in Link, NEW c \in Command, Write(c)
  PROVE  link' \in Link
  BY DEF Write, Link

\* The buttons are reset.
LEMMA NotLoopingType ==
  ASSUME NEW a \in App
  PROVE  NotLooping(a) \in App
  <1>1. ASSUME NEW b \in App, NEW k \in Int
        PROVE  [b EXCEPT !.loopSeconds = k] \in App
    BY DEF App
  <1>2. [a EXCEPT !.looping = FALSE] \in App
    BY Zenon DEF App
  <1>3. \A k \in Int : [a EXCEPT !.looping = FALSE, !.loopSeconds = k] \in App
    BY <1>1, <1>2, Zenon
  <1>4. 0 \in Int
    OBVIOUS
  <1> QED
    BY <1>3, <1>4, Zenon DEF NotLooping

\* So are the sender's variables, with everything its handlers store.
LEMMA DevTypes ==
  ASSUME NEW d \in Dev
  PROVE  /\ \A k \in Nat : /\ [d EXCEPT !.num = k % Word] \in Dev
                          /\ [d EXCEPT !.time = k % Byte] \in Dev
         /\ [d EXCEPT !.num = 0] \in Dev /\ [d EXCEPT !.time = 0] \in Dev
         /\ [d EXCEPT !.on = FALSE] \in Dev
         /\ [d EXCEPT !.on = TRUE, !.i = 0] \in Dev
         /\ d.i < d.num => [d EXCEPT !.i = @ + 1] \in Dev
  <1>1. Byte \in Nat \ {0} /\ Word \in Nat \ {0}
    BY DEF Word, Byte
  <1>2. ASSUME NEW k \in Nat
        PROVE  k % Word \in 0 .. Word - 1 /\ k % Byte \in 0 .. Byte - 1
    BY <1>1
  <1>3. /\ d.num \in 0 .. Word - 1 /\ d.i \in 0 .. Word - 1
        /\ 0 \in 0 .. Word - 1 /\ 0 \in 0 .. Byte - 1
    BY <1>1 DEF Dev
  <1>4. d.i < d.num => d.i + 1 \in 0 .. Word - 1
    BY <1>1, <1>3
  <1>5. ASSUME NEW k \in Nat
        PROVE  [d EXCEPT !.num = k % Word] \in Dev /\ [d EXCEPT !.time = k % Byte] \in Dev
    BY <1>2 DEF Dev
  <1>6. d.i < d.num => [d EXCEPT !.i = @ + 1] \in Dev
    BY <1>4 DEF Dev
  <1>7. /\ [d EXCEPT !.num = 0] \in Dev /\ [d EXCEPT !.time = 0] \in Dev
        /\ [d EXCEPT !.on = FALSE] \in Dev
        /\ [d EXCEPT !.on = TRUE, !.i = 0] \in Dev
    BY <1>3, Zenon DEF Dev
  <1> QED
    BY <1>5, <1>6, <1>7

LEMMA InitTypeOK == Init => TypeOK
  BY CommandTypes DEF Init, TypeOK, Closed, NoTimer, Word, Byte

\* The screen and the connection keep the types ...
LEMMA NextTypeOK ==
  ASSUME TypeOK, [Next]_vars
  PROVE  TypeOK'
  <1> USE LoopAssumption
  <1>0. /\ app \in App /\ link \in Link /\ dev \in Dev
        /\ [up |-> FALSE, out |-> NoWrite] \in Link
        /\ [up |-> TRUE, out |-> NoWrite] \in Link
        /\ Closed \in App /\ NoTimer \in [on : BOOLEAN, seconds : Int]
    BY CommandTypes DEF TypeOK, App, Link, Dev, Closed, NoTimer
  <1>1. Refusal \subseteq Mishap /\ Unwritten \subseteq Mishap
    BY DEF Refusal, Unwritten, Mishap
  <1>a. /\ app' \in App => app' \in [open : BOOLEAN, ready : BOOLEAN, looping : BOOLEAN,
              dialog : {"none", "number", "time"}, loopSeconds : Int,
              runnable : BOOLEAN, timer : [on : BOOLEAN, seconds : Int]]
        /\ link' \in Link => link' \in [up : BOOLEAN, out : Command]
        /\ dev' \in Dev => dev' \in [num : 0 .. Word - 1, time : 0 .. Byte - 1,
                                      on : BOOLEAN, i : 0 .. Word - 1]
    BY DEF App, Link, Dev
  <1>2. CASE Open
    BY <1>0, <1>2, Zenon DEF Open, TypeOK, Closed, NoTimer
  <1>3. CASE Leave
    BY <1>0, <1>1, <1>a, <1>3 DEF Leave, Gone, TypeOK, Mishap
  <1>4. CASE PressOther
    BY <1>0, <1>a, <1>4, CommandTypes, WriteTypes DEF PressOther, TypeOK
  <1>5. CASE PressLoop
    BY <1>1, <1>5 DEF PressLoop, TypeOK, Mishap
  <1>6. CASE Dismiss
    BY <1>6 DEF Dismiss, TypeOK
  <1>7. CASE ConfirmNothing
    <2>1. dev' \in Dev
      BY <1>0, <1>7, DevTypes, Zenon DEF ConfirmNothing
    <2> QED
      BY <1>0, <1>a, <1>7, <2>1 DEF ConfirmNothing, TypeOK, Mishap
  <1>8. ASSUME NEW n \in Numbers, ConfirmNumber(n)
        PROVE  TypeOK'
    <2>1. link' \in Link
      BY <1>0, <1>8, CommandTypes, WriteTypes DEF ConfirmNumber
    <2>2. mishaps' \subseteq Mishap
      BY <1>1, <1>8 DEF ConfirmNumber, TypeOK, Mishap
    <2>3. app.loopSeconds + (n - 1) \in Int
      BY <1>0 DEF App
    <2>4. app' \in App
      BY <1>0, <1>8, <2>3, Zenon DEF ConfirmNumber, App
    <2> QED
      BY <1>8, <1>a, <2>1, <2>2, <2>4 DEF ConfirmNumber, TypeOK
  <1>9. ASSUME NEW t \in Times, ConfirmTime(t)
        PROVE  TypeOK'
    <2>1. link' \in Link
      BY <1>0, <1>9, CommandTypes, WriteTypes DEF ConfirmTime
    <2>2. mishaps' \subseteq Mishap
      BY <1>1, <1>9 DEF ConfirmTime, TypeOK, Mishap
    <2>3. app.loopSeconds * t \in Int
      BY <1>0 DEF App
    <2>4. app' \in App
      BY <1>0, <1>9, <2>3, Zenon DEF ConfirmTime, App
    <2> QED
      BY <1>9, <1>a, <2>1, <2>2, <2>4 DEF ConfirmTime, TypeOK
  <1>10. CASE Run
    <2>1. link' \in Link
      BY <1>0, <1>10, CommandTypes, WriteTypes DEF Run
    <2>2. app' \in App
      BY <1>0, <1>10, Zenon DEF Run, App
    <2> QED
      BY <1>1, <1>a, <1>10, <2>1, <2>2 DEF Run, TypeOK
  <1>11. CASE Cancel
    <2>1. link' \in Link
      BY <1>0, <1>11, CommandTypes, WriteTypes DEF Cancel
    <2>2. app' \in App
      BY <1>0, <1>11, NotLoopingType DEF Cancel
    <2> QED
      BY <1>1, <1>a, <1>11, <2>1, <2>2 DEF Cancel, TypeOK, Mishap
  <1>12. CASE OnFinish
    <2>1. app' \in App
      BY <1>0, <1>12, Zenon DEF OnFinish, NotLooping, NoTimer, App
    <2> QED
      BY <1>a, <1>12, <2>1 DEF OnFinish, TypeOK, Mishap
  <1>13. CASE Connected \/ ConnectionLost
    BY <1>0, <1>1, <1>a, <1>13, Zenon DEF Connected, ConnectionLost, TypeOK
  <1>14. CASE OnReady \/ OnDisconnected
    BY <1>14, Zenon DEF OnReady, OnDisconnected, TypeOK
  <1>15. CASE Arrive
    <2>1. link.out.op \in {"number", "time"} => link.out.arg \in Nat
      BY Zenon DEF TypeOK, Command
    <2>3. dev' \in Dev
      BY <1>0, <1>15, <2>1, DevTypes, Zenon DEF Arrive, Handled
    <2>2. link' \in Link
      BY <1>0, <1>15, CommandTypes DEF Arrive, Link
    <2> QED
      BY <1>a, <1>15, <2>2, <2>3 DEF Arrive, TypeOK
  <1>16. CASE LoopStep
    <2>1. dev' \in Dev
      BY <1>0, <1>16, DevTypes, Zenon DEF LoopStep
    <2> QED
      BY <1>a, <1>16, <2>1 DEF LoopStep, TypeOK
  <1>17. CASE UNCHANGED vars
    BY <1>17 DEF vars, TypeOK
  <1> QED
    BY <1>2, <1>3, <1>4, <1>5, <1>6, <1>7, <1>8, <1>9, <1>10, <1>11, <1>12,
       <1>13, <1>14, <1>15, <1>16, <1>17
    DEF Next

\* Whatever the user enters, the sender's variables keep their width: a number
\* that does not fit is cut off by loop_command_cb.
THEOREM LoopTypeOK == Spec => []TypeOK
  BY InitTypeOK, NextTypeOK, PTL DEF Spec
-----------------------------------------------------------------------------
(* The invariant.                                                          *)

\* The sender has the two numbers of the dialogs.
Told == dev.num = asked.num /\ dev.time = asked.time

\* The screen goes through its steps in order: while a dialog is open no loop
\* is shown or posted; nothing is under way on a link that is down; ...
InOrder ==
  /\ app.dialog # "none" => ~app.runnable /\ ~app.looping
  /\ ~link.up => link.out = NoWrite

\* ... and each step finds the write of the step before it under way, or none.
WritesInOrder ==
  "lost" \notin mishaps =>
    /\ app.dialog = "number" => link.out.op \in {"none", "other"}
    /\ app.dialog = "time" => link.out.op \in {"number", "none"}
    /\ app.runnable => link.out.op \in {"time", "none", "other", "cancel"}
    /\ link.out.op = "start" => ~app.runnable /\ app.dialog = "none"
    /\ app.looping /\ ~app.runnable => link.out.op \in {"start", "none"}
    /\ /\ "on" \notin mishaps
       /\ \/ app.dialog # "none" \/ app.runnable
          \/ link.out.op \in {"number", "time"}
       => ~dev.on

\* The numbers are at the sender, or under way and not cut off by it.
NumbersTold ==
  "lost" \notin mishaps /\ "wide" \notin mishaps =>
    /\ app.dialog = "time" =>
         \/ link.out = [op |-> "number", arg |-> asked.num] /\ asked.num < Word
         \/ link.out = NoWrite /\ dev.num = asked.num
    /\ app.runnable =>
         /\ dev.num = asked.num
         /\ \/ link.out = [op |-> "time", arg |-> asked.time] /\ asked.time < Byte
            \/ link.out.op \in {"none", "other", "cancel"} /\ dev.time = asked.time
    /\ link.out.op = "start" => Told
    /\ app.looping /\ ~app.runnable => Told
    /\ "on" \notin mishaps /\ dev.on => Told

\* A posted start and a start under way are shown, and so is a running loop
\* whose countdown runs.
Shown ==
  "lost" \notin mishaps /\ "late" \notin mishaps /\ "old" \notin mishaps =>
    /\ app.runnable => app.looping
    /\ link.out.op = "start" /\ app.timer.on => app.looping
    /\ "on" \notin mishaps /\ dev.on /\ app.timer.on /\ app.dialog = "none" =>
         app.looping \/ link.out.op = "cancel"

\* loopSeconds grows from one dialog to the next into what the countdown gets.
Counted ==
  /\ "lost" \notin mishaps /\ "rest" \notin mishaps
  /\ "old" \notin mishaps /\ "wide" \notin mishaps
  =>
    /\ app.dialog = "number" => app.loopSeconds = 0
    /\ app.dialog = "time" => app.loopSeconds = asked.num - 1
    /\ app.runnable /\ app.looping =>
         app.loopSeconds = (asked.num - 1) * asked.time
    /\ app.looping /\ ~app.runnable /\ app.timer.on =>
         app.timer.seconds = (asked.num - 1) * asked.time

LoopInv == InOrder /\ WritesInOrder /\ NumbersTold /\ Shown /\ Counted

\* A command that the link accepts is under way, and none was; one that it
\* refuses is lost.
LEMMA Accepted ==
  ASSUME link \in Link, NEW c \in Command, Write(c)
  PROVE  /\ link'.up = link.up
         /\ \/ link.up /\ link.out = NoWrite /\ link'.out = c
            \/ link'.out = link.out /\ "lost" \in Refusal
  BY DEF Write, Link, Refused, Refusal

\* The commands are told apart by their names.
LEMMA CommandNames ==
  ASSUME NEW c \in Command
  PROVE  /\ c = NoWrite <=> c.op = "none"
         /\ c.op \in {"number", "time", "start", "cancel", "other", "none"}
  BY DEF Command, NoWrite, Plain

LEMMA InitLoopInv == Init => LoopInv
  BY DEF Init, Closed, NoTimer, NoWrite, Plain, LoopInv, InOrder, WritesInOrder,
         NumbersTold, Shown, Counted, Told

LEMMA NextLoopInv ==
  ASSUME TypeOK, LoopInv, [Next]_vars
  PROVE  LoopInv'
  <1> USE LoopAssumption
  <1>0. /\ app \in App /\ link \in Link /\ dev \in Dev /\ link.out \in Command
        /\ Closed \in App
    BY DEF TypeOK, App, Link, Dev, Closed, NoTimer
  <1>1. /\ app.loopSeconds \in Int /\ app.timer.seconds \in Int
        /\ app.open \in BOOLEAN /\ app.looping \in BOOLEAN /\ app.runnable \in BOOLEAN
        /\ app.timer.on \in BOOLEAN /\ app.dialog \in {"none", "number", "time"}
        /\ asked.num \in Nat /\ asked.time \in Nat
        /\ dev.num \in Nat /\ dev.time \in Nat /\ dev.on \in BOOLEAN
    <2>1. /\ app.loopSeconds \in Int /\ app.timer \in [on : BOOLEAN, seconds : Int]
          /\ app.open \in BOOLEAN /\ app.looping \in BOOLEAN /\ app.runnable \in BOOLEAN
          /\ app.dialog \in {"none", "number", "time"}
      BY <1>0 DEF App
    <2>2. asked.num \in Numbers \cup {0} /\ asked.time \in Times \cup {0}
      BY DEF TypeOK
    <2>3. /\ dev.num \in 0 .. Word - 1 /\ dev.time \in 0 .. Byte - 1
          /\ dev.on \in BOOLEAN
      BY <1>0 DEF Dev
    <2>4. app.timer.seconds \in Int /\ app.timer.on \in BOOLEAN
      BY <2>1
    <2>5. asked.num \in Nat /\ asked.time \in Nat
      <3>1. \A k \in Numbers \cup {0} : k \in Nat
        OBVIOUS
      <3>2. \A k \in Times \cup {0} : k \in Nat
        OBVIOUS
      <3> QED
        BY <2>2, <3>1, <3>2, Zenon
    <2>6. dev.num \in Nat /\ dev.time \in Nat
      <3>1. \A m : \A k \in 0 .. m : k \in Nat
        OBVIOUS
      <3> QED
        BY <2>3, <3>1, Zenon
    <2> QED
      BY <2>1, <2>3, <2>4, <2>5, <2>6
  <1>2. CASE Open
    <2>1. /\ app'.dialog = "none" /\ ~app'.runnable /\ ~app'.looping
          /\ ~app'.timer.on
      BY <1>0, <1>2 DEF Open, Closed, NoTimer
    <2>2. link' = link /\ dev' = dev /\ asked' = asked /\ mishaps' = mishaps
      BY <1>2 DEF Open
    <2> QED
      BY <2>1, <2>2 DEF LoopInv, InOrder, WritesInOrder, NumbersTold, Shown, Counted, Told
  <1>3. CASE Leave
    <2>1. /\ app'.dialog = "none" /\ ~app'.runnable /\ ~app'.looping
          /\ ~app'.timer.on
      BY <1>3 DEF Leave, Gone, Closed, NoTimer
    <2>2. link'.out = NoWrite /\ link'.out.op = "none" /\ dev' = dev /\ asked' = asked
      BY <1>3 DEF Leave, Gone, NoWrite, Plain
    <2>3. mishaps \subseteq mishaps'
      BY <1>3 DEF Leave, Gone
    <2> QED
      BY <2>1, <2>2, <2>3 DEF LoopInv, InOrder, WritesInOrder, NumbersTold, Shown, Counted, Told
  <1>4. CASE PressOther
    <2>1. /\ link'.up = link.up
          /\ \/ link.up /\ link.out = NoWrite /\ link'.out = Plain("other")
             \/ link'.out = link.out
      BY <1>0, <1>4, Accepted, CommandTypes DEF PressOther
    <2>2. /\ app' = app /\ dev' = dev /\ asked' = asked /\ mishaps' = mishaps
          /\ app.dialog = "none" /\ ~app.looping
      BY <1>4 DEF PressOther
    <2> QED
      BY <1>1, <2>1, <2>2 DEF LoopInv, InOrder, WritesInOrder, NumbersTold, Shown, Counted, Told,
         NoWrite, Plain
  <1>5. CASE PressLoop
    <2>1. /\ app'.dialog = "number" /\ app'.loopSeconds = app.loopSeconds
          /\ ~app'.runnable /\ ~app'.looping /\ app'.timer = app.timer
      BY <1>0, <1>5 DEF PressLoop, App
    <2>2. /\ link' = link /\ dev' = dev /\ asked' = asked
          /\ "on" \notin mishaps' => ~dev.on
          /\ "rest" \notin mishaps' => app.loopSeconds = 0
          /\ "lost" \notin mishaps' => link.out.op \in {"none", "other"}
      BY <1>5 DEF PressLoop, Unwritten
    <2> QED
      BY <1>1, <2>1, <2>2 DEF LoopInv, InOrder, WritesInOrder, NumbersTold, Shown, Counted, Told
  <1>6. CASE Dismiss
    <2>1. /\ app'.dialog = "none" /\ app'.loopSeconds = app.loopSeconds
          /\ app'.runnable = app.runnable /\ app'.looping = app.looping
          /\ app'.timer = app.timer /\ app.dialog # "none"
      BY <1>0, <1>6 DEF Dismiss, App
    <2>2. link' = link /\ dev' = dev /\ asked' = asked /\ mishaps' = mishaps
      BY <1>6 DEF Dismiss
    <2> QED
      BY <1>1, <2>1, <2>2 DEF LoopInv, InOrder, WritesInOrder, NumbersTold, Shown, Counted, Told
  <1>7. CASE ConfirmNothing
    <2>1. /\ app'.dialog = "none" /\ ~app'.runnable /\ ~app'.looping
          /\ link'.out = NoWrite /\ "lost" \in mishaps'
      BY <1>7 DEF ConfirmNothing, Closed
    <2> QED
      BY <2>1 DEF LoopInv, InOrder, WritesInOrder, NumbersTold, Shown, Counted
  <1>8. ASSUME NEW n \in Numbers, ConfirmNumber(n)
        PROVE  LoopInv'
    <2>1. /\ app.dialog = "number" /\ app'.dialog = "time"
          /\ app'.loopSeconds = app.loopSeconds + (n - 1)
          /\ app'.runnable = app.runnable /\ app'.looping = app.looping
          /\ app'.timer = app.timer
      BY <1>0, <1>8 DEF ConfirmNumber, App
    <2>a. n >= Word \/ n < Word
      BY DEF Word, Byte
    <2>2. /\ dev' = dev /\ asked'.num = n /\ mishaps \subseteq mishaps'
          /\ "wide" \notin mishaps' => n < Word
          /\ "lost" \in Refusal => "lost" \in mishaps'
      BY <1>8, <2>a DEF ConfirmNumber, TypeOK
    <2>3. /\ link'.up = link.up
          /\ \/ link.up /\ link.out = NoWrite /\ link'.out = [op |-> "number", arg |-> n]
             \/ link'.out = link.out /\ "lost" \in mishaps'
      BY <1>0, <1>8, <2>2, Accepted, CommandTypes DEF ConfirmNumber
    <2> QED
      BY <1>1, <2>1, <2>2, <2>3
      DEF LoopInv, InOrder, WritesInOrder, NumbersTold, Shown, Counted, Told, NoWrite, Plain
  <1>9. ASSUME NEW t \in Times, ConfirmTime(t)
        PROVE  LoopInv'
    <2>1. /\ app.dialog = "time" /\ app'.dialog = "none"
          /\ app'.loopSeconds = app.loopSeconds * t
          /\ app'.runnable /\ app'.looping /\ app'.timer = app.timer
      BY <1>0, <1>9 DEF ConfirmTime, App
    <2>a. t >= Byte \/ t < Byte
      BY DEF Byte
    <2>2. /\ dev' = dev /\ asked'.num = asked.num /\ asked'.time = t
          /\ mishaps \subseteq mishaps'
          /\ "wide" \notin mishaps' => t < Byte
          /\ "lost" \in Refusal => "lost" \in mishaps'
      BY <1>9, <2>a DEF ConfirmTime, TypeOK
    <2>3. /\ link'.up = link.up
          /\ \/ link.up /\ link.out = NoWrite /\ link'.out = [op |-> "time", arg |-> t]
             \/ link'.out = link.out /\ "lost" \in mishaps'
      BY <1>0, <1>9, <2>2, Accepted, CommandTypes DEF ConfirmTime
    <2> QED
      BY <1>1, <2>1, <2>2, <2>3
      DEF LoopInv, InOrder, WritesInOrder, NumbersTold, Shown, Counted, Told, NoWrite, Plain
  <1>10. CASE Run
    <2>1. /\ app.runnable /\ ~app'.runnable /\ app'.dialog = app.dialog
          /\ app'.loopSeconds = app.loopSeconds /\ app'.looping = app.looping
          /\ app'.timer.on /\ app'.timer.seconds = app.loopSeconds
      BY <1>0, <1>10 DEF Run, App
    <2>2. /\ dev' = dev /\ asked' = asked /\ mishaps \subseteq mishaps'
          /\ "lost" \in Refusal => "lost" \in mishaps'
      BY <1>10 DEF Run
    <2>3. /\ link'.up = link.up
          /\ \/ link.up /\ link.out = NoWrite /\ link'.out = Plain("start")
             \/ link'.out = link.out /\ "lost" \in mishaps'
      BY <1>0, <1>10, <2>2, Accepted, CommandTypes DEF Run
    <2> QED
      BY <1>1, <2>1, <2>2, <2>3
      DEF LoopInv, InOrder, WritesInOrder, NumbersTold, Shown, Counted, Told, NoWrite, Plain
  <1>11. CASE Cancel
    <2>1. /\ app.looping /\ ~app'.looping /\ app'.dialog = app.dialog
          /\ app'.runnable = app.runnable /\ app'.timer = app.timer
      BY <1>0, <1>11 DEF Cancel, NotLooping, App
    <2>2. /\ dev' = dev /\ asked' = asked /\ mishaps \subseteq mishaps'
          /\ "lost" \in Refusal => "lost" \in mishaps'
          /\ app.runnable => "late" \in mishaps'
      BY <1>11 DEF Cancel
    <2>3. /\ link'.up = link.up
          /\ \/ link.up /\ link.out = NoWrite /\ link'.out = Plain("cancel")
             \/ link'.out = link.out /\ "lost" \in mishaps'
      BY <1>0, <1>11, <2>2, Accepted, CommandTypes DEF Cancel
    <2> QED
      BY <1>1, <2>1, <2>2, <2>3
      DEF LoopInv, InOrder, WritesInOrder, NumbersTold, Shown, Counted, Told, NoWrite, Plain
  <1>12. CASE OnFinish
    <2>1. /\ ~app'.looping /\ app'.loopSeconds = 0 /\ app'.dialog = app.dialog
          /\ app'.runnable = app.runnable /\ ~app'.timer.on
      BY <1>0, <1>12 DEF OnFinish, NotLooping, NoTimer, App
    <2>2. /\ dev' = dev /\ asked' = asked /\ link' = link /\ mishaps \subseteq mishaps'
          /\ app.dialog = "time" \/ app.runnable => "old" \in mishaps'
      BY <1>12 DEF OnFinish
    <2> QED
      BY <1>1, <2>1, <2>2
      DEF LoopInv, InOrder, WritesInOrder, NumbersTold, Shown, Counted, Told
  <1>13. CASE Connected \/ OnReady \/ OnDisconnected
    <2>1. /\ app'.looping = app.looping /\ app'.loopSeconds = app.loopSeconds
          /\ app'.dialog = app.dialog /\ app'.runnable = app.runnable /\ app'.timer = app.timer
          /\ dev' = dev /\ asked' = asked /\ mishaps' = mishaps
      BY <1>0, <1>13 DEF Connected, OnReady, OnDisconnected, App
    <2>2. link'.out = link.out /\ (~link'.up => link'.out = NoWrite)
      BY <1>0, <1>13 DEF Connected, OnReady, OnDisconnected, LoopInv, InOrder, Link
    <2> QED
      BY <1>1, <2>1, <2>2
      DEF LoopInv, InOrder, WritesInOrder, NumbersTold, Shown, Counted, Told
  <1>14. CASE ConnectionLost
    <2>1. /\ app' = app /\ dev' = dev /\ asked' = asked /\ mishaps \subseteq mishaps'
          /\ link'.out = NoWrite
          /\ link.out.op \in {"none", "other"} \/ "lost" \in mishaps'
      BY <1>14 DEF ConnectionLost, Unwritten
    <2> QED
      BY <1>0, <1>1, <2>1, CommandNames
      DEF LoopInv, InOrder, WritesInOrder, NumbersTold, Shown, Counted, Told, NoWrite, Plain
  <1>15. CASE Arrive
    <2>1. /\ app' = app /\ asked' = asked /\ link'.out = NoWrite /\ link'.out.op = "none"
          /\ link.out.op # "none"
      BY <1>0, <1>15, CommandNames DEF Arrive, Link, NoWrite, Plain
    <2>2. CASE link.out.op = "number"
      <3>1. mishaps' = mishaps /\ dev' = [dev EXCEPT !.num = link.out.arg % Word]
        BY <1>15, <2>2 DEF Arrive, Handled
      <3>2. dev'.num = link.out.arg % Word /\ dev'.time = dev.time /\ dev'.on = dev.on
        BY <1>0, <3>1 DEF Dev
      <3>3. asked.num < Word => asked.num % Word = asked.num
        BY <1>1 DEF Word, Byte
      <3> QED
        BY <1>1, <2>1, <2>2, <3>1, <3>2, <3>3
        DEF LoopInv, InOrder, WritesInOrder, NumbersTold, Shown, Counted, Told, NoWrite, Plain
    <2>3. CASE link.out.op = "time"
      <3>1. mishaps' = mishaps /\ dev' = [dev EXCEPT !.time = link.out.arg % Byte]
        BY <1>15, <2>3 DEF Arrive, Handled
      <3>2. dev'.num = dev.num /\ dev'.time = link.out.arg % Byte /\ dev'.on = dev.on
        BY <1>0, <3>1 DEF Dev
      <3>3. asked.time < Byte => asked.time % Byte = asked.time
        BY <1>1 DEF Byte
      <3> QED
        BY <1>1, <2>1, <2>3, <3>1, <3>2, <3>3
        DEF LoopInv, InOrder, WritesInOrder, NumbersTold, Shown, Counted, Told, NoWrite, Plain
    <2>4. CASE link.out.op = "start"
      <3>1. /\ dev' = [dev EXCEPT !.on = TRUE, !.i = 0]
            /\ \A x \in Mishap \ {"on"} : x \in mishaps' <=> x \in mishaps
        BY <1>15, <2>4 DEF Arrive, Handled
      <3>2. dev'.num = dev.num /\ dev'.time = dev.time
        BY <1>0, <3>1 DEF Dev
      <3> QED
        BY <1>1, <2>1, <2>4, <3>1, <3>2
        DEF LoopInv, InOrder, WritesInOrder, NumbersTold, Shown, Counted, Told, NoWrite, Plain,
            Mishap
    <2>5. CASE link.out.op \in {"cancel", "other"}
      <3>1. /\ mishaps' = mishaps
            /\ \/ link.out.op = "cancel" /\ dev' = [dev EXCEPT !.on = FALSE]
               \/ link.out.op = "other" /\ dev' = dev
        BY <1>15, <2>5 DEF Arrive, Handled
      <3>2. /\ dev'.num = dev.num /\ dev'.time = dev.time
            /\ dev'.on => dev.on /\ link.out.op # "cancel"
        BY <1>0, <3>1 DEF Dev
      <3> QED
        BY <1>1, <2>1, <2>5, <3>1, <3>2
        DEF LoopInv, InOrder, WritesInOrder, NumbersTold, Shown, Counted, Told, NoWrite, Plain
    <2> QED
      BY <1>0, <2>1, <2>2, <2>3, <2>4, <2>5, CommandNames
  <1>16. CASE LoopStep
    <2>1. /\ app' = app /\ link' = link /\ asked' = asked /\ mishaps' = mishaps
          /\ dev.on /\ dev'.num = dev.num /\ dev'.time = dev.time
      BY <1>0, <1>16 DEF LoopStep, Dev
    <2> QED
      BY <1>1, <2>1
      DEF LoopInv, InOrder, WritesInOrder, NumbersTold, Shown, Counted, Told
  <1>17. CASE UNCHANGED vars
    BY <1>17 DEF vars, LoopInv, InOrder, WritesInOrder, NumbersTold, Shown, Counted, Told
  <1> QED
    BY <1>2, <1>3, <1>4, <1>5, <1>6, <1>7, <1>8, <1>9, <1>10, <1>11, <1>12,
       <1>13, <1>14, <1>15, <1>16, <1>17
    DEF Next
-----------------------------------------------------------------------------
(* The theorems.                                                           *)

LEMMA LoopInvariant == Spec => []LoopInv
  BY InitTypeOK, NextTypeOK, InitLoopInv, NextLoopInv, PTL DEF Spec

\* The three writes of a loop bring what the user entered to the sender, with
\* any numbers in the dialogs: exec_loop runs with them unless one was lost, did
\* not fit, or the loop is an earlier one.
THEOREM LoopLoopsAsAsked == Spec => []LoopsAsAsked
  <1>1. LoopInv => LoopsAsAsked
    BY DEF LoopInv, NumbersTold, Told, LoopsAsAsked
  <1> QED
    BY <1>1, LoopInvariant, PTL

\* As long as the countdown runs, a loop of the sender is shown, whatever the
\* numbers and however long cancelled countdowns go on.
THEOREM LoopShownIfLooping == Spec => []ShownIfLooping
  <1>1. LoopInv => ShownIfLooping
    BY DEF LoopInv, Shown, ShownIfLooping, Settled, NoWrite, Plain
  <1> QED
    BY <1>1, LoopInvariant, PTL

\* startTimers counts down (number - 1) * time for the numbers the sender loops
\* with, for all of them.
THEOREM LoopCountdownRight == Spec => []CountdownRight
  <1>1. LoopInv => CountdownRight
    BY DEF LoopInv, NumbersTold, Counted, Told, CountdownRight, Settled
  <1> QED
    BY <1>1, LoopInvariant, PTL
=============================================================================
