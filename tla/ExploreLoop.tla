---------------------------- MODULE ExploreLoop ----------------------------
(***************************************************************************)
(* A sending loop in explore mode, as the phone and the sender see it:     *)
(* SenderExploreScreen with its two dialogs, its delayed start and its     *)
(* countdown; the writes to the loop characteristic; loop_command_cb and   *)
(* exec_loop of lses.c.                                                    *)
(*                                                                         *)
(* All handlers of the screen run on the main thread, one action each.  A  *)
(* loop takes three writes.  BluetoothGatt has one write under way and     *)
(* refuses another one, or any without a connection; Central ignores that. *)
(* Where Central throws instead (it has no BluetoothGatt yet, or a screen  *)
(* that was left sends its start), the app ends, which is a Leave here.    *)
(***************************************************************************)
EXTENDS Integers

CONSTANTS
  Numbers,   \* the numbers of messages a user may enter
  Times,     \* the seconds between messages a user may enter
  MaxRest    \* bound: what dismissed dialogs may leave in loopSeconds

VARIABLES
  app,      \* the screen: open, ready, dialog, loopSeconds, looping (the
            \*   buttons), runnable (the posted start), timer
  link,     \* the connection: up, and the write under way (out)
  dev,      \* the sender: number_of_messages (num), time_between_msgs (time),
            \*   whether exec_loop runs (on), and its counter (i)
  asked,    \* history: what the user entered for the current loop
  mishaps   \* history: what went wrong since the loop button was pressed

vars == <<app, link, dev, asked, mishaps>>

Byte == 256
Word == Byte * Byte

ASSUME LoopAssumption ==
  /\ Numbers \subseteq Nat
  /\ Times \subseteq Nat
  /\ MaxRest \in Nat

NoTimer == [on |-> FALSE, seconds |-> 0]

\* The commands of the loop characteristic, and the other writes of the screen.
Command ==
  [op : {"number"}, arg : Numbers] \cup [op : {"time"}, arg : Times]
    \cup [op : {"start", "cancel", "other", "none"}, arg : {0}]
Plain(op) == [op |-> op, arg |-> 0]
NoWrite == Plain("none")

\*   lost   a loop command was refused, or did not arrive
\*   late   the loop was cancelled while its start was posted
\*   rest   loopSeconds was left over from dialogs that were dismissed
\*   old    the countdown of an earlier loop ended and reset loopSeconds
\*   on     an earlier loop was still running
\*   wide   a number did not fit into the sender's variable
Mishap == {"lost", "late", "rest", "old", "on", "wide"}

TypeOK ==
  /\ app \in [open : BOOLEAN, ready : BOOLEAN, looping : BOOLEAN,
              dialog : {"none", "number", "time"}, loopSeconds : Int,
              runnable : BOOLEAN, timer : [on : BOOLEAN, seconds : Int]]
  /\ link \in [up : BOOLEAN, out : Command]
  /\ dev \in [num : 0 .. Word - 1, time : 0 .. Byte - 1, on : BOOLEAN,
              i : 0 .. Word - 1]
  /\ asked \in [num : Numbers \cup {0}, time : Times \cup {0}]
  /\ mishaps \subseteq Mishap

Closed ==
  [open |-> FALSE, ready |-> FALSE, looping |-> FALSE, dialog |-> "none",
   loopSeconds |-> 0, runnable |-> FALSE, timer |-> NoTimer]

Init ==
  /\ app = Closed
  /\ link = [up |-> FALSE, out |-> NoWrite]
  /\ dev = [num |-> 0, time |-> 0, on |-> FALSE, i |-> 0]
  /\ asked = [num |-> 0, time |-> 0]
  /\ mishaps = {}
-----------------------------------------------------------------------------
(* Writes.                                                                 *)

Refused == ~link.up \/ link.out # NoWrite

Write(c) == link' = IF Refused THEN link ELSE [link EXCEPT !.out = c]

\* What goes wrong when a loop command is written now.
Refusal == IF Refused THEN {"lost"} ELSE {}

\* The write under way did not arrive.
Unwritten ==
  IF link.out.op \in {"none", "other"} THEN {} ELSE {"lost"}

-----------------------------------------------------------------------------
(* The screen.                                                             *)

\* onCreate
Open ==
  /\ ~app.open
  /\ app' = [Closed EXCEPT !.open = TRUE]
  /\ UNCHANGED <<link, dev, asked, mishaps>>

\* The screen ends: onDestroy, or an exception ends the app.
Gone ==
  /\ app' = Closed
  /\ link' = [up |-> FALSE, out |-> NoWrite]
  /\ mishaps' = mishaps \cup Unwritten \cup (IF app.runnable THEN {"lost"} ELSE {})

Leave ==
  /\ app.open
  /\ Gone
  /\ UNCHANGED <<dev, asked>>

\* changeConfig, or sendOrPing
PressOther ==
  /\ app.open /\ app.ready /\ app.dialog = "none" /\ ~app.looping
  /\ Write(Plain("other"))
  /\ UNCHANGED <<app, dev, asked, mishaps>>

\* transmitSendLoopCommand; nobody cancels a loop and presses the button for
\* another one within the 200 ms of a posted start.
PressLoop ==
  /\ app.open /\ app.ready /\ app.dialog = "none" /\ ~app.looping
  /\ ~app.runnable
  /\ app.loopSeconds \in -MaxRest .. MaxRest
  /\ app' = [app EXCEPT !.dialog = "number"]
  /\ mishaps' = (IF app.loopSeconds # 0 THEN {"rest"} ELSE {})
                  \cup (IF dev.on THEN {"on"} ELSE {}) \cup Unwritten
  /\ UNCHANGED <<link, dev, asked>>

Dismiss ==
  /\ app.dialog # "none"
  /\ app' = [app EXCEPT !.dialog = "none"]
  /\ UNCHANGED <<link, dev, asked, mishaps>>

\* "confirm" without a number: the command is written, parseInt throws.
ConfirmNothing ==
  /\ app.dialog # "none"
  /\ app' = Closed
  /\ link' = [up |-> FALSE, out |-> NoWrite]
  /\ dev' \in IF Refused THEN {dev}
              ELSE {dev, IF app.dialog = "number" THEN [dev EXCEPT !.num = 0]
                         ELSE [dev EXCEPT !.time = 0]}
  /\ mishaps' = mishaps \cup {"lost"}
  /\ UNCHANGED asked

\* Mutant: the countdown lasts as long as the messages, not the gaps.
ConfirmNumberGaps(n) ==
  /\ app.dialog = "number"
  /\ Write([op |-> "number", arg |-> n])
  /\ app' = [app EXCEPT !.loopSeconds = @ + n, !.dialog = "time"]
  /\ asked' = [asked EXCEPT !.num = n]
  /\ mishaps' = mishaps \cup Refusal \cup (IF n >= Word THEN {"wide"} ELSE {})
  /\ UNCHANGED dev

ConfirmNumber(n) ==
  /\ app.dialog = "number"
  /\ Write([op |-> "number", arg |-> n])
  /\ app' = [app EXCEPT !.loopSeconds = @ + (n - 1), !.dialog = "time"]
  /\ asked' = [asked EXCEPT !.num = n]
  /\ mishaps' = mishaps \cup Refusal \cup (IF n >= Word THEN {"wide"} ELSE {})
  /\ UNCHANGED dev

ConfirmTime(t) ==
  /\ app.dialog = "time"
  /\ Write([op |-> "time", arg |-> t])
  /\ app' = [app EXCEPT !.loopSeconds = @ * t, !.dialog = "none",
                        !.looping = TRUE, !.runnable = TRUE]
  /\ asked' = [asked EXCEPT !.time = t]
  /\ mishaps' = mishaps \cup Refusal \cup (IF t >= Byte THEN {"wide"} ELSE {})
  /\ UNCHANGED dev

\* Mutant: the text is not sent.
RunNothing ==
  /\ app.runnable
  /\ app' = [app EXCEPT !.runnable = FALSE,
                        !.timer = [on |-> TRUE, seconds |-> app.loopSeconds]]
  /\ UNCHANGED <<link, dev, asked, mishaps>>

\* 200 ms after the second dialog: the text is sent, and startTimers.
Run ==
  /\ app.runnable
  /\ Write(Plain("start"))
  /\ app' = [app EXCEPT !.runnable = FALSE,
                        !.timer = [on |-> TRUE, seconds |-> app.loopSeconds]]
  /\ mishaps' = mishaps \cup Refusal
  /\ UNCHANGED <<dev, asked>>

\* adjustGUIToLooping(false)
NotLooping(x) == [x EXCEPT !.looping = FALSE, !.loopSeconds = 0]

\* Mutant: the sender is not told.
CancelHere ==
  /\ app.open /\ app.looping
  /\ app' = NotLooping(app)
  /\ mishaps' = mishaps \cup (IF app.runnable THEN {"late"} ELSE {})
  /\ UNCHANGED <<link, dev, asked>>

\* cancelSendLoopCommand: the countdown goes on.
Cancel ==
  /\ app.open /\ app.looping
  /\ Write(Plain("cancel"))
  /\ app' = NotLooping(app)
  /\ mishaps' = mishaps \cup Refusal
                  \cup (IF app.runnable THEN {"late"} ELSE {})
  /\ UNCHANGED <<dev, asked>>

\* onFinish; a write does not take as long as a second.
OnFinish ==
  /\ app.timer.on
  /\ app.timer.seconds > 0 => link.out.op # "start"
  /\ app' = NotLooping([app EXCEPT !.timer = NoTimer])
  /\ mishaps' = mishaps \cup (IF app.dialog = "time" \/ app.runnable
                              THEN {"old"} ELSE {})
  /\ UNCHANGED <<link, dev, asked>>
-----------------------------------------------------------------------------
(* The connection.                                                         *)

Connected ==
  /\ app.open /\ ~link.up /\ ~app.ready
  /\ link' = [up |-> TRUE, out |-> NoWrite]
  /\ UNCHANGED <<app, dev, asked, mishaps>>

\* The sender has confirmed the configuration (-2).
OnReady ==
  /\ link.up /\ ~app.ready
  /\ app' = [app EXCEPT !.ready = TRUE]
  /\ UNCHANGED <<link, dev, asked, mishaps>>

ConnectionLost ==
  /\ link.up
  /\ link' = [up |-> FALSE, out |-> NoWrite]
  /\ mishaps' = mishaps \cup Unwritten
  /\ UNCHANGED <<app, dev, asked>>

\* The broadcast of the disconnection.
OnDisconnected ==
  /\ ~link.up /\ app.ready
  /\ app' = [app EXCEPT !.ready = FALSE]
  /\ UNCHANGED <<link, dev, asked, mishaps>>
-----------------------------------------------------------------------------
(* The sender.                                                             *)

\* Mutant: the time has 16 bits.
HandledWide(c) ==
  CASE c.op = "number" -> [dev EXCEPT !.num = c.arg % Word]
    [] c.op = "time" -> [dev EXCEPT !.time = c.arg % Word]
    [] c.op = "cancel" -> [dev EXCEPT !.on = FALSE]
    [] c.op = "start" -> [dev EXCEPT !.on = TRUE, !.i = 0]
    [] OTHER -> dev

\* Mutant: both numbers go to one variable.
HandledAsNumber(c) ==
  CASE c.op = "number" -> [dev EXCEPT !.num = c.arg % Word]
    [] c.op = "time" -> [dev EXCEPT !.num = c.arg % Byte]
    [] c.op = "cancel" -> [dev EXCEPT !.on = FALSE]
    [] c.op = "start" -> [dev EXCEPT !.on = TRUE, !.i = 0]
    [] OTHER -> dev

\* loop_command_cb
Handled(c) ==
  CASE c.op = "number" -> [dev EXCEPT !.num = c.arg % Word]
    [] c.op = "time" -> [dev EXCEPT !.time = c.arg % Byte]
    [] c.op = "cancel" -> [dev EXCEPT !.on = FALSE]
    [] c.op = "start" -> [dev EXCEPT !.on = TRUE, !.i = 0]
    [] OTHER -> dev

Arrive ==
  /\ link.out # NoWrite
  /\ dev' = Handled(link.out)
  /\ link' = [link EXCEPT !.out = NoWrite]
  /\ mishaps' = IF link.out.op = "start" THEN mishaps \ {"on"} ELSE mishaps
  /\ UNCHANGED <<app, asked>>

\* exec_loop
LoopStep ==
  /\ dev.on
  /\ dev' = IF dev.i < dev.num THEN [dev EXCEPT !.i = @ + 1]
            ELSE [dev EXCEPT !.on = FALSE]
  /\ UNCHANGED <<app, link, asked, mishaps>>
-----------------------------------------------------------------------------

Next ==
  \/ Open \/ Leave \/ PressOther \/ PressLoop \/ Dismiss \/ ConfirmNothing
  \/ \E n \in Numbers : ConfirmNumber(n)
  \/ \E t \in Times : ConfirmTime(t)
  \/ Run \/ Cancel \/ OnFinish
  \/ Connected \/ OnReady \/ ConnectionLost \/ OnDisconnected
  \/ Arrive \/ LoopStep

Spec == Init /\ [][Next]_vars

\* Posted runnables are run, and a write that was accepted arrives or is lost.
FairSpec == Spec /\ WF_vars(Run) /\ WF_vars(Arrive)
-----------------------------------------------------------------------------
(* Properties.                                                             *)

\* No command of the current loop is under way on the phone.
Settled == ~app.runnable /\ link.out = NoWrite

\* The sender loops with what the user entered in the two dialogs, which three
\* separate writes have to bring to it, unless one of these is lost: then it
\* takes the numbers of an earlier loop.
LoopsAsAsked ==
  dev.on /\ link.out = NoWrite =>
    \/ dev.num = asked.num /\ dev.time = asked.time
    \/ mishaps \cap {"lost", "wide", "on"} # {}

\* As long as the countdown runs, the screen shows a loop if there is one, so
\* that no other command is sent into it; unless the loop was cancelled, or an
\* old countdown ended, within the 200 ms before its start: "cancel an already
\* initiated sending loop, adjusts GUI accordingly".
ShownIfLooping ==
  app.timer.on /\ dev.on /\ Settled /\ app.dialog = "none" =>
    app.looping \/ mishaps \cap {"lost", "late", "old", "on"} # {}

\* "starts a timer on the GUI telling the user how long the device will keep
\* looping": the countdown was started with the time between the first and the
\* last message of the sender's loop.
CountdownRight ==
  app.timer.on /\ app.looping /\ dev.on /\ Settled =>
    \/ app.timer.seconds = (dev.num - 1) * dev.time
    \/ mishaps \cap {"lost", "rest", "old", "wide"} # {}

\* A loop whose dialogs were confirmed starts, unless a command is lost.
LoopStarts == app.runnable ~> dev.on \/ "lost" \in mishaps
=============================================================================
