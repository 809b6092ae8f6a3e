--------------------------- MODULE ExperimentApp ---------------------------
(***************************************************************************)
(* The life of the experiments in the app: the table Experiments and the   *)
(* tables of results (DatabaseHandler), the screens that create, prepare,  *)
(* start and delete experiments, and the receiving device as far as they   *)
(* see it.                                                                 *)
(*                                                                         *)
(* One screen is active at a time: PrepareSenderScreen is finished by the  *)
(* system when it is left, and the other screens return to the overview.   *)
(* All handlers run on the main thread, so each is one action.  How the    *)
(* connection of a screen comes and goes is the subject of BleCentral;     *)
(* here it is up or down, and what a device notifies while it is down, or  *)
(* while another screen is open, is lost.                                  *)
(***************************************************************************)
EXTENDS Naturals

CONSTANTS
  MaxExp,    \* bound: experiments created
  MaxMsg,    \* bound: messages the device receives in one experiment
  Reports    \* what LocationHandler reports: "-1" without a fix

ASSUME AppAssumption ==
  MaxExp \in Nat \ {0} /\ MaxMsg \in Nat \ {0} /\ Reports \subseteq {"-1", "gps"}

Exp == 1 .. MaxExp
None == 0

\* A column of a location: not written, the placeholder "-1", or a position.
Location == {"null", "-1", "gps"}

\* Messages are told apart by the experiment they belong to and their number.
Msg == [exp : Exp, no : 1 .. MaxMsg]
NoMsg == [exp |-> None, no |-> 0]

\* A row of results: the message its statistics and its content are from.  Of the
\* table of an experiment it matters whether some row is mixed from two messages,
\* or from another experiment.
Row == [st : Msg \cup {NoMsg}, ct : Msg \cup {NoMsg}]
NoRow == [st |-> NoMsg, ct |-> NoMsg]

VARIABLES
  exps,      \* the table Experiments
  mixed,     \* the experiments whose table of results has a mixed row
  logged,    \* the messages of the current measurement that have a row
  screen,    \* the active screen and its experiment
  up,        \* the connection of the screen to its device
  ready,     \* the screen's field: its device has confirmed
  prepared,  \* PrepareSenderScreen.isPrepared
  start,     \* the fields of StartExperimentScreen
  device,    \* the receiving device
  lossy      \* history: a notification did not reach the row of its message

vars == <<exps, mixed, logged, screen, up, ready, prepared, start, device, lossy>>

\* asked: the start button was pressed and is gone; entry: dbEntries, NoRow for
\* null; info: justShowingInfo.
Start == [asked : BOOLEAN, gpsLogged : BOOLEAN, timer : {"none", "delay", "run"},
          entry : Row, info : BOOLEAN]

FreshStart(done) ==
  [asked |-> FALSE, gpsLogged |-> FALSE, timer |-> "none", entry |-> NoRow,
   info |-> done]

\* phase asking: settings are sent until the sender acknowledges; left: the
\* notifications of message no that are still to be sent; ping: a ping is under
\* way, which its own thread awaits.
Device == [exp : Exp \cup {None}, phase : {"idle", "asking", "measuring"},
           no : 0 .. MaxMsg, left : SUBSET {"st", "ct"}, ping : BOOLEAN]
Idle == [exp |-> None, phase |-> "idle", no |-> 0, left |-> {}, ping |-> FALSE]

TypeOK ==
  /\ exps \in [Exp -> [state : {"none", "ready", "finished", "deleted"},
                       sender : Location, receiver : Location, started : BOOLEAN]]
  /\ mixed \subseteq Exp
  /\ logged \subseteq 1 .. MaxMsg
  /\ screen \in [at : {"overview", "prepare", "start"}, exp : Exp \cup {None}]
  /\ up \in BOOLEAN
  /\ ready \in BOOLEAN
  /\ prepared \in BOOLEAN
  /\ start \in Start
  /\ device \in Device
  /\ lossy \in BOOLEAN

Overview == [at |-> "overview", exp |-> None]

NewExperiment(s) ==
  [state |-> s, sender |-> "null", receiver |-> "null", started |-> FALSE]

Init ==
  /\ exps = [e \in Exp |-> NewExperiment("none")]
  /\ mixed = {}
  /\ logged = {}
  /\ screen = Overview
  /\ up = FALSE
  /\ ready = FALSE
  /\ prepared = FALSE
  /\ start = FreshStart(FALSE)
  /\ device = Idle
  /\ lossy = FALSE

At(s) == screen.at = s
Cur == screen.exp

\* The screen receives broadcasts: an experiment is not just shown.
Live == At("start") /\ ~start.info

---------------------------------------------------------------------------
(* Screens *)

\* A new screen: it has no connection yet.
Show(s, e) ==
  /\ screen' = [at |-> s, exp |-> e]
  /\ up' = FALSE
  /\ ready' = FALSE
  /\ prepared' = FALSE
  /\ start' = FreshStart(exps[e].state = "finished")

\* CustomizeExperimentsScreen.experimentReady, after its checks: the
\* identifiers ascend (AUTOINCREMENT).
CreateExperiment(startNow) ==
  /\ At("overview")
  /\ \E e \in Exp :
       /\ exps[e].state = "none"
       /\ \A f \in Exp : f < e => exps[f].state # "none"
       /\ exps' = [exps EXCEPT ![e] = NewExperiment("ready")]
       /\ IF startNow THEN Show("prepare", e)
          ELSE UNCHANGED <<screen, up, ready, prepared, start>>
  /\ UNCHANGED <<mixed, logged, device, lossy>>

\* A click in the overview.
OpenExperiment(e) ==
  /\ At("overview")
  /\ exps[e].state \in {"ready", "finished"}
  /\ Show(IF exps[e].state = "ready" THEN "prepare" ELSE "start", e)
  /\ UNCHANGED <<exps, mixed, logged, device, lossy>>

\* A long click in the overview, confirmed.
DeleteExperiment(e) ==
  /\ At("overview")
  /\ exps[e].state \in {"ready", "finished"}
  /\ exps' = [exps EXCEPT ![e] = NewExperiment("deleted")]
  /\ mixed' = mixed \ {e}
  /\ logged' = IF e = device.exp THEN {} ELSE logged
  /\ UNCHANGED <<screen, up, ready, prepared, start, device, lossy>>

\* What is left of a screen when it, or the app, ends: what is in the database.
ScreenGone ==
  /\ screen' = Overview
  /\ up' = FALSE
  /\ ready' = FALSE
  /\ prepared' = FALSE
  /\ start' = FreshStart(FALSE)
  /\ lossy' = (lossy \/ start.entry # NoRow)

\* Back, and onDestroy: the timer is cancelled and the connection closed.
LeaveScreen ==
  /\ ~At("overview")
  /\ ScreenGone
  /\ UNCHANGED <<exps, mixed, logged, device>>

---------------------------------------------------------------------------
(* The connection of the screen *)

\* The receiver drops what it was doing, except for a ping.
Restarted(d) ==
  /\ device' = [d EXCEPT !.ping = device.ping]
  /\ logged' = {}
  /\ lossy' = (lossy \/ device.left # {})

Connect ==
  /\ At("prepare") \/ (Live /\ exps[Cur].state = "ready")
  /\ ~up
  /\ up' = TRUE
  /\ UNCHANGED <<exps, mixed, logged, screen, ready, prepared, start, device, lossy>>

\* PrepareSenderScreen is ready two seconds after the connection;
\* StartExperimentScreen when the receiver confirms its configuration, which
\* may end what the receiver was still doing for an earlier screen.
BecomeReady ==
  /\ up /\ ~ready
  /\ ready' = TRUE
  /\ \/ UNCHANGED <<device, logged, lossy>>
     \/ At("start") /\ ~start.asked /\ Restarted(Idle)
  /\ UNCHANGED <<exps, mixed, screen, up, prepared, start>>

Disconnect ==
  /\ up
  /\ up' = FALSE
  /\ ready' = FALSE
  /\ UNCHANGED <<exps, mixed, logged, screen, prepared, start, device, lossy>>

---------------------------------------------------------------------------
(* PrepareSenderScreen *)

PrepareSender ==
  /\ At("prepare") /\ ready /\ ~prepared
  /\ \E l \in Reports : exps' = [exps EXCEPT ![Cur].sender = l]
  /\ prepared' = TRUE
  /\ UNCHANGED <<mixed, logged, screen, up, ready, start, device, lossy>>

CancelPreparation ==
  /\ At("prepare") /\ ready /\ prepared
  /\ prepared' = FALSE
  /\ UNCHANGED <<exps, mixed, logged, screen, up, ready, start, device, lossy>>

\* Mutant: no placeholder for a sender that was not prepared.
ToStartWithoutPlaceholder ==
  /\ At("prepare")
  /\ Show("start", Cur)
  /\ UNCHANGED <<exps, mixed, logged, device, lossy>>

\* toStartExperiment
ToStartExperiment ==
  /\ At("prepare")
  /\ exps' = IF prepared THEN exps ELSE [exps EXCEPT ![Cur].sender = "-1"]
  /\ Show("start", Cur)
  /\ UNCHANGED <<mixed, logged, device, lossy>>

---------------------------------------------------------------------------
(* StartExperimentScreen *)

LogLocation ==
  /\ Live /\ exps[Cur].state = "ready" /\ start.timer # "run"
  /\ \E l \in Reports : exps' = [exps EXCEPT ![Cur].receiver = l]
  /\ start' = [start EXCEPT !.gpsLogged = TRUE]
  /\ UNCHANGED <<mixed, logged, screen, up, ready, prepared, device, lossy>>

\* pingDevice: its button goes with that of the start.
PingDevice ==
  /\ Live /\ exps[Cur].state = "ready" /\ ~start.asked /\ ready
  /\ device' = [device EXCEPT !.ping = TRUE]
  /\ UNCHANGED <<exps, mixed, logged, screen, up, ready, prepared, start, lossy>>

\* startExperiment: the button is hidden first, also when nothing is written
\* because the input is rejected or the screen is not ready.
StartExperiment ==
  /\ Live /\ exps[Cur].state = "ready" /\ ~start.asked
  /\ start' = [start EXCEPT !.asked = TRUE]
  /\ \/ ready /\ Restarted([Idle EXCEPT !.exp = Cur, !.phase = "asking"])
     \/ UNCHANGED <<device, logged, lossy>>
  /\ UNCHANGED <<exps, mixed, screen, up, ready, prepared>>

\* Mutant: the state "started", which the table provides for, is used.
DelayOverMarked ==
  /\ start.timer = "delay"
  /\ \E l \in IF start.gpsLogged THEN {exps[Cur].receiver} ELSE Reports :
       exps' = [exps EXCEPT ![Cur].started = TRUE, ![Cur].receiver = l,
                            ![Cur].state = "started"]
  /\ start' = [start EXCEPT !.timer = "run"]
  /\ UNCHANGED <<mixed, logged, screen, up, ready, prepared, device, lossy>>

\* onFinish of the first timer: start_time, and the location if it is missing.
DelayOver ==
  /\ start.timer = "delay"
  /\ \E l \in IF start.gpsLogged THEN {exps[Cur].receiver} ELSE Reports :
       exps' = [exps EXCEPT ![Cur].started = TRUE, ![Cur].receiver = l]
  /\ start' = [start EXCEPT !.timer = "run"]
  /\ UNCHANGED <<mixed, logged, screen, up, ready, prepared, device, lossy>>

\* onFinish of the second timer.  What it uploads is read from the columns.
ExperimentOver ==
  /\ start.timer = "run"
  /\ exps' = [exps EXCEPT ![Cur].state = "finished"]
  /\ start' = [start EXCEPT !.timer = "none"]
  /\ up' = FALSE
  /\ UNCHANGED <<mixed, logged, screen, ready, prepared, device, lossy>>

\* createCsv: missing values are asked for one after the other; the user may
\* dismiss the first dialog, or the last.
CompleteLocations ==
  /\ At("start") /\ exps[Cur].state = "finished"
  /\ \E s, r \in BOOLEAN :
       /\ r => s
       /\ exps' = [exps EXCEPT ![Cur].sender = IF s /\ @ = "-1" THEN "gps" ELSE @,
                               ![Cur].receiver = IF r /\ @ = "-1" THEN "gps" ELSE @]
  /\ UNCHANGED <<mixed, logged, screen, up, ready, prepared, start, device, lossy>>

\* getPrimaryColumn: f is the experiment after e in the table.
IsNext(f, e) ==
  /\ f > e
  /\ exps[f].state \in {"ready", "finished"}
  /\ \A g \in Exp : g > e /\ g < f => exps[g].state \notin {"ready", "finished"}

\* startNextExperiment: the position of the sender is handed on.
StartNextExperiment ==
  /\ Live /\ exps[Cur].state = "finished"
  /\ \E f \in Exp :
       /\ IsNext(f, Cur) /\ exps[f].state = "ready"
       /\ exps' = [exps EXCEPT ![f].sender = exps[Cur].sender]
       /\ Show("start", f)
  /\ lossy' = (lossy \/ start.entry # NoRow)
  /\ UNCHANGED <<mixed, logged, device>>

---------------------------------------------------------------------------
(* The receiving device and its notifications *)

\* -3 or -4, which the screen only shows.
PingAnswered ==
  /\ device.ping
  /\ device' = [device EXCEPT !.ping = FALSE]
  /\ UNCHANGED <<exps, mixed, logged, screen, up, ready, prepared, start, lossy>>

\* -7: Central does not know it and passes it on as a message of no bytes, beyond
\* which the receiver of messages reads.  The exception ends the app.
NoResponse ==
  /\ device.ping
  /\ device' = [device EXCEPT !.ping = FALSE]
  /\ IF up /\ Live THEN ScreenGone
     ELSE UNCHANGED <<screen, up, ready, prepared, start, lossy>>
  /\ UNCHANGED <<exps, mixed, logged>>

\* The acknowledgment arrives: -6 starts the first timer of the screen.
Acknowledged ==
  /\ device.phase = "asking"
  /\ device' = [device EXCEPT !.phase = "measuring"]
  /\ start' = IF up /\ Live THEN [start EXCEPT !.timer = "delay"] ELSE start
  /\ UNCHANGED <<exps, mixed, logged, screen, up, ready, prepared, lossy>>

MessageHeard ==
  /\ device.phase = "measuring" /\ device.left = {} /\ device.no < MaxMsg
  /\ device' = [device EXCEPT !.no = @ + 1, !.left = {"st", "ct"}]
  /\ UNCHANGED <<exps, mixed, logged, screen, up, ready, prepared, start, lossy>>

MeasuringOver ==
  /\ device.phase = "measuring" /\ device.left = {}
  /\ device' = [Idle EXCEPT !.ping = device.ping]
  /\ logged' = {}
  /\ UNCHANGED <<exps, mixed, screen, up, ready, prepared, start, lossy>>

LogReceivedTransmission(row) ==
  IF row.st = row.ct /\ row.st.exp = Cur
  THEN logged' = logged \cup {row.st.no} /\ UNCHANGED mixed
  ELSE mixed' = mixed \cup {Cur} /\ UNCHANGED logged

\* Mutant: dbEntries is not cleared when its row is logged.
PairKept(k, m) ==
  LET row == [start.entry EXCEPT ![k] = m]
  IN  IF start.entry = NoRow
      THEN start' = [start EXCEPT !.entry = row] /\ UNCHANGED <<mixed, logged>>
      ELSE /\ LogReceivedTransmission(row)
           /\ UNCHANGED start

\* The receivers of statistics (k = "st") and of contents (k = "ct"): the first
\* to come waits in dbEntries, the second completes the row.
Pair(k, m) ==
  LET row == [start.entry EXCEPT ![k] = m]
  IN  IF start.entry = NoRow
      THEN start' = [start EXCEPT !.entry = row] /\ UNCHANGED <<mixed, logged>>
      ELSE /\ LogReceivedTransmission(row)
           /\ start' = [start EXCEPT !.entry = NoRow]

\* A notification arrives, in either order, or is lost.
Notification(k) ==
  /\ k \in device.left
  /\ device' = [device EXCEPT !.left = @ \ {k}]
  /\ IF up /\ Live
     THEN Pair(k, [exp |-> device.exp, no |-> device.no])
     ELSE UNCHANGED <<mixed, logged, start>>
  /\ lossy' = (lossy \/ ~(up /\ Live /\ Cur = device.exp))
  /\ UNCHANGED <<exps, screen, up, ready, prepared>>

Next ==
  \/ \E b \in BOOLEAN : CreateExperiment(b)
  \/ \E e \in Exp : OpenExperiment(e) \/ DeleteExperiment(e)
  \/ LeaveScreen
  \/ Connect \/ BecomeReady \/ Disconnect
  \/ PrepareSender \/ CancelPreparation \/ ToStartExperiment
  \/ LogLocation \/ PingDevice \/ StartExperiment \/ DelayOver \/ ExperimentOver
  \/ CompleteLocations \/ StartNextExperiment
  \/ PingAnswered \/ NoResponse \/ Acknowledged \/ MessageHeard \/ MeasuringOver
  \/ \E k \in {"st", "ct"} : Notification(k)

Spec == Init /\ [][Next]_vars

---------------------------------------------------------------------------
(* Properties *)

\* As long as no notification is lost, each logged row holds the statistics and
\* the content of one message of its experiment, whichever comes first (the
\* receivers of StartExperimentScreen deal with "different order of arrival"),
\* and every message of the running experiment that was notified is logged.
RowsMatch ==
  ~lossy =>
    /\ mixed = {}
    /\ device.phase = "measuring" /\ exps[device.exp].state # "deleted" =>
         \A n \in 1 .. device.no :
           n < device.no \/ device.left = {} => n \in logged

\* The columns that are parsed without a test are written by then, on every
\* path through the screens: the sender's location when the start screen of an
\* experiment opens (setupLocationHandler), and both locations and start_time
\* once it is finished (enterDiffValuesIntoDB, getWeatherData).
ColumnsWritten ==
  /\ Live => exps[Cur].sender # "null"
  /\ \A e \in Exp : exps[e].state = "finished" =>
       exps[e].sender # "null" /\ exps[e].receiver # "null" /\ exps[e].started
=============================================================================
