------------------------ MODULE ExperimentAppProofs ------------------------
(***************************************************************************)
(* Theorems about the life of the experiments in the app: for any number   *)
(* of experiments and of messages, the rows of results match and the       *)
(* columns that are parsed are written.                                    *)
(***************************************************************************)
EXTENDS ExperimentApp, TLAPS

-----------------------------------------------------------------------------
(* The invariants.                                                         *)

\* A screen shows an experiment that is there: one that is ready is prepared
\* or started, one that is finished is started or just shown.
ScreenInv ==
  /\ At("overview") => Cur = None /\ start = FreshStart(FALSE)
  /\ At("prepare") =>
       Cur \in Exp /\ exps[Cur].state = "ready" /\ start = FreshStart(FALSE)
  /\ At("start") => Cur \in Exp /\ exps[Cur].state \in {"ready", "finished"}
  /\ start.info => exps[Cur].state = "finished" /\ start = FreshStart(TRUE)

\* The device has notifications to send only for a message it has received.
DeviceInv ==
  /\ device.phase # "idle" => device.exp \in Exp
  /\ device.phase # "measuring" => device.no = 0 /\ device.left = {}
  /\ device.left # {} => device.no \in 1 .. MaxMsg

AppInv == TypeOK /\ ScreenInv /\ DeviceInv

\* Each column is written on the way to the step that relies on it.
Written ==
  /\ At("prepare") /\ prepared => exps[Cur].sender # "null"
  /\ Live => exps[Cur].sender # "null"
  /\ start.gpsLogged \/ start.timer = "run" => exps[Cur].receiver # "null"
  /\ start.timer = "run" => exps[Cur].started
  /\ \A e \in Exp : exps[e].state = "finished" =>
       exps[e].sender # "null" /\ exps[e].receiver # "null" /\ exps[e].started

\* The message that the device notifies.
Current == [exp |-> device.exp, no |-> device.no]

\* Without a loss, what waits in dbEntries is one half of the message that the
\* device notifies, and the device has the other half to send.
Halves ==
  \/ start.entry = NoRow /\ device.left \in {{}, {"st", "ct"}}
  \/ /\ start.entry # NoRow /\ Live /\ Cur = device.exp
     /\ \/ start.entry = [st |-> Current, ct |-> NoMsg] /\ device.left = {"ct"}
        \/ start.entry = [st |-> NoMsg, ct |-> Current] /\ device.left = {"st"}

Rows == ~lossy => Halves /\ RowsMatch
-----------------------------------------------------------------------------
(* Types.                                                                  *)

Experiment ==
  [state : {"none", "ready", "finished", "deleted"}, sender : Location,
   receiver : Location, started : BOOLEAN]

Table == [Exp -> Experiment]

Screen == [at : {"overview", "prepare", "start"}, exp : Exp \cup {None}]

\* What is written to a column is a value of that column.
LEMMA SenderType ==
  ASSUME NEW x \in Experiment, NEW l \in Location
  PROVE  [x EXCEPT !.sender = l] \in Experiment
  BY DEF Experiment

LEMMA ReceiverType ==
  ASSUME NEW x \in Experiment, NEW l \in Location
  PROVE  [x EXCEPT !.receiver = l] \in Experiment
  BY DEF Experiment

LEMMA StartedType ==
  ASSUME NEW x \in Experiment, NEW l \in Location
  PROVE  [x EXCEPT !.started = TRUE, !.receiver = l] \in Experiment
  BY Zenon DEF Experiment

LEMMA FinishedType ==
  ASSUME NEW x \in Experiment
  PROVE  [x EXCEPT !.state = "finished"] \in Experiment
  BY DEF Experiment

\* A row of the table is replaced.
LEMMA RowReplaced ==
  ASSUME exps \in Table, NEW e \in Exp, NEW r \in Experiment,
         exps' = [exps EXCEPT ![e] = r]
  PROVE  /\ exps' \in Table
         /\ exps'[e] = r
         /\ \A f \in Exp : f # e => exps'[f] = exps[f]
  BY DEF Table

\* The second of two values written to one place stays.
LEMMA WrittenTwice ==
  ASSUME NEW t \in Table, NEW e \in Exp, NEW x, NEW y
  PROVE  /\ [[t EXCEPT ![e] = x] EXCEPT ![e] = y] = [t EXCEPT ![e] = y]
         /\ [t EXCEPT ![e] = x][e] = x
  BY Zenon DEF Table

\* createCsv replaces placeholders, and leaves the other columns alone.
LEMMA Completed ==
  ASSUME exps \in Table, NEW e \in Exp, NEW s \in BOOLEAN, NEW r \in BOOLEAN,
         exps' = [exps EXCEPT ![e].sender = IF s /\ @ = "-1" THEN "gps" ELSE @,
                              ![e].receiver = IF r /\ @ = "-1" THEN "gps" ELSE @]
  PROVE  /\ exps' \in Table
         /\ exps'[e].state = exps[e].state /\ exps'[e].started = exps[e].started
         /\ exps[e].sender # "null" => exps'[e].sender # "null"
         /\ exps[e].receiver # "null" => exps'[e].receiver # "null"
         /\ \A f \in Exp : f # e => exps'[f] = exps[f]
  <1> DEFINE a == IF s /\ exps[e].sender = "-1" THEN "gps" ELSE exps[e].sender
             b == IF r /\ exps[e].receiver = "-1" THEN "gps" ELSE exps[e].receiver
             x == [exps[e] EXCEPT !.sender = a]
             y == [x EXCEPT !.receiver = b]
  <1>1. exps[e] \in Experiment
    BY Zenon DEF Table
  <1>2. a \in Location /\ b \in Location
    <2>1. exps[e].sender \in Location /\ exps[e].receiver \in Location /\ "gps" \in Location
      BY <1>1 DEF Experiment, Location
    <2> QED
      BY <2>1, Zenon
  <1>3. /\ exps[e].sender # "null" => a # "null"
        /\ exps[e].receiver # "null" => b # "null"
    OBVIOUS
  <1>4. exps' = [exps EXCEPT ![e] = y]
    <2>1. exps' = [[exps EXCEPT ![e] = x]
                     EXCEPT ![e] = [[exps EXCEPT ![e] = x][e] EXCEPT !.receiver = b]]
      BY Zenon
    <2> HIDE DEF a, b, x
    <2>2. [exps EXCEPT ![e] = x][e] = x
      BY WrittenTwice
    <2> QED
      BY <2>1, <2>2, WrittenTwice, Zenon
  <1>5. /\ y \in Experiment /\ y.state = exps[e].state /\ y.started = exps[e].started
        /\ y.sender = a /\ y.receiver = b
    <2> HIDE DEF a, b
    <2>1. y = [exps[e] EXCEPT !.sender = a, !.receiver = b]
      OBVIOUS
    <2> HIDE DEF y
    <2> QED
      BY ONLY <1>1, <1>2, <2>1, Zenon DEF Experiment
  <1> HIDE DEF a, b, x, y
  <1>6. exps' \in Table /\ exps'[e] = y /\ \A f \in Exp : f # e => exps'[f] = exps[f]
    BY <1>4, <1>5, RowReplaced, Zenon
  <1> QED
    BY <1>3, <1>5, <1>6, Zenon

\* The fields of a screen, fresh or changed by one of its handlers, are fields.
LEMMA StartTypes ==
  ASSUME NEW x \in Start
  PROVE  /\ NoRow \in Row
         /\ \A b \in BOOLEAN : FreshStart(b) \in Start
         /\ [x EXCEPT !.asked = TRUE] \in Start
         /\ [x EXCEPT !.gpsLogged = TRUE] \in Start
         /\ \A t \in {"none", "delay", "run"} : [x EXCEPT !.timer = t] \in Start
         /\ \A r \in Row : [x EXCEPT !.entry = r] \in Start
  <1>1. NoRow \in Row
    BY DEF Row, NoRow
  <1>2. \A b \in BOOLEAN : FreshStart(b) \in Start
    BY <1>1 DEF FreshStart, Start
  <1>3. /\ [x EXCEPT !.asked = TRUE] \in Start
        /\ [x EXCEPT !.gpsLogged = TRUE] \in Start
        /\ \A r \in Row : [x EXCEPT !.entry = r] \in Start
    BY Zenon DEF Start
  <1>4. \A t \in {"none", "delay", "run"} : [x EXCEPT !.timer = t] \in Start
    BY DEF Start
  <1> QED
    BY <1>1, <1>2, <1>3, <1>4

\* So are the states of the device.
LEMMA DeviceTypes ==
  ASSUME NEW d \in Device
  PROVE  /\ Idle \in Device
         /\ \A e \in Exp : [Idle EXCEPT !.exp = e, !.phase = "asking"] \in Device
         /\ [d EXCEPT !.phase = "measuring"] \in Device
         /\ d.no < MaxMsg => [d EXCEPT !.no = @ + 1, !.left = {"st", "ct"}] \in Device
         /\ \A k : [d EXCEPT !.left = @ \ {k}] \in Device
  <1>1. 0 \in 0 .. MaxMsg /\ d.no \in 0 .. MaxMsg /\ d.left \in SUBSET {"st", "ct"}
    BY AppAssumption DEF Device
  <1>2. d.no < MaxMsg => d.no + 1 \in 0 .. MaxMsg
    BY <1>1, AppAssumption
  <1>3. Idle \in Device
    BY <1>1 DEF Idle, Device
  <1>4. \A e \in Exp : [Idle EXCEPT !.exp = e, !.phase = "asking"] \in Device
    BY <1>3, Zenon DEF Device
  <1>5. [d EXCEPT !.phase = "measuring"] \in Device
    BY DEF Device
  <1>6. d.no < MaxMsg => [d EXCEPT !.no = @ + 1, !.left = {"st", "ct"}] \in Device
    BY <1>2, Zenon DEF Device
  <1>7. \A k : d.left \ {k} \in SUBSET {"st", "ct"}
    BY <1>1
  <1>8. \A k : [d EXCEPT !.left = @ \ {k}] \in Device
    BY <1>7 DEF Device
  <1> QED
    BY <1>3, <1>4, <1>5, <1>6, <1>8, Zenon

\* A ping comes and goes beside what the device does.
LEMMA PingTypes ==
  ASSUME NEW d \in Device, NEW b \in BOOLEAN
  PROVE  /\ [d EXCEPT !.ping = b] \in Device
         /\ [d EXCEPT !.ping = b].exp = d.exp
         /\ [d EXCEPT !.ping = b].phase = d.phase
         /\ [d EXCEPT !.ping = b].no = d.no
         /\ [d EXCEPT !.ping = b].left = d.left
  BY DEF Device

\* The device drops what it was doing.
LEMMA RestartedFields ==
  ASSUME device \in Device, NEW d \in Device, Restarted(d)
  PROVE  /\ device' \in Device /\ logged' = {}
         /\ lossy' = (lossy \/ device.left # {})
         /\ device'.exp = d.exp /\ device'.phase = d.phase
         /\ device'.no = d.no /\ device'.left = d.left
  <1>1. device.ping \in BOOLEAN
    BY DEF Device
  <1>2. device' = [d EXCEPT !.ping = device.ping]
    BY DEF Restarted
  <1>3. logged' = {} /\ lossy' = (lossy \/ device.left # {})
    BY DEF Restarted
  <1> QED
    BY <1>1, <1>2, <1>3, PingTypes, Zenon

\* A screen, or the app, ends.
LEMMA GoneTypes ==
  ASSUME ScreenGone, start \in Start, lossy \in BOOLEAN
  PROVE  /\ screen' = Overview /\ screen' \in Screen /\ start' = FreshStart(FALSE)
         /\ start' \in Start /\ up' \in BOOLEAN /\ ready' \in BOOLEAN
         /\ prepared' \in BOOLEAN /\ lossy' \in BOOLEAN
  <1>1. Overview \in Screen
    BY DEF Overview, Screen
  <1> QED
    BY <1>1, StartTypes, Zenon DEF ScreenGone

LEMMA InitAppInv == Init => AppInv
  <1>1. 0 \in 0 .. MaxMsg
    BY AppAssumption
  <1>2. ASSUME Init PROVE TypeOK
    <2>1. exps \in Table
      BY <1>2 DEF Init, NewExperiment, Table, Experiment, Location
    <2>2. start \in Start
      BY <1>2, StartTypes DEF Init, FreshStart, Start, Row, NoRow
    <2>3. device \in Device
      BY <1>1, <1>2 DEF Init, Device, Idle
    <2> QED
      BY <1>2, <2>1, <2>2, <2>3, Zenon DEF Init, TypeOK, Table, Experiment, Overview
  <1>3. Init => ScreenInv /\ DeviceInv
    BY DEF Init, ScreenInv, DeviceInv, At, Cur, Overview, Idle, FreshStart
  <1> QED
    BY <1>2, <1>3 DEF AppInv

\* A new screen is well-typed.
LEMMA ShowTypes ==
  ASSUME NEW s \in {"overview", "prepare", "start"}, NEW e \in Exp, Show(s, e)
  PROVE  /\ screen' \in Screen /\ start' \in Start
         /\ up' = FALSE /\ ready' = FALSE /\ prepared' = FALSE
  <1>1. (exps[e].state = "finished") \in BOOLEAN
    OBVIOUS
  <1>2. start' \in Start
    BY <1>1 DEF Show, FreshStart, Start, Row, NoRow
  <1> QED
    BY <1>2 DEF Show, Screen

LEMMA NextTypeOK ==
  ASSUME AppInv, [Next]_vars
  PROVE  TypeOK'
  <1>0. /\ exps \in Table /\ screen \in Screen /\ mixed \subseteq Exp
        /\ logged \subseteq 1 .. MaxMsg /\ start \in Start /\ device \in Device
        /\ up \in BOOLEAN /\ ready \in BOOLEAN /\ prepared \in BOOLEAN
        /\ lossy \in BOOLEAN
    BY DEF AppInv, TypeOK, Table, Experiment, Screen
  <1> SUFFICES /\ exps' \in Table /\ screen' \in Screen /\ mixed' \subseteq Exp
               /\ logged' \subseteq 1 .. MaxMsg /\ start' \in Start /\ device' \in Device
               /\ up' \in BOOLEAN /\ ready' \in BOOLEAN /\ prepared' \in BOOLEAN
               /\ lossy' \in BOOLEAN
    BY DEF TypeOK, Table, Experiment, Screen
  <1>1. \A e \in Exp : exps[e] \in Experiment
    BY <1>0 DEF Table
  <1>2. At("prepare") \/ At("start") => Cur \in Exp
    BY Zenon DEF AppInv, ScreenInv
  <1>a. start.timer \in {"delay", "run"} => Live
    BY <1>0 DEF AppInv, ScreenInv, FreshStart, Screen, Live, At
  <1>3. ASSUME NEW b \in BOOLEAN, CreateExperiment(b)
        PROVE  /\ exps' \in Table /\ screen' \in Screen /\ start' \in Start
               /\ up' \in BOOLEAN /\ ready' \in BOOLEAN /\ prepared' \in BOOLEAN
               /\ UNCHANGED <<mixed, logged, device, lossy>>
    <2>1. PICK e \in Exp :
                 /\ exps' = [exps EXCEPT ![e] = NewExperiment("ready")]
                 /\ IF b THEN Show("prepare", e)
                    ELSE UNCHANGED <<screen, up, ready, prepared, start>>
      BY <1>3, Zenon DEF CreateExperiment
    <2>2. NewExperiment("ready") \in Experiment
      BY DEF NewExperiment, Experiment, Location
    <2>3. exps' \in Table
      BY <1>0, <2>1, <2>2, RowReplaced, Zenon
    <2> QED
      BY <1>0, <1>3, <2>1, <2>3, ShowTypes, Zenon DEF CreateExperiment
  <1>4. ASSUME NEW e \in Exp, OpenExperiment(e)
        PROVE  /\ screen' \in Screen /\ start' \in Start
               /\ up' \in BOOLEAN /\ ready' \in BOOLEAN /\ prepared' \in BOOLEAN
               /\ UNCHANGED <<exps, mixed, logged, device, lossy>>
    BY <1>4, ShowTypes, Zenon DEF OpenExperiment
  <1>5. ASSUME NEW e \in Exp, DeleteExperiment(e)
        PROVE  /\ exps' \in Table /\ mixed' \subseteq Exp /\ logged' \subseteq 1 .. MaxMsg
               /\ UNCHANGED <<screen, up, ready, prepared, start, device, lossy>>
    <2>1. NewExperiment("deleted") \in Experiment
      BY DEF NewExperiment, Experiment, Location
    <2>2. exps' \in Table
      BY <1>0, <1>5, <2>1, RowReplaced, Zenon DEF DeleteExperiment
    <2> QED
      BY <1>0, <1>5, <2>2, Zenon DEF DeleteExperiment
  <1>6. CASE LeaveScreen
    BY <1>0, <1>6, GoneTypes, Zenon DEF LeaveScreen
  <1>7. CASE Connect \/ BecomeReady \/ Disconnect
    <2>1. Restarted(Idle) => device' \in Device /\ logged' = {} /\ lossy' \in BOOLEAN
      BY <1>0, DeviceTypes, RestartedFields
    <2> QED
      BY <1>0, <1>7, <2>1, Zenon DEF Connect, BecomeReady, Disconnect
  <1>8. CASE PrepareSender \/ CancelPreparation
    <2>1. CASE PrepareSender
      <3>1. PICK l \in Reports : exps' = [exps EXCEPT ![Cur] = [exps[Cur] EXCEPT !.sender = l]]
        BY <2>1, Zenon DEF PrepareSender
      <3>2. l \in Location
        BY AppAssumption DEF Location
      <3>3. exps' \in Table
        BY <1>0, <1>1, <1>2, <2>1, <3>1, <3>2, SenderType, RowReplaced, Zenon DEF PrepareSender
      <3> QED
        BY <1>0, <2>1, <3>3 DEF PrepareSender
    <2> QED
      BY <1>0, <1>8, <2>1, Zenon DEF CancelPreparation
  <1>9. CASE ToStartExperiment
    <2>1. exps' \in Table
      BY <1>0, <1>1, <1>2, <1>9, SenderType, RowReplaced, Zenon DEF ToStartExperiment, Location
    <2> QED
      BY <1>0, <1>2, <1>9, <2>1, ShowTypes, Zenon DEF ToStartExperiment
  <1>10. CASE LogLocation
    <2>1. PICK l \in Reports : exps' = [exps EXCEPT ![Cur] = [exps[Cur] EXCEPT !.receiver = l]]
      BY <1>10, Zenon DEF LogLocation
    <2>2. l \in Location
      BY AppAssumption DEF Location
    <2>3. exps' \in Table
      BY <1>0, <1>1, <1>2, <1>10, <2>1, <2>2, ReceiverType, RowReplaced, Zenon DEF LogLocation, Live
    <2> QED
      BY <1>0, <1>10, <2>3, StartTypes, Zenon DEF LogLocation
  <1>11. CASE StartExperiment
    <2> DEFINE d == [Idle EXCEPT !.exp = Cur, !.phase = "asking"]
    <2>1. d \in Device
      BY <1>0, <1>2, <1>11, DeviceTypes, Zenon DEF StartExperiment, Live
    <2>2. \/ Restarted(d)
          \/ UNCHANGED <<device, logged, lossy>>
      BY <1>11, Zenon DEF StartExperiment
    <2> HIDE DEF d
    <2>3. Restarted(d) => device' \in Device /\ logged' = {} /\ lossy' \in BOOLEAN
      BY <1>0, <2>1, RestartedFields
    <2>4. start' \in Start /\ UNCHANGED <<exps, mixed, screen, up, ready, prepared>>
      BY <1>0, <1>11, StartTypes, Zenon DEF StartExperiment
    <2> QED
      BY <1>0, <2>2, <2>3, <2>4, Zenon
  <1>12. CASE DelayOver
    <2>1. PICK l \in IF start.gpsLogged THEN {exps[Cur].receiver} ELSE Reports :
                 exps' = [exps EXCEPT ![Cur] = [exps[Cur] EXCEPT !.started = TRUE,
                                                                 !.receiver = l]]
      BY <1>12 DEF DelayOver
    <2>2. Cur \in Exp
      BY <1>2, <1>a, <1>12 DEF DelayOver, Live
    <2>3. l \in Location
      BY <1>1, <2>1, <2>2, AppAssumption DEF Location, Experiment
    <2>4. exps' \in Table
      BY <1>0, <1>1, <2>1, <2>2, <2>3, StartedType, RowReplaced, Zenon
    <2> QED
      BY <1>0, <1>12, <2>4, StartTypes, Zenon DEF DelayOver
  <1>13. CASE ExperimentOver
    <2>1. Cur \in Exp
      BY <1>2, <1>a, <1>13 DEF ExperimentOver, Live
    <2>2. exps' \in Table
      BY <1>0, <1>1, <1>13, <2>1, FinishedType, RowReplaced, Zenon DEF ExperimentOver, Location
    <2> QED
      BY <1>0, <1>13, <2>2, StartTypes, Zenon DEF ExperimentOver
  <1>14. CASE CompleteLocations
    <2>1. PICK s, r \in BOOLEAN :
                 exps' = [exps EXCEPT
                            ![Cur].sender = IF s /\ @ = "-1" THEN "gps" ELSE @,
                            ![Cur].receiver = IF r /\ @ = "-1" THEN "gps" ELSE @]
      BY <1>14, Zenon DEF CompleteLocations
    <2>2. Cur \in Exp
      BY <1>2, <1>14 DEF CompleteLocations
    <2>3. exps' \in Table
      BY <1>0, <2>1, <2>2, Completed, Zenon
    <2> QED
      BY <1>0, <1>14, <2>3 DEF CompleteLocations
  <1>15. CASE StartNextExperiment
    <2>1. PICK f \in Exp :
                 /\ exps' = [exps EXCEPT ![f] = [exps[f] EXCEPT !.sender = exps[Cur].sender]]
                 /\ Show("start", f)
      BY <1>15, Zenon DEF StartNextExperiment
    <2>2. exps[Cur].sender \in Location
      BY <1>1, <1>2, <1>15 DEF StartNextExperiment, Live, Experiment
    <2>3. exps' \in Table
      BY <1>0, <1>1, <2>1, <2>2, SenderType, RowReplaced, Zenon
    <2> QED
      BY <1>0, <1>15, <2>1, <2>3, ShowTypes, Zenon DEF StartNextExperiment
  <1>16. CASE Acknowledged \/ MessageHeard \/ MeasuringOver
    <2>1. [Idle EXCEPT !.ping = device.ping] \in Device
      <3>1. device.ping \in BOOLEAN
        BY <1>0 DEF Device
      <3> QED
        BY <1>0, <3>1, DeviceTypes, PingTypes
    <2> QED
      BY <1>0, <1>16, <2>1, StartTypes, DeviceTypes, Zenon
      DEF Acknowledged, MessageHeard, MeasuringOver
  <1>17. ASSUME NEW k \in {"st", "ct"}, Notification(k)
         PROVE  /\ mixed' \subseteq Exp /\ logged' \subseteq 1 .. MaxMsg /\ start' \in Start
                /\ device' \in Device /\ lossy' \in BOOLEAN
                /\ UNCHANGED <<exps, screen, up, ready, prepared>>
    <2>1. [exp |-> device.exp, no |-> device.no] \in Msg
      BY <1>17 DEF Notification, AppInv, DeviceInv, Msg
    <2>2. [start.entry EXCEPT ![k] = [exp |-> device.exp, no |-> device.no]] \in Row
      BY <1>0, <2>1 DEF Start, Row
    <2>3. \A r \in Row : LogReceivedTransmission(r) /\ Live =>
            mixed' \subseteq Exp /\ logged' \subseteq 1 .. MaxMsg
      <3>1. ASSUME NEW r \in Row, r.st.exp \in Exp
            PROVE  r.st.no \in 1 .. MaxMsg
        <4>1. r.st \in Msg \/ r.st = NoMsg
          BY DEF Row
        <4>2. None \notin Exp
          BY AppAssumption DEF None, Exp
        <4>3. NoMsg.exp = None
          BY DEF NoMsg
        <4>4. \A m \in Msg : m.no \in 1 .. MaxMsg
          BY DEF Msg
        <4> QED
          BY <3>1, <4>1, <4>2, <4>3, <4>4, Zenon
      <3> QED
        BY <1>0, <1>2, <3>1, Zenon DEF LogReceivedTransmission, Live
    <2> QED
      BY <1>0, <1>17, <2>2, <2>3, StartTypes, DeviceTypes, Zenon DEF Notification, Pair
  <1>18. CASE UNCHANGED vars
    BY <1>0, <1>18 DEF vars
  <1>19. CASE PingDevice \/ PingAnswered
    BY <1>0, <1>19, PingTypes, Zenon DEF PingDevice, PingAnswered
  <1>20. CASE NoResponse
    BY <1>0, <1>20, PingTypes, GoneTypes, Zenon DEF NoResponse
  <1> QED
    BY <1>0, <1>3, <1>4, <1>5, <1>6, <1>7, <1>8, <1>9, <1>10, <1>11, <1>12, <1>13, <1>14,
       <1>15, <1>16, <1>17, <1>18, <1>19, <1>20, Zenon DEF Next
-----------------------------------------------------------------------------
(* The screens.                                                            *)

\* A fresh screen has no timer, no location and no half of a row.
LEMMA FreshFields ==
  \A b : /\ FreshStart(b).info = b /\ FreshStart(b).timer = "none"
        /\ ~FreshStart(b).gpsLogged /\ FreshStart(b).entry = NoRow
  BY DEF FreshStart

\* A handler of a live screen leaves it live, with its experiment.
LEMMA LiveStays ==
  ASSUME Live, screen' = screen, start'.info = FALSE, Cur \in Exp,
         exps'[Cur].state \in {"ready", "finished"}
  PROVE  ScreenInv'
  BY Zenon DEF Live, ScreenInv, At, Cur

\* Steps that leave the screen and the states of the experiments alone.
LEMMA ScreenFrame ==
  ASSUME ScreenInv, UNCHANGED <<screen, start>>,
         \A e \in Exp : exps'[e].state = exps[e].state,
         screen \in Screen
  PROVE  ScreenInv'
  BY FreshFields, Zenon DEF ScreenInv, At, Cur, Screen

\* In the overview, no experiment is shown.
LEMMA ScreenOver ==
  ASSUME ScreenGone
  PROVE  ScreenInv'
  <1>1. /\ screen'.at = "overview" /\ screen'.exp = None
        /\ start' = FreshStart(FALSE)
    BY Zenon DEF ScreenGone, Overview
  <1> QED
    BY <1>1, FreshFields, Zenon DEF ScreenInv, At, Cur

LEMMA NextScreenInv ==
  ASSUME AppInv, [Next]_vars
  PROVE  ScreenInv'
  <1>0. /\ exps \in Table /\ screen \in Screen /\ start \in Start
        /\ ScreenInv /\ DeviceInv
    BY DEF AppInv, TypeOK, Table, Experiment, Screen
  <1>1. \A e \in Exp : exps[e] \in Experiment
    BY <1>0 DEF Table
  <1>2. At("prepare") \/ At("start") => Cur \in Exp
    BY <1>0, Zenon DEF ScreenInv
  <1>3. Live => Cur \in Exp /\ exps[Cur].state \in {"ready", "finished"} /\ ~start.info
    BY <1>0 DEF ScreenInv, Live
  <1>4. start.timer \in {"delay", "run"} => Live
    BY <1>0, FreshFields, Zenon DEF ScreenInv, Screen, Live, At
  <1>5. ASSUME NEW b \in BOOLEAN, CreateExperiment(b)
        PROVE  ScreenInv'
    <2>1. PICK e \in Exp :
                 /\ exps[e].state = "none"
                 /\ exps' = [exps EXCEPT ![e] = NewExperiment("ready")]
                 /\ IF b THEN Show("prepare", e)
                    ELSE UNCHANGED <<screen, up, ready, prepared, start>>
      BY <1>5, Zenon DEF CreateExperiment
    <2>2. exps'[e].state = "ready"
      BY <1>0, <2>1 DEF Table, NewExperiment
    <2>3. CASE b
      <3>1. (exps[e].state = "finished") = FALSE
        BY <2>1
      <3>2. Show("prepare", e)
        BY <2>1, <2>3
      <3>3. screen'.at = "prepare" /\ screen'.exp = e /\ start' = FreshStart(FALSE)
        BY <3>1, <3>2, Zenon DEF Show
      <3> QED
        BY <2>2, <3>3, FreshFields, Zenon DEF ScreenInv, At, Cur
    <2>4. CASE ~b
      BY <1>0, <1>5, <2>1, <2>4, FreshFields, Zenon DEF CreateExperiment, ScreenInv, At, Cur
    <2> QED
      BY <2>3, <2>4
  <1>6. ASSUME NEW e \in Exp, OpenExperiment(e)
        PROVE  ScreenInv'
    <2>1. CASE exps[e].state = "ready"
      <3>1. (exps[e].state = "finished") = FALSE
        BY <2>1
      <3>2. /\ screen'.at = "prepare" /\ screen'.exp = e /\ start' = FreshStart(FALSE)
            /\ exps' = exps
        BY <1>6, <2>1, <3>1, Zenon DEF OpenExperiment, Show
      <3> QED
        BY <2>1, <3>2, FreshFields, Zenon DEF ScreenInv, At, Cur
    <2>2. CASE exps[e].state = "finished"
      <3>1. (exps[e].state = "finished") = TRUE
        BY <2>2
      <3>2. /\ screen'.at = "start" /\ screen'.exp = e /\ start' = FreshStart(TRUE)
            /\ exps' = exps
        BY <1>6, <2>2, <3>1, Zenon DEF OpenExperiment, Show
      <3> QED
        BY <2>2, <3>2, FreshFields, Zenon DEF ScreenInv, At, Cur
    <2> QED
      BY <1>6, <2>1, <2>2 DEF OpenExperiment
  <1>7. ASSUME NEW e \in Exp, DeleteExperiment(e)
        PROVE  ScreenInv'
    BY <1>0, <1>7, FreshFields, Zenon DEF DeleteExperiment, ScreenInv, At, Cur
  <1>8. CASE LeaveScreen
    BY <1>8, ScreenOver DEF LeaveScreen
  <1>9. CASE Connect \/ BecomeReady \/ Disconnect \/ CancelPreparation
             \/ MessageHeard \/ MeasuringOver \/ PingDevice \/ PingAnswered
             \/ UNCHANGED vars
    <2>1. UNCHANGED <<exps, screen, start>>
      BY <1>9 DEF Connect, BecomeReady, Disconnect, CancelPreparation, MessageHeard,
                  MeasuringOver, PingDevice, PingAnswered, vars
    <2> QED
      BY <1>0, <2>1, ScreenFrame
  <1>10. CASE PrepareSender
    <2>1. PICK l \in Reports : exps' = [exps EXCEPT ![Cur].sender = l]
      BY <1>10, Zenon DEF PrepareSender
    <2>2. \A e \in Exp : exps'[e].state = exps[e].state
      BY <1>0, <1>1, <2>1 DEF Table, Experiment
    <2> QED
      BY <1>0, <1>10, <2>2, ScreenFrame DEF PrepareSender
  <1>11. CASE ToStartExperiment
    <2>1. exps[Cur].state = "ready" /\ Cur \in Exp
      BY <1>0, <1>11 DEF ToStartExperiment, ScreenInv
    <2>2. (exps[Cur].state = "finished") = FALSE
      BY <2>1
    <2>3. screen'.at = "start" /\ screen'.exp = Cur /\ start' = FreshStart(FALSE)
      BY <1>11, <2>2, Zenon DEF ToStartExperiment, Show
    <2>4. exps'[Cur].state = "ready"
      BY <1>0, <1>1, <1>11, <2>1 DEF ToStartExperiment, Table, Experiment
    <2> QED
      BY <2>1, <2>3, <2>4, FreshFields, Zenon DEF ScreenInv, At, Cur
  <1>12. CASE LogLocation
    <2>1. PICK l \in Reports : exps' = [exps EXCEPT ![Cur].receiver = l]
      BY <1>12, Zenon DEF LogLocation
    <2>2. Live /\ screen' = screen /\ start'.info = FALSE
      BY <1>0, <1>3, <1>12 DEF LogLocation, Start
    <2>3. exps'[Cur].state = exps[Cur].state
      BY <1>0, <1>1, <1>3, <2>1, <2>2 DEF Table, Experiment
    <2> QED
      BY <1>3, <2>2, <2>3, LiveStays, Zenon
  <1>13. CASE StartExperiment
    <2>1. Live /\ screen' = screen /\ start'.info = FALSE /\ exps' = exps
      BY <1>0, <1>3, <1>13 DEF StartExperiment, Start
    <2> QED
      BY <1>3, <2>1, LiveStays, Zenon
  <1>14. CASE DelayOver
    <2>1. PICK l : exps' = [exps EXCEPT ![Cur].started = TRUE, ![Cur].receiver = l]
      BY <1>14, Zenon DEF DelayOver
    <2>2. Live /\ screen' = screen /\ start'.info = FALSE
      BY <1>0, <1>3, <1>4, <1>14 DEF DelayOver, Start
    <2>3. exps'[Cur].state = exps[Cur].state
      BY <1>0, <1>1, <1>3, <2>1, <2>2 DEF Table, Experiment
    <2> QED
      BY <1>3, <2>2, <2>3, LiveStays, Zenon
  <1>15. CASE ExperimentOver
    <2>1. Live /\ screen' = screen /\ start'.info = FALSE
      BY <1>0, <1>3, <1>4, <1>15 DEF ExperimentOver, Start
    <2>2. exps'[Cur].state = "finished"
      BY <1>0, <1>1, <1>3, <1>15, <2>1 DEF ExperimentOver, Table, Experiment
    <2> QED
      BY <1>3, <2>1, <2>2, LiveStays, Zenon
  <1>16. CASE CompleteLocations
    <2>1. PICK s, r \in BOOLEAN :
                 exps' = [exps EXCEPT
                            ![Cur].sender = IF s /\ @ = "-1" THEN "gps" ELSE @,
                            ![Cur].receiver = IF r /\ @ = "-1" THEN "gps" ELSE @]
      BY <1>16, Zenon DEF CompleteLocations
    <2>2. \A e \in Exp : exps'[e].state = exps[e].state
      <3>1. Cur \in Exp
        BY <1>2, <1>16 DEF CompleteLocations
      <3>2. /\ exps'[Cur].state = exps[Cur].state
            /\ \A f \in Exp : f # Cur => exps'[f] = exps[f]
        BY <1>0, <2>1, <3>1, Completed, Zenon
      <3> QED
        BY <3>2
    <2> QED
      BY <1>0, <1>16, <2>2, ScreenFrame, Zenon DEF CompleteLocations
  <1>17. CASE StartNextExperiment
    <2>1. PICK f \in Exp :
                 /\ exps[f].state = "ready"
                 /\ exps' = [exps EXCEPT ![f].sender = exps[Cur].sender]
                 /\ Show("start", f)
      BY <1>17, Zenon DEF StartNextExperiment
    <2>2. (exps[f].state = "finished") = FALSE
      BY <2>1
    <2>3. screen'.at = "start" /\ screen'.exp = f /\ start' = FreshStart(FALSE)
      BY <2>1, <2>2, Zenon DEF Show
    <2>4. exps'[f].state = "ready"
      BY <1>0, <1>1, <2>1 DEF Table, Experiment
    <2> QED
      BY <2>3, <2>4, FreshFields, Zenon DEF ScreenInv, At, Cur
  <1>18. CASE Acknowledged
    <2>1. CASE up /\ Live
      <3>1. screen' = screen /\ start'.info = FALSE /\ exps' = exps
        BY <1>0, <1>3, <1>18, <2>1 DEF Acknowledged, Start
      <3> QED
        BY <1>3, <2>1, <3>1, LiveStays, Zenon
    <2>2. CASE ~(up /\ Live)
      BY <1>0, <1>18, <2>2, ScreenFrame DEF Acknowledged
    <2> QED
      BY <2>1, <2>2
  <1>19. ASSUME NEW k \in {"st", "ct"}, Notification(k)
         PROVE  ScreenInv'
    <2>1. CASE up /\ Live
      <3>1. PICK x : start' = [start EXCEPT !.entry = x]
        BY <1>19, <2>1 DEF Notification, Pair
      <3>2. screen' = screen /\ start'.info = FALSE /\ exps' = exps
        BY <1>0, <1>3, <1>19, <2>1, <3>1 DEF Notification, Start
      <3> QED
        BY <1>3, <2>1, <3>2, LiveStays, Zenon
    <2>2. CASE ~(up /\ Live)
      BY <1>0, <1>19, <2>2, ScreenFrame DEF Notification
    <2> QED
      BY <2>1, <2>2
  <1>20. CASE NoResponse
    <2>1. ScreenGone \/ UNCHANGED <<exps, screen, start>>
      BY <1>20, Zenon DEF NoResponse
    <2> QED
      BY <1>0, <2>1, ScreenOver, ScreenFrame
  <1> QED
    BY <1>5, <1>6, <1>7, <1>8, <1>9, <1>10, <1>11, <1>12, <1>13, <1>14, <1>15, <1>16,
       <1>17, <1>18, <1>19, <1>20 DEF Next

LEMMA NextDeviceInv ==
  ASSUME AppInv, [Next]_vars
  PROVE  DeviceInv'
  <1>0. device \in Device /\ DeviceInv /\ (Live => Cur \in Exp)
    BY DEF AppInv, TypeOK, ScreenInv, Live
  <1>1. ASSUME UNCHANGED device PROVE DeviceInv'
    BY <1>0, <1>1 DEF DeviceInv
  <1>2. ASSUME device'.exp = device.exp, device'.phase = device.phase,
               device'.no = device.no, device'.left = device.left
        PROVE  DeviceInv'
    BY <1>0, <1>2 DEF DeviceInv
  <1>3. CASE StartExperiment
    <2> DEFINE d == [Idle EXCEPT !.exp = Cur, !.phase = "asking"]
    <2>1. d.exp = Cur /\ d.phase = "asking" /\ d.no = 0 /\ d.left = {}
      BY DEF Idle
    <2>2. Cur \in Exp
      BY <1>0, <1>3 DEF StartExperiment
    <2>3. d \in Device
      BY <1>0, <2>2, DeviceTypes
    <2>4. Restarted(d) \/ UNCHANGED device
      BY <1>3, Zenon DEF StartExperiment
    <2> HIDE DEF d
    <2>5. ASSUME Restarted(d) PROVE DeviceInv'
      <3>1. /\ device'.exp = Cur /\ device'.phase = "asking" /\ device'.no = 0
            /\ device'.left = {}
        BY <1>0, <2>1, <2>3, <2>5, RestartedFields
      <3> QED
        BY <2>2, <3>1 DEF DeviceInv
    <2> QED
      BY <1>1, <2>4, <2>5
  <1>4. CASE BecomeReady
    <2>1. ASSUME Restarted(Idle) PROVE DeviceInv'
      <3>1. device'.phase = "idle" /\ device'.no = 0 /\ device'.left = {}
        BY <1>0, <2>1, DeviceTypes, RestartedFields DEF Idle
      <3> QED
        BY <3>1 DEF DeviceInv
    <2> QED
      BY <1>1, <1>4, <2>1 DEF BecomeReady
  <1>5. CASE Acknowledged
    <2>1. /\ device.phase = "asking" /\ device'.exp = device.exp
          /\ device'.phase = "measuring" /\ device'.no = device.no
          /\ device'.left = device.left
      BY <1>0, <1>5 DEF Acknowledged, Device
    <2> QED
      BY <1>0, <2>1 DEF DeviceInv
  <1>6. CASE MessageHeard
    <2>1. /\ device.phase = "measuring" /\ device'.exp = device.exp
          /\ device'.phase = "measuring" /\ device'.no = device.no + 1
      BY <1>0, <1>6 DEF MessageHeard, Device
    <2>2. device.no + 1 \in 1 .. MaxMsg
      BY <1>0, <1>6, AppAssumption DEF MessageHeard, Device
    <2> QED
      BY <1>0, <2>1, <2>2 DEF DeviceInv
  <1>7. CASE MeasuringOver
    <2>1. device'.phase = "idle" /\ device'.no = 0 /\ device'.left = {}
      BY <1>7 DEF MeasuringOver, Idle
    <2> QED
      BY <2>1 DEF DeviceInv
  <1>8. ASSUME NEW k \in {"st", "ct"}, Notification(k)
        PROVE  DeviceInv'
    <2>1. /\ device.left # {} /\ device'.exp = device.exp
          /\ device'.phase = device.phase /\ device'.no = device.no
      BY <1>0, <1>8 DEF Notification, Device
    <2> QED
      BY <1>0, <2>1 DEF DeviceInv
  <1>9. CASE \/ \E b \in BOOLEAN : CreateExperiment(b)
             \/ \E e \in Exp : OpenExperiment(e) \/ DeleteExperiment(e)
             \/ LeaveScreen \/ Connect \/ Disconnect
             \/ PrepareSender \/ CancelPreparation \/ ToStartExperiment
             \/ LogLocation \/ DelayOver \/ ExperimentOver
             \/ CompleteLocations \/ StartNextExperiment \/ UNCHANGED vars
    BY <1>1, <1>9, Zenon
    DEF CreateExperiment, OpenExperiment, DeleteExperiment, LeaveScreen, Connect, Disconnect,
        PrepareSender, CancelPreparation, ToStartExperiment, LogLocation, DelayOver,
        ExperimentOver, CompleteLocations, StartNextExperiment, vars
  <1>10. CASE PingDevice \/ PingAnswered \/ NoResponse
    <2>1. PICK b \in BOOLEAN : device' = [device EXCEPT !.ping = b]
      BY <1>10, Zenon DEF PingDevice, PingAnswered, NoResponse
    <2> QED
      BY <1>0, <1>2, <2>1, PingTypes
  <1> QED
    BY <1>3, <1>4, <1>5, <1>6, <1>7, <1>8, <1>9, <1>10 DEF Next

\* The app and the device keep the types and the shape of the screens.
LEMMA AppInvariant == Spec => []AppInv
  <1>1. AppInv /\ [Next]_vars => AppInv'
    BY NextTypeOK, NextScreenInv, NextDeviceInv DEF AppInv
  <1> QED
    BY <1>1, InitAppInv, PTL DEF Spec

\* The tables, the screens' fields and the device are well-typed, with any number
\* of experiments and messages: no screen ever works on an experiment that is
\* not there.
THEOREM AppTypeOK == Spec => []TypeOK
  <1>1. AppInv => TypeOK
    BY DEF AppInv
  <1> QED
    BY <1>1, AppInvariant, PTL
-----------------------------------------------------------------------------
(* The columns.                                                            *)

\* One row is replaced: the columns of a finished experiment stay written when
\* those of the new row are.
LEMMA FinishedKept ==
  ASSUME Written, NEW e \in Exp,
         \A f \in Exp : f # e => exps'[f] = exps[f],
         exps'[e].state = "finished" =>
           exps'[e].sender # "null" /\ exps'[e].receiver # "null" /\ exps'[e].started
  PROVE  \A f \in Exp : exps'[f].state = "finished" =>
           exps'[f].sender # "null" /\ exps'[f].receiver # "null" /\ exps'[f].started
  BY DEF Written

LEMMA InitWritten == Init => Written
  <1>1. ASSUME Init PROVE \A e \in Exp : exps[e].state = "none"
    BY <1>1 DEF Init, NewExperiment
  <1>2. Init => screen.at = "overview" /\ ~start.gpsLogged /\ start.timer = "none"
    BY DEF Init, Overview, FreshStart
  <1> QED
    BY <1>1, <1>2 DEF Written, Live, At

LEMMA NextWritten ==
  ASSUME AppInv, Written, [Next]_vars
  PROVE  Written'
  <1>0. exps \in Table /\ screen \in Screen /\ start \in Start /\ ScreenInv
    BY DEF AppInv, TypeOK, Table, Experiment, Screen
  <1>1. \A e \in Exp : exps[e] \in Experiment
    BY <1>0 DEF Table
  <1>2. At("prepare") \/ At("start") => Cur \in Exp
    BY <1>0, Zenon DEF ScreenInv
  <1>3. start.timer \in {"delay", "run"} => Live
    BY <1>0, FreshFields, Zenon DEF ScreenInv, Screen, Live, At
  <1>4. ASSUME NEW l \in Reports PROVE l \in Location /\ l # "null"
    BY AppAssumption DEF Location
  <1>5. ASSUME UNCHANGED <<exps, screen, start>>, prepared' => prepared
        PROVE  Written'
    BY <1>5 DEF Written, Live, At, Cur
  <1>6. ASSUME NEW b \in BOOLEAN, CreateExperiment(b)
        PROVE  Written'
    <2>1. PICK e \in Exp :
                 /\ exps' = [exps EXCEPT ![e] = NewExperiment("ready")]
                 /\ IF b THEN Show("prepare", e)
                    ELSE UNCHANGED <<screen, up, ready, prepared, start>>
      BY <1>6, Zenon DEF CreateExperiment
    <2>2. exps'[e].state = "ready" /\ \A f \in Exp : f # e => exps'[f] = exps[f]
      BY <1>0, <2>1 DEF Table, NewExperiment
    <2>3. \/ screen'.at = "prepare" /\ ~prepared'
          \/ screen'.at = "overview"
      BY <1>6, <2>1 DEF CreateExperiment, At, Show
    <2>4. ~start'.gpsLogged /\ start'.timer = "none"
      <3>1. \/ start' = FreshStart(exps[e].state = "finished")
            \/ start' = FreshStart(FALSE)
        BY <1>0, <1>6, <2>1, Zenon DEF CreateExperiment, Show, ScreenInv
      <3> QED
        BY <3>1, FreshFields, Zenon
    <2> QED
      BY <2>2, <2>3, <2>4, FinishedKept DEF Written, Live, At
  <1>7. ASSUME NEW e \in Exp, OpenExperiment(e)
        PROVE  Written'
    <2>1. /\ exps' = exps /\ prepared' = FALSE
          /\ screen'.at = IF exps[e].state = "ready" THEN "prepare" ELSE "start"
          /\ start' = FreshStart(exps[e].state = "finished")
          /\ exps[e].state \in {"ready", "finished"}
      BY <1>7 DEF OpenExperiment, Show
    <2>2. /\ ~start'.gpsLogged /\ start'.timer = "none"
          /\ start'.info = (exps[e].state = "finished")
      BY <2>1, FreshFields
    <2> QED
      BY <2>1, <2>2, Zenon DEF Written, Live, At
  <1>8. ASSUME NEW e \in Exp, DeleteExperiment(e)
        PROVE  Written'
    <2>1. exps'[e].state = "deleted" /\ \A f \in Exp : f # e => exps'[f] = exps[f]
      BY <1>0, <1>8 DEF DeleteExperiment, Table, NewExperiment
    <2>2. screen'.at = "overview" /\ ~start'.gpsLogged /\ start'.timer = "none"
      BY <1>0, <1>8, FreshFields, Zenon DEF DeleteExperiment, At, ScreenInv
    <2> QED
      BY <2>1, <2>2, FinishedKept DEF Written, Live, At
  <1>9. CASE LeaveScreen
    <2>1. /\ screen'.at = "overview" /\ ~start'.gpsLogged /\ start'.timer = "none"
          /\ exps' = exps
      BY <1>9, FreshFields, Zenon DEF LeaveScreen, ScreenGone, Overview
    <2> QED
      BY <2>1 DEF Written, Live, At
  <1>10. CASE Connect \/ BecomeReady \/ Disconnect \/ CancelPreparation
              \/ MessageHeard \/ MeasuringOver \/ PingDevice \/ PingAnswered
              \/ UNCHANGED vars
    BY <1>5, <1>10 DEF Connect, BecomeReady, Disconnect, CancelPreparation, MessageHeard,
                       MeasuringOver, PingDevice, PingAnswered, vars
  <1>11. CASE PrepareSender
    <2>1. PICK l \in Reports : exps' = [exps EXCEPT ![Cur].sender = l]
      BY <1>11, Zenon DEF PrepareSender
    <2>2. /\ Cur \in Exp /\ exps[Cur].state = "ready" /\ At("prepare")
          /\ start = FreshStart(FALSE) /\ start' = start /\ screen' = screen
      BY <1>0, <1>11 DEF PrepareSender, ScreenInv
    <2>3. /\ exps'[Cur].state = "ready" /\ exps'[Cur].sender = l
          /\ \A f \in Exp : f # Cur => exps'[f] = exps[f]
      BY <1>0, <1>1, <2>1, <2>2 DEF Table, Experiment
    <2>4. ~start'.gpsLogged /\ start'.timer = "none"
      BY <2>2, FreshFields, Zenon
    <2> QED
      BY <1>4, <2>2, <2>3, <2>4, FinishedKept, Zenon DEF Written, Live, At, Cur
  <1>12. CASE ToStartExperiment
    <2>1. Cur \in Exp /\ exps[Cur].state = "ready" /\ At("prepare")
      BY <1>0, <1>12 DEF ToStartExperiment, ScreenInv
    <2>2. /\ exps'[Cur].state = "ready" /\ exps'[Cur].sender # "null"
          /\ \A f \in Exp : f # Cur => exps'[f] = exps[f]
      BY <1>0, <1>1, <1>12, <2>1 DEF ToStartExperiment, Table, Experiment, Written
    <2>3. screen'.at = "start" /\ screen'.exp = Cur
      BY <1>12 DEF ToStartExperiment, Show
    <2>4. ~start'.gpsLogged /\ start'.timer = "none"
      BY <1>12, FreshFields DEF ToStartExperiment, Show
    <2> QED
      BY <2>1, <2>2, <2>3, <2>4, FinishedKept DEF Written, Live, At, Cur
  <1>13. CASE LogLocation
    <2>1. PICK l \in Reports : exps' = [exps EXCEPT ![Cur].receiver = l]
      BY <1>13, Zenon DEF LogLocation
    <2>2. /\ Live /\ Cur \in Exp /\ exps[Cur].state = "ready" /\ screen' = screen
          /\ start'.timer = start.timer /\ start.timer # "run"
      BY <1>0, <1>2, <1>13 DEF LogLocation, Live, Start
    <2>3. /\ exps'[Cur].state = "ready" /\ exps'[Cur].sender = exps[Cur].sender
          /\ exps'[Cur].receiver = l
          /\ \A f \in Exp : f # Cur => exps'[f] = exps[f]
      BY <1>0, <1>1, <2>1, <2>2 DEF Table, Experiment
    <2> QED
      BY <1>4, <2>2, <2>3, FinishedKept DEF Written, Live, At, Cur
  <1>14. CASE StartExperiment
    <2>1. /\ exps' = exps /\ screen' = screen /\ Live /\ start'.timer = start.timer
          /\ start'.gpsLogged = start.gpsLogged
      BY <1>0, <1>14 DEF StartExperiment, Start
    <2> QED
      BY <2>1 DEF Written, Live, At, Cur
  <1>15. CASE DelayOver
    <2>1. PICK l \in IF start.gpsLogged THEN {exps[Cur].receiver} ELSE Reports :
                 exps' = [exps EXCEPT ![Cur].started = TRUE, ![Cur].receiver = l]
      BY <1>15, Zenon DEF DelayOver
    <2>2. Live /\ Cur \in Exp /\ screen' = screen
      BY <1>2, <1>3, <1>15 DEF DelayOver, Live
    <2>3. l # "null"
      BY <1>4, <2>1 DEF Written
    <2>4. /\ exps'[Cur].state = exps[Cur].state /\ exps'[Cur].sender = exps[Cur].sender
          /\ exps'[Cur].receiver = l /\ exps'[Cur].started
          /\ \A f \in Exp : f # Cur => exps'[f] = exps[f]
      BY <1>0, <1>1, <2>1, <2>2 DEF Table, Experiment
    <2> QED
      BY <2>2, <2>3, <2>4, FinishedKept DEF Written, Live, At, Cur
  <1>16. CASE ExperimentOver
    <2>1. Live /\ Cur \in Exp /\ screen' = screen /\ start.timer = "run" /\ start'.timer = "none"
      BY <1>0, <1>2, <1>3, <1>16 DEF ExperimentOver, Live, Start
    <2>2. /\ exps'[Cur].sender = exps[Cur].sender /\ exps'[Cur].receiver = exps[Cur].receiver
          /\ exps'[Cur].started = exps[Cur].started
          /\ \A f \in Exp : f # Cur => exps'[f] = exps[f]
      BY <1>0, <1>1, <1>16, <2>1 DEF ExperimentOver, Table, Experiment
    <2> QED
      BY <2>1, <2>2, FinishedKept DEF Written, Live, At, Cur
  <1>17. CASE CompleteLocations
    <2>1. PICK s, r \in BOOLEAN :
                 exps' = [exps EXCEPT
                            ![Cur].sender = IF s /\ @ = "-1" THEN "gps" ELSE @,
                            ![Cur].receiver = IF r /\ @ = "-1" THEN "gps" ELSE @]
      BY <1>17, Zenon DEF CompleteLocations
    <2>2. Cur \in Exp /\ screen' = screen /\ start' = start /\ At("start")
      BY <1>2, <1>17 DEF CompleteLocations
    <2>3. /\ exps'[Cur].state = exps[Cur].state /\ exps'[Cur].started = exps[Cur].started
          /\ exps[Cur].sender # "null" => exps'[Cur].sender # "null"
          /\ exps[Cur].receiver # "null" => exps'[Cur].receiver # "null"
          /\ \A f \in Exp : f # Cur => exps'[f] = exps[f]
      BY <1>0, <2>1, <2>2, Completed, Zenon
    <2> QED
      BY <2>2, <2>3, FinishedKept DEF Written, Live, At, Cur
  <1>18. CASE StartNextExperiment
    <2>1. PICK f \in Exp :
                 /\ exps[f].state = "ready"
                 /\ exps' = [exps EXCEPT ![f].sender = exps[Cur].sender]
                 /\ Show("start", f)
      BY <1>18, Zenon DEF StartNextExperiment
    <2>2. /\ exps'[f].state = "ready" /\ exps'[f].sender = exps[Cur].sender
          /\ \A g \in Exp : g # f => exps'[g] = exps[g]
      BY <1>0, <1>1, <2>1 DEF Table, Experiment
    <2>3. exps[Cur].sender # "null"
      BY <1>18 DEF StartNextExperiment, Written
    <2>4. screen'.at = "start" /\ screen'.exp = f
      BY <2>1 DEF Show
    <2>5. ~start'.gpsLogged /\ start'.timer = "none"
      BY <2>1, FreshFields DEF Show
    <2> QED
      BY <2>2, <2>3, <2>4, <2>5, FinishedKept DEF Written, Live, At, Cur
  <1>19. CASE Acknowledged
    <2>1. /\ exps' = exps /\ screen' = screen /\ prepared' = prepared
          /\ start'.gpsLogged = start.gpsLogged /\ start'.info = start.info
          /\ start'.timer = start.timer \/ start'.timer = "delay"
      BY <1>0, <1>19 DEF Acknowledged, Start
    <2> QED
      BY <2>1 DEF Written, Live, At, Cur
  <1>20. ASSUME NEW k \in {"st", "ct"}, Notification(k)
         PROVE  Written'
    <2>1. start' = start \/ \E x : start' = [start EXCEPT !.entry = x]
      BY <1>20 DEF Notification, Pair
    <2>2. /\ exps' = exps /\ screen' = screen /\ prepared' = prepared
          /\ start'.gpsLogged = start.gpsLogged /\ start'.info = start.info
          /\ start'.timer = start.timer
      BY <1>0, <1>20, <2>1 DEF Notification, Start
    <2> QED
      BY <2>2 DEF Written, Live, At, Cur
  <1>21. CASE NoResponse
    <2>1. CASE up /\ Live
      <3>1. /\ screen'.at = "overview" /\ ~start'.gpsLogged /\ start'.timer = "none"
            /\ exps' = exps
        <4>1. ScreenGone /\ exps' = exps
          BY <1>21, <2>1, Zenon DEF NoResponse
        <4> QED
          BY <4>1, FreshFields, Zenon DEF ScreenGone, Overview
      <3> QED
        BY <3>1 DEF Written, Live, At
    <2>2. CASE ~(up /\ Live)
      BY <1>5, <1>21, <2>2 DEF NoResponse
    <2> QED
      BY <2>1, <2>2
  <1> QED
    BY <1>6, <1>7, <1>8, <1>9, <1>10, <1>11, <1>12, <1>13, <1>14, <1>15, <1>16, <1>17,
       <1>18, <1>19, <1>20, <1>21 DEF Next

\* The columns that are parsed without a test are written by then, with any
\* number of experiments: setupLocationHandler, enterDiffValuesIntoDB and
\* getWeatherData never meet a column that is still null.
THEOREM AppColumnsWritten == Spec => []ColumnsWritten
  <1>1. Written => ColumnsWritten
    BY DEF Written, ColumnsWritten
  <1> QED
    BY <1>1, AppInvariant, InitWritten, NextWritten, PTL DEF Spec

-----------------------------------------------------------------------------
(* The rows.                                                               *)

LEMMA InitRows == Init => Rows
  BY DEF Init, Rows, Halves, RowsMatch, FreshStart, Idle

\* Steps that leave what the device measures, the results and dbEntries alone,
\* unless they lose a half of a row.
LEMMA RowsFrame ==
  ASSUME Rows, DeviceInv, UNCHANGED <<mixed, logged>>, ~lossy' => ~lossy,
         device'.exp = device.exp, device'.phase = device.phase,
         device'.no = device.no, device'.left = device.left,
         ~lossy' => start'.entry = start.entry,
         ~lossy' /\ start.entry # NoRow => (Live => Live') /\ Cur' = Cur,
         \A e \in Exp : exps[e].state = "deleted" => exps'[e].state = "deleted"
  PROVE  Rows'
  <1>1. CASE lossy'
    BY <1>1 DEF Rows
  <1>2. CASE ~lossy'
    <2>1. Halves /\ RowsMatch /\ ~lossy
      BY <1>2 DEF Rows
    <2>2. Halves'
      BY <1>2, <2>1 DEF Halves, Current
    <2>3. RowsMatch'
      BY <1>2, <2>1 DEF RowsMatch, DeviceInv
    <2> QED
      BY <2>2, <2>3 DEF Rows
  <1> QED
    BY <1>1, <1>2

\* The device drops what it was doing.
LEMMA RowsRestarted ==
  ASSUME Rows, device \in Device, NEW d \in Device, Restarted(d), UNCHANGED mixed,
         start'.entry = start.entry, d.left = {}, d.phase # "measuring"
  PROVE  Rows'
  <1>1. CASE lossy'
    BY <1>1 DEF Rows
  <1>2. CASE ~lossy'
    <2>1. /\ ~lossy /\ device.left = {} /\ device'.left = {}
          /\ device'.phase # "measuring"
      BY <1>2, RestartedFields
    <2>2. start.entry = NoRow /\ RowsMatch
      BY <2>1 DEF Rows, Halves
    <2>3. Halves'
      BY <2>1, <2>2 DEF Halves
    <2>4. RowsMatch'
      BY <2>1, <2>2 DEF RowsMatch
    <2> QED
      BY <2>3, <2>4 DEF Rows
  <1> QED
    BY <1>1, <1>2

\* The second notification of a message completes its row.
LEMMA RowsNotification ==
  ASSUME AppInv, Rows, NEW k \in {"st", "ct"}, Notification(k)
  PROVE  Rows'
  <1>0. device \in Device /\ start \in Start /\ DeviceInv
    BY DEF AppInv, TypeOK
  <1>1. CASE lossy'
    BY <1>1 DEF Rows
  <1>2. CASE ~lossy'
    <2>1. /\ ~lossy /\ up /\ Live /\ Cur = device.exp /\ k \in device.left
          /\ Pair(k, Current) /\ exps' = exps /\ screen' = screen
      BY <1>2, Zenon DEF Notification, Current
    <2>2. Halves /\ RowsMatch
      BY <2>1 DEF Rows
    <2>3. /\ device'.exp = device.exp /\ device'.no = device.no
          /\ device'.phase = device.phase /\ device'.left = device.left \ {k}
      BY <1>0 DEF Notification, Device
    <2>4. Current' = Current /\ Cur' = Cur
      BY <2>1, <2>3 DEF Current, Cur
    <2>5. device.no \in Nat
      BY <1>0, AppAssumption DEF Device
    <2>6. CASE start.entry = NoRow
      <3>1. device.left = {"st", "ct"}
        BY <2>1, <2>2, <2>6 DEF Halves
      <3>2. /\ start' = [start EXCEPT !.entry = [NoRow EXCEPT ![k] = Current]]
            /\ UNCHANGED <<mixed, logged>>
        BY <2>1, <2>6 DEF Pair
      <3>3. start'.entry = [NoRow EXCEPT ![k] = Current] /\ start'.info = start.info
        BY <1>0, <3>2 DEF Start
      <3>4. \/ start'.entry = [st |-> Current, ct |-> NoMsg] /\ device'.left = {"ct"}
            \/ start'.entry = [st |-> NoMsg, ct |-> Current] /\ device'.left = {"st"}
        BY <2>3, <3>1, <3>3 DEF NoRow
      <3>5. Live'
        BY <2>1, <3>3 DEF Live, At
      <3>6. Halves'
        <4>1. device.exp # NoMsg.exp
          BY <1>0, <2>1, AppAssumption DEF DeviceInv, NoMsg, None, Exp
        <4>2. Current # NoMsg
          BY <4>1 DEF Current
        <4>3. start'.entry # NoRow
          BY <3>4, <4>2 DEF NoRow
        <4> QED
          BY <2>1, <2>3, <2>4, <3>4, <3>5, <4>3 DEF Halves
      <3>7. RowsMatch'
        BY <2>1, <2>2, <2>3, <3>2, <3>4 DEF RowsMatch
      <3> QED
        BY <3>6, <3>7 DEF Rows
    <2>7. CASE start.entry # NoRow
      <3>1. \/ start.entry = [st |-> Current, ct |-> NoMsg] /\ device.left = {"ct"}
            \/ start.entry = [st |-> NoMsg, ct |-> Current] /\ device.left = {"st"}
        BY <2>2, <2>7 DEF Halves
      <3>2. [start.entry EXCEPT ![k] = Current] = [st |-> Current, ct |-> Current]
        BY <2>1, <3>1
      <3>3. LogReceivedTransmission([st |-> Current, ct |-> Current])
        BY <2>1, <2>7, <3>2 DEF Pair
      <3>4. mixed' = mixed /\ logged' = logged \cup {device.no}
        BY <2>1, <3>3 DEF LogReceivedTransmission, Current
      <3>5. start'.entry = NoRow
        BY <1>0, <2>1, <2>7 DEF Pair, Start
      <3>6. device'.left = {}
        BY <2>1, <2>3, <3>1
      <3>7. Halves'
        BY <3>5, <3>6 DEF Halves
      <3>8. RowsMatch'
        <4>1. \A n \in 1 .. device.no : n < device.no \/ n = device.no
          BY <2>5
        <4> QED
          BY <2>1, <2>2, <2>3, <3>4, <4>1 DEF RowsMatch
      <3> QED
        BY <3>7, <3>8 DEF Rows
    <2> QED
      BY <2>6, <2>7
  <1> QED
    BY <1>1, <1>2

LEMMA NextRows ==
  ASSUME AppInv, Rows, [Next]_vars
  PROVE  Rows'
  <1>0. /\ exps \in Table /\ screen \in Screen /\ start \in Start /\ device \in Device
        /\ ScreenInv /\ DeviceInv
    BY DEF AppInv, TypeOK, Table, Experiment, Screen
  <1>1. \A e \in Exp : exps[e] \in Experiment
    BY <1>0 DEF Table
  <1>2. At("prepare") \/ At("start") => Cur \in Exp
    BY <1>0, Zenon DEF ScreenInv
  <1>3. start.timer \in {"delay", "run"} => Live
    BY <1>0, FreshFields, Zenon DEF ScreenInv, Screen, Live, At
  <1>4. At("overview") \/ At("prepare") => start.entry = NoRow
    BY <1>0, FreshFields, Zenon DEF ScreenInv
  <1>5. ASSUME UNCHANGED <<mixed, logged, device, lossy, screen>>,
               start'.entry = start.entry, start'.info = start.info,
               \A e \in Exp : exps[e].state = "deleted" => exps'[e].state = "deleted"
        PROVE  Rows'
    BY <1>0, <1>5, RowsFrame DEF Live, At, Cur
  <1>6. ASSUME NEW b \in BOOLEAN, CreateExperiment(b)
        PROVE  Rows'
    <2>1. PICK e \in Exp :
                 /\ exps[e].state = "none"
                 /\ exps' = [exps EXCEPT ![e] = NewExperiment("ready")]
                 /\ IF b THEN Show("prepare", e)
                    ELSE UNCHANGED <<screen, up, ready, prepared, start>>
      BY <1>6, Zenon DEF CreateExperiment
    <2>2. \A f \in Exp : exps[f].state = "deleted" => exps'[f].state = "deleted"
      BY <1>0, <2>1 DEF Table
    <2>3. start.entry = NoRow /\ start'.entry = NoRow
      BY <1>4, <1>6, <2>1, FreshFields DEF CreateExperiment, Show
    <2> QED
      BY <1>0, <1>6, <2>2, <2>3, RowsFrame DEF CreateExperiment
  <1>7. ASSUME NEW e \in Exp, OpenExperiment(e)
        PROVE  Rows'
    <2>1. start.entry = NoRow /\ start'.entry = NoRow
      BY <1>4, <1>7, FreshFields DEF OpenExperiment, Show
    <2> QED
      BY <1>0, <1>7, <2>1, RowsFrame DEF OpenExperiment
  <1>8. ASSUME NEW e \in Exp, DeleteExperiment(e)
        PROVE  Rows'
    <2>1. exps'[e].state = "deleted" /\ \A f \in Exp : f # e => exps'[f] = exps[f]
      BY <1>0, <1>8 DEF DeleteExperiment, Table, NewExperiment
    <2>2. start.entry = NoRow /\ start' = start /\ device' = device /\ lossy' = lossy
      BY <1>4, <1>8 DEF DeleteExperiment
    <2>3. ~lossy => Halves'
      BY <2>2 DEF Rows, Halves
    <2>4. ~lossy => RowsMatch'
      <3>1. CASE e = device.exp
        BY <1>8, <2>1, <2>2, <3>1 DEF DeleteExperiment, Rows, RowsMatch
      <3>2. CASE e # device.exp
        BY <1>0, <1>8, <2>1, <2>2, <3>2 DEF DeleteExperiment, Rows, RowsMatch, DeviceInv
      <3> QED
        BY <3>1, <3>2
    <2> QED
      BY <2>2, <2>3, <2>4 DEF Rows
  <1>9. CASE LeaveScreen
    <2>1. /\ ~lossy' => ~lossy /\ start.entry = NoRow
          /\ start'.entry = NoRow /\ UNCHANGED <<exps, mixed, logged, device>>
      BY <1>9, FreshFields, Zenon DEF LeaveScreen, ScreenGone
    <2> QED
      BY <1>0, <2>1, RowsFrame
  <1>10. CASE Connect \/ Disconnect \/ CancelPreparation \/ UNCHANGED vars
    BY <1>5, <1>10 DEF Connect, Disconnect, CancelPreparation, vars
  <1>11. CASE BecomeReady
    <2>1. CASE UNCHANGED <<device, logged, lossy>>
      BY <1>5, <1>11, <2>1 DEF BecomeReady
    <2>2. CASE Restarted(Idle)
      <3>1. Idle.left = {} /\ Idle.phase # "measuring"
        BY DEF Idle
      <3>2. UNCHANGED mixed /\ start'.entry = start.entry
        BY <1>11 DEF BecomeReady
      <3> QED
        BY <1>0, <2>2, <3>1, <3>2, DeviceTypes, RowsRestarted
    <2> QED
      BY <1>11, <2>1, <2>2 DEF BecomeReady
  <1>12. CASE PrepareSender
    <2>1. PICK l \in Reports : exps' = [exps EXCEPT ![Cur].sender = l]
      BY <1>12, Zenon DEF PrepareSender
    <2>2. \A e \in Exp : exps'[e].state = exps[e].state
      BY <1>0, <1>1, <2>1 DEF Table, Experiment
    <2> QED
      BY <1>5, <1>12, <2>2 DEF PrepareSender
  <1>13. CASE ToStartExperiment
    <2>1. \A e \in Exp : exps'[e].state = exps[e].state
      BY <1>0, <1>1, <1>13 DEF ToStartExperiment, Table, Experiment
    <2>2. start.entry = NoRow /\ start'.entry = NoRow
      BY <1>4, <1>13, FreshFields DEF ToStartExperiment, Show
    <2> QED
      BY <1>0, <1>13, <2>1, <2>2, RowsFrame DEF ToStartExperiment
  <1>14. CASE LogLocation
    <2>1. PICK l \in Reports : exps' = [exps EXCEPT ![Cur].receiver = l]
      BY <1>14, Zenon DEF LogLocation
    <2>2. \A e \in Exp : exps'[e].state = exps[e].state
      BY <1>0, <1>1, <2>1 DEF Table, Experiment
    <2>3. start'.entry = start.entry /\ start'.info = start.info
      BY <1>0, <1>14 DEF LogLocation, Start
    <2> QED
      BY <1>5, <1>14, <2>2, <2>3 DEF LogLocation
  <1>15. CASE StartExperiment
    <2>1. start'.entry = start.entry /\ start'.info = start.info
      BY <1>0, <1>15 DEF StartExperiment, Start
    <2>2. CASE UNCHANGED <<device, logged, lossy>>
      BY <1>5, <1>15, <2>1, <2>2 DEF StartExperiment
    <2>3. CASE Restarted([Idle EXCEPT !.exp = Cur, !.phase = "asking"])
      <3> DEFINE d == [Idle EXCEPT !.exp = Cur, !.phase = "asking"]
      <3>1. d.left = {} /\ d.phase # "measuring"
        BY DEF Idle
      <3>2. UNCHANGED mixed
        BY <1>15 DEF StartExperiment
      <3>3. d \in Device
        BY <1>0, <1>2, <1>15, DeviceTypes, Zenon DEF StartExperiment, Live
      <3>4. Restarted(d)
        BY <2>3
      <3> HIDE DEF d
      <3> QED
        BY <1>0, <2>1, <3>1, <3>2, <3>3, <3>4, RowsRestarted
    <2> QED
      BY <1>15, <2>2, <2>3 DEF StartExperiment
  <1>16. CASE DelayOver
    <2>1. PICK l : exps' = [exps EXCEPT ![Cur].started = TRUE, ![Cur].receiver = l]
      BY <1>16, Zenon DEF DelayOver
    <2>2. \A e \in Exp : exps'[e].state = exps[e].state
      BY <1>0, <1>1, <2>1 DEF Table, Experiment
    <2>3. start'.entry = start.entry /\ start'.info = start.info
      BY <1>0, <1>16 DEF DelayOver, Start
    <2> QED
      BY <1>5, <1>16, <2>2, <2>3, Zenon DEF DelayOver
  <1>17. CASE ExperimentOver
    <2>1. Cur \in Exp /\ exps[Cur].state \in {"ready", "finished"}
      BY <1>0, <1>3, <1>17 DEF ExperimentOver, ScreenInv, Live
    <2>2. \A e \in Exp : exps[e].state = "deleted" => exps'[e].state = "deleted"
      BY <1>0, <1>1, <1>17, <2>1 DEF ExperimentOver, Table, Experiment
    <2>3. start'.entry = start.entry /\ start'.info = start.info
      BY <1>0, <1>17 DEF ExperimentOver, Start
    <2> QED
      BY <1>5, <1>17, <2>2, <2>3 DEF ExperimentOver
  <1>18. CASE CompleteLocations
    <2>1. PICK s, r \in BOOLEAN :
                 exps' = [exps EXCEPT
                            ![Cur].sender = IF s /\ @ = "-1" THEN "gps" ELSE @,
                            ![Cur].receiver = IF r /\ @ = "-1" THEN "gps" ELSE @]
      BY <1>18, Zenon DEF CompleteLocations
    <2>2. /\ exps'[Cur].state = exps[Cur].state
          /\ \A f \in Exp : f # Cur => exps'[f] = exps[f]
      BY <1>0, <1>2, <1>18, <2>1, Completed, Zenon DEF CompleteLocations
    <2>3. \A e \in Exp : exps'[e].state = exps[e].state
      BY <2>2
    <2> QED
      BY <1>5, <1>18, <2>3, Zenon DEF CompleteLocations
  <1>19. CASE StartNextExperiment
    <2>1. PICK f \in Exp :
                 /\ exps' = [exps EXCEPT ![f].sender = exps[Cur].sender]
                 /\ Show("start", f)
      BY <1>19, Zenon DEF StartNextExperiment
    <2>2. \A e \in Exp : exps'[e].state = exps[e].state
      BY <1>0, <1>1, <2>1 DEF Table, Experiment
    <2>3. /\ ~lossy' => ~lossy /\ start.entry = NoRow
          /\ start'.entry = NoRow /\ UNCHANGED <<mixed, logged, device>>
      BY <1>19, <2>1, FreshFields, Zenon DEF StartNextExperiment, Show
    <2> QED
      BY <1>0, <2>2, <2>3, RowsFrame
  <1>20. CASE Acknowledged
    <2>1. /\ start'.entry = start.entry /\ exps' = exps /\ mixed' = mixed /\ lossy' = lossy
          /\ device'.left = device.left /\ device'.no = device.no
          /\ device.phase = "asking"
      BY <1>0, <1>20 DEF Acknowledged, Start, Device
    <2>2. device.left = {} /\ device.no = 0
      BY <1>0, <2>1 DEF DeviceInv
    <2>3. ~lossy => Halves'
      BY <2>1, <2>2 DEF Rows, Halves
    <2>4. ~lossy => RowsMatch'
      BY <2>1, <2>2 DEF Rows, RowsMatch
    <2> QED
      BY <2>1, <2>3, <2>4 DEF Rows
  <1>21. CASE MessageHeard
    <2>1. /\ device.phase = "measuring" /\ device.left = {}
          /\ device'.exp = device.exp /\ device'.no = device.no + 1
          /\ device'.left = {"st", "ct"}
          /\ UNCHANGED <<exps, start, mixed, logged, lossy>>
      BY <1>0, <1>21 DEF MessageHeard, Device
    <2>2. ~lossy => Halves'
      BY <2>1 DEF Rows, Halves
    <2>3. ~lossy => RowsMatch'
      <3>1. device.no \in Nat
        BY <1>0, AppAssumption DEF Device
      <3>2. \A n \in 1 .. device.no + 1 : n < device.no + 1 => n \in 1 .. device.no
        BY <3>1
      <3> QED
        BY <2>1, <3>2 DEF Rows, RowsMatch
    <2> QED
      BY <2>1, <2>2, <2>3 DEF Rows
  <1>22. CASE MeasuringOver
    <2>1. /\ device.left = {} /\ device'.left = {} /\ device'.phase = "idle"
          /\ UNCHANGED <<start, mixed, lossy>>
      BY <1>22 DEF MeasuringOver, Idle
    <2> QED
      BY <2>1 DEF Rows, Halves, RowsMatch
  <1>23. ASSUME NEW k \in {"st", "ct"}, Notification(k)
         PROVE  Rows'
    BY <1>23, RowsNotification
  <1>24. CASE PingDevice \/ PingAnswered \/ NoResponse
    <2>1. PICK b \in BOOLEAN : device' = [device EXCEPT !.ping = b]
      BY <1>24, Zenon DEF PingDevice, PingAnswered, NoResponse
    <2>2. /\ device'.exp = device.exp /\ device'.phase = device.phase
          /\ device'.no = device.no /\ device'.left = device.left
      BY <1>0, <2>1, PingTypes
    <2>3. UNCHANGED <<exps, mixed, logged>>
      BY <1>24, Zenon DEF PingDevice, PingAnswered, NoResponse
    <2>4. ScreenGone \/ UNCHANGED <<screen, start, lossy>>
      BY <1>24, Zenon DEF PingDevice, PingAnswered, NoResponse
    <2>5. CASE ScreenGone
      <3>1. /\ ~lossy' => ~lossy /\ start.entry = NoRow
            /\ start'.entry = NoRow
        BY <2>5, FreshFields, Zenon DEF ScreenGone
      <3> QED
        BY <1>0, <2>2, <2>3, <3>1, RowsFrame
    <2>6. CASE UNCHANGED <<screen, start, lossy>>
      BY <1>0, <2>2, <2>3, <2>6, RowsFrame DEF Live, At, Cur
    <2> QED
      BY <2>4, <2>5, <2>6
  <1> QED
    BY <1>6, <1>7, <1>8, <1>9, <1>10, <1>11, <1>12, <1>13, <1>14, <1>15, <1>16, <1>17,
       <1>18, <1>19, <1>20, <1>21, <1>22, <1>23, <1>24 DEF Next

\* As long as no notification is lost, logReceivedTransmission writes one row for
\* each message, with the statistics and the content of that message, in either
\* order of arrival and for any number of messages and experiments.
THEOREM AppRowsMatch == Spec => []RowsMatch
  <1>1. Rows => RowsMatch
    BY DEF Rows, RowsMatch
  <1> QED
    BY <1>1, AppInvariant, InitRows, NextRows, PTL DEF Spec
=============================================================================
