---------------------------- MODULE LoraReceiver ----------------------------
(***************************************************************************)
(* The receiving LoRa device: the GATT service subsys/bluetooth/services/  *)
(* lres.c and the connection callbacks of samples/lora_eval_rcv.           *)
(*                                                                         *)
(* The callbacks run on the cooperative Bluetooth thread: each is one      *)
(* action.  The device's own threads are                                   *)
(*   0  receive_lora           receives in explore mode                    *)
(*   1  exec_experiment        one experiment                              *)
(*   2  wait_for_ping_return   one ping before an experiment               *)
(* A step of theirs goes from one call that may block to the next.  Sleeps *)
(* and timeouts last arbitrarily long.                                     *)
(*                                                                         *)
(* The writes come from the phone's StartExperimentScreen, which writes    *)
(* its configuration on every connection, and a ping or the settings only  *)
(* once the device has confirmed it; or from the explore mode.             *)
(***************************************************************************)
EXTENDS Sx12xx

CONSTANTS
  HighPower,   \* the parameters with tx_power > 10
  Delays,      \* Delays[t]: what atoi may read from the delay in tail t (the
               \*   digits are not terminated: what follows may be read too)
  Heard,       \* the packets that may reach this device
  MaxUnread,   \* bound: packets counted by the semaphore
  Explore      \* whether the phone also uses the explore mode

VARIABLES
  config,       \* the static configuration
  radio,        \* the driver's state
  air,          \* what the device transmits
  connected,    \* bt_lres_connected
  note,         \* the last notification the phone received, 0 for none
  reconnect,    \* reconnect
  tid,          \* tid[t]: threadT_tid is not NULL
  pc,           \* where each thread is, "dead" for one that does not run
  rcvData,      \* data of receive_lora
  exp,          \* the locals of exec_experiment
  ping,         \* the locals of wait_for_ping_return
  screen,       \* the phone: no experiment's screen, one open, or one started
  asked,        \* the phone: the configuration of its screen
  ready,        \* the phone: the configuration was confirmed since connecting
  early,        \* history: it was confirmed while an experiment was running
  meddled,      \* history: the last request came while another was under way
  fault         \* memory beyond an array was overwritten

vars == <<config, radio, air, connected, note, reconnect, tid, pc, rcvData,
          exp, ping, screen, asked, ready, early, meddled, fault>>

phone == <<screen, asked, ready>>
history == <<early, meddled>>

\* The seconds a phone needs to reconnect after a transmission above 10 dBm.
ReconnectTime == 17

\* Notifications of a received message: its statistics, then its content.
Stats == 1
Content == 2

ASSUME ReceiverAssumption ==
  /\ Thread = 0 .. 2
  /\ Unset \notin Params
  /\ Delays \in [Tails -> SUBSET Uint16]
  /\ \A t \in Tails : Combinations[t] > 0 /\ Delays[t] # {}
  /\ Heard \subseteq Packet
  /\ MaxUnread \in Nat
  /\ Explore \in BOOLEAN

Labels ==
  {"dead", "receive", "recv", "content",
   "send", "ackRecv", "settle", "combo", "windowRecv", "windowContent",
   "again", "start", "reconnect", "report"}

FreshExp == [data |-> Zeros, ack |-> Zeros, combo |-> 0, delay |-> 0]

TypeOK ==
  /\ config \in Config
  /\ radio \in Radio
  /\ air \in Signal
  /\ connected \in BOOLEAN
  /\ note \in {0, Stats, Content} \cup -7 .. -2
  /\ reconnect \in BOOLEAN
  /\ tid \in [Thread -> BOOLEAN]
  /\ pc \in [Thread -> Labels]
  /\ rcvData \in Packet
  /\ exp \in [data : Packet, ack : Packet, combo : Nat, delay : Uint16]
  /\ ping \in [resp : Packet, got : BOOLEAN]
  /\ screen \in {"none", "open", "started"}
  /\ asked \in Params \cup {Unset}
  /\ ready \in BOOLEAN
  /\ early \in BOOLEAN
  /\ meddled \in BOOLEAN
  /\ fault \in BOOLEAN

Init ==
  /\ config = [par |-> Unset, tx |-> FALSE]
  /\ radio = Booted
  /\ air = NoSignal
  /\ connected = FALSE
  /\ note = 0
  /\ reconnect = FALSE
  /\ tid = [t \in Thread |-> FALSE]
  /\ pc = [t \in Thread |-> "dead"]
  /\ rcvData = Zeros
  /\ exp = FreshExp
  /\ ping = [resp |-> Zeros, got |-> FALSE]
  /\ screen = "none"
  /\ asked = Unset
  /\ ready = FALSE
  /\ early = FALSE
  /\ meddled = FALSE
  /\ fault = FALSE

-----------------------------------------------------------------------------
(* Steps shared by the handlers.                                           *)

\* bt_lres_notify: without a connection the notification is dropped.
Notify(code) == note' = IF connected THEN code ELSE note

\* k_thread_abort on thread t if its tid is set, as it changes a pc ...
Aborted(p, t) == [p EXCEPT ![t] = IF tid[t] THEN "dead" ELSE @]

\* ... and the driver: a waiting thread leaves the queue.
Dropped(r, t) == IF tid[t] THEN Unpend(r, t) ELSE r

\* k_thread_create for thread t, after the abort of the one before.
Created(p, t, label) == [Aborted(p, t) EXCEPT ![t] = label]

\* Mutant: config.tx keeps its value.
RetunedNot(tx) == config

\* config.tx = tx; lora_config
Retuned(tx) == [config EXCEPT !.tx = tx]

\* k_sem_take in lora_recv, after Radio.Rx
Take(t) ==
  /\ t \in radio.arm
  /\ radio' = SemTake(radio, t)
  /\ UNCHANGED <<config, air, connected, note, reconnect, tid, pc, rcvData,
                 exp, ping, phone, history, fault>>

-----------------------------------------------------------------------------
(* The phone and the callbacks.                                            *)

Connect ==
  /\ ~connected
  /\ connected' = TRUE
  /\ UNCHANGED <<config, radio, air, note, reconnect, tid, pc, rcvData, exp,
                 ping, phone, history, fault>>

Disconnect ==
  /\ connected
  /\ connected' = FALSE
  /\ ready' = FALSE
  /\ UNCHANGED <<config, radio, air, note, reconnect, tid, pc, rcvData, exp,
                 ping, screen, asked, history, fault>>

\* The phone's user opens the screen of an experiment, or leaves it; with the
\* screen the connection ends.
ShowScreen(s, p) ==
  /\ ~connected
  /\ screen' = s
  /\ asked' = p
  /\ UNCHANGED <<config, radio, air, connected, note, reconnect, tid, pc,
                 rcvData, exp, ping, ready, history, fault>>

OpenScreen(p) == ShowScreen("open", p)

LeaveScreen == screen # "none" /\ ShowScreen("none", asked)

\* change_config_cb, in explore mode
ChangeConfig(p) ==
  /\ Explore /\ connected /\ screen = "none"
  /\ config' = [par |-> p, tx |-> FALSE]
  /\ radio' = Configured(Reset(Dropped(radio, 0)), config')
  /\ Notify(-2)
  /\ pc' = Created(pc, 0, "receive")
  /\ tid' = [tid EXCEPT ![0] = TRUE]
  /\ rcvData' = Zeros
  /\ meddled' = (pc[1] # "dead" \/ pc[2] # "dead")
  /\ UNCHANGED <<air, connected, reconnect, exp, ping, phone, early, fault>>

\* Mutant: reconnect is not checked.
ExperimentConfigAlways ==
  /\ connected /\ screen # "none" /\ ~ready
  /\ config' = [par |-> asked, tx |-> TRUE]
  /\ radio' = Configured(Reset(Dropped(radio, 0)), config')
  /\ reconnect' = TRUE
  /\ Notify(-2)
  /\ ready' = TRUE
  /\ pc' = Aborted(pc, 0)
  /\ early' = IF screen = "open" THEN pc[1] # "dead" ELSE early
  /\ UNCHANGED <<air, connected, tid, rcvData, exp, ping, screen, asked,
                 meddled, fault>>

\* experiment_settings_cb with five bytes, on every connection
ExperimentConfig ==
  /\ connected /\ screen # "none" /\ ~ready
  /\ \/ /\ reconnect
        /\ radio' = Dropped(radio, 0)
        /\ UNCHANGED config
     \/ /\ ~reconnect
        /\ config' = [par |-> asked, tx |-> TRUE]
        /\ radio' = Configured(Reset(Dropped(radio, 0)), config')
  /\ reconnect' = TRUE
  /\ Notify(-2)
  /\ ready' = TRUE
  /\ pc' = Aborted(pc, 0)
  /\ early' = IF screen = "open" THEN pc[1] # "dead" ELSE early
  /\ UNCHANGED <<air, connected, tid, rcvData, exp, ping, screen, asked,
                 meddled, fault>>

\* ... with one byte: a ping
PingSender ==
  /\ connected /\ screen = "open" /\ ready
  /\ radio' = Dropped(Dropped(radio, 0), 2)
  /\ pc' = Created(Aborted(pc, 0), 2, "start")
  /\ tid' = [tid EXCEPT ![2] = TRUE]
  /\ ping' = [resp |-> Zeros, got |-> FALSE]
  /\ meddled' = (early \/ pc[1] # "dead")
  /\ UNCHANGED <<config, air, connected, note, reconnect, rcvData, exp, phone,
                 early, fault>>

\* ... with the settings: the experiment starts.  For a configuration above
\* 10 dBm the phone has added the time to reconnect to the delay.
StartExperiment(e) ==
  /\ connected /\ screen = "open" /\ ready
  /\ asked \in HighPower => \A d \in Delays[e.tail] : d >= ReconnectTime
  /\ radio' = Dropped(Dropped(radio, 0), 1)
  /\ pc' = Created(Aborted(pc, 0), 1, "send")
  /\ tid' = [tid EXCEPT ![1] = TRUE]
  /\ exp' = [FreshExp EXCEPT !.data = e]
  /\ screen' = "started"
  /\ meddled' = (early \/ pc[2] # "dead")
  /\ UNCHANGED <<config, air, connected, note, reconnect, rcvData, ping, asked,
                 ready, early, fault>>

-----------------------------------------------------------------------------
(* receive_lora, thread 0.                                                 *)

Receive ==
  /\ pc[0] = "receive"
  /\ radio' = RecvCall(radio, 0)
  /\ pc' = [pc EXCEPT ![0] = "recv"]
  /\ UNCHANGED <<config, air, connected, note, reconnect, tid, rcvData, exp,
                 ping, phone, history, fault>>

\* A packet whose first byte is '&' is a ping: what was received goes back.
AnswerPing ==
  /\ pc[0] = "recv"
  /\ Received(radio, 0)
  /\ rcvData' = Store(rcvData, radio.buf)
  /\ rcvData'.head = AmpByte
  /\ air' = Transmission(radio.buf, config.par)
  /\ config' = Retuned(FALSE)
  /\ radio' = Configured(Sending(radio), config')
  /\ pc' = [pc EXCEPT ![0] = "receive"]
  /\ UNCHANGED <<connected, note, reconnect, tid, exp, ping, phone, history, fault>>

ReceiveMessage ==
  /\ pc[0] = "recv"
  /\ Received(radio, 0)
  /\ rcvData' = Store(rcvData, radio.buf)
  /\ rcvData'.head # AmpByte
  /\ Notify(Stats)
  /\ pc' = [pc EXCEPT ![0] = "content"]
  /\ UNCHANGED <<config, radio, air, connected, reconnect, tid, exp, ping,
                 phone, history, fault>>

ReceiveContent ==
  /\ pc[0] = "content"
  /\ Notify(Content)
  /\ pc' = [pc EXCEPT ![0] = "receive"]
  /\ UNCHANGED <<config, radio, air, connected, reconnect, tid, rcvData, exp,
                 ping, phone, history, fault>>

-----------------------------------------------------------------------------
(* exec_experiment, thread 1: the start of an experiment.                  *)

\* The settings are sent, and the receiver waits 2 seconds for the ACK.
SendSettings ==
  /\ pc[1] = "send"
  /\ air' = Transmission(exp.data, radio.par)
  /\ config' = Retuned(FALSE)
  /\ radio' = RecvCall(Configured(Sending(radio), config'), 1)
  /\ pc' = [pc EXCEPT ![1] = "ackRecv"]
  /\ UNCHANGED <<connected, note, reconnect, tid, rcvData, exp, ping, phone,
                 history, fault>>

AckTimeout ==
  /\ pc[1] = "ackRecv"
  /\ 1 \in radio.pend
  /\ radio' = Unpend(radio, 1)
  /\ Notify(-5)
  /\ pc' = [pc EXCEPT ![1] = "send"]
  /\ UNCHANGED <<config, air, connected, reconnect, tid, rcvData, exp, ping,
                 phone, history, fault>>

\* Another packet is ignored, and the settings are sent again.
AckMismatch ==
  /\ pc[1] = "ackRecv"
  /\ Received(radio, 1)
  /\ exp' = [exp EXCEPT !.ack = Store(@, radio.buf)]
  /\ exp'.ack # exp.data
  /\ pc' = [pc EXCEPT ![1] = "send"]
  /\ UNCHANGED <<config, radio, air, connected, note, reconnect, tid, rcvData,
                 ping, phone, history, fault>>

\* Mutant: a signed number.
LessReconnectTimeSigned(d) == d - ReconnectTime

\* d, an unsigned number of 16 bits, less the time to reconnect.
LessReconnectTime(d) == (d - ReconnectTime) % Word

\* The ACK: above 10 dBm the receiver waits for the phone to reconnect.
AckReceived ==
  /\ pc[1] = "ackRecv"
  /\ Received(radio, 1)
  /\ Store(exp.ack, radio.buf) = exp.data
  /\ Notify(-6)
  /\ \E d \in Delays[exp.data.tail] :
       \/ /\ config.par \in HighPower
          /\ exp' = [exp EXCEPT !.ack = exp.data,
                                !.delay = LessReconnectTime(d)]
          /\ pc' = [pc EXCEPT ![1] = "settle"]
          /\ UNCHANGED config
       \/ /\ config.par \notin HighPower
          /\ exp' = [exp EXCEPT !.ack = exp.data, !.delay = d]
          /\ config' = Retuned(FALSE)
          /\ pc' = [pc EXCEPT ![1] = "combo"]
  /\ UNCHANGED <<radio, air, connected, reconnect, tid, rcvData, ping, phone,
                 history, fault>>

Settled ==
  /\ pc[1] = "settle"
  /\ Notify(-6)
  /\ config' = Retuned(FALSE)
  /\ pc' = [pc EXCEPT ![1] = "combo"]
  /\ UNCHANGED <<radio, air, connected, reconnect, tid, rcvData, exp, ping,
                 phone, history, fault>>
-----------------------------------------------------------------------------
(* exec_experiment: one receive window for each combination.               *)

\* Mutant: lora_config is only called after lora_init.
NextWindowSameFrequency ==
  /\ pc[1] = "combo"
  /\ exp.combo < Combos(exp.data)
  /\ config' = [config EXCEPT !.par = ComboPar(exp.data, exp.combo)]
  /\ LET r == IF exp.combo % Combinations[exp.data.tail] = 0
              THEN Configured(Reset(radio), config') ELSE radio
     IN  radio' = RecvCall(r, 1)
  /\ pc' = [pc EXCEPT ![1] = "windowRecv"]
  /\ UNCHANGED <<air, connected, note, reconnect, tid, rcvData, exp, ping,
                 phone, history, fault>>

\* The next combination is configured, on a new frequency after lora_init.
NextWindow ==
  /\ pc[1] = "combo"
  /\ exp.combo < Combos(exp.data)
  /\ config' = [config EXCEPT !.par = ComboPar(exp.data, exp.combo)]
  /\ LET r == IF exp.combo % Combinations[exp.data.tail] = 0
              THEN Reset(radio) ELSE radio
     IN  radio' = RecvCall(Configured(r, config'), 1)
  /\ pc' = [pc EXCEPT ![1] = "windowRecv"]
  /\ UNCHANGED <<air, connected, note, reconnect, tid, rcvData, exp, ping,
                 phone, history, fault>>

WindowHeard ==
  /\ pc[1] = "windowRecv"
  /\ Received(radio, 1)
  /\ Notify(Stats)
  /\ pc' = [pc EXCEPT ![1] = "windowContent"]
  /\ UNCHANGED <<config, radio, air, connected, reconnect, tid, rcvData, exp,
                 ping, phone, history, fault>>

WindowContent ==
  /\ pc[1] = "windowContent"
  /\ Notify(Content)
  /\ pc' = [pc EXCEPT ![1] = "again"]
  /\ UNCHANGED <<config, radio, air, connected, reconnect, tid, rcvData, exp,
                 ping, phone, history, fault>>

\* Time is left in the window.
ListenAgain ==
  /\ pc[1] = "again"
  /\ radio' = RecvCall(radio, 1)
  /\ pc' = [pc EXCEPT ![1] = "windowRecv"]
  /\ UNCHANGED <<config, air, connected, note, reconnect, tid, rcvData, exp,
                 ping, phone, history, fault>>

WindowOver ==
  /\ pc[1] = "again" \/ (pc[1] = "windowRecv" /\ 1 \in radio.pend)
  /\ radio' = Unpend(radio, 1)
  /\ exp' = [exp EXCEPT !.combo = @ + 1]
  /\ pc' = [pc EXCEPT ![1] = "combo"]
  /\ UNCHANGED <<config, air, connected, note, reconnect, tid, rcvData, ping,
                 phone, history, fault>>

ExperimentEnd ==
  /\ pc[1] = "combo"
  /\ exp.combo >= Combos(exp.data)
  /\ reconnect' = FALSE
  /\ pc' = [pc EXCEPT ![1] = "dead"]
  /\ UNCHANGED <<config, radio, air, connected, note, tid, rcvData, exp, ping,
                 phone, history, fault>>

-----------------------------------------------------------------------------
(* wait_for_ping_return, thread 2.                                         *)

PingSend ==
  /\ pc[2] = "start"
  /\ air' = Transmission(Ping, radio.par)
  /\ config' = Retuned(FALSE)
  /\ radio' = RecvCall(Configured(Sending(radio), config'), 2)
  /\ pc' = [pc EXCEPT ![2] = "recv"]
  /\ UNCHANGED <<connected, note, reconnect, tid, rcvData, exp, ping, phone,
                 history, fault>>

\* The verdict reaches the phone and the device is configured for sending.
PingVerdict(got, resp) ==
  /\ \/ ~got /\ Notify(-7)
     \/ got /\ resp = Ping /\ Notify(-3)
     \/ got /\ resp # Ping /\ Notify(-4)
  /\ config' = Retuned(TRUE)
  /\ pc' = [pc EXCEPT ![2] = "dead"]

\* lora_recv returned.  Above 10 dBm the verdict waits for the reconnection.
PingReturn(got, resp, r) ==
  \/ /\ config.par \in HighPower
     /\ pc' = [pc EXCEPT ![2] = "reconnect"]
     /\ radio' = r
     /\ UNCHANGED <<config, note>>
  \/ /\ config.par \notin HighPower
     /\ PingVerdict(got, resp)
     /\ radio' = Configured(r, config')

\* resp has room for 5 bytes, but up to MAX_DATA_LEN are copied: a longer
\* packet overwrites what follows it, with consequences or without.
PingReceived ==
  /\ pc[2] = "recv"
  /\ Received(radio, 2)
  /\ ping' = [resp |-> FirstFive(radio.buf), got |-> TRUE]
  /\ fault' \in IF radio.buf.tail = NoTail THEN {FALSE} ELSE BOOLEAN
  /\ PingReturn(TRUE, ping'.resp, radio)
  /\ UNCHANGED <<air, connected, reconnect, tid, rcvData, exp, phone,
                 history>>

PingTimeout ==
  /\ pc[2] = "recv"
  /\ 2 \in radio.pend
  /\ PingReturn(FALSE, ping.resp, Unpend(radio, 2))
  /\ UNCHANGED <<air, connected, reconnect, tid, rcvData, exp, ping, phone,
                 history, fault>>

PingReconnected ==
  /\ pc[2] = "reconnect"
  /\ connected
  /\ pc' = [pc EXCEPT ![2] = "report"]
  /\ UNCHANGED <<config, radio, air, connected, note, reconnect, tid, rcvData,
                 exp, ping, phone, history, fault>>

PingReport ==
  /\ pc[2] = "report"
  /\ PingVerdict(ping.got, ping.resp)
  /\ radio' = Configured(radio, config')
  /\ UNCHANGED <<air, connected, reconnect, tid, rcvData, exp, ping, phone,
                 history, fault>>

-----------------------------------------------------------------------------

\* The interrupt handler of the radio: a packet arrived.
Hear(p) ==
  /\ radio.rx
  /\ radio.sem < MaxUnread
  /\ radio' = RxDone(radio, p)
  /\ UNCHANGED <<config, air, connected, note, reconnect, tid, pc, rcvData,
                 exp, ping, phone, history, fault>>

Callback ==
  \/ Connect \/ Disconnect \/ LeaveScreen \/ ExperimentConfig \/ PingSender
  \/ \E p \in Params : OpenScreen(p) \/ ChangeConfig(p)
  \/ \E e \in Settings : StartExperiment(e)

ReceiveStep == Receive \/ Take(0) \/ AnswerPing \/ ReceiveMessage \/ ReceiveContent

ExperimentStep ==
  \/ SendSettings \/ Take(1) \/ AckTimeout \/ AckMismatch \/ AckReceived \/ Settled
  \/ NextWindow \/ WindowHeard \/ WindowContent \/ ListenAgain \/ WindowOver
  \/ ExperimentEnd

PingStep ==
  PingSend \/ Take(2) \/ PingReceived \/ PingTimeout \/ PingReconnected \/ PingReport

\* Thread t need not wait, or has its packet.
Ready(t) ==
  \/ pc[t] \in {"recv", "ackRecv", "windowRecv"} /\ t \notin radio.pend
  \/ pc[t] \in {"receive", "content", "send", "combo", "windowContent",
                "again", "start"}

\* The threads share a priority and have no time slices.  A thread whose timeout
\* or sleep has ended runs after those that were ready; at "combo", and in
\* lora_recv before k_sem_take, a thread goes on before any other runs.
Turn(t) ==
  /\ Ready(t) \/ \A u \in Thread : ~Ready(u)
  /\ t = 1 \/ pc[1] # "combo"
  /\ radio.arm \subseteq {t}

\* The stack or the queue of the semaphore is damaged: nothing is known of the
\* device.
Broken == fault \/ radio.torn

Crashed == Broken /\ UNCHANGED vars

Next ==
  \/ ~Broken /\ Callback
  \/ ~Broken /\ Turn(0) /\ ReceiveStep
  \/ ~Broken /\ Turn(1) /\ ExperimentStep
  \/ ~Broken /\ Turn(2) /\ PingStep
  \/ \E p \in Heard : ~Broken /\ Hear(p)
  \/ Crashed

Spec == Init /\ [][Next]_vars
-----------------------------------------------------------------------------
(* Properties.                                                             *)

\* In every receive window the chip is set to the combination's parameters and
\* to receiving, and the waiting thread is queued for the next packet: "start
\* experiment as receiver" (exec_experiment).  The phone may reconnect, leave
\* the screen, open and confirm another, even start another experiment; only a
\* ping or the explore mode during an experiment, and an experiment started
\* during a ping or confirmed during another experiment, may spoil it.
MeasuresAsReceiver ==
  pc[1] = "windowRecv" /\ ~meddled /\ ~Broken =>
    /\ ~radio.tx /\ radio.par = ComboPar(exp.data, exp.combo)
    /\ 1 \in radio.pend => radio.rx /\ radio.waitq = <<1>>

\* Whichever thread waits for a packet can get one, with the same provisos: the
\* chip receives with the device's configuration, and the thread is in the
\* queue although lora_init empties it (change_config, exec_experiment).
WaitersListen ==
  \A t \in radio.pend : ~meddled /\ ~Broken =>
    /\ radio.rx /\ ~radio.tx /\ radio.par = config.par
    /\ radio.waitq = <<t>> /\ radio.sem = 0

\* A phone that connects while an experiment runs, with the screen of that
\* experiment or of another, writes its configuration but changes nothing: "for
\* handling the high dBm LoRa/ble connection loss problem" (the flag reconnect),
\* with the same provisos.
ReconnectionHarmless ==
  [][~ready /\ ready' /\ pc[1] # "dead" /\ ~meddled =>
       UNCHANGED <<config, radio>>]_vars

\* Once the device has confirmed a screen's configuration, it uses it: "LoRa
\* configuration synchronized" (StartExperimentScreen, experiment_settings_cb).
ConfigSynchronised ==
  ready /\ screen = "open" /\ pc[1] = "dead" => config.par = asked
=============================================================================
