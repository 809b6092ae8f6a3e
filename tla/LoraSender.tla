----------------------------- MODULE LoraSender -----------------------------
(***************************************************************************)
(* The sending LoRa device: the GATT service subsys/bluetooth/services/    *)
(* lses.c and the connection callbacks of samples/lora_eval_send.          *)
(*                                                                         *)
(* The callbacks run on the Bluetooth thread, which is cooperative: each   *)
(* is one action.  The device's own threads have a preemptible priority:   *)
(* a callback or a received packet may come between any two of their       *)
(* steps.                                                                  *)
(*   0  exec_loop              sends a text in a loop (explore mode)       *)
(*   2  wait_for_ping_return   waits for the echo of a ping (explore mode) *)
(*   1, 3  exec_experiment     one experiment; at its end the thread       *)
(*                             starts the other one for the next           *)
(* Sleeps and timeouts last arbitrarily long.  The four threads have the   *)
(* same priority and no time slices: none of them runs while another is    *)
(* between two calls that block.                                           *)
(***************************************************************************)
EXTENDS Sx12xx

CONSTANTS
  HighPower,   \* the parameters with tx_power > 10
  LoopTexts,   \* the texts a phone may have sent in a loop
  LoopCounts,  \* the numbers of messages a phone asks a loop for
  LoopTimes,   \* the seconds between messages a phone asks for
  Heard,       \* the packets that may reach this device
  MaxUnread,   \* bound: packets counted by the semaphore
  Explore      \* whether the phone also uses the explore mode

VARIABLES
  config,       \* the static configuration
  radio,        \* the driver's state
  air,          \* what the device transmits
  connected,    \* bt_lses_connected
  note,         \* the last notification the phone received, 0 for none
  configVals,   \* config_vals
  stackNumber,  \* stack_number
  tid,          \* tid[t]: threadT_tid is not NULL
  pc,           \* where each thread is, "dead" for one that does not run
  exp,          \* the locals of exec_experiment on threads 1 and 3
  ping,         \* ping_content, the locals of wait_for_ping_return
  loop,         \* the globals and locals of exec_loop
  armed,        \* history: stack_number at the last preparation
  lost,         \* history: a callback came before thread3_tid was stored
  fault         \* k_thread_create was applied to a thread that runs

vars == <<config, radio, air, connected, note, configVals, stackNumber, tid,
          pc, exp, ping, loop, armed, lost, fault>>

ExpThread == {1, 3}

ASSUME SenderAssumption ==
  /\ Thread = 0 .. 3
  /\ Unset \notin Params
  /\ LoopTexts \subseteq Texts
  /\ LoopCounts \subseteq Nat
  /\ LoopTimes \subseteq Nat
  /\ Heard \subseteq Packet
  /\ MaxUnread \in Nat
  /\ Explore \in BOOLEAN

Labels ==
  {"dead", "loop", "start", "recv", "reconnect", "report",
   "listen", "listenRecv", "ack", "ackSend", "countdown", "combo", "msgs",
   "handover", "create", "store"}

TypeOK ==
  /\ config \in Config
  /\ radio \in Radio
  /\ air \in Signal
  /\ connected \in BOOLEAN
  /\ note \in {0, -2, -3, -4, -5}
  /\ configVals \in Params \cup {Unset}
  /\ stackNumber \in {0, 1}
  /\ tid \in [Thread -> BOOLEAN]
  /\ pc \in [Thread -> Labels]
  /\ exp \in [ExpThread -> [data : Packet, combo : Nat, msg : Nat]]
  /\ ping \in [content : Packet, resp : Packet, got : BOOLEAN]
  /\ loop \in [data : Packet, count : Uint16, time : Uint8, i : Nat]
  /\ armed \in {"none", "stack0", "stack1"}
  /\ lost \in BOOLEAN
  /\ fault \in BOOLEAN

FreshExp == [data |-> Zeros, combo |-> 0, msg |-> 0]

Init ==
  /\ config = [par |-> Unset, tx |-> FALSE]
  /\ radio = Booted
  /\ air = NoSignal
  /\ connected = FALSE
  /\ note = 0
  /\ configVals = Unset
  /\ stackNumber = 0
  /\ tid = [t \in Thread |-> FALSE]
  /\ pc = [t \in Thread |-> "dead"]
  /\ exp = [t \in ExpThread |-> FreshExp]
  /\ ping = [content |-> Zeros, resp |-> Zeros, got |-> FALSE]
  /\ loop = [data |-> Zeros, count |-> 0, time |-> 0, i |-> 0]
  /\ armed = "none"
  /\ lost = FALSE
  /\ fault = FALSE

-----------------------------------------------------------------------------
(* Steps shared by the handlers.                                           *)

\* bt_lses_notify: without a connection the notification is dropped.
Notify(code) == note' = IF connected THEN code ELSE note

\* Mutant: thread 3 is never aborted.
AbortedButThree(S) ==
  [t \in Thread |-> IF t \in S \ {3} /\ tid[t] THEN "dead" ELSE pc[t]]

\* k_thread_abort on the threads of S whose tid is set, as it changes pc.
Aborted(S) == [t \in Thread |-> IF t \in S /\ tid[t] THEN "dead" ELSE pc[t]]

\* ... and as it changes the driver: a waiting thread leaves the queue.
Dropped(r, t) == IF tid[t] THEN Unpend(r, t) ELSE r

\* config.tx = tx; lora_config
Retuned(tx) == [config EXCEPT !.tx = tx]

\* k_sem_take in lora_recv, after Radio.Rx
Take(t) ==
  /\ t \in radio.arm
  /\ radio' = SemTake(radio, t)
  /\ UNCHANGED <<config, air, connected, note, configVals, stackNumber, tid,
                 pc, exp, ping, loop, armed, lost, fault>>

-----------------------------------------------------------------------------
(* Connection callbacks, and the GATT callbacks of the explore mode.       *)

Connect ==
  /\ ~connected
  /\ connected' = TRUE
  /\ UNCHANGED <<config, radio, air, note, configVals, stackNumber, tid, pc,
                 exp, ping, loop, armed, lost, fault>>

Disconnect ==
  /\ connected
  /\ connected' = FALSE
  /\ UNCHANGED <<config, radio, air, note, configVals, stackNumber, tid, pc,
                 exp, ping, loop, armed, lost, fault>>

\* change_config_cb
ChangeConfig(p) ==
  /\ Explore /\ connected
  /\ config' = [par |-> p, tx |-> TRUE]
  /\ radio' = Configured(radio, config')
  /\ Notify(-2)
  /\ UNCHANGED <<air, connected, configVals, stackNumber, tid, pc, exp, ping,
                 loop, armed, lost, fault>>

\* send_command_cb with a text that is not a ping
SendCommand(x) ==
  /\ Explore /\ connected
  /\ air' = Transmission(ExploreMessage(x), radio.par)
  /\ radio' = Sending(radio)
  /\ UNCHANGED <<config, connected, note, configVals, stackNumber, tid, pc,
                 exp, ping, loop, armed, lost, fault>>

\* send_command_cb with a ping: the waiting thread is started anew
SendPing(x) ==
  /\ Explore /\ connected
  /\ air' = Transmission(ExplorePing(x), radio.par)
  /\ radio' = Dropped(Sending(radio), 2)
  /\ ping' = [content |-> ExplorePing(x), resp |-> Zeros, got |-> FALSE]
  /\ pc' = [Aborted({2}) EXCEPT ![2] = "start"]
  /\ tid' = [tid EXCEPT ![2] = TRUE]
  /\ UNCHANGED <<config, connected, note, configVals, stackNumber, exp, loop,
                 armed, lost, fault>>

\* loop_command_cb with '!' or '#': the loop's parameters
SetLoop(count, time) ==
  /\ Explore /\ connected
  /\ loop' = [loop EXCEPT !.count = count, !.time = time]
  /\ UNCHANGED <<config, radio, air, connected, note, configVals, stackNumber,
                 tid, pc, exp, ping, armed, lost, fault>>

SetLoopCount(k) == SetLoop(k % Word, loop.time)

SetLoopTime(k) == SetLoop(loop.count, k % Byte)

\* loop_command_cb with '$'
CancelLoop ==
  /\ Explore /\ connected
  /\ pc' = Aborted({0})
  /\ UNCHANGED <<config, radio, air, connected, note, configVals, stackNumber,
                 tid, exp, ping, loop, armed, lost, fault>>

\* loop_command_cb with a text, which may start with '&'
StartLoop(p) ==
  /\ Explore /\ connected
  /\ loop' = [loop EXCEPT !.data = p, !.i = 0]
  /\ pc' = [Aborted({0}) EXCEPT ![0] = "loop"]
  /\ tid' = [tid EXCEPT ![0] = TRUE]
  /\ UNCHANGED <<config, radio, air, connected, note, configVals, stackNumber,
                 exp, ping, armed, lost, fault>>

-----------------------------------------------------------------------------
(* exec_loop, thread 0: number_of_messages is read before every message.   *)

\* Mutant: i++ is missing.
LoopSendUncounted ==
  /\ pc[0] = "loop"
  /\ loop.i < loop.count
  /\ air' = Transmission(loop.data, radio.par)
  /\ radio' = Sending(radio)
  /\ UNCHANGED <<config, connected, note, configVals, stackNumber, tid, pc,
                 exp, ping, loop, armed, lost, fault>>

LoopSend ==
  /\ pc[0] = "loop"
  /\ loop.i < loop.count
  /\ air' = Transmission(loop.data, radio.par)
  /\ radio' = Sending(radio)
  /\ loop' = [loop EXCEPT !.i = @ + 1]
  /\ UNCHANGED <<config, connected, note, configVals, stackNumber, tid, pc,
                 exp, ping, armed, lost, fault>>

LoopEnd ==
  /\ pc[0] = "loop"
  /\ loop.i >= loop.count
  /\ pc' = [pc EXCEPT ![0] = "dead"]
  /\ UNCHANGED <<config, radio, air, connected, note, configVals, stackNumber,
                 tid, exp, ping, loop, armed, lost, fault>>

-----------------------------------------------------------------------------
(* wait_for_ping_return, thread 2.                                         *)

PingListen ==
  /\ pc[2] = "start"
  /\ config' = Retuned(FALSE)
  /\ radio' = RecvCall(Configured(radio, config'), 2)
  /\ pc' = [pc EXCEPT ![2] = "recv"]
  /\ UNCHANGED <<air, connected, note, configVals, stackNumber, tid, exp, ping,
                 loop, armed, lost, fault>>

\* Mutant: the configuration for sending is missing.
PingVerdictStaysReceiver(got, resp) ==
  /\ \/ ~got /\ Notify(-5)
     \/ got /\ Notify(IF resp = ping.content THEN -3 ELSE -4)
  /\ config' = config
  /\ pc' = [pc EXCEPT ![2] = "dead"]

\* The verdict reaches the phone and the sender is configured for sending.
PingVerdict(got, resp) ==
  /\ \/ ~got /\ Notify(-5)
     \/ got /\ resp = ping.content /\ Notify(-3)
     \/ got /\ resp # ping.content /\ Notify(-4)
  /\ config' = Retuned(TRUE)
  /\ pc' = [pc EXCEPT ![2] = "dead"]

\* lora_recv returned, with or without a response.  Above 10 dBm the phone's
\* connection breaks: the verdict waits until it is back.
PingReturn(got, resp, r) ==
  \/ /\ config.par \in HighPower
     /\ pc' = [pc EXCEPT ![2] = "reconnect"]
     /\ radio' = r
     /\ UNCHANGED <<config, note>>
  \/ /\ config.par \notin HighPower
     /\ PingVerdict(got, resp)
     /\ radio' = Configured(r, config')

PingReceived ==
  /\ pc[2] = "recv"
  /\ Received(radio, 2)
  /\ ping' = [ping EXCEPT !.resp = Store(@, radio.buf), !.got = TRUE]
  /\ PingReturn(TRUE, ping'.resp, radio)
  /\ UNCHANGED <<air, connected, configVals, stackNumber, tid, exp, loop,
                 armed, lost, fault>>

PingTimeout ==
  /\ pc[2] = "recv"
  /\ 2 \in radio.pend
  /\ PingReturn(FALSE, ping.resp, Unpend(radio, 2))
  /\ UNCHANGED <<air, connected, configVals, stackNumber, tid, exp, ping, loop,
                 armed, lost, fault>>

PingReconnected ==
  /\ pc[2] = "reconnect"
  /\ connected
  /\ pc' = [pc EXCEPT ![2] = "report"]
  /\ UNCHANGED <<config, radio, air, connected, note, configVals, stackNumber,
                 tid, exp, ping, loop, armed, lost, fault>>

PingReport ==
  /\ pc[2] = "report"
  /\ PingVerdict(ping.got, ping.resp)
  /\ radio' = Configured(radio, config')
  /\ UNCHANGED <<air, connected, configVals, stackNumber, tid, exp, ping, loop,
                 armed, lost, fault>>

-----------------------------------------------------------------------------
(* prepare_sender_cb.                                                      *)

\* The driver after both experiment threads were aborted.
BothDropped == Dropped(Dropped(radio, 3), 1)

\* Thread 3 was created but thread3_tid is NULL: it escapes the abort.
Thread3Escapes == pc[1] = "store" /\ ~tid[3]

\* One byte: a prepared sender is cancelled.
CancelPreparation ==
  /\ connected
  /\ config' = Retuned(TRUE)
  /\ radio' = Configured(BothDropped, config')
  /\ pc' = Aborted(ExpThread)
  /\ armed' = "none"
  /\ lost' = (lost \/ Thread3Escapes)
  /\ UNCHANGED <<air, connected, note, configVals, stackNumber, tid, exp, ping,
                 loop, fault>>

\* Five bytes: the sender is configured and thread 1 waits for an experiment.
Prepare(p) ==
  /\ connected
  /\ configVals' = p
  /\ config' = [par |-> p, tx |-> FALSE]
  /\ radio' = Configured(BothDropped, config')
  /\ Notify(-2)
  /\ fault' = (Aborted(ExpThread)[1] # "dead")
  /\ pc' = [Aborted(ExpThread) EXCEPT ![1] = "listen"]
  /\ exp' = [exp EXCEPT ![1] = FreshExp]
  /\ tid' = [tid EXCEPT ![1] = TRUE]
  /\ lost' = (lost \/ Thread3Escapes)
  /\ armed' = IF stackNumber = 0 THEN "stack0" ELSE "stack1"
  /\ UNCHANGED <<air, connected, stackNumber, ping, loop>>

-----------------------------------------------------------------------------
(* exec_experiment, threads 1 and 3: the start of an experiment.           *)

Listen(t) ==
  /\ pc[t] = "listen"
  /\ radio' = RecvCall(radio, t)
  /\ pc' = [pc EXCEPT ![t] = "listenRecv"]
  /\ UNCHANGED <<config, air, connected, note, configVals, stackNumber, tid,
                 exp, ping, loop, armed, lost, fault>>

\* Mutant: an array of signed bytes.
PingForgottenSigned(got) == [got EXCEPT !.head = -1]

\* data[0] = -1, into an array of bytes
PingForgotten(got) == [got EXCEPT !.head = 255]

\* A packet whose first byte is '!' is a ping: its 5 bytes are sent back.
AnswerPing(t) ==
  /\ pc[t] = "listenRecv"
  /\ Received(radio, t)
  /\ LET got == Store(exp[t].data, radio.buf)
     IN  /\ got.head = PingByte
         /\ air' = Transmission(FirstFive(got), config.par)
         /\ exp' = [exp EXCEPT ![t].data = PingForgotten(got)]
  /\ config' = Retuned(FALSE)
  /\ radio' = Configured(Sending(radio), config')
  /\ pc' = [pc EXCEPT ![t] = "listen"]
  /\ UNCHANGED <<connected, note, configVals, stackNumber, tid, ping, loop,
                 armed, lost, fault>>

\* Anything else is taken for the settings of an experiment.
Accept(t) ==
  /\ pc[t] = "listenRecv"
  /\ Received(radio, t)
  /\ LET got == Store(exp[t].data, radio.buf)
     IN  /\ got.head # PingByte
         /\ exp' = [exp EXCEPT ![t].data = got]
  /\ pc' = [pc EXCEPT ![t] = "ack"]
  /\ UNCHANGED <<config, radio, air, connected, note, configVals, stackNumber,
                 tid, ping, loop, armed, lost, fault>>

\* The sender is configured for sending and sleeps 200 ms.
PrepareAck(t) ==
  /\ pc[t] = "ack"
  /\ config' = Retuned(TRUE)
  /\ radio' = Configured(radio, config')
  /\ pc' = [pc EXCEPT ![t] = "ackSend"]
  /\ UNCHANGED <<air, connected, note, configVals, stackNumber, tid, exp, ping,
                 loop, armed, lost, fault>>

\* The data goes back as ACK, and the sender listens for the delay's length.
SendAck(t) ==
  /\ pc[t] = "ackSend"
  /\ air' = Transmission(exp[t].data, radio.par)
  /\ config' = Retuned(FALSE)
  /\ radio' = RecvCall(Configured(Sending(radio), config'), t)
  /\ pc' = [pc EXCEPT ![t] = "countdown"]
  /\ UNCHANGED <<connected, note, configVals, stackNumber, tid, exp, ping,
                 loop, armed, lost, fault>>

\* Any packet heard during the countdown overwrites the data: another ACK.
HearAgain(t) ==
  /\ pc[t] = "countdown"
  /\ Received(radio, t)
  /\ exp' = [exp EXCEPT ![t].data = Store(@, radio.buf)]
  /\ pc' = [pc EXCEPT ![t] = "ack"]
  /\ UNCHANGED <<config, radio, air, connected, note, configVals, stackNumber,
                 tid, ping, loop, armed, lost, fault>>

\* The delay is over: the experiment starts.
CountdownOver(t) ==
  /\ pc[t] = "countdown"
  /\ t \in radio.pend
  /\ radio' = Unpend(radio, t)
  /\ config' = Retuned(TRUE)
  /\ pc' = [pc EXCEPT ![t] = "combo"]
  /\ UNCHANGED <<air, connected, note, configVals, stackNumber, tid, exp, ping,
                 loop, armed, lost, fault>>

-----------------------------------------------------------------------------
(* exec_experiment: the measuring loops and the end.                       *)

\* The next combination is configured; 5 seconds pass.
NextCombo(t) ==
  /\ pc[t] = "combo"
  /\ exp[t].combo < Combos(exp[t].data)
  /\ config' = [config EXCEPT !.par = ComboPar(exp[t].data, exp[t].combo)]
  /\ radio' = Configured(radio, config')
  /\ exp' = [exp EXCEPT ![t].msg = 0]
  /\ pc' = [pc EXCEPT ![t] = "msgs"]
  /\ UNCHANGED <<air, connected, note, configVals, stackNumber, tid, ping,
                 loop, armed, lost, fault>>

Measure(t) ==
  /\ pc[t] = "msgs"
  /\ exp[t].msg < exp[t].data.head
  /\ air' = Transmission(Measurement(exp[t].combo), radio.par)
  /\ radio' = Sending(radio)
  /\ exp' = [exp EXCEPT ![t].msg = @ + 1]
  /\ UNCHANGED <<config, connected, note, configVals, stackNumber, tid, pc,
                 ping, loop, armed, lost, fault>>

ComboDone(t) ==
  /\ pc[t] = "msgs"
  /\ exp[t].msg >= exp[t].data.head
  /\ exp' = [exp EXCEPT ![t].combo = @ + 1]
  /\ pc' = [pc EXCEPT ![t] = "combo"]
  /\ UNCHANGED <<config, radio, air, connected, note, configVals, stackNumber,
                 tid, ping, loop, armed, lost, fault>>

\* "automatic preparation for another experiment"
ExperimentEnd(t) ==
  /\ pc[t] = "combo"
  /\ exp[t].combo >= Combos(exp[t].data)
  /\ config' = [par |-> configVals, tx |-> FALSE]
  /\ radio' = Configured(radio, config')
  /\ pc' = [pc EXCEPT ![t] = "handover"]
  /\ UNCHANGED <<air, connected, note, configVals, stackNumber, tid, exp, ping,
                 loop, armed, lost, fault>>

SwitchStack(t) ==
  /\ pc[t] = "handover"
  /\ stackNumber' = 1 - stackNumber
  /\ pc' = [pc EXCEPT ![t] = "create"]
  /\ UNCHANGED <<config, radio, air, connected, note, configVals, tid, exp,
                 ping, loop, armed, lost, fault>>

\* Mutant: the branches are swapped.
SuccessorSwapped == IF stackNumber = 0 THEN 3 ELSE 1

\* The thread stack_number now stands for: the next experiment runs on it.
Successor == IF stackNumber = 1 THEN 3 ELSE 1

\* The successor is aborted; a thread that aborts itself goes no further.
AbortSelf(t) ==
  /\ pc[t] = "create"
  /\ t = Successor /\ tid[t]
  /\ pc' = [pc EXCEPT ![t] = "dead"]
  /\ UNCHANGED <<config, radio, air, connected, note, configVals, stackNumber,
                 tid, exp, ping, loop, armed, lost, fault>>

\* Otherwise it is aborted and created.
CreateNext(t) ==
  /\ pc[t] = "create"
  /\ ~(t = Successor /\ tid[t])
  /\ radio' = Dropped(radio, Successor)
  /\ fault' = (Aborted({Successor})[Successor] # "dead")
  /\ pc' = [pc EXCEPT ![t] = "store", ![Successor] = "listen"]
  /\ exp' = [exp EXCEPT ![Successor] = FreshExp]
  /\ UNCHANGED <<config, air, connected, note, configVals, stackNumber, tid,
                 ping, loop, armed, lost>>

\* The result of k_thread_create is stored, and the thread returns.
StoreTid(t) ==
  /\ pc[t] = "store"
  /\ tid' = [tid EXCEPT ![Successor] = TRUE]
  /\ pc' = [pc EXCEPT ![t] = "dead"]
  /\ UNCHANGED <<config, radio, air, connected, note, configVals, stackNumber,
                 exp, ping, loop, armed, lost, fault>>

-----------------------------------------------------------------------------

\* The interrupt handler of the radio: a packet arrived.
Hear(p) ==
  /\ radio.rx
  /\ radio.sem < MaxUnread
  /\ radio' = RxDone(radio, p)
  /\ UNCHANGED <<config, air, connected, note, configVals, stackNumber, tid,
                 pc, exp, ping, loop, armed, lost, fault>>

LoopStarted ==
  \E x \in LoopTexts : \E p \in {ExploreMessage(x), ExplorePing(x)} :
    StartLoop(p)

Callback ==
  \/ Connect \/ Disconnect \/ CancelLoop \/ CancelPreparation
  \/ \E p \in Params : ChangeConfig(p) \/ Prepare(p)
  \/ \E x \in Texts : SendCommand(x) \/ SendPing(x)
  \/ LoopStarted
  \/ \E k \in LoopCounts : SetLoopCount(k)
  \/ \E k \in LoopTimes : SetLoopTime(k)

LoopStep == LoopSend \/ LoopEnd

PingStep ==
  PingListen \/ Take(2) \/ PingReceived \/ PingTimeout \/ PingReconnected \/ PingReport

ExperimentStep(t) ==
  \/ Listen(t) \/ Take(t) \/ AnswerPing(t) \/ Accept(t) \/ PrepareAck(t) \/ SendAck(t)
  \/ HearAgain(t) \/ CountdownOver(t) \/ NextCombo(t) \/ Measure(t)
  \/ ComboDone(t) \/ ExperimentEnd(t) \/ SwitchStack(t) \/ AbortSelf(t)
  \/ CreateNext(t) \/ StoreTid(t)

\* A thread created over a running one: nothing is known of the device.
Crashed == fault /\ UNCHANGED vars

\* No thread of S is between two steps that do not block, those of the handover
\* and those of lora_recv: else the other threads have to wait.
Yielded(S) ==
  \A t \in S : pc[t] \notin {"handover", "create", "store"} /\ t \notin radio.arm

\* An echo is only heard of a ping that was sent.
Plausible(p) == p.head = AmpByte => p = ping.content

RunLoop == ~fault /\ Yielded(Thread \ {0}) /\ LoopStep
RunPing == ~fault /\ Yielded(Thread \ {2}) /\ PingStep
RunExperiment(t) == ~fault /\ Yielded(Thread \ {t}) /\ ExperimentStep(t)

Next ==
  \/ ~fault /\ Callback
  \/ RunLoop
  \/ RunPing
  \/ \E t \in ExpThread : RunExperiment(t)
  \/ \E p \in Heard : ~fault /\ Plausible(p) /\ Hear(p)
  \/ Crashed

Spec == Init /\ [][Next]_vars

\* The scheduler runs a ready thread as soon as the ones before it block: a
\* thread that is ready again and again, between the steps of others that do
\* not block, gets its turn.
FairSpec ==
  /\ Spec
  /\ SF_vars(RunLoop)
  /\ WF_vars(RunPing)
  /\ \A t \in ExpThread : WF_vars(RunExperiment(t))

-----------------------------------------------------------------------------
(* Properties.                                                             *)

\* Thread t runs an experiment, or waits for one.
Active(t) == pc[t] \notin {"dead", "store"}

\* Unless thread 3 escaped an abort, the callbacks and the handover at the end
\* of an experiment never leave two experiment threads at work on the radio,
\* and k_thread_create is never applied to a running thread.
OneExperimentThread == ~lost => ~fault /\ ~(Active(1) /\ Active(3))

\* A sender prepared while stack_number was 0, and not cancelled since, always
\* has a thread that waits for the next experiment or runs one, however many
\* experiments have ended (the handover at the end of exec_experiment).
StaysPrepared == armed = "stack0" /\ ~fault => \E t \in ExpThread : Active(t)

\* The same for every preparation: "automatic preparation for another
\* experiment" (exec_experiment).
AutomaticPreparation ==
  armed # "none" /\ ~fault => \E t \in ExpThread : Active(t)

\* The threads suspended in lora_recv, and only they, are in the queue of the
\* semaphore, each at a point of its code where it waits for a packet, and no
\* packet is unread meanwhile: whatever callbacks abort and timeouts end, a
\* packet is neither given to a thread that is gone nor slept over (lora_recv,
\* k_thread_abort).
PacketsReachWaiters ==
  ~fault =>
    /\ radio.pend = {radio.waitq[i] : i \in 1 .. Len(radio.waitq)}
    /\ \A t \in radio.pend : pc[t] \in {"recv", "listenRecv", "countdown"}
    /\ radio.pend # {} => radio.sem = 0

\* Without explore mode, and unless thread 3 escaped an abort, a measuring
\* message leaves with the combination's parameters, in a sending radio, and
\* a waiting sender is queued on a radio that receives (exec_experiment).
ExperimentOwnsRadio ==
  ~Explore /\ ~lost =>
    \A t \in ExpThread :
      /\ pc[t] = "msgs" =>
           radio.tx /\ radio.par = ComboPar(exp[t].data, exp[t].combo)
      /\ t \in radio.pend => radio.rx /\ ~radio.tx

\* A sender that waits for neither a ping nor an experiment is configured for
\* sending (the last lines of wait_for_ping_return and the cancellation).
IdleSenderCanSend ==
  (\A t \in Thread \ {0} : pc[t] = "dead") /\ armed = "none" =>
    config.tx \/ config.par = Unset

\* A sending loop ends unless it is started again and again, also when the
\* number of messages changes while it runs (exec_loop).
LoopEnds ==
  []<>(pc[0] # "loop" \/ fault) \/ []<><<LoopStarted>>_vars
=============================================================================
