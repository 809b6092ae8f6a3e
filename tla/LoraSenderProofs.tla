-------------------------- MODULE LoraSenderProofs --------------------------
(***************************************************************************)
(* Proofs about the sender, for every choice of its constants.             *)
(***************************************************************************)
EXTENDS LoraSender, Sx12xxProofs

-----------------------------------------------------------------------------
(* Type correctness.                                                       *)

\* A configuration keeps its type when only tx changes.
LEMMA RetunedType ==
  ASSUME config \in Config, NEW tx \in BOOLEAN
  PROVE  Retuned(tx) \in Config
  BY DEF Config, Retuned

\* A notification keeps its type.
LEMMA NotifyType ==
  ASSUME TypeOK, NEW code \in {-2, -3, -4, -5}, Notify(code)
  PROVE  note' \in {0, -2, -3, -4, -5}
  BY DEF TypeOK, Notify

\* An abort keeps the types of pc ...
LEMMA AbortedType ==
  ASSUME TypeOK, NEW S
  PROVE  Aborted(S) \in [Thread -> Labels]
  BY DEF TypeOK, Aborted, Labels

\* ... and of the driver.
LEMMA DroppedType ==
  ASSUME NEW r \in Radio, NEW t \in Thread
  PROVE  Dropped(r, t) \in Radio
  BY RadioTypes DEF Dropped

\* A thread that goes on to another label keeps the type of pc.
LEMMA MovedType ==
  ASSUME TypeOK, NEW t, NEW l \in Labels
  PROVE  [pc EXCEPT ![t] = l] \in [Thread -> Labels]
  BY DEF TypeOK

\* Transmissions are signals.
LEMMA TransmissionType ==
  ASSUME NEW p \in Packet, NEW par \in Pars
  PROVE  Transmission(p, par) \in Signal
  BY DEF Transmission, Signal

\* The initial state is well-typed.
LEMMA InitTypeOK == Init => TypeOK
  <1> SUFFICES ASSUME Init PROVE TypeOK
    OBVIOUS
  <1> USE DEF Init
  <1>1. Zeros \in Packet
    BY PacketTypes
  <1>2. config \in Config
    BY DEF Config, Pars
  <1>3. radio \in Radio
    <2>1. << >> \in Seq(Thread)
      BY EmptySeq
    <2> QED
      BY <1>1, <2>1 DEF Booted, Radio, Pars
  <1>4. air \in Signal
    BY DEF Signal
  <1>5. /\ tid \in [Thread -> BOOLEAN]
        /\ pc \in [Thread -> Labels]
        /\ exp \in [ExpThread -> [data : Packet, combo : Nat, msg : Nat]]
    BY <1>1 DEF Labels, FreshExp
  <1>6. /\ ping \in [content : Packet, resp : Packet, got : BOOLEAN]
        /\ loop \in [data : Packet, count : Uint16, time : Uint8,
                     i : Nat]
    <2>1. 0 \in Uint16 /\ 0 \in Uint8
      BY StoredTypes
    <2> QED
      BY <1>1, <2>1
  <1> QED
    BY <1>2, <1>3, <1>4, <1>5, <1>6 DEF TypeOK

\* The callbacks keep the types.
LEMMA CallbackTypeOK ==
  ASSUME TypeOK, Callback
  PROVE  TypeOK'
  <1> USE SenderAssumption
  <1>0. /\ radio.par \in Pars /\ Sending(radio) \in Radio
        /\ Zeros \in Packet
        /\ \A x \in Texts : ExplorePing(x) \in Packet /\ ExploreMessage(x) \in Packet
    BY RadioTypes, TextTypes, PacketTypes DEF TypeOK
  <1>1. CASE Connect
    BY <1>1 DEF TypeOK, Connect
  <1>2. CASE Disconnect
    BY ZenonT(60), <1>2 DEF TypeOK, Disconnect
  <1>3. CASE CancelLoop
    BY <1>3, AbortedType DEF TypeOK, CancelLoop
  <1>4. CASE CancelPreparation
    <2>0. BothDropped \in Radio
      BY DroppedType DEF TypeOK, BothDropped
    <2>1. config' \in Config
      BY <1>4, RetunedType DEF TypeOK, CancelPreparation
    <2>2. radio' \in Radio
      BY <1>4, <2>0, <2>1, ConfiguredType DEF CancelPreparation
    <2>3. pc' \in [Thread -> Labels]
      BY <1>4, AbortedType DEF CancelPreparation, TypeOK
    <2> QED
      BY <1>4, <2>1, <2>2, <2>3 DEF TypeOK, CancelPreparation, Thread3Escapes
  <1>5. ASSUME NEW p \in Params, ChangeConfig(p)
        PROVE  TypeOK'
    <2>1. config' \in Config
      BY <1>5 DEF ChangeConfig, Config, Pars
    <2>2. radio' \in Radio
      BY <1>5, <2>1, ConfiguredType DEF ChangeConfig, TypeOK
    <2>3. note' \in {0, -2, -3, -4, -5}
      BY <1>5, NotifyType DEF ChangeConfig
    <2> QED
      BY <1>5, <2>1, <2>2, <2>3 DEF TypeOK, ChangeConfig
  <1>6. ASSUME NEW p \in Params, Prepare(p)
        PROVE  TypeOK'
    <2>1. config' \in Config /\ BothDropped \in Radio
      BY <1>6, DroppedType DEF TypeOK, Prepare, BothDropped, Config, Pars
    <2>2. radio' \in Radio
      BY <1>6, <2>1, ConfiguredType DEF Prepare
    <2>3. note' \in {0, -2, -3, -4, -5}
      BY <1>6, NotifyType DEF Prepare
    <2>4. Aborted(ExpThread) \in [Thread -> Labels]
      BY AbortedType DEF TypeOK
    <2>5. pc' \in [Thread -> Labels] /\ tid' \in [Thread -> BOOLEAN]
      BY <1>6, <2>4 DEF Prepare, TypeOK, Labels
    <2>6. exp' \in [ExpThread -> [data : Packet, combo : Nat, msg : Nat]]
      BY <1>6, <1>0 DEF Prepare, TypeOK, FreshExp
    <2> QED
      BY <1>6, <2>1, <2>2, <2>3, <2>5, <2>6
      DEF TypeOK, Prepare, Thread3Escapes
  <1>7. ASSUME NEW x \in Texts, SendCommand(x)
        PROVE  TypeOK'
    <2>1. air' \in Signal
      BY <1>7, <1>0, TransmissionType DEF SendCommand
    <2> QED
      BY <1>7, <1>0, <2>1 DEF TypeOK, SendCommand
  <1>8. ASSUME NEW x \in Texts, SendPing(x)
        PROVE  TypeOK'
    <2>1. air' \in Signal
      BY <1>8, <1>0, TransmissionType DEF SendPing
    <2>2. radio' \in Radio
      BY <1>8, <1>0, DroppedType DEF SendPing
    <2>3. Aborted({2}) \in [Thread -> Labels]
      BY AbortedType DEF TypeOK
    <2>4. pc' \in [Thread -> Labels] /\ tid' \in [Thread -> BOOLEAN]
      BY <1>8, <2>3 DEF SendPing, TypeOK, Labels
    <2> QED
      BY <1>8, <1>0, <2>1, <2>2, <2>4 DEF TypeOK, SendPing
  <1>9. ASSUME NEW p \in Packet, StartLoop(p)
        PROVE  TypeOK'
    <2>1. Aborted({0}) \in [Thread -> Labels]
      BY AbortedType DEF TypeOK
    <2>2. pc' \in [Thread -> Labels] /\ tid' \in [Thread -> BOOLEAN]
      BY <1>9, <2>1 DEF StartLoop, TypeOK, Labels
    <2>3. loop' \in [data : Packet, count : Uint16, time : Uint8, i : Nat]
      BY <1>9 DEF StartLoop, TypeOK
    <2> QED
      BY <1>9, <2>2, <2>3 DEF TypeOK, StartLoop
  <1>10. ASSUME NEW k \in LoopCounts, SetLoopCount(k)
         PROVE  TypeOK'
    <2>1. k % Word \in Uint16
      BY StoredTypes
    <2> QED
      BY ZenonT(60), <1>10, <2>1 DEF TypeOK, SetLoopCount, SetLoop
  <1>11. ASSUME NEW k \in LoopTimes, SetLoopTime(k)
         PROVE  TypeOK'
    <2>1. k % Byte \in Uint8
      BY StoredTypes
    <2> QED
      BY ZenonT(60), <1>11, <2>1 DEF TypeOK, SetLoopTime, SetLoop
  <1>12. CASE LoopStarted
    BY <1>12, <1>9, <1>0 DEF LoopStarted
  <1> QED
    BY <1>1, <1>2, <1>3, <1>4, <1>5, <1>6, <1>7, <1>8, <1>10, <1>11, <1>12
    DEF Callback

\* The sending loop keeps the types.
LEMMA LoopStepTypeOK ==
  ASSUME TypeOK, LoopStep
  PROVE  TypeOK'
  <1>1. radio.par \in Pars /\ Sending(radio) \in Radio
    <2>1. 0 \in Thread /\ radio \in Radio
      BY SenderAssumption DEF TypeOK
    <2> QED
      BY <2>1, RadioTypes
  <1>2. CASE LoopSend
    <2>1. air' \in Signal
      BY <1>1, <1>2, TransmissionType DEF LoopSend, TypeOK
    <2>2. loop' \in [data : Packet, count : Uint16, time : Uint8, i : Nat]
      BY <1>2 DEF LoopSend, TypeOK
    <2> QED
      BY <1>1, <1>2, <2>1, <2>2 DEF LoopSend, TypeOK
  <1>3. CASE LoopEnd
    <2>1. pc' \in [Thread -> Labels]
      BY <1>3, MovedType DEF LoopEnd, Labels
    <2> QED
      BY <1>3, <2>1 DEF LoopEnd, TypeOK
  <1> QED
    BY <1>2, <1>3 DEF LoopStep

\* The verdict on a ping keeps the types of what it changes.
LEMMA PingVerdictTypes ==
  ASSUME TypeOK, NEW got \in BOOLEAN, NEW resp \in Packet,
         PingVerdict(got, resp)
  PROVE  /\ config' \in Config
         /\ note' \in {0, -2, -3, -4, -5}
         /\ pc' \in [Thread -> Labels]
  <1>1. config' \in Config
    BY RetunedType DEF PingVerdict, TypeOK
  <1>2. note' \in {0, -2, -3, -4, -5}
    BY DEF PingVerdict, Notify, TypeOK
  <1>3. pc' \in [Thread -> Labels]
    BY DEF PingVerdict, TypeOK, Labels
  <1> QED
    BY <1>1, <1>2, <1>3

LEMMA PingReturnTypes ==
  ASSUME TypeOK, NEW got \in BOOLEAN, NEW resp \in Packet, NEW r \in Radio,
         PingReturn(got, resp, r)
  PROVE  /\ config' \in Config
         /\ radio' \in Radio
         /\ note' \in {0, -2, -3, -4, -5}
         /\ pc' \in [Thread -> Labels]
  <1>1. CASE config.par \in HighPower
    BY <1>1 DEF PingReturn, TypeOK, Labels
  <1>2. CASE config.par \notin HighPower
    <2>1. PingVerdict(got, resp) /\ radio' = Configured(r, config')
      BY <1>2 DEF PingReturn
    <2> QED
      BY <2>1, PingVerdictTypes, ConfiguredType
  <1> QED
    BY <1>1, <1>2

\* k_sem_take keeps the types.
LEMMA TakeTypeOK ==
  ASSUME TypeOK, NEW t \in Thread, Take(t)
  PROVE  TypeOK'
  <1>1. radio' \in Radio
    BY RadioTypes DEF Take, TypeOK
  <1> QED
    BY ZenonT(60), <1>1 DEF Take, TypeOK

\* The wait for a ping keeps the types.
LEMMA PingStepTypeOK ==
  ASSUME TypeOK, PingStep
  PROVE  TypeOK'
  <1>0. 2 \in Thread /\ ping.resp \in Packet
    BY SenderAssumption DEF TypeOK
  <1>1. CASE PingListen
    <2>1. config' \in Config
      BY <1>1, RetunedType DEF PingListen, TypeOK
    <2>2. Configured(radio, config') \in Radio
      BY <2>1, ConfiguredType DEF TypeOK
    <2>3. radio' \in Radio
      BY <1>0, <1>1, <2>2, RadioTypes DEF PingListen
    <2> QED
      <3>1. pc' \in [Thread -> Labels]
        BY <1>1, MovedType DEF PingListen, Labels
      <3>2. UNCHANGED <<air, connected, note, configVals, stackNumber, tid, exp,
                        ping, loop, armed, lost, fault>>
        BY <1>1 DEF PingListen
      <3> QED
        BY <2>1, <2>3, <3>1, <3>2 DEF TypeOK
  <1>2. CASE PingReceived
    <2>1. Store(ping.resp, radio.buf) \in Packet
      BY <1>0, RadioTypes, PacketTypes DEF TypeOK
    <2>2. /\ ping' \in [content : Packet, resp : Packet, got : BOOLEAN]
          /\ ping'.resp \in Packet
      BY <1>2, <2>1 DEF PingReceived, TypeOK
    <2>3. /\ config' \in Config /\ radio' \in Radio
          /\ note' \in {0, -2, -3, -4, -5} /\ pc' \in [Thread -> Labels]
      <3>1. radio \in Radio /\ PingReturn(TRUE, ping'.resp, radio)
        BY <1>2 DEF PingReceived, TypeOK
      <3> QED
        BY <2>2, <3>1, PingReturnTypes
    <2> QED
      BY <1>2, <2>2, <2>3 DEF PingReceived, TypeOK
  <1>3. CASE PingTimeout
    <2>1. /\ config' \in Config /\ radio' \in Radio
          /\ note' \in {0, -2, -3, -4, -5} /\ pc' \in [Thread -> Labels]
      <3>1. Unpend(radio, 2) \in Radio
        BY <1>0, RadioTypes DEF TypeOK
      <3>2. PingReturn(FALSE, ping.resp, Unpend(radio, 2))
        BY <1>3 DEF PingTimeout
      <3> QED
        BY <1>0, <3>1, <3>2, PingReturnTypes
    <2> QED
      BY <1>3, <2>1 DEF PingTimeout, TypeOK
  <1>4. CASE PingReconnected
    BY ZenonT(60), <1>4 DEF PingReconnected, TypeOK, Labels
  <1>5. CASE PingReport
    <2>1. /\ config' \in Config
          /\ note' \in {0, -2, -3, -4, -5} /\ pc' \in [Thread -> Labels]
      <3>1. ping.got \in BOOLEAN /\ PingVerdict(ping.got, ping.resp)
        BY <1>5 DEF PingReport, TypeOK
      <3> QED
        BY <1>0, <3>1, PingVerdictTypes
    <2>2. radio' \in Radio
      BY <1>5, <2>1, ConfiguredType DEF PingReport, TypeOK
    <2> QED
      BY <1>5, <2>1, <2>2 DEF PingReport, TypeOK
  <1> QED
    BY <1>0, <1>1, <1>2, <1>3, <1>4, <1>5, TakeTypeOK DEF PingStep

\* The type of the locals of exec_experiment.
Locals == [data : Packet, combo : Nat, msg : Nat]

\* An experiment thread keeps the types, up to the countdown ...
LEMMA StartTypeOK ==
  ASSUME TypeOK, NEW t \in ExpThread,
         \/ Listen(t) \/ AnswerPing(t) \/ Accept(t) \/ PrepareAck(t)
         \/ SendAck(t) \/ HearAgain(t) \/ CountdownOver(t)
  PROVE  TypeOK'
  <1>0. /\ t \in Thread /\ radio \in Radio /\ config \in Config
        /\ exp \in [ExpThread -> Locals] /\ exp[t] \in Locals
        /\ exp[t].data \in Packet
    BY SenderAssumption DEF TypeOK, Locals, ExpThread
  <1>1. /\ radio.par \in Pars /\ config.par \in Pars /\ radio.buf \in Packet
        /\ Sending(radio) \in Radio
        /\ Store(exp[t].data, radio.buf) \in Packet
    BY <1>0, RadioTypes, PacketTypes DEF Config
  <1>2. \A d \in Packet : [exp EXCEPT ![t].data = d] \in [ExpThread -> Locals]
    BY <1>0 DEF Locals
  <1>3. \A l \in Labels : [pc EXCEPT ![t] = l] \in [Thread -> Labels]
    BY MovedType
  <1>4. \A tx \in BOOLEAN : Retuned(tx) \in Config
    BY <1>0, RetunedType
  <1>5. CASE Listen(t)
    <2>1. radio' \in Radio
      BY <1>0, <1>5, RadioTypes DEF Listen
    <2>2. pc' \in [Thread -> Labels]
      BY <1>3, <1>5 DEF Listen, Labels
    <2> QED
      BY <1>5, <2>1, <2>2 DEF Listen, TypeOK
  <1>6. CASE AnswerPing(t)
    <2> DEFINE got == Store(exp[t].data, radio.buf)
    <2>1. PingForgotten(got) \in Packet
      BY <1>1 DEF PingForgotten, Packet
    <2>2. air' \in Signal
      BY <1>1, <1>6, PacketTypes, TransmissionType DEF AnswerPing
    <2>3. exp' \in [ExpThread -> Locals]
      BY <1>2, <1>6, <2>1 DEF AnswerPing
    <2>4. config' \in Config
      BY <1>4, <1>6 DEF AnswerPing
    <2>5. radio' \in Radio
      BY <1>1, <1>6, <2>4, ConfiguredType DEF AnswerPing
    <2>6. pc' \in [Thread -> Labels]
      BY <1>3, <1>6 DEF AnswerPing, Labels
    <2> QED
      BY ZenonT(60), <1>6, <2>2, <2>3, <2>4, <2>5, <2>6 DEF AnswerPing, TypeOK, Locals
  <1>7. CASE Accept(t)
    <2>1. exp' \in [ExpThread -> Locals]
      BY <1>1, <1>2, <1>7 DEF Accept
    <2>2. pc' \in [Thread -> Labels]
      BY <1>3, <1>7 DEF Accept, Labels
    <2> QED
      BY <1>7, <2>1, <2>2 DEF Accept, TypeOK, Locals
  <1>8. CASE PrepareAck(t)
    <2>1. config' \in Config
      BY <1>4, <1>8 DEF PrepareAck
    <2>2. radio' \in Radio
      BY <1>0, <1>8, <2>1, ConfiguredType DEF PrepareAck
    <2>3. pc' \in [Thread -> Labels]
      BY <1>3, <1>8 DEF PrepareAck, Labels
    <2> QED
      BY ZenonT(60), <1>8, <2>1, <2>2, <2>3 DEF PrepareAck, TypeOK
  <1>9. CASE SendAck(t)
    <2>1. air' \in Signal
      BY <1>0, <1>1, <1>9, TransmissionType DEF SendAck
    <2>2. config' \in Config
      BY <1>4, <1>9 DEF SendAck
    <2>3. Configured(Sending(radio), config') \in Radio
      BY <1>1, <2>2, ConfiguredType
    <2>4. radio' \in Radio
      BY <1>0, <1>9, <2>3, RadioTypes DEF SendAck
    <2>5. pc' \in [Thread -> Labels]
      BY <1>3, <1>9 DEF SendAck, Labels
    <2> QED
      BY ZenonT(60), <1>9, <2>1, <2>2, <2>4, <2>5 DEF SendAck, TypeOK
  <1>10. CASE HearAgain(t)
    <2>1. exp' \in [ExpThread -> Locals]
      BY <1>0, <1>1, <1>2, <1>10 DEF HearAgain
    <2>2. pc' \in [Thread -> Labels]
      BY <1>3, <1>10 DEF HearAgain, Labels
    <2> QED
      BY <1>10, <2>1, <2>2 DEF HearAgain, TypeOK, Locals
  <1>11. CASE CountdownOver(t)
    <2>1. radio' \in Radio
      BY <1>0, <1>11, RadioTypes DEF CountdownOver
    <2>2. config' \in Config
      BY <1>4, <1>11 DEF CountdownOver
    <2>3. pc' \in [Thread -> Labels]
      BY <1>3, <1>11 DEF CountdownOver, Labels
    <2> QED
      BY ZenonT(60), <1>11, <2>1, <2>2, <2>3 DEF CountdownOver, TypeOK
  <1> QED
    BY <1>5, <1>6, <1>7, <1>8, <1>9, <1>10, <1>11

\* ... and from the measuring loops to the handover.
LEMMA MeasuringTypeOK ==
  ASSUME TypeOK, NEW t \in ExpThread,
         \/ NextCombo(t) \/ Measure(t) \/ ComboDone(t) \/ ExperimentEnd(t)
         \/ SwitchStack(t) \/ AbortSelf(t) \/ CreateNext(t) \/ StoreTid(t)
  PROVE  TypeOK'
  <1>0. /\ t \in Thread /\ radio \in Radio /\ config \in Config
        /\ exp \in [ExpThread -> Locals] /\ exp[t] \in Locals
        /\ exp[t].data \in Packet /\ exp[t].combo \in Nat /\ exp[t].msg \in Nat
        /\ Successor \in ExpThread /\ Successor \in Thread
    BY SenderAssumption DEF TypeOK, Locals, ExpThread, Successor
  <1>1. radio.par \in Pars /\ Sending(radio) \in Radio
    BY <1>0, RadioTypes
  <1>2. \A k \in Nat : /\ [exp EXCEPT ![t].combo = k] \in [ExpThread -> Locals]
                       /\ [exp EXCEPT ![t].msg = k] \in [ExpThread -> Locals]
    BY <1>0 DEF Locals
  <1>3. \A l \in Labels : [pc EXCEPT ![t] = l] \in [Thread -> Labels]
    BY MovedType
  <1>4. CASE NextCombo(t)
    <2>1. config' \in Config
      <3>1. ComboPar(exp[t].data, exp[t].combo) \in Pars
        BY <1>0 DEF ComboPar, Pars
      <3> QED
        BY <1>0, <1>4, <3>1 DEF NextCombo, Config
    <2>2. radio' \in Radio
      BY <1>0, <1>4, <2>1, ConfiguredType DEF NextCombo
    <2>3. exp' \in [ExpThread -> Locals]
      BY <1>2, <1>4 DEF NextCombo
    <2>4. pc' \in [Thread -> Labels]
      BY <1>3, <1>4 DEF NextCombo, Labels
    <2> QED
      BY <1>4, <2>1, <2>2, <2>3, <2>4 DEF NextCombo, TypeOK, Locals
  <1>5. CASE Measure(t)
    <2>1. air' \in Signal
      BY <1>0, <1>1, <1>5, PacketTypes, TransmissionType DEF Measure
    <2>2. exp' \in [ExpThread -> Locals]
      BY <1>0, <1>5 DEF Measure, Locals
    <2> QED
      BY <1>1, <1>5, <2>1, <2>2 DEF Measure, TypeOK, Locals
  <1>6. CASE ComboDone(t)
    <2>1. exp' \in [ExpThread -> Locals]
      BY <1>0, <1>6 DEF ComboDone, Locals
    <2>2. pc' \in [Thread -> Labels]
      BY <1>3, <1>6 DEF ComboDone, Labels
    <2> QED
      BY <1>6, <2>1, <2>2 DEF ComboDone, TypeOK, Locals
  <1>7. CASE ExperimentEnd(t)
    <2>1. config' \in Config
      BY <1>7 DEF ExperimentEnd, TypeOK, Config, Pars
    <2>2. radio' \in Radio
      BY <1>0, <1>7, <2>1, ConfiguredType DEF ExperimentEnd
    <2>3. pc' \in [Thread -> Labels]
      BY <1>3, <1>7 DEF ExperimentEnd, Labels
    <2> QED
      BY <1>7, <2>1, <2>2, <2>3 DEF ExperimentEnd, TypeOK
  <1>8. CASE SwitchStack(t)
    <2>1. stackNumber' \in {0, 1}
      BY <1>8 DEF SwitchStack, TypeOK
    <2>2. pc' \in [Thread -> Labels]
      BY <1>3, <1>8 DEF SwitchStack, Labels
    <2> QED
      BY <1>8, <2>1, <2>2 DEF SwitchStack, TypeOK
  <1>9. CASE AbortSelf(t)
    <2>1. pc' \in [Thread -> Labels]
      BY <1>3, <1>9 DEF AbortSelf, Labels
    <2> QED
      BY <1>9, <2>1 DEF AbortSelf, TypeOK
  <1>10. CASE CreateNext(t)
    <2>1. radio' \in Radio
      BY <1>0, <1>10, DroppedType DEF CreateNext
    <2>2. exp' \in [ExpThread -> Locals]
      BY <1>0, <1>10, PacketTypes DEF CreateNext, FreshExp, Locals
    <2>3. pc' \in [Thread -> Labels]
      BY <1>0, <1>10 DEF CreateNext, Labels, TypeOK
    <2> QED
      BY <1>10, <2>1, <2>2, <2>3 DEF CreateNext, TypeOK, Locals
  <1>11. CASE StoreTid(t)
    <2>1. tid' \in [Thread -> BOOLEAN]
      BY <1>11 DEF StoreTid, TypeOK
    <2>2. pc' \in [Thread -> Labels]
      BY <1>3, <1>11 DEF StoreTid, Labels
    <2> QED
      BY <1>11, <2>1, <2>2 DEF StoreTid, TypeOK
  <1> QED
    BY <1>4, <1>5, <1>6, <1>7, <1>8, <1>9, <1>10, <1>11

\* Every step keeps the types.
LEMMA NextTypeOK ==
  ASSUME TypeOK, [Next]_vars
  PROVE  TypeOK'
  <1>1. ASSUME NEW p \in Heard, Hear(p)
        PROVE  TypeOK'
    <2>1. radio' \in Radio
      BY <1>1, SenderAssumption, RxDoneType DEF Hear, TypeOK
    <2> QED
      BY <1>1, <2>1 DEF Hear, TypeOK
  <1>2. ASSUME NEW t \in ExpThread, ExperimentStep(t)
        PROVE  TypeOK'
    <2>1. t \in Thread
      BY SenderAssumption DEF ExpThread
    <2> QED
      BY <1>2, <2>1, TakeTypeOK, StartTypeOK, MeasuringTypeOK DEF ExperimentStep
  <1>3. CASE UNCHANGED vars
    BY <1>3 DEF TypeOK, vars
  <1> QED
    BY <1>1, <1>2, <1>3, CallbackTypeOK, LoopStepTypeOK, PingStepTypeOK
    DEF Next, RunLoop, RunPing, RunExperiment, Crashed

\* No sequence of writes, packets, timeouts and lost connections takes a
\* variable of the sender out of its type: data[0] = -1 stays a byte, and the
\* parameters of a loop stay in two bytes and in one.
THEOREM SenderTypeOK == Spec => []TypeOK
  BY InitTypeOK, NextTypeOK, PTL DEF Spec
-----------------------------------------------------------------------------
(* The experiment threads.                                                 *)

\* stack_number while thread t runs, and once it has switched the stack.
Own(t) == IF t = 1 THEN 0 ELSE 1
OnTrack(t) == stackNumber = IF pc[t] = "create" THEN 1 - Own(t) ELSE Own(t)

\* The inductive invariant about threads 1 and 3.  thread1_tid is set before
\* either of them runs; the thread that hands over has switched the stack; a
\* thread 3 whose tid is not stored was created a moment ago or has escaped an
\* abort; and a sender prepared with stack_number 0 has a thread for which
\* stack_number is right, unless an escaped thread 3 is about to be created
\* over itself.
ThreadInv ==
  /\ (pc[1] # "dead" \/ pc[3] # "dead" \/ tid[3]) => tid[1]
  /\ pc[1] = "store" => stackNumber = 1
  /\ pc[3] = "store" => stackNumber = 0
  /\ tid[3] => ~(Active(1) /\ Active(3))
  /\ ~lost /\ pc[3] # "dead" /\ ~tid[3] => pc[1] = "store"
  /\ OneExperimentThread
  /\ armed = "stack0" /\ ~fault =>
       \/ Active(1) /\ OnTrack(1)
       \/ Active(3) /\ OnTrack(3) /\ ~Active(1)
       \/ pc[3] = "create" /\ stackNumber = 1 /\ ~tid[3]

\* What ThreadInv is about, besides threads 1 and 3.
others == <<stackNumber, armed, lost, fault>>

\* A step that leaves the experiment threads alone keeps ThreadInv.
LEMMA FrameKeepsThreads ==
  ASSUME ThreadInv, UNCHANGED others,
         \A t \in ExpThread : pc'[t] = pc[t] /\ tid'[t] = tid[t]
  PROVE  ThreadInv'
  <1>1. pc'[1] = pc[1] /\ pc'[3] = pc[3] /\ tid'[1] = tid[1] /\ tid'[3] = tid[3]
    BY DEF ExpThread
  <1> QED
    BY <1>1 DEF others, ThreadInv, Active, OnTrack, Own, OneExperimentThread

\* So does a step inside an experiment.
LEMMA WalkKeepsThreads ==
  ASSUME TypeOK, ThreadInv, UNCHANGED <<tid, others>>, NEW t \in ExpThread,
         pc[t] \notin {"dead", "create", "store"},
         NEW l, l \notin {"dead", "create", "store"},
         pc' = [pc EXCEPT ![t] = l]
  PROVE  ThreadInv'
  <1>1. pc'[1] = IF t = 1 THEN l ELSE pc[1]
    BY SenderAssumption DEF TypeOK, ExpThread
  <1>2. pc'[3] = IF t = 3 THEN l ELSE pc[3]
    BY SenderAssumption DEF TypeOK, ExpThread
  <1>3. t = 1 \/ t = 3
    BY DEF ExpThread
  <1> QED
    BY <1>1, <1>2, <1>3
    DEF others, ThreadInv, Active, OnTrack, Own, OneExperimentThread

\* So do the writes of the phone.
LEMMA CallbackKeepsThreads ==
  ASSUME TypeOK, ThreadInv, Callback, ~fault
  PROVE  ThreadInv'
  <1>1. CASE CancelPreparation
    <2>1. /\ pc'[1] = IF tid[1] THEN "dead" ELSE pc[1]
          /\ pc'[3] = IF tid[3] THEN "dead" ELSE pc[3]
      BY <1>1, SenderAssumption DEF CancelPreparation, Aborted, ExpThread
    <2>2. /\ lost' = (lost \/ (pc[1] = "store" /\ ~tid[3]))
          /\ armed' = "none" /\ UNCHANGED <<tid, stackNumber, fault>>
      BY <1>1 DEF CancelPreparation, Thread3Escapes
    <2> QED
      BY <2>1, <2>2 DEF ThreadInv, Active, OnTrack, Own, OneExperimentThread
  <1>2. ASSUME NEW p \in Params, Prepare(p)
        PROVE  ThreadInv'
    <2>1. /\ pc'[1] = "listen"
          /\ pc'[3] = IF tid[3] THEN "dead" ELSE pc[3]
          /\ tid'[1] = TRUE /\ tid'[3] = tid[3]
      BY <1>2, SenderAssumption DEF Prepare, Aborted, ExpThread, TypeOK
    <2>2. fault' = (~tid[1] /\ pc[1] # "dead")
      BY <1>2, SenderAssumption DEF Prepare, Aborted, ExpThread
    <2>3. /\ lost' = (lost \/ (pc[1] = "store" /\ ~tid[3]))
          /\ armed' = IF stackNumber = 0 THEN "stack0" ELSE "stack1"
          /\ UNCHANGED stackNumber
      BY <1>2 DEF Prepare, Thread3Escapes
    <2> QED
      BY <2>1, <2>2, <2>3
      DEF ThreadInv, Active, OnTrack, Own, OneExperimentThread
  <1>3. ASSUME ~CancelPreparation, \A p \in Params : ~Prepare(p)
        PROVE  /\ UNCHANGED others
               /\ \A t \in ExpThread : pc'[t] = pc[t] /\ tid'[t] = tid[t]
    <2>1. CASE Connect \/ Disconnect \/ CancelLoop
      BY <2>1, SenderAssumption
      DEF Connect, Disconnect, CancelLoop, others, Aborted, ExpThread
    <2>2. ASSUME NEW p \in Params, ChangeConfig(p)
          PROVE  UNCHANGED <<others, pc, tid>>
      BY <2>2 DEF ChangeConfig, others
    <2>3. ASSUME NEW x \in Texts, SendCommand(x)
          PROVE  UNCHANGED <<others, pc, tid>>
      BY <2>3 DEF SendCommand, others
    <2>4. ASSUME NEW x \in Texts, SendPing(x)
          PROVE  /\ UNCHANGED others
                 /\ \A t \in ExpThread : pc'[t] = pc[t] /\ tid'[t] = tid[t]
      BY <2>4, SenderAssumption
      DEF SendPing, others, Aborted, ExpThread, TypeOK
    <2>5. ASSUME NEW p, StartLoop(p)
          PROVE  /\ UNCHANGED others
                 /\ \A t \in ExpThread : pc'[t] = pc[t] /\ tid'[t] = tid[t]
      BY <2>5, SenderAssumption
      DEF StartLoop, others, Aborted, ExpThread, TypeOK
    <2>6. ASSUME NEW k, SetLoopCount(k) \/ SetLoopTime(k)
          PROVE  UNCHANGED <<others, pc, tid>>
      BY <2>6 DEF SetLoopCount, SetLoopTime, SetLoop, others
    <2> QED
      BY <1>3, <2>1, <2>2, <2>3, <2>4, <2>5, <2>6 DEF Callback, LoopStarted
  <1> QED
    BY <1>1, <1>2, <1>3, FrameKeepsThreads

\* So does the handover: no other experiment thread runs during its steps.
LEMMA HandoverKeepsThreads ==
  ASSUME TypeOK, ThreadInv, ~fault,
         NEW t \in ExpThread, Yielded(Thread \ {t}),
         SwitchStack(t) \/ AbortSelf(t) \/ CreateNext(t) \/ StoreTid(t)
  PROVE  ThreadInv'
  <1>0. /\ t = 1 \/ t = 3
        /\ t = 1 => pc[3] \notin {"handover", "create", "store"}
        /\ t = 3 => pc[1] \notin {"handover", "create", "store"}
        /\ 1 \in Thread /\ 3 \in Thread
        /\ stackNumber \in {0, 1}
    BY SenderAssumption DEF Yielded, ExpThread, TypeOK
  <1>1. CASE SwitchStack(t)
    <2>1. /\ pc[t] = "handover"
          /\ pc'[1] = IF t = 1 THEN "create" ELSE pc[1]
          /\ pc'[3] = IF t = 3 THEN "create" ELSE pc[3]
          /\ stackNumber' = 1 - stackNumber
          /\ UNCHANGED <<tid, armed, lost, fault>>
      BY <1>0, <1>1 DEF SwitchStack, TypeOK
    <2> QED
      BY SMTT(40), <1>0, <2>1 DEF ThreadInv, Active, OnTrack, Own, OneExperimentThread
  <1>2. CASE AbortSelf(t)
    <2>1. /\ pc[t] = "create" /\ tid[t]
          /\ t = IF stackNumber = 1 THEN 3 ELSE 1
          /\ pc'[1] = IF t = 1 THEN "dead" ELSE pc[1]
          /\ pc'[3] = IF t = 3 THEN "dead" ELSE pc[3]
          /\ UNCHANGED <<tid, stackNumber, armed, lost, fault>>
      BY <1>0, <1>2 DEF AbortSelf, Successor, TypeOK
    <2> QED
      BY SMTT(40), <1>0, <2>1 DEF ThreadInv, Active, OnTrack, Own, OneExperimentThread
  <1>3. CASE CreateNext(t)
    <2>1. pc[t] = "create" /\ UNCHANGED <<tid, stackNumber, armed, lost>>
      BY <1>3 DEF CreateNext
    <2>2. CASE stackNumber = 1
      <3>1. /\ ~(t = 3 /\ tid[3])
            /\ pc'[1] = IF t = 1 THEN "store" ELSE pc[1]
            /\ pc'[3] = "listen"
            /\ fault' <=> (~tid[3] /\ pc[3] # "dead")
        BY <1>0, <1>3, <2>2 DEF CreateNext, Successor, Aborted, TypeOK
      <3> QED
        BY <1>0, <2>1, <2>2, <3>1
        DEF ThreadInv, Active, OnTrack, Own, OneExperimentThread
    <2>3. CASE stackNumber = 0
      <3>1. /\ ~(t = 1 /\ tid[1])
            /\ pc'[1] = "listen"
            /\ pc'[3] = IF t = 3 THEN "store" ELSE pc[3]
            /\ fault' <=> (~tid[1] /\ pc[1] # "dead")
        BY <1>0, <1>3, <2>3 DEF CreateNext, Successor, Aborted, TypeOK
      <3> QED
        BY <1>0, <2>1, <2>3, <3>1
        DEF ThreadInv, Active, OnTrack, Own, OneExperimentThread
    <2> QED
      BY <1>0, <2>2, <2>3
  <1>4. CASE StoreTid(t)
    <2> DEFINE u == IF stackNumber = 1 THEN 3 ELSE 1
    <2>1. /\ pc[t] = "store"
          /\ UNCHANGED <<stackNumber, armed, lost, fault>>
          /\ pc'[1] = IF t = 1 THEN "dead" ELSE pc[1]
          /\ pc'[3] = IF t = 3 THEN "dead" ELSE pc[3]
          /\ tid'[1] = (u = 1 \/ tid[1])
          /\ tid'[3] = (u = 3 \/ tid[3])
      BY <1>0, <1>4 DEF StoreTid, Successor, TypeOK
    <2> QED
      BY <1>0, <2>1 DEF ThreadInv, Active, OnTrack, Own, OneExperimentThread
  <1> QED
    BY <1>1, <1>2, <1>3, <1>4

\* Every step keeps ThreadInv.
LEMMA NextKeepsThreads ==
  ASSUME TypeOK, ThreadInv, [Next]_vars
  PROVE  ThreadInv'
  <1>1. CASE ~fault /\ Callback
    BY <1>1, CallbackKeepsThreads
  <1>2. CASE RunLoop \/ RunPing
    <2>1. UNCHANGED <<tid, others>>
      BY <1>2
      DEF RunLoop, RunPing, LoopStep, LoopSend, LoopEnd, PingStep, PingListen,
          Take, PingReceived, PingTimeout, PingReconnected, PingReport, others
    <2>2. pc' = pc \/ \E t \in {0, 2}, l \in Labels : pc' = [pc EXCEPT ![t] = l]
      BY <1>2
      DEF RunLoop, RunPing, LoopStep, LoopSend, LoopEnd, PingStep, PingListen,
          Take, PingReceived, PingTimeout, PingReturn, PingVerdict, PingReconnected,
          PingReport, Labels
    <2>3. \A t \in ExpThread : pc'[t] = pc[t] /\ tid'[t] = tid[t]
      BY <2>1, <2>2, SenderAssumption DEF ExpThread, TypeOK
    <2> QED
      BY <2>1, <2>3, FrameKeepsThreads
  <1>3. ASSUME NEW t \in ExpThread, RunExperiment(t)
        PROVE  ThreadInv'
    <2>1. CASE Listen(t) \/ AnswerPing(t) \/ Accept(t) \/ PrepareAck(t)
                 \/ SendAck(t) \/ HearAgain(t) \/ CountdownOver(t)
      <3>1. /\ UNCHANGED <<tid, others>>
            /\ pc[t] \notin {"dead", "create", "store"}
            /\ \E l \in Labels \ {"dead", "create", "store"} :
                 pc' = [pc EXCEPT ![t] = l]
        BY <2>1
        DEF Listen, AnswerPing, Accept, PrepareAck, SendAck, HearAgain,
            CountdownOver, others, Labels
      <3> QED
        BY <3>1, WalkKeepsThreads
    <2>2. CASE NextCombo(t) \/ ComboDone(t) \/ ExperimentEnd(t)
      <3>1. /\ UNCHANGED <<tid, others>>
            /\ pc[t] \notin {"dead", "create", "store"}
            /\ \E l \in Labels \ {"dead", "create", "store"} :
                 pc' = [pc EXCEPT ![t] = l]
        BY <2>2 DEF NextCombo, ComboDone, ExperimentEnd, others, Labels
      <3> QED
        BY <3>1, WalkKeepsThreads
    <2>3. CASE Take(t) \/ Measure(t)
      BY <2>3, FrameKeepsThreads DEF Take, Measure, others
    <2>4. CASE SwitchStack(t) \/ AbortSelf(t) \/ CreateNext(t) \/ StoreTid(t)
      BY <1>3, <2>4, HandoverKeepsThreads DEF RunExperiment
    <2> QED
      BY <1>3, <2>1, <2>2, <2>3, <2>4 DEF RunExperiment, ExperimentStep
  <1>4. ASSUME NEW p \in Heard, Hear(p)
        PROVE  ThreadInv'
    BY <1>4, FrameKeepsThreads DEF Hear, others
  <1>5. CASE UNCHANGED vars
    BY <1>5, FrameKeepsThreads DEF vars, others
  <1> QED
    BY <1>1, <1>2, <1>3, <1>4, <1>5 DEF Next, Crashed

\* The invariant holds initially: no thread runs.
LEMMA InitThreads == Init => ThreadInv
  BY SMTT(40), SenderAssumption
  DEF Init, ThreadInv, Active, OnTrack, Own, OneExperimentThread

\* The invariant of the experiment threads.
LEMMA SenderThreads == Spec => []ThreadInv
  BY InitThreads, InitTypeOK, NextTypeOK, NextKeepsThreads, PTL DEF Spec

\* However the writes of the phone fall between the steps of an experiment and
\* of its handover, there are never two experiment threads at work, and no
\* thread is created over a running one, unless thread 3 escaped an abort.
THEOREM SenderOneExperimentThread == Spec => []OneExperimentThread
  BY SenderThreads, PTL DEF ThreadInv

\* A sender prepared with stack_number 0 stays prepared, for any number of
\* experiments, until it is cancelled or prepared again.
THEOREM SenderStaysPrepared == Spec => []StaysPrepared
  <1>1. ThreadInv => StaysPrepared
    BY DEF ThreadInv, StaysPrepared, Active, ExpThread
  <1> QED
    BY <1>1, SenderThreads, PTL
=============================================================================
