------------------------ MODULE LoraSenderWaitProofs ------------------------
(***************************************************************************)
(* Proofs about the threads of the sender that wait for a packet.          *)
(***************************************************************************)
EXTENDS LoraSenderProofs

-----------------------------------------------------------------------------
(* The threads that wait for a packet.                                     *)

\* Where a thread waits for a packet, and the threads in lora_recv.
Waiting == {"recv", "listenRecv", "countdown"}
Waiters(r) == r.pend \cup r.arm

\* The inductive invariant about lora_recv: a thread in it is at a point of its
\* code that receives, and the semaphore knows it.  The loop never receives, and
\* thread2_tid is set before thread 2 runs, so that an abort reaches it.
WaitInv ==
  /\ pc[0] \in {"dead", "loop"}
  /\ ~tid[2] => pc[2] = "dead"
  /\ ~fault => Linked(radio) /\ \A t \in Waiters(radio) : pc[t] \in Waiting

\* A thread that stops waiting is no longer a waiter, and the others are.
LEMMA UnpendWaiters ==
  ASSUME NEW r \in Radio, Linked(r), NEW t
  PROVE  Linked(Unpend(r, t)) /\ Waiters(Unpend(r, t)) = Waiters(r) \ {t}
  BY UnpendLinked DEF Waiters

\* What an abort does to the waiting threads.
LEMMA DroppedWaiters ==
  ASSUME NEW r \in Radio, Linked(r), NEW t
  PROVE  /\ Linked(Dropped(r, t))
         /\ Waiters(Dropped(r, t)) \subseteq Waiters(r)
         /\ tid[t] => t \notin Waiters(Dropped(r, t))
  BY UnpendWaiters DEF Dropped

\* A step that moves no thread keeps WaitInv.
LEMMA FrameKeepsWait ==
  ASSUME WaitInv, ~fault, UNCHANGED <<tid, pc, fault>>,
         Linked(radio'), Waiters(radio') \subseteq Waiters(radio)
  PROVE  WaitInv'
  <1>1. pc' = pc /\ tid' = tid
    OBVIOUS
  <1> QED
    BY <1>1 DEF WaitInv

\* So does a step of one thread, if it waits in lora_recv exactly where its code
\* receives.
LEMMA MoveKeepsWait ==
  ASSUME TypeOK, WaitInv, ~fault, UNCHANGED fault, tid'[2] = tid[2],
         NEW t \in Thread \ {0}, pc[t] # "dead",
         NEW l, pc' = [pc EXCEPT ![t] = l],
         Linked(radio'), Waiters(radio') \subseteq Waiters(radio) \cup {t},
         t \in Waiters(radio') => l \in Waiting
  PROVE  WaitInv'
  <1>1. \A u \in Thread : pc'[u] = IF u = t THEN l ELSE pc[u]
    BY DEF TypeOK
  <1>2. 0 \in Thread /\ 2 \in Thread /\ Waiters(radio') \subseteq Thread
    <2>1. Waiters(radio) \subseteq Thread
      BY DEF TypeOK, Radio, Waiters
    <2> QED
      BY <2>1, SenderAssumption
  <1>3. pc'[0] = pc[0]
    BY <1>1, <1>2
  <1>4. ~tid'[2] => pc'[2] = "dead"
    BY <1>1, <1>2 DEF WaitInv
  <1>5. \A u \in Waiters(radio') : pc'[u] \in Waiting
    BY <1>1, <1>2 DEF WaitInv
  <1> QED
    BY <1>3, <1>4, <1>5 DEF WaitInv

\* So do the writes of the phone.
LEMMA CallbackKeepsWait ==
  ASSUME TypeOK, WaitInv, Callback, ~fault
  PROVE  WaitInv'
  <1>0. /\ radio \in Radio /\ Linked(radio)
        /\ \A t \in Waiters(radio) : pc[t] \in Waiting /\ t \in Thread
        /\ Sending(radio) \in Radio /\ Linked(Sending(radio))
        /\ Waiters(Sending(radio)) = Waiters(radio)
        /\ \A c : Linked(Configured(radio, c))
        /\ \A c : Waiters(Configured(radio, c)) = Waiters(radio)
    <2>1. radio \in Radio /\ Linked(radio) /\ 0 \in Thread
      BY SenderAssumption DEF TypeOK, WaitInv
    <2>2. Sending(radio) \in Radio
      BY <2>1, RadioTypes
    <2>3. \A t \in Waiters(radio) : pc[t] \in Waiting /\ t \in Thread
      BY <2>1 DEF WaitInv, Radio, Waiters
    <2> QED
      BY <2>1, <2>2, <2>3, SendingLinked DEF Waiters
  <1>1. \A S : \A t \in Thread :
          Aborted(S)[t] = IF t \in S /\ tid[t] THEN "dead" ELSE pc[t]
    BY DEF Aborted
  <1>2. CASE CancelLoop
    <2>1. /\ pc'[0] \in {"dead", "loop"}
          /\ \A t \in Thread \ {0} : pc'[t] = pc[t]
          /\ UNCHANGED <<radio, tid, fault>>
      BY <1>1, <1>2, SenderAssumption DEF CancelLoop, WaitInv
    <2>2. 0 \notin Waiters(radio)
      BY <1>0 DEF WaitInv, Waiting
    <2> QED
      BY <1>0, <2>1, <2>2, SenderAssumption DEF WaitInv
  <1>3. ASSUME NEW p, StartLoop(p)
        PROVE  WaitInv'
    <2>1. /\ pc'[0] = "loop"
          /\ \A t \in Thread \ {0} : pc'[t] = pc[t] /\ tid'[t] = tid[t]
          /\ UNCHANGED <<radio, fault>>
      <3>1. Aborted({0}) \in [Thread -> Labels]
        BY AbortedType
      <3> QED
        BY <1>1, <1>3, <3>1, SenderAssumption DEF StartLoop, TypeOK
    <2>2. 0 \notin Waiters(radio)
      BY <1>0 DEF WaitInv, Waiting
    <2> QED
      BY <1>0, <2>1, <2>2, SenderAssumption DEF WaitInv
  <1>4. ASSUME NEW x, SendPing(x)
        PROVE  WaitInv'
    <2>1. /\ pc'[2] = "start" /\ tid'[2] = TRUE
          /\ \A t \in Thread \ {2} : pc'[t] = pc[t]
          /\ radio' = Dropped(Sending(radio), 2) /\ fault' = fault
      <3>1. Aborted({2}) \in [Thread -> Labels]
        BY AbortedType
      <3> QED
        BY <1>1, <1>4, <3>1, SenderAssumption DEF SendPing, TypeOK
    <2>2. Linked(radio') /\ Waiters(radio') \subseteq Waiters(radio)
      BY <1>0, <2>1, DroppedWaiters
    <2>3. 2 \notin Waiters(radio')
      <3>1. CASE tid[2]
        BY <1>0, <2>1, <3>1, DroppedWaiters
      <3>2. CASE ~tid[2]
        BY <1>0, <2>2, <3>2 DEF WaitInv, Waiting
      <3> QED
        BY <3>1, <3>2
    <2> QED
      BY <1>0, <2>1, <2>2, <2>3, SenderAssumption DEF WaitInv
  <1>5. /\ Linked(BothDropped) /\ BothDropped \in Radio
        /\ Waiters(BothDropped) \subseteq Waiters(radio)
        /\ \A t \in ExpThread : tid[t] => t \notin Waiters(BothDropped)
        /\ Linked(Configured(BothDropped, config'))
        /\ Waiters(Configured(BothDropped, config')) = Waiters(BothDropped)
    <2>1. /\ Dropped(radio, 3) \in Radio /\ Linked(Dropped(radio, 3))
          /\ Waiters(Dropped(radio, 3)) \subseteq Waiters(radio)
          /\ tid[3] => 3 \notin Waiters(Dropped(radio, 3))
      BY <1>0, DroppedWaiters, DroppedType, SenderAssumption
    <2>2. BothDropped \in Radio
      BY <2>1, DroppedType, SenderAssumption DEF BothDropped
    <2>3. /\ Linked(BothDropped)
          /\ Waiters(BothDropped) \subseteq Waiters(Dropped(radio, 3))
          /\ tid[1] => 1 \notin Waiters(BothDropped)
      BY <2>1, DroppedWaiters DEF BothDropped
    <2> QED
      BY <2>1, <2>2, <2>3, SendingLinked DEF Waiters, ExpThread
  <1>6. CASE CancelPreparation
    <2>1. /\ \A t \in Thread : pc'[t] = IF t \in ExpThread /\ tid[t]
                                      THEN "dead" ELSE pc[t]
          /\ radio' = Configured(BothDropped, config')
          /\ UNCHANGED <<tid, fault>>
      BY <1>1, <1>6 DEF CancelPreparation
    <2> QED
      BY <1>0, <1>5, <2>1, SenderAssumption DEF WaitInv, ExpThread
  <1>7. ASSUME NEW p, Prepare(p)
        PROVE  WaitInv'
    <2>1. /\ \A t \in Thread \ {1} : pc'[t] = IF t \in ExpThread /\ tid[t]
                                            THEN "dead" ELSE pc[t]
          /\ tid'[2] = tid[2]
          /\ radio' = Configured(BothDropped, config')
          /\ ~fault' => tid[1] \/ pc[1] = "dead"
      <3> DEFINE A == Aborted(ExpThread)
      <3>1. /\ A \in [Thread -> Labels] /\ 1 \in ExpThread /\ 1 \in Thread
            /\ \A t \in Thread : A[t] = IF t \in ExpThread /\ tid[t]
                                         THEN "dead" ELSE pc[t]
        BY <1>1, AbortedType, SenderAssumption DEF ExpThread
      <3>2. pc' = [A EXCEPT ![1] = "listen"] /\ fault' = (A[1] # "dead")
        BY <1>7 DEF Prepare
      <3>3. tid' = [tid EXCEPT ![1] = TRUE]
            /\ radio' = Configured(BothDropped, config')
        BY <1>7 DEF Prepare
      <3> HIDE DEF A
      <3>4. tid'[2] = tid[2]
        BY <3>3, SenderAssumption DEF TypeOK
      <3>5. ~fault' => tid[1] \/ pc[1] = "dead"
        BY <3>1, <3>2, Zenon
      <3>6. \A t \in Thread \ {1} : pc'[t] = A[t]
        BY <3>1, <3>2
      <3> QED
        BY <3>1, <3>3, <3>4, <3>5, <3>6
    <2>2. ~fault' => 1 \notin Waiters(radio')
      BY <1>0, <1>5, <2>1 DEF ExpThread, Waiting
    <2> QED
      BY <1>0, <1>5, <2>1, <2>2, SenderAssumption DEF WaitInv, ExpThread
  <1>8. ASSUME NEW p, ChangeConfig(p) \/ SendCommand(p)
        PROVE  WaitInv'
    <2>1. /\ UNCHANGED <<tid, pc, fault>>
          /\ radio' = Configured(radio, config') \/ radio' = Sending(radio)
      BY <1>8 DEF ChangeConfig, SendCommand
    <2> QED
      BY <1>0, <2>1, FrameKeepsWait
  <1>9. ASSUME NEW k,
               Connect \/ Disconnect \/ SetLoopCount(k) \/ SetLoopTime(k)
        PROVE  WaitInv'
    <2>1. UNCHANGED <<radio, tid, pc, fault>>
      BY <1>9 DEF Connect, Disconnect, SetLoopCount, SetLoopTime, SetLoop
    <2> QED
      BY <1>0, <2>1, FrameKeepsWait
  <1> QED
    BY <1>2, <1>3, <1>4, <1>6, <1>7, <1>8, <1>9 DEF Callback, LoopStarted

\* What configuring and sending do to the waiting threads: nothing.
LEMMA SameWaiters ==
  ASSUME TypeOK, WaitInv, ~fault, NEW c \in Config
  PROVE  /\ \A t \in Waiters(radio) : pc[t] \in Waiting
         /\ \A r \in {radio, Sending(radio), Configured(radio, c),
                     Configured(Sending(radio), c)} :
              r \in Radio /\ Linked(r) /\ Waiters(r) = Waiters(radio)
  <1>1. radio \in Radio /\ Linked(radio) /\ 2 \in Thread
    BY SenderAssumption DEF TypeOK, WaitInv
  <1>2. \A r \in Radio : Linked(r) =>
          /\ Sending(r) \in Radio /\ Linked(Sending(r))
          /\ Waiters(Sending(r)) = Waiters(r)
    BY <1>1, RadioTypes, SendingLinked DEF Waiters
  <1>3. \A r \in Radio : Linked(r) =>
          /\ Configured(r, c) \in Radio /\ Linked(Configured(r, c))
          /\ Waiters(Configured(r, c)) = Waiters(r)
    BY ConfiguredType, SendingLinked DEF Waiters
  <1> QED
    BY <1>1, <1>2, <1>3 DEF WaitInv

\* A thread that calls lora_recv keeps WaitInv ...
LEMMA CallKeepsWait ==
  ASSUME TypeOK, WaitInv, ~fault, UNCHANGED <<tid, fault>>,
         NEW t \in Thread \ {0}, pc[t] \notin Waiting, pc[t] # "dead",
         NEW r \in Radio, Linked(r), Waiters(r) = Waiters(radio),
         radio' = RecvCall(r, t), NEW l \in Waiting, pc' = [pc EXCEPT ![t] = l]
  PROVE  WaitInv'
  <1>1. t \notin r.pend
    BY DEF WaitInv, Waiters
  <1>2. Linked(radio') /\ Waiters(radio') = Waiters(radio) \cup {t}
    BY <1>1, RecvCallLinked DEF Waiters
  <1> QED
    BY <1>2, MoveKeepsWait, Zenon

\* ... and so does the k_sem_take in it.
LEMMA TakeKeepsWait ==
  ASSUME TypeOK, WaitInv, ~fault, NEW t, Take(t)
  PROVE  WaitInv'
  <1>1. radio \in Radio /\ Linked(radio) /\ t \in radio.arm
        /\ radio' = SemTake(radio, t) /\ UNCHANGED <<tid, pc, fault>>
    BY DEF TypeOK, WaitInv, Take
  <1>2. Linked(radio') /\ Waiters(radio') \subseteq Waiters(radio)
    BY <1>1, SemTakeLinked DEF Waiters
  <1> QED
    BY <1>1, <1>2, FrameKeepsWait

\* So do the wait for a ping ...
LEMMA PingStepKeepsWait ==
  ASSUME TypeOK, WaitInv, ~fault, PingStep
  PROVE  WaitInv'
  <1>0. 2 \in Thread \ {0} /\ radio \in Radio /\ Linked(radio)
    BY SenderAssumption DEF TypeOK, WaitInv
  <1>1. CASE PingListen
    <2>1. config' \in Config
      BY <1>1, RetunedType, Zenon DEF PingListen, TypeOK
    <2>2. /\ radio' = RecvCall(Configured(radio, config'), 2)
          /\ pc[2] = "start" /\ pc' = [pc EXCEPT ![2] = "recv"]
          /\ UNCHANGED <<tid, fault>>
      BY <1>1 DEF PingListen
    <2> QED
      BY <1>0, <2>1, <2>2, SameWaiters, CallKeepsWait, Zenon DEF Waiting
  <1>2. CASE Take(2)
    BY <1>2, TakeKeepsWait
  <1>3. ASSUME NEW r \in Radio, Linked(r), Waiters(r) \subseteq Waiters(radio),
               2 \notin Waiters(r), pc[2] # "dead",
               radio' = r \/ radio' = Configured(r, config'),
               \E l : pc' = [pc EXCEPT ![2] = l], UNCHANGED <<tid, fault>>
        PROVE  WaitInv'
    <2>1. /\ Linked(radio') /\ Waiters(radio') \subseteq Waiters(radio)
          /\ 2 \notin Waiters(radio')
      BY <1>3, SendingLinked DEF Waiters
    <2> QED
      BY <1>0, <1>3, <2>1, MoveKeepsWait, Zenon
  <1>4. CASE PingReceived
    <2>1. /\ 2 \notin Waiters(radio) /\ pc[2] = "recv"
          /\ radio' = radio \/ radio' = Configured(radio, config')
          /\ \E l : pc' = [pc EXCEPT ![2] = l]
          /\ UNCHANGED <<tid, fault>>
      BY <1>4, Zenon DEF PingReceived, Received, PingReturn, PingVerdict, Waiters
    <2> QED
      BY <1>0, <1>3, <2>1, Zenon
  <1>5. CASE PingTimeout
    <2>1. /\ Unpend(radio, 2) \in Radio /\ Linked(Unpend(radio, 2))
          /\ Waiters(Unpend(radio, 2)) = Waiters(radio) \ {2}
      BY <1>0, RadioTypes, UnpendWaiters
    <2>2. /\ pc[2] = "recv"
          /\ \/ radio' = Unpend(radio, 2)
             \/ radio' = Configured(Unpend(radio, 2), config')
          /\ \E l : pc' = [pc EXCEPT ![2] = l]
          /\ UNCHANGED <<tid, fault>>
      BY <1>5, Zenon DEF PingTimeout, PingReturn, PingVerdict
    <2> QED
      BY <1>3, <2>1, <2>2, Zenon
  <1>6. CASE PingReconnected \/ PingReport
    <2>1. /\ pc[2] \in {"reconnect", "report"}
          /\ radio' = radio \/ radio' = Configured(radio, config')
          /\ \E l : pc' = [pc EXCEPT ![2] = l]
          /\ UNCHANGED <<tid, fault>>
      BY <1>6, Zenon DEF PingReconnected, PingReport, PingVerdict
    <2>2. 2 \notin Waiters(radio)
      BY <2>1 DEF WaitInv, Waiting
    <2> QED
      BY <1>0, <1>3, <2>1, <2>2, Zenon
  <1> QED
    BY <1>1, <1>2, <1>4, <1>5, <1>6 DEF PingStep

\* ... an experiment, up to its handover ...
LEMMA ExperimentKeepsWait ==
  ASSUME TypeOK, WaitInv, ~fault, NEW t \in ExpThread,
         \/ Listen(t) \/ AnswerPing(t) \/ Accept(t) \/ PrepareAck(t)
         \/ SendAck(t) \/ HearAgain(t) \/ CountdownOver(t) \/ NextCombo(t)
         \/ Measure(t) \/ ComboDone(t) \/ ExperimentEnd(t) \/ SwitchStack(t)
         \/ AbortSelf(t) \/ StoreTid(t)
  PROVE  WaitInv'
  <1>0. t \in Thread \ {0} /\ radio \in Radio /\ Linked(radio)
    BY SenderAssumption DEF TypeOK, WaitInv, ExpThread
  <1>1. CASE Listen(t)
    <2>1. /\ pc[t] = "listen" /\ radio' = RecvCall(radio, t)
          /\ pc' = [pc EXCEPT ![t] = "listenRecv"] /\ UNCHANGED <<tid, fault>>
      BY <1>1 DEF Listen
    <2> QED
      BY <1>0, <2>1, CallKeepsWait, Zenon DEF Waiting
  <1>2. CASE SendAck(t)
    <2>1. config' \in Config
      BY <1>2, RetunedType, Zenon DEF SendAck, TypeOK
    <2>2. /\ radio' = RecvCall(Configured(Sending(radio), config'), t)
          /\ pc[t] = "ackSend" /\ pc' = [pc EXCEPT ![t] = "countdown"]
          /\ UNCHANGED <<tid, fault>>
      BY <1>2 DEF SendAck
    <2> QED
      BY <1>0, <2>1, <2>2, SameWaiters, CallKeepsWait, Zenon DEF Waiting
  <1>3. CASE CountdownOver(t)
    <2>1. /\ pc[t] = "countdown" /\ radio' = Unpend(radio, t)
          /\ pc' = [pc EXCEPT ![t] = "combo"] /\ UNCHANGED <<tid, fault>>
      BY <1>3, Zenon DEF CountdownOver
    <2>2. Linked(radio') /\ Waiters(radio') = Waiters(radio) \ {t}
      BY <1>0, <2>1, UnpendWaiters, Zenon
    <2> QED
      BY <1>0, <2>1, <2>2, MoveKeepsWait, Zenon
  <1>4. /\ Linked(Sending(radio)) /\ Waiters(Sending(radio)) = Waiters(radio)
        /\ \A c : /\ Linked(Configured(radio, c))
                  /\ Waiters(Configured(radio, c)) = Waiters(radio)
                  /\ Linked(Configured(Sending(radio), c))
                  /\ Waiters(Configured(Sending(radio), c)) = Waiters(radio)
    <2>1. Sending(radio) \in Radio
      BY <1>0, RadioTypes
    <2> QED
      BY <1>0, <2>1, SendingLinked, Zenon DEF Waiters
  <1>5. CASE AnswerPing(t) \/ Accept(t) \/ HearAgain(t)
    <2>1. /\ pc[t] \in Waiting /\ t \notin Waiters(radio)
          /\ radio' = radio \/ radio' = Configured(Sending(radio), config')
          /\ \E l : pc' = [pc EXCEPT ![t] = l]
          /\ UNCHANGED <<tid, fault>>
      BY <1>5, Zenon DEF AnswerPing, Accept, HearAgain, Received, Waiting, Waiters
    <2>2. Linked(radio') /\ Waiters(radio') = Waiters(radio)
      BY <1>0, <1>4, <2>1
    <2>3. pc[t] # "dead"
      BY <2>1 DEF Waiting
    <2> QED
      BY <1>0, <2>1, <2>2, <2>3, MoveKeepsWait, Zenon
  <1>6. CASE Measure(t)
    <2>1. radio' = Sending(radio) /\ UNCHANGED <<tid, pc, fault>>
      BY <1>6 DEF Measure
    <2> QED
      BY <1>4, <2>1, FrameKeepsWait
  <1>7. CASE \/ PrepareAck(t) \/ NextCombo(t) \/ ComboDone(t)
             \/ ExperimentEnd(t) \/ SwitchStack(t) \/ AbortSelf(t) \/ StoreTid(t)
    <2>1. /\ pc[t] \notin Waiting /\ pc[t] # "dead"
          /\ radio' = radio \/ radio' = Configured(radio, config')
          /\ \E l : pc' = [pc EXCEPT ![t] = l]
          /\ fault' = fault
      BY <1>7, Zenon
      DEF PrepareAck, NextCombo, ComboDone, ExperimentEnd, SwitchStack,
          AbortSelf, StoreTid, Waiting
    <2>2. tid'[2] = tid[2]
      <3>1. tid' = tid \/ tid' = [tid EXCEPT ![Successor] = TRUE]
        BY <1>7, Zenon
        DEF PrepareAck, NextCombo, ComboDone, ExperimentEnd, SwitchStack,
            AbortSelf, StoreTid
      <3>2. Successor # 2
        BY DEF Successor
      <3> QED
        BY <3>1, <3>2, SenderAssumption DEF TypeOK
    <2>3. t \notin Waiters(radio)
      BY <2>1 DEF WaitInv
    <2> QED
      <3>1. Linked(radio') /\ Waiters(radio') = Waiters(radio)
        BY <1>0, <1>4, <2>1
      <3> QED
        BY <1>0, <2>1, <2>2, <2>3, <3>1, MoveKeepsWait, Zenon
  <1> QED
    BY <1>1, <1>2, <1>3, <1>5, <1>6, <1>7

\* ... and the handover.
LEMMA CreateKeepsWait ==
  ASSUME TypeOK, WaitInv, ~fault, NEW t \in ExpThread, CreateNext(t)
  PROVE  WaitInv'
  <1>0. /\ t \in Thread \ {0, 2} /\ Successor \in Thread \ {0, 2}
        /\ 0 \in Thread /\ 2 \in Thread
    BY SenderAssumption DEF ExpThread, Successor
  <1>1. /\ radio' = Dropped(radio, Successor) /\ UNCHANGED tid
        /\ fault' = (Aborted({Successor})[Successor] # "dead")
        /\ pc[t] = "create" /\ ~(t = Successor /\ tid[t])
        /\ pc' = [pc EXCEPT ![t] = "store", ![Successor] = "listen"]
    BY DEF CreateNext
  <1>2. \A u \in Thread : pc'[u] = IF u = Successor THEN "listen"
                                  ELSE IF u = t THEN "store" ELSE pc[u]
    BY <1>0, <1>1 DEF TypeOK
  <1>3. ~fault' => tid[Successor] \/ pc[Successor] = "dead"
    BY <1>0, <1>1, Zenon DEF Aborted
  <1>4. /\ Linked(radio') /\ Waiters(radio') \subseteq Waiters(radio)
        /\ tid[Successor] => Successor \notin Waiters(radio')
    BY <1>1, DroppedWaiters DEF TypeOK, WaitInv
  <1>5. Waiters(radio) \subseteq Thread
    BY DEF TypeOK, Radio, Waiters
  <1>6. ~fault' => \A u \in Waiters(radio') : pc'[u] \in Waiting
    <2>1. t \notin Waiters(radio)
      BY <1>1 DEF WaitInv, Waiting
    <2>2. ~fault' => Successor \notin Waiters(radio')
      BY <1>3, <1>4 DEF WaitInv, Waiting
    <2> QED
      BY <1>2, <1>4, <1>5, <2>1, <2>2 DEF WaitInv
  <1> QED
    BY <1>0, <1>1, <1>2, <1>4, <1>6, Zenon DEF WaitInv

\* Every step keeps WaitInv.
LEMMA NextKeepsWait ==
  ASSUME TypeOK, WaitInv, [Next]_vars
  PROVE  WaitInv'
  <1>1. CASE ~fault /\ Callback
    BY <1>1, CallbackKeepsWait
  <1>2. CASE RunLoop
    <2>1. CASE LoopSend
      <3>1. radio' = Sending(radio) /\ UNCHANGED <<tid, pc, fault>> /\ ~fault
        BY <1>2, <2>1 DEF RunLoop, LoopSend
      <3>2. Linked(radio') /\ Waiters(radio') = Waiters(radio)
        BY <3>1, SendingLinked DEF TypeOK, WaitInv, Waiters
      <3> QED
        BY <3>1, <3>2, FrameKeepsWait
    <2>2. CASE LoopEnd
      <3>1. /\ ~fault /\ UNCHANGED <<radio, tid, fault>>
            /\ pc' = [pc EXCEPT ![0] = "dead"]
        BY <1>2, <2>2 DEF RunLoop, LoopEnd
      <3>2. pc'[0] = "dead" /\ \A t \in Thread \ {0} : pc'[t] = pc[t]
        BY <3>1, SenderAssumption DEF TypeOK
      <3>3. 0 \notin Waiters(radio) /\ Waiters(radio) \subseteq Thread
        BY <3>1, Zenon DEF TypeOK, Radio, WaitInv, Waiters, Waiting
      <3> QED
        BY <3>1, <3>2, <3>3, SenderAssumption DEF WaitInv
    <2> QED
      BY <1>2, <2>1, <2>2 DEF RunLoop, LoopStep
  <1>3. CASE RunPing
    BY <1>3, PingStepKeepsWait DEF RunPing
  <1>4. ASSUME NEW t \in ExpThread, RunExperiment(t)
        PROVE  WaitInv'
    BY <1>4, TakeKeepsWait, ExperimentKeepsWait, CreateKeepsWait
    DEF RunExperiment, ExperimentStep
  <1>5. ASSUME NEW p \in Heard, Hear(p), ~fault
        PROVE  WaitInv'
    <2>1. radio' = RxDone(radio, p) /\ UNCHANGED <<tid, pc, fault>>
      BY <1>5 DEF Hear
    <2>2. Linked(radio') /\ Waiters(radio') \subseteq Waiters(radio)
      BY <1>5, <2>1, RxDoneLinked DEF TypeOK, WaitInv, Waiters
    <2> QED
      BY <1>5, <2>1, <2>2, FrameKeepsWait
  <1>6. CASE UNCHANGED vars
    <2>1. UNCHANGED <<radio, tid, pc, fault>>
      BY <1>6 DEF vars
    <2> QED
      BY <2>1 DEF WaitInv
  <1> QED
    BY <1>1, <1>2, <1>3, <1>4, <1>5, <1>6 DEF Next, Crashed

\* WaitInv holds initially: nobody waits.
LEMMA InitWait == Init => WaitInv
  <1> SUFFICES ASSUME Init PROVE WaitInv
    OBVIOUS
  <1>1. /\ radio.pend = {} /\ radio.arm = {} /\ radio.waitq = << >>
        /\ radio.sem = 0
    BY DEF Init, Booted
  <1>2. Linked(radio) /\ Waiters(radio) = {}
    BY <1>1 DEF Linked, Members, Distinct, Waiters
  <1>3. pc[0] = "dead" /\ pc[2] = "dead"
    BY SenderAssumption DEF Init
  <1> QED
    BY <1>2, <1>3 DEF WaitInv

\* However the packets, the timeouts, and the writes of the phone that abort a
\* thread inside lora_recv fall between the steps of its two halves, a packet
\* is given to a thread that still waits for one, and no thread sleeps while a
\* packet is unread.
THEOREM SenderPacketsReachWaiters == Spec => []PacketsReachWaiters
  <1>1. WaitInv => PacketsReachWaiters
    BY DEF WaitInv, PacketsReachWaiters, Linked, Members, Waiters, Waiting
  <1> QED
    BY <1>1, InitWait, InitTypeOK, NextTypeOK, NextKeepsWait, PTL DEF Spec
=============================================================================
