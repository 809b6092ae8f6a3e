---------------------------- MODULE Sx12xxProofs ----------------------------
(***************************************************************************)
(* Facts about the driver's operators, for the proofs about both devices:  *)
(* each keeps the driver's state well-typed, and keeps the queue of the    *)
(* semaphore in step with the threads that are suspended on it.            *)
(***************************************************************************)
EXTENDS Sx12xx, SequenceTheorems, TLAPS

\* The threads in a queue, and that none is in it twice.
Members(q) == {q[i] : i \in 1 .. Len(q)}
Distinct(q) == \A i, j \in 1 .. Len(q) : q[i] = q[j] => i = j

\* The suspended threads are those in the queue, once each; none of them is
\* still on its way to k_sem_take; and they have not slept over a packet.
Linked(r) ==
  /\ r.pend = Members(r.waitq)
  /\ Distinct(r.waitq)
  /\ r.arm \cap r.pend = {}
  /\ r.pend # {} => r.sem = 0

\* What is stored in one or two bytes is what they can hold.
LEMMA StoredTypes ==
  ASSUME NEW k \in Int
  PROVE  /\ 0 \in Uint8 /\ 0 \in Uint16
         /\ k % Byte \in Uint8 /\ k % Word \in Uint16
  <1>1. Byte \in Nat \ {0} /\ Word \in Nat \ {0}
    BY DEF Word, Byte
  <1> QED
    BY <1>1 DEF Uint8, Uint16

\* A zeroed buffer, and what the devices send, are packets.
LEMMA PacketTypes ==
  /\ Zeros \in Packet
  /\ Ping \in Packet
  /\ \A c \in Nat : Measurement(c) \in Packet
  /\ \A b \in Packet : FirstFive(b) \in Packet /\ Combos(b) \in Nat
  /\ \A b, p \in Packet : Store(b, p) \in Packet
  <1>1. Zeros \in Packet /\ Ping \in Packet
    BY PacketAssumption DEF Packet, Zeros, Ping
  <1>2. ASSUME NEW c \in Nat PROVE Measurement(c) \in Packet
    BY PacketAssumption DEF Packet, Measurement
  <1>3. ASSUME NEW b \in Packet PROVE FirstFive(b) \in Packet
    BY PacketAssumption DEF Packet, FirstFive
  <1>4. ASSUME NEW b \in Packet PROVE Combos(b) \in Nat
    BY PacketAssumption DEF Packet, Combos
  <1>5. ASSUME NEW b \in Packet, NEW p \in Packet PROVE Store(b, p) \in Packet
    BY DEF Packet, Store
  <1> QED
    BY <1>1, <1>2, <1>3, <1>4, <1>5

\* The texts of the explore mode are packets.
LEMMA TextTypes ==
  ASSUME NEW x \in Texts
  PROVE  ExplorePing(x) \in Packet /\ ExploreMessage(x) \in Packet
  BY PacketAssumption DEF Packet, ExplorePing, ExploreMessage

\* A thread that leaves the wait queue leaves a queue.
LEMMA UnqueueType ==
  ASSUME NEW q \in Seq(Thread), NEW t
  PROVE  Unqueue(q, t) \in Seq(Thread)
  <1>1. CASE \E i \in 1 .. Len(q) : q[i] = t
    <2> DEFINE i == CHOOSE j \in 1 .. Len(q) : q[j] = t
    <2>1. i \in 1 .. Len(q)
      BY <1>1
    <2> HIDE DEF i
    <2>2. SubSeq(q, 1, i - 1) \in Seq(Thread)
      BY <2>1, SubSeqProperties, LenProperties
    <2>3. SubSeq(q, i + 1, Len(q)) \in Seq(Thread)
      BY <2>1, SubSeqProperties, LenProperties
    <2>4. SubSeq(q, 1, i - 1) \o SubSeq(q, i + 1, Len(q)) \in Seq(Thread)
      BY <2>2, <2>3, ConcatProperties
    <2>5. Unqueue(q, t) = SubSeq(q, 1, i - 1) \o SubSeq(q, i + 1, Len(q))
      BY <1>1 DEF Unqueue, i
    <2> QED
      BY <2>4, <2>5
  <1>2. CASE ~\E i \in 1 .. Len(q) : q[i] = t
    BY <1>2 DEF Unqueue
  <1> QED
    BY <1>1, <1>2

\* Every operation of the driver keeps its state well-typed ...
LEMMA RadioTypes ==
  ASSUME NEW r \in Radio, NEW t \in Thread
  PROVE  /\ r.par \in Pars
         /\ r.buf \in Packet
         /\ Reset(r) \in Radio
         /\ Sending(r) \in Radio
         /\ RecvCall(r, t) \in Radio
         /\ SemTake(r, t) \in Radio
         /\ Unpend(r, t) \in Radio
  <1>1. /\ r.par \in Pars /\ r.tx \in BOOLEAN /\ r.rx \in BOOLEAN
        /\ r.sem \in Nat /\ r.buf \in Packet /\ r.waitq \in Seq(Thread)
        /\ r.arm \in SUBSET Thread /\ r.pend \in SUBSET Thread
        /\ r.torn \in BOOLEAN
    BY DEF Radio
  <1>2. << >> \in Seq(Thread)
    BY EmptySeq
  <1>3. Reset(r) \in Radio
    BY <1>2 DEF Radio, Reset, SemInit
  <1>4. Sending(r) \in Radio
    BY DEF Radio, Sending
  <1>5. RecvCall(r, t) \in Radio
    <2>1. r.arm \cup {t} \in SUBSET Thread
      BY <1>1
    <2> QED
      BY <2>1 DEF Radio, RecvCall
  <1>6. SemTake(r, t) \in Radio
    <2>1. Append(r.waitq, t) \in Seq(Thread)
      BY <1>1, AppendProperties
    <2>2. r.sem > 0 => r.sem - 1 \in Nat
      BY <1>1
    <2>3. r.pend \cup {t} \in SUBSET Thread /\ r.arm \ {t} \in SUBSET Thread
      BY <1>1
    <2> QED
      BY <2>1, <2>2, <2>3 DEF Radio, SemTake
  <1>7. Unpend(r, t) \in Radio
    <2>1. Unqueue(r.waitq, t) \in Seq(Thread)
      BY <1>1, UnqueueType
    <2>2. r.pend \ {t} \in SUBSET Thread /\ r.arm \ {t} \in SUBSET Thread
      BY <1>1
    <2>3. (r.torn \/ Len(r.waitq) > 1) \in BOOLEAN
      BY <1>1
    <2>4. CASE t \in r.pend => Queued(r, t)
      BY <2>1, <2>2, <2>4 DEF Radio, Unpend
    <2>5. CASE ~(t \in r.pend => Queued(r, t))
      BY <1>2, <2>2, <2>3, <2>5 DEF Radio, Unpend
    <2> QED
      BY <2>4, <2>5
  <1> QED
    BY <1>1, <1>3, <1>4, <1>5, <1>6, <1>7

\* ... lora_config among them, with a configuration, ...
LEMMA ConfiguredType ==
  ASSUME NEW r \in Radio, NEW c \in Config
  PROVE  Configured(r, c) \in Radio
  <1>1. c.par \in Pars /\ c.tx \in BOOLEAN
    BY DEF Config
  <1> QED
    BY <1>1 DEF Radio, Configured

\* ... and the arrival of a packet.
LEMMA RxDoneType ==
  ASSUME NEW r \in Radio, NEW p \in Packet
  PROVE  RxDone(r, p) \in Radio
  <1>1. r.sem \in Nat /\ r.waitq \in Seq(Thread) /\ r.pend \in SUBSET Thread
    BY DEF Radio
  <1>2. r.waitq # << >> => Tail(r.waitq) \in Seq(Thread)
    BY <1>1, HeadTailProperties
  <1>3. r.pend \ {Head(r.waitq)} \in SUBSET Thread
    BY <1>1
  <1>4. r.sem + 1 \in Nat
    BY <1>1
  <1> QED
    BY <1>2, <1>3, <1>4 DEF Radio, RxDone, SemGive

\* A thread joins the queue at its end ...
LEMMA AppendMembers ==
  ASSUME NEW S, NEW q \in Seq(S), NEW t \in S, Distinct(q), t \notin Members(q)
  PROVE  /\ Members(Append(q, t)) = Members(q) \cup {t}
         /\ Distinct(Append(q, t))
  <1>1. /\ Len(q) \in Nat /\ Len(Append(q, t)) = Len(q) + 1
        /\ \A i \in 1 .. Len(q) : Append(q, t)[i] = q[i]
        /\ Append(q, t)[Len(q) + 1] = t
    BY AppendProperties, LenProperties
  <1>2. Members(Append(q, t)) = Members(q) \cup {t}
    <2>1. \A i : i \in 1 .. Len(q) + 1 <=> i \in 1 .. Len(q) \/ i = Len(q) + 1
      BY <1>1
    <2> QED
      BY <1>1, <2>1 DEF Members
  <1>3. Distinct(Append(q, t))
    <2>1. \A i \in 1 .. Len(q) : q[i] # t
      BY DEF Members
    <2> QED
      BY <1>1, <2>1 DEF Distinct
  <1> QED
    BY <1>2, <1>3

\* ... the one at its head leaves it ...
LEMMA TailMembers ==
  ASSUME NEW S, NEW q \in Seq(S), q # << >>, Distinct(q)
  PROVE  /\ Members(Tail(q)) = Members(q) \ {Head(q)}
         /\ Distinct(Tail(q))
  <1>1. /\ Len(q) \in Nat \ {0} /\ Len(Tail(q)) = Len(q) - 1
        /\ Head(q) = q[1]
        /\ \A i \in 1 .. Len(q) - 1 : Tail(q)[i] = q[i + 1]
    BY HeadTailProperties, LenProperties, EmptySeq
  <1>2. ASSUME NEW x \in Members(Tail(q)) PROVE x \in Members(q) \ {Head(q)}
    <2>1. PICK i \in 1 .. Len(q) - 1 : x = q[i + 1]
      BY <1>1, <1>2 DEF Members
    <2>2. i + 1 \in 1 .. Len(q) /\ 1 \in 1 .. Len(q) /\ i + 1 # 1
      BY <1>1, <2>1
    <2> QED
      BY <1>1, <2>1, <2>2 DEF Members, Distinct
  <1>3. ASSUME NEW x \in Members(q), x # Head(q) PROVE x \in Members(Tail(q))
    <2>1. PICK i \in 1 .. Len(q) : x = q[i]
      BY <1>3 DEF Members
    <2>2. i - 1 \in 1 .. Len(q) - 1 /\ q[(i - 1) + 1] = x
      BY <1>1, <1>3, <2>1
    <2> QED
      BY <1>1, <2>2 DEF Members
  <1>4. Distinct(Tail(q))
    <2>1. \A i \in 1 .. Len(q) - 1 : i + 1 \in 1 .. Len(q)
      BY <1>1
    <2> QED
      BY <1>1, <2>1 DEF Distinct
  <1> QED
    BY <1>2, <1>3, <1>4

\* ... and so does one whose wait ends, wherever it is.
LEMMA UnqueueMembers ==
  ASSUME NEW q \in Seq(Thread), NEW t, Distinct(q)
  PROVE  /\ Members(Unqueue(q, t)) = Members(q) \ {t}
         /\ Distinct(Unqueue(q, t))
  <1>0. Len(q) \in Nat
    BY LenProperties
  <1>1. CASE \E i \in 1 .. Len(q) : q[i] = t
    <2> DEFINE k == CHOOSE j \in 1 .. Len(q) : q[j] = t
               u == Unqueue(q, t)
    <2>1. k \in 1 .. Len(q) /\ q[k] = t
      BY <1>1
    <2>2. u = SubSeq(q, 1, k - 1) \o SubSeq(q, k + 1, Len(q))
      BY <1>1 DEF Unqueue
    <2> HIDE DEF k, u
    <2>3. /\ SubSeq(q, 1, k - 1) \in Seq(Thread)
          /\ Len(SubSeq(q, 1, k - 1)) = k - 1
          /\ \A i \in 1 .. k - 1 : SubSeq(q, 1, k - 1)[i] = q[i]
      BY <1>0, <2>1, SubSeqProperties
    <2>4. /\ SubSeq(q, k + 1, Len(q)) \in Seq(Thread)
          /\ Len(SubSeq(q, k + 1, Len(q))) = Len(q) - k
          /\ \A i \in 1 .. Len(q) - k : SubSeq(q, k + 1, Len(q))[i] = q[k + i]
      BY <1>0, <2>1, SubSeqProperties
    <2>5. /\ Len(u) = Len(q) - 1
          /\ \A i \in 1 .. Len(q) - 1 : u[i] = IF i < k THEN q[i] ELSE q[i + 1]
      <3> DEFINE l == SubSeq(q, 1, k - 1)
                 m == SubSeq(q, k + 1, Len(q))
      <3>1. /\ l \in Seq(Thread) /\ Len(l) = k - 1
            /\ m \in Seq(Thread) /\ Len(m) = Len(q) - k
            /\ \A i \in 1 .. k - 1 : l[i] = q[i]
            /\ \A i \in 1 .. Len(q) - k : m[i] = q[k + i]
            /\ u = l \o m
        BY <2>2, <2>3, <2>4
      <3> HIDE DEF l, m
      <3>2. /\ Len(u) = Len(l) + Len(m)
            /\ \A i \in 1 .. Len(l) + Len(m) :
                 u[i] = IF i <= Len(l) THEN l[i] ELSE m[i - Len(l)]
        BY <3>1, ConcatProperties
      <3>3. Len(u) = Len(q) - 1
        BY <1>0, <2>1, <3>1, <3>2
      <3>4. ASSUME NEW i \in 1 .. Len(q) - 1, i < k PROVE u[i] = q[i]
        BY <1>0, <2>1, <3>1, <3>2, <3>4
      <3>5. ASSUME NEW i \in 1 .. Len(q) - 1, ~(i < k) PROVE u[i] = q[i + 1]
        <4>0. k \in Int /\ i \in Int /\ k <= i /\ i <= Len(q) - 1 /\ 1 <= k
          BY <1>0, <2>1, <3>5
        <4>1. i - (k - 1) \in 1 .. Len(q) - k /\ k + (i - (k - 1)) = i + 1
          BY <1>0, <4>0
        <4>2. u[i] = m[i - (k - 1)]
          <5>1. Len(l) = k - 1 /\ Len(m) = Len(q) - k
            BY <3>1
          <5>2. i \in 1 .. Len(l) + Len(m) /\ ~(i <= Len(l))
            BY <1>0, <4>0, <5>1
          <5> QED
            BY <3>2, <5>1, <5>2
        <4>3. m[i - (k - 1)] = q[k + (i - (k - 1))]
          BY <3>1, <4>1
        <4> QED
          BY <4>1, <4>2, <4>3
      <3> QED
        BY <3>3, <3>4, <3>5
    <2>6. ASSUME NEW x \in Members(u) PROVE x \in Members(q) \ {t}
      <3>1. PICK i \in 1 .. Len(q) - 1 : x = u[i]
        BY <2>5, <2>6 DEF Members
      <3>2. PICK j \in 1 .. Len(q) : x = q[j] /\ j # k
        BY <1>0, <2>1, <2>5, <3>1
      <3> QED
        BY <2>1, <3>2 DEF Members, Distinct
    <2>7. ASSUME NEW x \in Members(q), x # t PROVE x \in Members(u)
      <3>1. PICK j \in 1 .. Len(q) : x = q[j]
        BY <2>7 DEF Members
      <3>2. j # k
        BY <2>1, <2>7, <3>1
      <3>3. PICK i \in 1 .. Len(q) - 1 : x = u[i]
        <4>1. CASE j < k
          BY <1>0, <2>1, <2>5, <3>1, <4>1
        <4>2. CASE j > k
          <5>1. j - 1 \in 1 .. Len(q) - 1 /\ ~(j - 1 < k) /\ (j - 1) + 1 = j
            BY <1>0, <2>1, <4>2
          <5> QED
            BY <2>5, <3>1, <5>1
        <4> QED
          BY <2>1, <3>1, <3>2, <4>1, <4>2
      <3> QED
        BY <2>5, <3>3 DEF Members
    <2>8. Distinct(u)
      <3> DEFINE at(i) == IF i < k THEN i ELSE i + 1
      <3>1. \A i \in 1 .. Len(q) - 1 : at(i) \in 1 .. Len(q) /\ u[i] = q[at(i)]
        BY <1>0, <2>1, <2>5
      <3>2. \A i, j \in 1 .. Len(q) - 1 : at(i) = at(j) => i = j
        BY <1>0, <2>1
      <3> HIDE DEF at
      <3> QED
        BY <2>5, <3>1, <3>2 DEF Distinct
    <2> QED
      BY <2>6, <2>7, <2>8 DEF u
  <1>2. CASE ~\E i \in 1 .. Len(q) : q[i] = t
    BY <1>2 DEF Unqueue, Members
  <1> QED
    BY <1>1, <1>2

\* Sending and lora_config leave the semaphore alone.
LEMMA SendingLinked ==
  ASSUME NEW r \in Radio, NEW c
  PROVE  /\ Sending(r).pend = r.pend /\ Sending(r).arm = r.arm
         /\ Configured(r, c).pend = r.pend /\ Configured(r, c).arm = r.arm
         /\ Linked(r) => Linked(Sending(r)) /\ Linked(Configured(r, c))
  <1>1. /\ Sending(r).pend = r.pend /\ Sending(r).arm = r.arm
        /\ Sending(r).waitq = r.waitq /\ Sending(r).sem = r.sem
    BY DEF Radio, Sending
  <1>2. /\ Configured(r, c).pend = r.pend /\ Configured(r, c).arm = r.arm
        /\ Configured(r, c).waitq = r.waitq /\ Configured(r, c).sem = r.sem
    BY DEF Radio, Configured
  <1> QED
    BY <1>1, <1>2 DEF Linked

\* lora_recv up to k_sem_take, called by a thread that is not suspended.
LEMMA RecvCallLinked ==
  ASSUME NEW r \in Radio, NEW t
  PROVE  /\ RecvCall(r, t).pend = r.pend
         /\ RecvCall(r, t).arm = r.arm \cup {t}
         /\ Linked(r) /\ t \notin r.pend => Linked(RecvCall(r, t))
  <1>1. /\ RecvCall(r, t).pend = r.pend
        /\ RecvCall(r, t).arm = r.arm \cup {t}
        /\ RecvCall(r, t).waitq = r.waitq /\ RecvCall(r, t).sem = r.sem
    BY DEF Radio, RecvCall
  <1> QED
    BY <1>1 DEF Linked

\* k_sem_take, by a thread in lora_recv.
LEMMA SemTakeLinked ==
  ASSUME NEW r \in Radio, Linked(r), NEW t \in r.arm
  PROVE  /\ SemTake(r, t).pend \subseteq r.pend \cup {t}
         /\ SemTake(r, t).arm = r.arm \ {t}
         /\ Linked(SemTake(r, t))
  <1>1. /\ r.sem \in Nat /\ r.waitq \in Seq(Thread)
        /\ t \in Thread /\ t \notin Members(r.waitq)
    BY DEF Radio, Linked
  <1>2. CASE r.sem > 0
    <2>1. /\ SemTake(r, t).pend = r.pend
          /\ SemTake(r, t).arm = r.arm \ {t}
          /\ SemTake(r, t).waitq = r.waitq
      BY <1>2 DEF Radio, SemTake
    <2>2. r.pend = {}
      BY <1>1, <1>2 DEF Linked
    <2> QED
      BY <2>1, <2>2 DEF Linked
  <1>3. CASE ~(r.sem > 0)
    <2>1. /\ SemTake(r, t).pend = r.pend \cup {t}
          /\ SemTake(r, t).arm = r.arm \ {t}
          /\ SemTake(r, t).waitq = Append(r.waitq, t)
          /\ SemTake(r, t).sem = r.sem
      BY <1>3 DEF Radio, SemTake
    <2>2. /\ Members(Append(r.waitq, t)) = Members(r.waitq) \cup {t}
          /\ Distinct(Append(r.waitq, t))
      BY <1>1, AppendMembers DEF Linked
    <2>3. r.sem = 0
      BY <1>1, <1>3
    <2> QED
      BY <2>1, <2>2, <2>3 DEF Linked
  <1> QED
    BY <1>2, <1>3

\* A wait that ends by a timeout or by an abort, if there is one.
LEMMA UnpendLinked ==
  ASSUME NEW r \in Radio, Linked(r), NEW t
  PROVE  /\ Unpend(r, t).pend = r.pend \ {t}
         /\ Unpend(r, t).arm = r.arm \ {t}
         /\ Linked(Unpend(r, t))
  <1>1. t \in r.pend => Queued(r, t)
    BY DEF Linked, Members, Queued
  <1>2. /\ Unpend(r, t).pend = r.pend \ {t}
        /\ Unpend(r, t).arm = r.arm \ {t}
        /\ Unpend(r, t).waitq = Unqueue(r.waitq, t)
        /\ Unpend(r, t).sem = r.sem
    BY <1>1 DEF Radio, Unpend
  <1>3. /\ Members(Unqueue(r.waitq, t)) = Members(r.waitq) \ {t}
        /\ Distinct(Unqueue(r.waitq, t))
    <2>1. r.waitq \in Seq(Thread)
      BY DEF Radio
    <2> QED
      BY <2>1, UnqueueMembers DEF Linked
  <1> QED
    BY <1>2, <1>3 DEF Linked

\* The arrival of a packet.
LEMMA RxDoneLinked ==
  ASSUME NEW r \in Radio, Linked(r), NEW p
  PROVE  /\ RxDone(r, p).pend \subseteq r.pend
         /\ RxDone(r, p).arm = r.arm
         /\ Linked(RxDone(r, p))
  <1>1. r.waitq \in Seq(Thread)
    BY DEF Radio
  <1>2. CASE r.waitq = << >>
    <2>1. /\ RxDone(r, p).pend = r.pend /\ RxDone(r, p).arm = r.arm
          /\ RxDone(r, p).waitq = r.waitq
      BY <1>2 DEF Radio, RxDone, SemGive
    <2>2. r.pend = {}
      <3>1. Len(r.waitq) = 0
        BY <1>2, EmptySeq
      <3> QED
        BY <3>1 DEF Linked, Members
    <2> QED
      BY <2>1, <2>2 DEF Linked
  <1>3. CASE r.waitq # << >>
    <2>1. /\ RxDone(r, p).pend = r.pend \ {Head(r.waitq)}
          /\ RxDone(r, p).arm = r.arm
          /\ RxDone(r, p).waitq = Tail(r.waitq)
          /\ RxDone(r, p).sem = r.sem
      BY <1>3 DEF Radio, RxDone, SemGive
    <2>2. /\ Members(Tail(r.waitq)) = Members(r.waitq) \ {Head(r.waitq)}
          /\ Distinct(Tail(r.waitq))
      BY <1>1, <1>3, TailMembers DEF Linked
    <2> QED
      BY <2>1, <2>2 DEF Linked
  <1> QED
    BY <1>2, <1>3
=============================================================================
