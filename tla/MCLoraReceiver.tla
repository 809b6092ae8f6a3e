--------------------------- MODULE MCLoraReceiver ---------------------------
(* LoraReceiver on small instances.                                        *)
EXTENDS LoraReceiver

CONSTANTS e1, e2, x1, p1, p2

\* e1: one frequency with two combinations, and a delay shorter than the
\* reconnection; e2: two frequencies, and a delay that is long enough.
Short == [head |-> 2, mid |-> 1, tail |-> e1]
Long == [head |-> 2, mid |-> 2, tail |-> e2]
MCSettings == {Short, Long}

MCTails == {NoTail, Payload, e1, e2, x1}
MCTexts == {x1}
MCCombinations == [t \in MCTails |-> IF t = e1 THEN 2 ELSE 1]
MCDelays == [t \in MCTails |-> IF t = e2 THEN {20} ELSE {3}]
MCThread == 0 .. 2

\* p1 has more than 10 dBm, and so does one combination of the experiments.
MCHighPower == {p1, ComboPar(Short, 1), ComboPar(Long, 1)}

\* What the sending device may send.
ExperimentPackets == {Ping, Measurement(0)} \cup Settings
AllPackets == {ExplorePing(x1), Ping} \cup Settings

\* A thread is about to copy the radio's buffer and to look at the copy.
Copying ==
  \E t \in Thread : pc[t] \in {"recv", "ackRecv"} /\ Received(radio, t)

\* The states as TLC tells them apart.  Left out is what no step reads (air, note,
\* the rest of receive_lora's data, and tid, set for every thread that lives) or
\* what none reads any more: each is written anew before it is read again.  Of a
\* wrong ACK only the tail, of a ping's answer only the verdict is read later.
View ==
  <<config, connected, reconnect, pc, screen, ready, meddled, fault,
    [radio EXCEPT !.buf = IF radio.sem > 0 \/ Copying THEN @ ELSE Zeros],
    IF pc[1] = "dead" THEN FreshExp ELSE
      [exp EXCEPT !.ack = Zeros,
                  !.delay = IF pc[1] = "settle" THEN @ ELSE 0],
    pc[1] \in {"send", "ackRecv"} /\ exp.ack.tail = exp.data.tail,
    pc[2] \in {"reconnect", "report"} /\ ping.got,
    pc[2] \in {"reconnect", "report"} /\ ping.resp = Ping,
    IF screen = "none" THEN Unset ELSE asked,
    ready /\ screen = "open" /\ early>>
=============================================================================
