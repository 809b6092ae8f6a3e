--------------------------- MODULE ExperimentLink ---------------------------
(***************************************************************************)
(* One experiment as both devices live it: exec_experiment of lses.c (the  *)
(* sender) and of lres.c (the receiver), the radio channel between them,   *)
(* and time in milliseconds.                                               *)
(*                                                                         *)
(* Each device is where it last called something that blocks, and left is  *)
(* the time until that call ends by itself.  Time jumps to the next such   *)
(* moment: an action of a device lets its left pass for both devices.      *)
(* lora_send blocks for the time on air, as both services suppose (lora.h  *)
(* calls it non-blocking, and the chip is not in this tree).               *)
(* A packet reaches the other device if that listens, with the same        *)
(* parameters, while the packet is on the air (heard), and the channel     *)
(* does not lose it.                                                       *)
(*                                                                         *)
(* The user waits for an experiment or a ping to end before the next one,  *)
(* the sender was prepared once, and atoi stops after the digits of the    *)
(* delay; LoraReceiver and LoraSender have the other cases.                *)
(***************************************************************************)
EXTENDS Integers, Sequences

CONSTANTS
  Experiments,   \* settings: n messages, t seconds apart, start after d
                 \*   seconds; high: sent with more than 10 dBm
  Combos,        \* the number of combinations of parameters
  StartCombo,    \* the combination with the parameters of the start, or -1
  Air,           \* Air[c]: time on air of a measuring message
  AirSettings,   \* ... of the settings
  AirAck,        \* ... of the ACK, 20 bytes
  AirPing,       \* ... of a ping, 5 bytes
  ExtraTime,     \* what the sender's own work may add to a sleep
  SetupTime,     \* how long the receiver may take to set up a window
  ReportTime,    \* how long the receiver may take to report a message
  UserTimes      \* how long the user may think, while the sender does not move

VARIABLES
  snd,     \* the sender: pc, data (exp), loop counters (combo, msg), left
  rcv,     \* the receiver: pc, exp_data (exp), iteration (combo), delay, left;
           \*   iteration_time (rem), millis_total (total), and the time since
           \*   time_stamp (since)
  heard,   \* the packet on the air reaches a device that listens
  lost,    \* history: packets lost in a row since the sender heard settings
  told     \* history: what the phone was told of the current experiment

vars == <<snd, rcv, heard, lost, told>>

Forever == -1
Byte == 256
Word == Byte * Byte
PingByte == 33          \* '!'
AckPause == 200
AckWait == 2000
PingWait == 3000
ReconnectTime == 17
Gap == 5000             \* between combinations
Start == -1             \* the parameters of the start of an experiment

NoExp == [n |-> 0, t |-> 0, d |-> 0, high |-> FALSE]

ASSUME LinkAssumption ==
  /\ Experiments \subseteq [n : 1 .. 100, t : 1 .. 127, d : Nat, high : BOOLEAN]
  /\ \A e \in Experiments : e.high => e.d >= ReconnectTime
  /\ Combos \in 1 .. Byte
  /\ StartCombo \in -1 .. Combos - 1
  /\ Air \in [0 .. Combos - 1 -> Nat \ {0}]
  /\ {AirSettings, AirAck, AirPing} \subseteq Nat \ {0}
  /\ AckPause + AirAck < AckWait
  /\ ExtraTime \cup SetupTime \cup ReportTime \cup UserTimes \subseteq Nat

Pair == (Int \X Int)

TypeOK ==
  /\ snd \in [pc : {"listen", "pong", "pause", "ack", "countdown", "gap",
                    "measure", "between", "broken"},
              exp : Experiments \cup {NoExp}, combo : 0 .. Combos - 1,
              msg : Nat, left : Nat \cup {Forever}]
  /\ rcv \in [pc : {"idle", "ping", "pingWait", "settings", "wait", "settle",
                    "setup", "window", "busy", "broken"},
              exp : Experiments \cup {NoExp}, combo : 0 .. Combos - 1,
              delay : 0 .. Word - 1, left : Nat \cup {Forever},
              rem : Int, total : Nat, since : Nat]
  /\ heard \in BOOLEAN
  /\ lost \in Nat
  /\ told \in Seq([label : Pair, sent : Pair])

FreshSender ==
  [pc |-> "listen", exp |-> NoExp, combo |-> 0, msg |-> 0, left |-> Forever]

IdleReceiver ==
  [pc |-> "idle", exp |-> NoExp, combo |-> 0, delay |-> 0, left |-> Forever,
   rem |-> 0, total |-> 0, since |-> 0]

Init ==
  /\ snd = FreshSender
  /\ rcv = IdleReceiver
  /\ heard = FALSE
  /\ lost = 0
  /\ told = << >>
-----------------------------------------------------------------------------
(* Time and the channel.                                                   *)

Due(x, y) == x.left # Forever /\ (y.left = Forever \/ x.left <= y.left)

SndDue(label) == snd.pc = label /\ Due(snd, rcv)
RcvDue(label) == rcv.pc = label /\ Due(rcv, snd)

\* A device after ms milliseconds; the receiver's clock matters in a window.
Later(x, ms) == [x EXCEPT !.left = IF @ = Forever THEN @ ELSE @ - ms]
RcvLater(ms) ==
  [Later(rcv, ms) EXCEPT !.since = IF rcv.pc \in {"window", "busy"}
                                   THEN @ + ms ELSE @]

\* A device that goes on to something which takes ms.
At(x, label, ms) == [x EXCEPT !.pc = label, !.left = ms]

\* k_sleep with a number that may be negative: K_MSEC cuts it off at zero.
Sleep(ms) == IF ms > 0 THEN ms ELSE 0

Par(c) == IF c = StartCombo THEN Start ELSE c

\* The sender awaits a packet.  After the countdown its chip stays in receive mode
\* until the first measuring message, but nobody takes what it receives then.
SndListens == snd.pc \in {"listen", "countdown"}

\* The receiver listens with the parameters p.
RcvListens(p) ==
  \/ rcv.pc \in {"wait", "pingWait"} /\ p = Start
  \/ rcv.pc = "window" /\ p = Par(rcv.combo)

-----------------------------------------------------------------------------
(* The receiver before the windows.                                        *)

SendSettings(x) == At(x, "settings", AirSettings)

\* The user starts an experiment, or a ping, some time after the last event.
User(x) ==
  /\ rcv.pc = "idle"
  /\ \E ms \in UserTimes :
       /\ snd.left = Forever \/ ms <= snd.left
       /\ snd' = Later(snd, ms)
  /\ rcv' = x
  /\ heard' = SndListens
  /\ UNCHANGED lost

StartExperiment(e) ==
  /\ User(SendSettings([IdleReceiver EXCEPT !.exp = e]))
  /\ told' = << >>

PingSender == User(At(rcv, "ping", AirPing)) /\ UNCHANGED told

\* The sender takes a packet for a ping and sends 5 bytes back at once; the
\* receiver may or may not listen already.
Answer ==
  /\ snd' = At(snd, "pong", AirPing)
  /\ heard' \in BOOLEAN

\* Mutant: the test for a ping is inverted.
SettingsHeardInverted ==
  /\ RcvDue("settings") /\ heard
  /\ rcv' = At(rcv, "wait", AckWait)
  /\ IF snd.pc = "listen" /\ rcv.exp.n # PingByte THEN Answer
     ELSE /\ snd' = At([snd EXCEPT !.exp = rcv.exp], "pause", AckPause)
          /\ heard' = FALSE
  /\ lost' = 0
  /\ UNCHANGED told

\* The settings are sent, and the receiver waits 2 seconds for the ACK.
SettingsHeard ==
  /\ RcvDue("settings") /\ heard
  /\ rcv' = At(rcv, "wait", AckWait)
  /\ IF snd.pc = "listen" /\ rcv.exp.n = PingByte THEN Answer
     ELSE /\ snd' = At([snd EXCEPT !.exp = rcv.exp], "pause", AckPause)
          /\ heard' = FALSE
  /\ lost' = 0
  /\ UNCHANGED told

SettingsLost ==
  /\ RcvDue("settings")
  /\ rcv' = At(rcv, "wait", AckWait)
  /\ snd' = Later(snd, rcv.left)
  /\ heard' = FALSE
  /\ lost' = IF heard /\ snd.pc = "countdown" THEN lost + 1 ELSE lost
  /\ UNCHANGED told

\* Mutant: the receiver gives up.
AckTimeoutOnce ==
  /\ RcvDue("wait")
  /\ rcv' = IdleReceiver
  /\ snd' = Later(snd, rcv.left)
  /\ heard' = FALSE
  /\ UNCHANGED <<lost, told>>

AckTimeout ==
  /\ RcvDue("wait")
  /\ rcv' = SendSettings(rcv)
  /\ snd' = Later(snd, rcv.left)
  /\ heard' = SndListens
  /\ UNCHANGED <<lost, told>>

\* A ping in the countdown overwrites the settings: the delay is garbage.
PingHeard ==
  /\ RcvDue("ping") /\ heard
  /\ rcv' = At(rcv, "pingWait", PingWait)
  /\ IF snd.pc = "listen" THEN Answer
     ELSE snd' = At(snd, "broken", Forever) /\ heard' = FALSE
  /\ UNCHANGED <<lost, told>>

PingLost ==
  /\ RcvDue("ping")
  /\ rcv' = At(rcv, "pingWait", PingWait)
  /\ snd' = Later(snd, rcv.left)
  /\ heard' = FALSE
  /\ UNCHANGED <<lost, told>>

PingTimeout ==
  /\ RcvDue("pingWait")
  /\ rcv' = IdleReceiver
  /\ snd' = Later(snd, rcv.left)
  /\ heard' = FALSE
  /\ UNCHANGED <<lost, told>>

-----------------------------------------------------------------------------
(* The receiver takes a packet.                                            *)

\* The number of a message by the clock; the division truncates towards zero.
TruncDiv(a, b) == IF a >= 0 THEN a \div b ELSE -((-a) \div b)

MsgNumber(x) ==
  TruncDiv(x.total - (IF x.combo = 0 THEN 1000 * x.delay ELSE 0) - Gap,
           x.exp.t * 1000) % Word

\* "handling timing after message"
Timed(x) ==
  [x EXCEPT !.rem = @ - x.since, !.total = @ + x.since, !.since = 0]

\* The ACK arrived; above 10 dBm the receiver waits for the phone.
Started(x, u) ==
  IF x.exp.high
  THEN At([x EXCEPT !.delay = (x.exp.d - ReconnectTime) % Word], "settle",
          1000 * ReconnectTime)
  ELSE At([x EXCEPT !.delay = x.exp.d % Word], "setup", u)

IsAck(kind, x) == kind = "ack" /\ snd.exp = x.exp

\* The receiver after a packet.  Before the ACK, another packet makes it send
\* the settings again; after a ping, one of more than 5 bytes overflows resp.
Taken(x, kind, p, u) ==
  CASE x.pc = "wait" /\ IsAck(kind, x) -> Started(x, u)
    [] x.pc = "wait" /\ ~IsAck(kind, x) -> SendSettings(x)
    [] x.pc = "pingWait" /\ kind = "pong" -> IdleReceiver
    [] x.pc = "pingWait" /\ kind # "pong" -> At(x, "broken", Forever)
    [] x.pc = "window" -> At(Timed(x), "busy", p)

\* A packet of the sender, now at its end, reaches the receiver.
Reaches(kind, sent) ==
  LET x == RcvLater(snd.left)
  IN  /\ heard
      /\ \E p \in ReportTime, u \in SetupTime : rcv' = Taken(x, kind, p, u)
      /\ told' = IF x.pc = "window"
                 THEN Append(told, [label |-> <<x.combo % Byte,
                                                MsgNumber(Timed(x)) % Byte>>,
                                    sent |-> sent])
                 ELSE told
      /\ heard' \in IF rcv'.pc = "settings" /\ kind = "pong" THEN BOOLEAN
                    ELSE {FALSE}

Misses ==
  /\ rcv' = RcvLater(snd.left)
  /\ heard' = FALSE
  /\ UNCHANGED told
-----------------------------------------------------------------------------
(* The sender before the measurements.                                     *)

NotMeasured == <<-1, -1>>

PongSent ==
  /\ SndDue("pong")
  /\ snd' = At(snd, "listen", Forever)
  /\ Reaches("pong", NotMeasured) \/ Misses
  /\ UNCHANGED lost

\* The sender sends a packet of length ms with parameters p.
Transmit(x, label, ms, p) ==
  /\ snd' = At(x, label, ms)
  /\ rcv' = RcvLater(snd.left)
  /\ heard' = RcvListens(p)

PauseOver ==
  /\ SndDue("pause")
  /\ Transmit(snd, "ack", AirAck, Start)
  /\ UNCHANGED <<lost, told>>

\* Mutant: milliseconds for seconds.
CountDownMsec == snd' = At(snd, "countdown", snd.exp.d)

\* The settings went back as ACK; the sender listens for the delay's length.
CountDown == snd' = At(snd, "countdown", 1000 * snd.exp.d)

AckHeard ==
  /\ SndDue("ack")
  /\ CountDown
  /\ Reaches("ack", NotMeasured)
  /\ UNCHANGED lost

AckLost ==
  /\ SndDue("ack")
  /\ CountDown
  /\ Misses
  /\ lost' = lost + 1
-----------------------------------------------------------------------------
(* The sender measures.                                                    *)

\* The next combination: 5 seconds pass, the time on air included.
NextCombo(c) ==
  /\ \E o \in ExtraTime :
       snd' = At([snd EXCEPT !.combo = c, !.msg = 0], "gap",
                 Sleep(Gap - Air[c]) + o)
  /\ rcv' = RcvLater(snd.left)
  /\ heard' = FALSE
  /\ UNCHANGED <<lost, told>>

CountdownOver == SndDue("countdown") /\ NextCombo(0)

SendMessage(m) ==
  /\ Transmit([snd EXCEPT !.msg = m], "measure", Air[snd.combo],
              Par(snd.combo))
  /\ UNCHANGED <<lost, told>>

GapOver == SndDue("gap") /\ SendMessage(0)

\* The sleep after a message: its time on air is subtracted unless it is last.
Between ==
  LET e == snd.exp
      air == IF snd.msg < e.n - 1 THEN Air[snd.combo] ELSE 0
  IN  \E o \in ExtraTime :
        snd' = At(snd, "between", Sleep(e.t * 1000 - air - 2) + o)

MessageSent ==
  /\ SndDue("measure")
  /\ Between
  /\ Reaches("msg", <<snd.combo, snd.msg>>) \/ Misses
  /\ UNCHANGED lost

NextMessage ==
  /\ SndDue("between")
  /\ snd.msg + 1 < snd.exp.n
  /\ SendMessage(snd.msg + 1)

ComboDone ==
  /\ SndDue("between")
  /\ snd.msg + 1 >= snd.exp.n
  /\ snd.combo + 1 < Combos
  /\ NextCombo(snd.combo + 1)

\* "automatic preparation for another experiment"
SenderDone ==
  /\ SndDue("between")
  /\ snd.msg + 1 >= snd.exp.n
  /\ snd.combo + 1 >= Combos
  /\ snd' = FreshSender
  /\ rcv' = RcvLater(snd.left)
  /\ UNCHANGED <<heard, lost, told>>
-----------------------------------------------------------------------------
(* The receiver's windows.                                                 *)

\* The receiver goes on to y while the sender's time passes.
RcvGoes(y) ==
  /\ rcv' = y
  /\ snd' = Later(snd, rcv.left)
  /\ heard' = FALSE
  /\ UNCHANGED <<lost, told>>

SettleOver ==
  /\ RcvDue("settle")
  /\ \E u \in SetupTime : RcvGoes(At(rcv, "setup", u))

\* Mutant: the first iteration does not include the delay.
IterationTimeWithoutDelay(x) == x.exp.n * x.exp.t * 1000 + Gap

\* iteration_time at the start of an iteration.
IterationTime(x) ==
  x.exp.n * x.exp.t * 1000 + (IF x.combo = 0 THEN 1000 * x.delay ELSE 0) + Gap

\* lora_recv with the time that is left as its timeout.
Listen(x) == At(x, "window", x.rem)

\* Mutant: the clock starts at zero.
WindowOpensAtZero ==
  /\ RcvDue("setup")
  /\ RcvGoes(Listen([rcv EXCEPT !.rem = IterationTime(rcv), !.total = 0,
                                !.since = 0]))

\* "start of an iteration: configure LoRa parameters and initialize timing"
WindowOpens ==
  /\ RcvDue("setup")
  /\ RcvGoes(Listen([rcv EXCEPT !.rem = IterationTime(rcv), !.total = 1000,
                                !.since = 0]))

\* Mutant: one iteration too many.
WindowGoesTooFar(y) ==
  \E u \in SetupTime :
    RcvGoes(IF y.rem > 0 THEN Listen(y)
            ELSE IF y.combo < Combos
                 THEN At([y EXCEPT !.combo = @ + 1], "setup", u)
                 ELSE IdleReceiver)

\* While time is left, the receiver listens again; then the next iteration.
WindowGoesOn(y) ==
  \E u \in SetupTime :
    RcvGoes(IF y.rem > 0 THEN Listen(y)
            ELSE IF y.combo + 1 < Combos
                 THEN At([y EXCEPT !.combo = @ + 1], "setup", u)
                 ELSE IdleReceiver)

ReportDone == RcvDue("busy") /\ WindowGoesOn(RcvLater(rcv.left))

WindowTimeout == RcvDue("window") /\ WindowGoesOn(Timed(RcvLater(rcv.left)))
-----------------------------------------------------------------------------

DeviceStep ==
  \/ SettingsHeard \/ SettingsLost \/ AckTimeout
  \/ PingHeard \/ PingLost \/ PingTimeout
  \/ PongSent \/ PauseOver \/ AckHeard \/ AckLost \/ CountdownOver
  \/ GapOver \/ MessageSent \/ NextMessage \/ ComboDone \/ SenderDone
  \/ SettleOver \/ WindowOpens \/ ReportDone \/ WindowTimeout

Next ==
  \/ DeviceStep
  \/ \E e \in Experiments : StartExperiment(e)
  \/ PingSender

Spec == Init /\ [][Next]_vars

\* Time passes; and of settings and of ACKs that are sent again and again, not
\* all are lost.
FairSpec ==
  /\ Spec
  /\ WF_vars(DeviceStep)
  /\ SF_vars(SettingsHeard)
  /\ SF_vars(AckHeard)
-----------------------------------------------------------------------------
(* Properties.                                                             *)

Measuring == {"settle", "setup", "window", "busy"}

\* While the receiver measures, the sender works on the same settings, and
\* whenever it sends a message the receiver listens for that combination: the
\* two clocks, set by the ACK alone, stay together as long as what the devices'
\* own work adds over all combinations fits into the slack of a window.
InStep ==
  rcv.pc \in Measuring =>
    /\ snd.exp = rcv.exp \/ (snd = FreshSender /\ rcv.combo = Combos - 1)
    /\ snd.pc = "measure" => rcv.pc = "window" /\ rcv.combo = snd.combo /\ heard

\* The sender never starts without the receiver unless every packet was lost
\* that the receiver could send during the delay: "listen for retransmission
\* (in case ACK didn't arrive at receiver) until delay counted down".
AloneOnlyAfterLosses ==
  [][snd.pc = "countdown" /\ snd'.pc = "gap" /\ rcv.pc \in {"settings", "wait"}
      => lost * (AckWait + AirSettings) >= AckPause + AirAck + 1000 * snd.exp.d
    ]_vars

\* When the receiver is free for a ping, the sender neither prepares to measure
\* nor transmits: no ping overwrites settings, no long packet answers a ping.
QuietWhenIdle ==
  rcv.pc \in {"idle", "ping", "pingWait"} =>
    snd.pc \notin {"pause", "ack", "countdown", "measure"}

Promise == INSTANCE Campaign WITH running <- rcv.pc \notin {"idle", "ping", "pingWait"}

\* Both devices together keep what an experiment promises its phone.
KeepsPromise == Promise!Spec

\* Settings that the receiver sends are acknowledged in the end: "sends
\* experiment settings and waits for 2 seconds in a loop until ACK arrives".
ExperimentStarts == rcv.pc = "settings" ~> rcv.pc \in Measuring
=============================================================================
