------------------------------- MODULE Sx12xx -------------------------------
(***************************************************************************)
(* The LoRa driver of both devices (drivers/lora/sx12xx_common.c) as       *)
(* operators on its state, a record                                        *)
(*                                                                         *)
(*   par, tx   the parameters last written to the chip, and whether by     *)
(*             SetTxConfig (tx) or SetRxConfig                             *)
(*   rx        the chip is in receive mode                                 *)
(*   sem       the count of the semaphore data_sem                         *)
(*   buf       the buffer rx_buf points to                                 *)
(*   arm       the threads in lora_recv between Radio.Rx and k_sem_take    *)
(*   waitq     the threads queued on data_sem, oldest first                *)
(*   pend      the threads suspended in k_sem_take                         *)
(*   torn      the links of the queue are no longer those of one list      *)
(*                                                                         *)
(* The semaphore is that of kernel/sem.c, its queue the list of            *)
(* include/sys/dlist.h.                                                    *)
(*                                                                         *)
(* A call of lora_recv is RecvCall, then SemTake, then a return with the   *)
(* buffer once the caller is no longer suspended, or Unpend on a timeout.  *)
(* Packets may arrive, and the caller may be aborted, in between.          *)
(***************************************************************************)
EXTENDS LoraPackets, Sequences

CONSTANTS
  Thread,    \* the threads of the device
  Params,    \* the LoRa configurations a phone may choose
  Unset      \* the zeroed configuration a device boots with

\* The parameters of combination c of an experiment with settings d.
ComboPar(d, c) == [settings |-> d, index |-> c]

Pars == Params \cup {Unset} \cup [settings : Packet, index : Nat]

Config == [par : Pars, tx : BOOLEAN]

Radio ==
  [par : Pars, tx : BOOLEAN, rx : BOOLEAN, sem : Nat, buf : Packet,
   arm : SUBSET Thread, waitq : Seq(Thread), pend : SUBSET Thread,
   torn : BOOLEAN]

\* What is on the air from one device: at most one packet and its parameters.
NoSignal == [on |-> FALSE]
Signal == {NoSignal} \cup [on : {TRUE}, pkt : Packet, par : Pars]

\* The driver after boot.
Booted ==
  [par |-> Unset, tx |-> FALSE, rx |-> FALSE, sem |-> 0, buf |-> Zeros,
   arm |-> {}, waitq |-> << >>, pend |-> {}, torn |-> FALSE]

Queued(r, t) == \E i \in 1 .. Len(r.waitq) : r.waitq[i] = t

\* k_sem_init: a queued thread stays suspended, linked to the head of the
\* list, which forgets it; two such threads stay linked to each other.
SemInit(r) == [r EXCEPT !.sem = 0, !.waitq = << >>, !.torn = @ \/ Len(r.waitq) > 1]

\* k_sem_take by thread t, which is suspended if the count is zero.
SemTake(r, t) ==
  IF r.sem > 0
  THEN [r EXCEPT !.arm = @ \ {t}, !.sem = @ - 1]
  ELSE [r EXCEPT !.arm = @ \ {t}, !.waitq = Append(@, t), !.pend = @ \cup {t}]

\* Mutant: the count goes up also when a thread is waiting.
SemGiveCounting(r) ==
  IF r.waitq = << >>
  THEN [r EXCEPT !.sem = @ + 1]
  ELSE [r EXCEPT !.sem = @ + 1, !.waitq = Tail(@), !.pend = @ \ {Head(r.waitq)}]

\* k_sem_give: the oldest waiter gets the semaphore.  The limit is out of reach.
SemGive(r) ==
  IF r.waitq = << >>
  THEN [r EXCEPT !.sem = @ + 1]
  ELSE [r EXCEPT !.waitq = Tail(@), !.pend = @ \ {Head(r.waitq)}]

\* lora_init
Reset(r) == SemInit([r EXCEPT !.rx = FALSE])

\* Mutant: config->tx is ignored.
ConfiguredIgnoringTx(r, c) == [r EXCEPT !.par = c.par]

\* lora_config
Configured(r, c) == [r EXCEPT !.par = c.par, !.tx = c.tx]

\* lora_send: the chip leaves receive mode, and sleeps after the transmission.
Sending(r) == [r EXCEPT !.rx = FALSE]
Transmission(p, par) == [on |-> TRUE, pkt |-> p, par |-> par]

\* lora_recv up to Radio.Rx, called by thread t.
RecvCall(r, t) == [r EXCEPT !.rx = TRUE, !.arm = @ \cup {t}]

\* k_sem_take returned 0 to thread t, which now copies r.buf.
Received(r, t) == t \notin r.pend /\ t \notin r.arm

\* The queue q without thread t.
Unqueue(q, t) ==
  IF \E i \in 1 .. Len(q) : q[i] = t
  THEN LET i == CHOOSE j \in 1 .. Len(q) : q[j] = t
       IN  SubSeq(q, 1, i - 1) \o SubSeq(q, i + 1, Len(q))
  ELSE q

\* Thread t stops waiting: its timeout expired or it was aborted.  Unlinking a
\* thread that k_sem_init forgot empties the list.
Unpend(r, t) ==
  IF t \in r.pend => Queued(r, t)
  THEN [r EXCEPT !.arm = @ \ {t}, !.waitq = Unqueue(@, t), !.pend = @ \ {t}]
  ELSE [r EXCEPT !.waitq = << >>, !.pend = @ \ {t}, !.torn = @ \/ Len(r.waitq) > 1]

\* sx12xx_ev_rx_done
RxDone(r, p) == SemGive([r EXCEPT !.rx = FALSE, !.buf = p])
=============================================================================
