----------------------------- MODULE WorkQueue -----------------------------
(***************************************************************************)
(* The work queues of the kernel (kernel/work.c), on which the interrupts  *)
(* of the LoRa chip and the timers of the Bluetooth host are handled: work *)
(* items with their flags, delayable items with their timeouts, the thread *)
(* of each queue, and threads that flush, cancel or drain and wait.        *)
(*                                                                         *)
(* An action is what happens under one hold of the spinlock.  Calls come   *)
(* from threads, interrupts and handlers in any order; delays end at any   *)
(* time; handlers return.                                                  *)
(***************************************************************************)
EXTENDS Integers, Sequences, FiniteSets, SequencesExt

CONSTANTS
  Work,        \* work items
  Delayable,   \* those that are part of a k_work_delayable
  Queue,
  Users,       \* Users[q]: the items that are submitted to queue q
  Drained,     \* queues that are drained
  Client,      \* threads that wait for something
  NoQueue,     \* a null pointer to a queue
  Nobody       \* no work item, no object

ASSUME WorkAssumption ==
  /\ IsFiniteSet(Work) /\ IsFiniteSet(Queue) /\ IsFiniteSet(Client)
  /\ Delayable \subseteq Work
  /\ Users \in [Queue -> SUBSET Work]
  /\ Drained \subseteq Queue
  /\ Work \cap Client = {}
  /\ NoQueue \notin Queue
  /\ Nobody \notin Work \cup Queue \cup Client

VARIABLES
  work,      \* flags, queue, and target: the queue of a delayable item
  queue,     \* flags, pending, and its thread: pc, and the item it handles
  client,    \* pc: "free", or what it waits for; on: the item or the queue;
             \*   stage, history: what became of the flushed submission
  slipped,   \* history: items cancelled after they were taken off their
             \*   queue and before they were marked as running
  stopped,   \* history: items idle after a cancellation, not submitted since
  corrupt    \* an item was appended to a list that it was already in

vars == <<work, queue, client, slipped, stopped, corrupt>>

WorkFlag == {"delayed", "queued", "running", "canceling"}
QueueFlag == {"started", "busy", "drain", "plugged"}

\* A pending client is the flusher of that client.
TypeOK ==
  /\ work \in [Work -> [flags : SUBSET WorkFlag, queue : Queue \cup {NoQueue},
                        target : Queue \cup {NoQueue}]]
  /\ \A w \in Work \ Delayable : "delayed" \notin work[w].flags
  /\ queue \in [Queue -> [flags : SUBSET QueueFlag,
                          pending : Seq(Work \cup Client),
                          pc : {"off", "look", "asleep", "got", "run", "ran"},
                          item : Work \cup Client \cup {Nobody}]]
  /\ \A q \in Queue :
       /\ "busy" \in queue[q].flags <=> queue[q].pc \in {"got", "run", "ran"}
       /\ queue[q].item # Nobody <=> "busy" \in queue[q].flags
  /\ client \in [Client -> [pc : {"free", "flush", "cancel", "drain"},
                            on : Work \cup Queue \cup {Nobody},
                            stage : {"none", "queued", "running", "done"}]]
  /\ slipped \in SUBSET Work
  /\ stopped \in SUBSET Work
  /\ corrupt \in BOOLEAN

Free == [pc |-> "free", on |-> Nobody, stage |-> "none"]

Init ==
  /\ work = [w \in Work |-> [flags |-> {}, queue |-> NoQueue,
                             target |-> NoQueue]]
  /\ queue = [q \in Queue |-> [flags |-> {}, pending |-> << >>, pc |-> "off",
                               item |-> Nobody]]
  /\ client = [c \in Client |-> Free]
  /\ slipped = {}
  /\ stopped = {}
  /\ corrupt = FALSE
-----------------------------------------------------------------------------
(* Submission.                                                             *)

Listed(q, w) == w \in Range(queue[q].pending)
Holds(q, w, label) == queue[q].pc = label /\ queue[q].item = w

\* Mutant: the thread is not notified.
WokenByNobody(x) == x

\* notify_queue_locked
Woken(x) == [x EXCEPT !.pc = IF @ = "asleep" THEN "look" ELSE @]

\* by is the queue whose thread submits (from a handler), or NoQueue.
Accepts(q, by) ==
  LET f == queue[q].flags
  IN  /\ "started" \in f
      /\ "drain" \in f => by = q
      /\ "plugged" \in f => "drain" \in f

Caller(by) == by # NoQueue => queue[by].pc = "run"

\* Mutant: a running item goes to the queue that was asked for.
TargetAsked(x, q) == IF q = NoQueue THEN x.queue ELSE q

\* The queue an item with state x is submitted to: the one it is running on,
\* "to prevent handler re-entrancy"; or the last one, if none is given.
Target(x, q) == IF "running" \in x.flags \/ q = NoQueue THEN x.queue ELSE q

\* Whether submit_to_queue_locked queues an item whose state is by now x.
Accepted(x, q, by) ==
  /\ x.flags \cap {"canceling", "queued"} = {}
  /\ Target(x, q) # NoQueue
  /\ Accepts(Target(x, q), by)

\* The item and the queues after it is queued.
SubmittedItem(x, q) ==
  [x EXCEPT !.flags = @ \cup {"queued"}, !.queue = Target(x, q)]

\* Mutant: the last item is the first to be handled.
SubmittedFirst(x, w, q) ==
  [queue EXCEPT ![Target(x, q)] = Woken([@ EXCEPT !.pending = <<w>> \o @])]

SubmittedTo(x, w, q) ==
  [queue EXCEPT ![Target(x, q)] = Woken([@ EXCEPT !.pending = Append(@, w)])]

Twice(w) == \E q \in Queue : Listed(q, w)

\* submit_to_queue_locked
SubmitLocked(x, w, q, by) ==
  IF Accepted(x, q, by)
  THEN /\ work' = [work EXCEPT ![w] = SubmittedItem(x, q)]
       /\ queue' = SubmittedTo(x, w, q)
       /\ corrupt' = Twice(w)
       /\ stopped' = stopped \ {w}
  ELSE /\ work' = [work EXCEPT ![w] = x]
       /\ UNCHANGED <<queue, corrupt, stopped>>

\* k_work_submit_to_queue
Submit(w, q, by) ==
  /\ Caller(by)
  /\ SubmitLocked(work[w], w, q, by)
  /\ UNCHANGED <<client, slipped>>
-----------------------------------------------------------------------------
(* Delayable items.                                                        *)

Unscheduled(x) == [x EXCEPT !.flags = @ \ {"delayed"}]

\* schedule_for_queue_locked; without a delay the item is submitted.
ScheduleLocked(x, w, q, delay, by) ==
  IF delay
  THEN /\ work' = [work EXCEPT ![w] = [x EXCEPT !.flags = @ \cup {"delayed"},
                                                !.target = q]]
       /\ stopped' = stopped \ {w}
       /\ UNCHANGED <<queue, corrupt>>
  ELSE SubmitLocked(x, w, q, by)

\* k_work_schedule_for_queue: only an item that is idle or running.
Schedule(w, q, delay, by) ==
  /\ Caller(by)
  /\ work[w].flags \subseteq {"running"}
  /\ ScheduleLocked(work[w], w, q, delay, by)
  /\ UNCHANGED <<client, slipped>>

\* k_work_reschedule_for_queue
Reschedule(w, q, delay, by) ==
  /\ Caller(by)
  /\ ScheduleLocked(Unscheduled(work[w]), w, q, delay, by)
  /\ UNCHANGED <<client, slipped>>

\* work_timeout
Timeout(w) ==
  /\ "delayed" \in work[w].flags
  /\ SubmitLocked(Unscheduled(work[w]), w, work[w].target, NoQueue)
  /\ UNCHANGED <<client, slipped>>
-----------------------------------------------------------------------------
(* Cancellation.                                                           *)

\* The clients after a flushed submission of w went from one stage to another.
Staged(w, from, to) ==
  [c \in Client |->
     IF client[c].pc = "flush" /\ client[c].on = w /\ client[c].stage = from
     THEN [client[c] EXCEPT !.stage = to] ELSE client[c]]

\* Mutant: the semaphores are not given.
FinalizedSilently(cl, w) == cl

\* finalize_cancel_locked gives the semaphore of everyone who waits for w.
Finalized(cl, w) ==
  [c \in Client |-> IF cl[c].pc = "cancel" /\ cl[c].on = w THEN Free ELSE cl[c]]

\* queue_remove_locked
Removed(x) == IF "canceling" \in x.flags THEN x
              ELSE [x EXCEPT !.flags = @ \ {"queued"}]

\* Mutant: a running item counts as idle.
BusyUnlessRunning(x) == x.flags \ {"running"} # {}

\* Whether the item has to be waited for.
Busy(x) == x.flags # {}

\* cancel_async_locked, after unschedule_locked for a delayable item.
CancelLocked(w) ==
  LET x == Unscheduled(work[w])
      y == Removed(x)
  IN  /\ work' = [work EXCEPT ![w] =
                    IF Busy(y) THEN [y EXCEPT !.flags = @ \cup {"canceling"}]
                    ELSE y]
      /\ IF y # x
         THEN /\ queue' = [queue EXCEPT ![x.queue].pending =
                             SelectSeq(@, LAMBDA v : v # w)]
              /\ slipped' = IF \E q \in Queue : Holds(q, w, "got")
                            THEN slipped \cup {w} ELSE slipped
         ELSE UNCHANGED <<queue, slipped>>
      /\ stopped' = IF Busy(y) THEN stopped ELSE stopped \cup {w}
      /\ UNCHANGED corrupt

\* k_work_cancel, k_work_cancel_delayable
Cancel(w) == CancelLocked(w) /\ client' = Staged(w, "queued", "done")

\* k_work_cancel_sync, k_work_cancel_delayable_sync
CancelSync(c, w) ==
  /\ client[c] = Free
  /\ CancelLocked(w)
  /\ client' = LET cl == Staged(w, "queued", "done")
               IN  IF "canceling" \in work'[w].flags
                   THEN [cl EXCEPT ![c] = [Free EXCEPT !.pc = "cancel",
                                                       !.on = w]]
                   ELSE cl
-----------------------------------------------------------------------------
(* Flush.                                                                  *)

\* Mutant: the flusher overtakes the item.
FlusherFirst(s, w, c) == <<c>> \o s

\* queue_flusher_locked: after the item, or first if it is on its way.
FlusherQueued(s, w, c) ==
  IF w \in Range(s)
  THEN LET i == CHOOSE j \in 1 .. Len(s) : s[j] = w IN InsertAt(s, i + 1, c)
  ELSE <<c>> \o s

\* work_flush_locked, for an item w whose state is by now x.
FlushLocked(c, x, w, qs) ==
  IF x.flags \cap {"queued", "running"} # {}
  THEN /\ queue' = [qs EXCEPT ![x.queue] =
                      Woken([@ EXCEPT !.pending = FlusherQueued(@, w, c)])]
       /\ client' = [client EXCEPT ![c] =
                       [pc |-> "flush", on |-> w,
                        stage |-> IF "queued" \in x.flags THEN "queued"
                                  ELSE "running"]]
  ELSE queue' = qs /\ UNCHANGED client

\* k_work_flush, k_work_flush_delayable: a delayed item is submitted first.
Flush(c, w) ==
  LET x == Unscheduled(work[w])
      q == work[w].target
      submitted == x # work[w] /\ Accepted(x, q, NoQueue)
      y == IF submitted THEN SubmittedItem(x, q) ELSE x
  IN  /\ client[c] = Free
      /\ Busy(work[w])
      /\ work' = [work EXCEPT ![w] = y]
      /\ FlushLocked(c, y, w, IF submitted THEN SubmittedTo(x, w, q) ELSE queue)
      /\ corrupt' = (submitted /\ Twice(w))
      /\ UNCHANGED <<slipped, stopped>>
-----------------------------------------------------------------------------
(* The queues.                                                             *)

\* k_work_queue_start
Start(q) ==
  /\ "started" \notin queue[q].flags
  /\ queue' = [queue EXCEPT ![q].flags = {"started"}, ![q].pc = "look"]
  /\ UNCHANGED <<work, client, slipped, stopped, corrupt>>

\* k_work_queue_drain, by a thread that has to wait
Drain(c, q, plug) ==
  LET x == queue[q]
  IN  /\ client[c] = Free
      /\ "started" \in x.flags
      /\ plug \/ x.flags \cap {"busy", "drain"} # {} \/ x.pending # << >>
      /\ queue' = [queue EXCEPT ![q] = Woken([x EXCEPT !.flags =
                      @ \cup {"drain"} \cup IF plug THEN {"plugged"} ELSE {}])]
      /\ client' = [client EXCEPT ![c] = [Free EXCEPT !.pc = "drain", !.on = q]]
      /\ UNCHANGED <<work, slipped, stopped, corrupt>>

\* k_work_queue_unplug
Unplug(q) ==
  /\ "plugged" \in queue[q].flags
  /\ queue' = [queue EXCEPT ![q].flags = @ \ {"plugged"}]
  /\ UNCHANGED <<work, client, slipped, stopped, corrupt>>
-----------------------------------------------------------------------------
(* The thread of a queue: work_queue_main.                                 *)

Take(q) ==
  /\ queue[q].pc = "look"
  /\ queue[q].pending # << >>
  /\ queue' = [queue EXCEPT ![q] =
                 [flags |-> @.flags \cup {"busy"}, pending |-> Tail(@.pending),
                  pc |-> "got", item |-> Head(@.pending)]]
  /\ UNCHANGED <<work, client, slipped, stopped, corrupt>>

\* Mutant: the drain is over, and nobody is told.
SleepSilently(q) ==
  /\ queue[q].pc = "look"
  /\ queue[q].pending = << >>
  /\ queue' = [queue EXCEPT ![q].pc = "asleep", ![q].flags = @ \ {"drain"}]
  /\ UNCHANGED <<work, client, slipped, stopped, corrupt>>

\* Nothing is pending: the drain is over, and the thread waits.
Sleep(q) ==
  /\ queue[q].pc = "look"
  /\ queue[q].pending = << >>
  /\ queue' = [queue EXCEPT ![q].pc = "asleep", ![q].flags = @ \ {"drain"}]
  /\ client' = [c \in Client |->
                  IF "drain" \in queue[q].flags /\ client[c].pc = "drain" /\ client[c].on = q
                  THEN Free ELSE client[c]]
  /\ UNCHANGED <<work, slipped, stopped, corrupt>>

\* An item whose cancellation is complete has nothing left to do.
StoppedWith(x, w) == IF Busy(x) THEN stopped ELSE stopped \cup {w}

\* work_set_running: "something may have initiated cancellation between when
\* the work thread pulled this off its queue and this claimed the work lock".
SetRunning(q) ==
  LET w == queue[q].item
      x == [work[w] EXCEPT !.flags = @ \ {"queued"}]
      y == [x EXCEPT !.flags = @ \ {"canceling"}]
  IN  /\ queue[q].pc = "got" /\ w \in Work
      /\ IF "canceling" \notin x.flags
         THEN /\ work' = [work EXCEPT ![w] =
                            [x EXCEPT !.flags = @ \cup {"running"}]]
              /\ queue' = [queue EXCEPT ![q].pc = "run"]
              /\ client' = Staged(w, "queued", "running")
              /\ UNCHANGED stopped
         ELSE /\ work' = [work EXCEPT ![w] = y]
              /\ queue' = [queue EXCEPT ![q].pc = "ran"]
              /\ client' = Finalized(client, w)
              /\ stopped' = StoppedWith(y, w)
      /\ UNCHANGED <<slipped, corrupt>>

\* The item is a flusher, whose handler is handle_flush.
HandleFlush(q) ==
  /\ queue[q].pc = "got" /\ queue[q].item \in Client
  /\ client' = [client EXCEPT ![queue[q].item] = Free]
  /\ queue' = [queue EXCEPT ![q].pc = "ran"]
  /\ UNCHANGED <<work, slipped, stopped, corrupt>>

\* The handler has returned: work_clear_running.
ClearRunning(q) ==
  LET w == queue[q].item
      x == [work[w] EXCEPT !.flags = @ \ {"running", "canceling"}]
      cl == Staged(w, "running", "done")
  IN  /\ queue[q].pc = "run"
      /\ work' = [work EXCEPT ![w] = x]
      /\ queue' = [queue EXCEPT ![q].pc = "ran"]
      /\ IF "canceling" \in work[w].flags
         THEN client' = Finalized(cl, w) /\ stopped' = StoppedWith(x, w)
         ELSE client' = cl /\ UNCHANGED stopped
      /\ UNCHANGED <<slipped, corrupt>>

\* Mutant: the thread still refers to the work.
ClearBusyOnly(q) ==
  /\ queue[q].pc = "ran"
  /\ queue' = [queue EXCEPT ![q].pc = "look", ![q].flags = @ \ {"busy"}]
  /\ UNCHANGED <<work, client, slipped, stopped, corrupt>>

\* "No longer referencing the work, so we can clear the BUSY flag".
ClearBusy(q) ==
  /\ queue[q].pc = "ran"
  /\ queue' = [queue EXCEPT ![q].pc = "look", ![q].item = Nobody,
                            ![q].flags = @ \ {"busy"}]
  /\ UNCHANGED <<work, client, slipped, stopped, corrupt>>
-----------------------------------------------------------------------------

Thread(q) ==
  Take(q) \/ Sleep(q) \/ SetRunning(q) \/ HandleFlush(q) \/ ClearRunning(q)
  \/ ClearBusy(q)

Call ==
  \/ \E by \in Queue \cup {NoQueue} :
       \/ \E w \in Work \ Delayable : Submit(w, NoQueue, by)
       \/ \E q \in Queue : \E w \in Users[q] \ Delayable : Submit(w, q, by)
       \/ \E q \in Queue, delay \in BOOLEAN : \E w \in Users[q] \cap Delayable :
            Schedule(w, q, delay, by) \/ Reschedule(w, q, delay, by)
  \/ \E w \in Work : Cancel(w)
  \/ \E c \in Client, w \in Work : CancelSync(c, w) \/ Flush(c, w)
  \/ \E q \in Queue : Start(q) \/ Unplug(q)
  \/ \E c \in Client, q \in Drained, plug \in BOOLEAN : Drain(c, q, plug)

\* A list that contains an item twice is broken: nothing is claimed then.
Crashed == corrupt /\ UNCHANGED vars

Next ==
  \/ ~corrupt /\ Call
  \/ ~corrupt /\ \E w \in Delayable : Timeout(w)
  \/ ~corrupt /\ \E q \in Queue : Thread(q)
  \/ Crashed

Spec == Init /\ [][Next]_vars

\* The thread of a queue gets to run, and the handlers it calls return.
FairSpec == Spec /\ \A q \in Queue : WF_vars(~corrupt /\ Thread(q))
-----------------------------------------------------------------------------
(* Properties.                                                             *)

\* The flags of an item tell where it is: queued, once, in one queue; running,
\* in one queue, the same; cancelled only while it runs.  So no handler is
\* entered twice.  (Unless the item slipped through a cancellation.)
FlagsTrue ==
  \A w \in Work \ slipped :
    LET f == work[w].flags
        home == IF "queued" \in f THEN {work[w].queue} ELSE {}
    IN  /\ {q \in Queue : Listed(q, w) \/ Holds(q, w, "got")} = home
        /\ \A q \in Queue : Listed(q, w) =>
             /\ ~Holds(q, w, "got")
             /\ Cardinality({i \in DOMAIN queue[q].pending :
                              queue[q].pending[i] = w}) = 1
        /\ {q \in Queue : Holds(q, w, "run")} =
             IF "running" \in f THEN {work[w].queue} ELSE {}
        /\ "canceling" \in f => "running" \in f

\* A cancelled item that was found idle, or was waited for, stays out of the
\* queues and of their threads until it is submitted again.  (Unless it
\* slipped through.)
StoppedStays ==
  \A w \in stopped \ slipped, q \in Queue :
    ~Listed(q, w) /\ ~Holds(q, w, "got") /\ ~Holds(q, w, "run")

\* No thread of a queue sleeps on work or on a drain: "when something happens
\* the work thread will be woken and we can check again".
NoLostWakeup ==
  \A q \in Queue : queue[q].pc = "asleep" =>
    queue[q].pending = << >> /\ "drain" \notin queue[q].flags

\* k_work_flush returns when the submission it found has been handled or
\* cancelled, also if the item is submitted again meanwhile.  (Unless the item
\* slipped through a cancellation.)
FlushWaits ==
  [][\A c \in Client : client[c].pc = "flush" /\ client'[c].pc # "flush" =>
       client[c].stage = "done" \/ client[c].on \in slipped]_vars

\* Work that was queued is handled, or cancelled, however often other work is
\* submitted, flushed and cancelled (work_queue_main).  (Unless an item slipped
\* through a cancellation: flushers can then overtake the others for ever.)
QueuedRuns ==
  \A w \in Work :
    "queued" \in work[w].flags ~>
      "queued" \notin work[w].flags \/ slipped # {}

\* Whoever waits for a flush or a cancellation is released.
WaitsEnd ==
  \A c \in Client :
    client[c].pc \in {"flush", "cancel"} ~> client[c].pc = "free" \/ corrupt

\* A handler submits an item to the queue it runs on, while that is drained.
Chained ==
  \E q \in Queue, w \in Work :
    /\ queue[q].pc = "run" /\ "drain" \in queue[q].flags
    /\ ~Listed(q, w) /\ w \in Range(queue'[q].pending)

\* A drain ends, unless handlers submit more work for ever.
DrainEnds ==
  \A c \in Client :
    []<>(client[c].pc # "drain" \/ corrupt) \/ []<><<Chained>>_vars
=============================================================================
