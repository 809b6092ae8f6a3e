# Verification of the LoRa evaluation devices

TLA+ models of the two LoRa devices of this repository, of the radio driver they
share, of an experiment as both devices live it, of a sending loop between phone and
sender, of the kernel's work queues and semaphores as the driver uses them, and of
the app that controls the devices; TLC runs on small instances; and TLAPS proofs for
all instances.

## The system

Two boards with a LoRa radio measure how LoRa parameters behave over a distance.

* The **sender** (`subsys/bluetooth/services/lses.c`, `samples/lora_eval_send`)
  and the **receiver** (`lres.c`, `samples/lora_eval_rcv`) are GATT servers. A
  write of a phone runs a callback on the Bluetooth thread, which configures the
  radio, sends, or starts one of the device's own threads. Results go back as
  notifications: a negative status code, or a received message.
* Both use the **driver** `drivers/lora/sx12xx_common.c`: one receive buffer, one
  semaphore, `lora_config`, `lora_send` and a blocking `lora_recv`.
* In **explore mode** a phone on each side sets parameters, sends texts, pings
  (`&...`) or loops by hand.
* In **experiment mode** the sender is prepared once and left alone. The phone at
  the receiver pings it (`!ping`) and starts an experiment. The receiver sends the
  settings over LoRa until the sender acknowledges them. After a delay both step
  through the same combinations of parameters. At its end the sender prepares
  itself for the next experiment, on the other of two threads.
* Above 10 dBm a transmission breaks the BLE connection. The phone reconnects and
  writes its configuration again; the devices wait for that in several places.
* The **app** `LoRaVisual` (Java) drives all this and stores experiments in a
  database; the script `LoRaVisualGraphs/main.py` plots uploaded results.
* The rest of the tree is the Zephyr RTOS. Its **work queues** (`kernel/work.c`)
  carry the interrupts of the LoRa chip (`drivers/lora/sx127x.c`, `hal_common.c`) to
  a thread, where the driver's receive handler runs.

`PROJECT.json` lists every part under `components`, with what is left out and why,
and under `hazards` what is hard to test here.

## Modules

| module | what it models |
|---|---|
| `LoraPackets` | packets, reduced to the bytes the code tells apart |
| `Sx12xx` | the driver and its semaphore (`kernel/sem.c`), as operators on their state |
| `LoraSender` | `lses.c`: five callbacks, four threads |
| `LoraReceiver` | `lres.c`: two callbacks, three threads, and the phone's screen |
| `ExperimentLink` | `exec_experiment` of both devices, the channel between them, and time |
| `Campaign` | what an experiment promises its phone; `ExperimentLink` implements it |
| `ExploreLoop` | a loop of explore mode: `SenderExploreScreen`, the writes, `loop_command_cb` |
| `WorkQueue` | `kernel/work.c`: work items, delayable items, queues |
| `BleCentral` | `BLEHandler`, `Scanner`, `Central`: the connection of one screen of the app |
| `ExperimentApp` | the experiment screens and the database of the app |
| `MCLoraSender`, `MCLoraReceiver`, `MCExperimentLink`, `MCWorkQueue`, `MCBleCentral` | small instances for TLC |
| `Sx12xxProofs` | lemmas about the driver |
| `LoraSenderProofs` | theorems about the sender |
| `LoraSenderWaitProofs` | the theorem about the threads of the sender that wait for a packet |
| `ExploreLoopProofs` | theorems about a sending loop |
| `ExperimentAppProofs` | theorems about the experiments in the app |

### Packets and driver

A packet is its first byte (`head`), bytes 1 to 4 (`mid`) and the rest (`tail`),
because that is how the code reads it: byte 0 tells a ping from settings and holds
the number of messages, bytes 1 to 4 select frequencies, and only 5 bytes of a ping
are sent back. `Store` is the copy of a received packet over a buffer: a packet of
5 bytes leaves the old rest in place. `Combos` is the number of iterations of the
nested loops over the parameters; `ComboPar` names one of them.

The driver's state has the parameters and direction last written to the chip,
whether the chip receives, the semaphore, the buffer, the queue of the semaphore,
and the set of suspended threads. The semaphore is translated from `kernel/sem.c`
(`SemInit`, `SemTake`, `SemGive`). Queue and set differ: `lora_init` calls
`k_sem_init` on a semaphore others may be waiting for, which empties the queue and
leaves the threads suspended. A thread that is unlinked later takes the list with it, as
`sys_dlist_remove` does; `torn` records that the links of two such threads are no longer
those of one list, after which nothing is claimed.

`lora_recv` is three steps, as in the driver: `RecvCall` starts the chip (`Radio.Rx`),
`SemTake` counts the semaphore down or suspends the caller, and the call returns with a
packet (`Received`) or on a timeout (`Unpend`). Between the first two, in `arm`, a
callback may abort the caller, and a packet may arrive and be counted before anybody
waits. So may a second one that overwrites the first, which the driver marks with a FIXME
(`sx12xx_common.c:96`): a count above one, or a packet nobody has fetched when the next
`lora_recv` begins, is a state of the models.

### Sender

The variables are the globals of `lses.c`, the driver, `pc` (where each thread is), the
locals of the threads, and two history variables: `armed` (`stack_number` at the last
preparation) and `lost` (a callback came between the creation of thread 3 and the
assignment of `thread3_tid`). Each callback is one action: the Bluetooth thread is
cooperative. `Take` is the second step of `lora_recv`, for any thread. A step of a thread goes from one call that may block to the next, except
in the handover at the end of `exec_experiment`, which is four steps (`ExperimentEnd`,
`SwitchStack`, `AbortSelf` or `CreateNext`, `StoreTid`) because a callback can preempt
it in between. `k_thread_create` on a thread that runs sets `fault`, and nothing is
claimed afterwards.

### Receiver

Likewise. The phone is part of the model, because its writes depend on what it was
told: `screen`, `asked` (the configuration of its screen) and `ready` follow
`StartExperimentScreen`, which writes its configuration on every connection, allows
a ping or a start only when `ready`, and has started at most one experiment per
screen. The user need not wait for anything: an experiment may be started during a ping, a
ping or the explore mode be used during an experiment, a screen be left, and the next
one opened and confirmed while the experiment of the last still runs. `meddled` is a
history variable that is set while the last request is one that came while another was
under way, or (`early`) that was confirmed in this way. `fault` is a response longer
than the array `resp`, which the code allows; `Broken` is that or `torn`.

### Both devices in an experiment

`LoraSender` and `LoraReceiver` meet any packet at any time. `ExperimentLink` puts the
two `exec_experiment` threads together and gives every blocking call its duration in
milliseconds. Each device is a `pc`, the locals of its thread, and `left`, the time
until its current call ends by itself; an action takes the device that is due next and
lets its `left` pass for both. A packet occupies the air for its time on air; it is
`heard` if the other device listens with the same parameters all the while, and the
channel may still lose it. After its countdown the sender's chip stays in receive mode
until the first message, but nobody takes what it receives then (`SndListens`). What the code does not fix is a choice: how long the
sender's own work delays a sleep (`ExtraTime`), how long the receiver needs to set up a
window (`SetupTime`) or to report a message (`ReportTime`), and how long the user thinks
(`UserTimes`). `lora_send` takes the time on air, which is what the subtractions in the
sender's sleeps suppose; a negative sleep is none, as in `K_MSEC`. This is an assumption
about the chip's library, which is not part of this tree: `include/drivers/lora.h` says
of `lora_send` that "This is a non-blocking call", and the driver returns as soon as
`Radio.Send` does. If that does not wait, the services change the configuration or start
to receive while a packet is on the air, and the models say nothing about it.

The number under which a message is reported is computed as in `lres.c` (`MsgNumber`):
from the receiver's clock, with the truncating division and the widths of the code.
`told` records these labels beside what was transmitted. `lost` counts the packets lost
since the sender last heard settings.

`Campaign` is the abstract specification: an experiment begins, reports messages under
the iteration and number they were sent with, in the order of sending and each once,
and ends. `ExperimentLink` implements it (`KeepsPromise`), with `running` mapped to the
receiver being neither idle nor pinging.

Left to the other modules: preparations and cancellations of the sender, the
connection to the phone, and a user who does not wait. Assumed (`LinkAssumption`): at
least one second between messages, at most 256 combinations, a delay of at least 17
seconds above 10 dBm, and an ACK that fits into the receiver's wait; `hazards` says
what the code does outside these.

### A sending loop

In explore mode the user asks for a loop in two dialogs. The screen writes the number of
messages (`!`), the time between them (`#`) and, from a runnable posted 200 ms later, the
text, which starts the loop; the countdown starts then. `ExploreLoop` has the screen, one
write under way, and the sender's three variables. `BluetoothGatt` refuses a write while
another is under way or without a connection, and `Central` ignores the refusal. An input
that is no number ends the app in `parseInt`, after the write.

`asked` is what the user entered. `mishaps` records what went wrong since the loop button
was pressed, and the properties name those they cannot do without: a write refused or
lost (`lost`), the loop cancelled within the 200 ms (`late`), a number left in
`loopSeconds` by a dismissed dialog (`rest`), the countdown of an earlier loop ending
before the start (`old`), an earlier loop still running (`on`), and a number too large
for the sender's variable (`wide`).

### Work queues

An action of `WorkQueue` is what `kernel/work.c` does under one hold of its spinlock, so
that the interleavings are those of threads, interrupts and cores. An item is its flags
and its queue; a queue is its flags, its list, and its thread, which takes an item
(`Take`), marks it (`SetRunning`), returns from the handler (`ClearRunning`) and clears
BUSY, or sleeps. A client is a thread that waits in a flush, a synchronous cancellation
or a drain; its flusher is an entry of the list. Handlers submit too (`by`), which
matters while their queue is drained. The k_work and k_work_delayable variants of a call
are one action.

History variables: `stopped` (idle after a cancellation, not submitted since), the
`stage` of a flushed submission, and `slipped`. The last marks a hole in the code.
Between taking an item off the list (`work.c:663`) and `work_set_running`, the item is
flagged as queued and in no list. A cancellation that comes there clears the flag, finds
no other, and reports the item idle; the branch that is to catch this ("something may
have initiated cancellation between ...", `work.c:566`) tests CANCELING, which was never
set, and the handler runs. Submitted again meanwhile, the item can run in two queues,
or be appended to the list it is in (`corrupt`, after which nothing is claimed). No code
of the LoRa driver cancels its work items, so it is not exposed. The properties hold for
all items that have not slipped through in this way.

### The connection of a screen

`BleCentral` follows one screen from its opening to its end. Scan results,
broadcasts, delayed runnables and buttons are events of the main thread; the
`BluetoothGattCallback` runs on binder threads between any two of its steps. The two
threads share `bluetoothLeScanner`, `central` and `reopenConnection` without a lock, so
every method that uses them is taken apart into steps that use one:

| method | steps |
|---|---|
| `onScanResult` | `OnScanResult`, then those of `stopScanning` |
| `stopScanning` | `StopScan` (the test and `stopScan`), `ClearScanner` |
| `closeConnection` | `CloseConnection`, `Forget`, then those of `stopScanning` |
| the callback of a disconnection | `Disconnected`, `TestReopen`, then those of `startScanning` |
| `startScanning` | `SetScanner`, `MakeCentral`, `StartScan` |

What the main thread still has to do is in `main`. The field (`scanner`) and the
registration with Android (`scan`) are two variables: a scan started between
`stopScan` and the reset of the field is registered with a field that is null, and
nobody can stop it; `startScan` through a field that was just reset ends the app
(`crashed`). `Central` and `BluetoothGatt` objects come from pools, because an old object
can outlive its place in `Scanner`. `screen` is "prepare" for `PrepareSenderScreen`, which
follows its connection two seconds late and writes nothing by itself, and "other" for the
screens that write their configuration on every connection. The history variable
`races` records the three races that do damage:

* `double`: a second scan result was posted, and one `Central` connects twice;
* `cut`: `stopScanning` stopped a scan that was restarted for a `Central` without a
  connection;
* `close`: `closeConnection` ran with something out of its reach, that is a scan result
  posted before the scan stops, a scan whose field is null, a callback past its test of
  `reopenConnection`, or a `BluetoothGatt` the current `Central` does not hold.

The model takes from Android that results already posted are delivered after
`stopScan`, that a closed `BluetoothGatt` makes no further callbacks, that its list of
services stays, and that broadcasts arrive in order.

### The experiments in the app

`ExperimentApp` has the table `Experiments` (state, locations, start time), the rows
of results, the active screen with its fields, and the receiving device as the app
sees it. One screen is active at a time (`PrepareSenderScreen` has no history, see
`AndroidManifest.xml`), and all handlers run on the main thread, one action each.
Statistics and content of a message arrive in either order and are joined through
`dbEntries`. A notification is lost when the connection is down or its screen is
gone; `lossy` records that. The device may go on measuring for a screen that was left.
A ping that nobody answers comes back as -7, which `Central` does not know: it passes the
notification on as a message of no bytes, and the receiver of messages reads beyond its
end (`NoResponse`; the exception ends the app, and only the database remains). When one
screen replaces another, Android may destroy the old one after the new one has begun; the
model ends the old one first.

### Scheduling, time, undefined behaviour

* Except in `ExperimentLink`, sleeps and timeouts last arbitrarily long, so every order
  of a timeout and a packet is covered, including those the real durations exclude.
* The device's threads share one priority and have no time slices: a thread that becomes
  ready queues behind the ready ones (`z_priq_dumb_add` in `kernel/sched.c`). The sender's
  model uses only that no other thread runs inside a handover, or between the first two
  steps of another's `lora_recv` (`Yielded`), and otherwise allows more orders than the
  scheduler. The receiver's `Turn` adds that a thread which is ready runs before one whose
  sleep or timeout ends later. Callbacks and packets come at any time; in particular a
  packet may arrive before the one before it is fetched.
* The digits of the delay are not terminated and are copied into arrays that may be
  too short. The sender's countdown is arbitrarily long, and the receiver's delay is
  any member of `Delays`. In `ExperimentLink` both read the delay that was sent.
* Numbers that may wrap keep their width (`Uint8`, `Uint16`, `Byte`, `Word`): the loop
  parameters, the numbers of messages, and the receiver's delay, from which 17 is
  subtracted.

## Runs

`tlc -config X.cfg M` in this directory; all finish within three minutes.

| run | properties | states |
|---|---|---|
| `sender_experiment` | `TypeOK`, `StaysPrepared`, `OneExperimentThread`, `ExperimentOwnsRadio` | 780,072 |
| `sender_explore` | `PacketsReachWaiters`, `IdleSenderCanSend` | 423,194 |
| `sender_loop` | `LoopEnds` | 51,636 |
| `receiver_experiment` | `TypeOK`, `MeasuresAsReceiver`, `WaitersListen`, `ReconnectionHarmless` | 735,085 |
| `link` | `TypeOK`, `InStep`, `QuietWhenIdle`, `AloneOnlyAfterLosses`, `KeepsPromise`, `ExperimentStarts` | 101,165 |
| `explore_loop` | `TypeOK`, `LoopsAsAsked`, `ShownIfLooping`, `CountdownRight`, `LoopStarts` | 529,434 |
| `work_queue` | `TypeOK`, `FlagsTrue`, `StoppedStays`, `NoLostWakeup`, `FlushWaits`, `QueuedRuns`, `WaitsEnd`, `DrainEnds` | 246,331 |
| `ble_life` | `TypeOK`, `ClosedForGood`, `NeverStranded`, `ReadyIsTrue` | 1,095,297 |
| `app_life` | `TypeOK`, `RowsMatch`, `ColumnsWritten` | 3,128,918 |

What they show:

* However the writes of a phone fall into an experiment or its handover, at most one
  experiment thread is at work (`OneExperimentThread`, unless thread 3 escaped an
  abort, see below), and a sender prepared with `stack_number` 0 always has one
  (`StaysPrepared`).
* The experiment threads, the callbacks and the interrupt share one radio without a
  lock. Still, a measuring message leaves with the parameters of its combination, and
  a waiting sender listens (`ExperimentOwnsRadio`, without explore mode). In every
  receive window the receiver's chip has the parameters of the combination and the
  waiting thread is alone in the queue (`MeasuresAsReceiver`), whatever the phone does
  but three things, which `meddled` tells apart: a ping or the explore mode during an
  experiment, an experiment started during a ping, and one confirmed while another was
  running. Each of these does spoil the window.
* Callbacks abort threads in the middle of `lora_recv`, timeouts race with packets, and
  in the receiver `lora_init` empties the queue under its waiters. In the sender the
  queue still holds
  exactly the threads that wait, each at a place where it uses the packet, and none
  sleeps while a packet is unread (`PacketsReachWaiters`). In the receiver, with the
  provisos of `MeasuresAsReceiver`, whichever thread waits is in the queue, and the chip
  receives with the device's configuration (`WaitersListen`). Neither says that the packet
  is the one the thread waits for: it may be an old one, and often is (see below).
* A sender with nothing to wait for can send (`IdleSenderCanSend`), also when the
  verdict on a ping waited for a reconnection while other things happened.
* A phone that connects during an experiment, with its screen or another, changes neither
  configuration nor radio (`ReconnectionHarmless`, with the same provisos).
* A sending loop ends although its length is reread before every message
  (`LoopEnds`).
* The two devices share no clock but the arrival of one ACK. Still, whenever the sender
  transmits a measuring message, the receiver has the window of that combination open,
  through all combinations of the instance (`InStep`; see the bounds below), and the
  phone is told the right numbers, in order, until the experiment ends
  (`KeepsPromise`).
* If the sender starts to measure while the receiver still waits for its ACK, then every
  packet that could have prevented it was lost (`AloneOnlyAfterLosses`): as many as fit
  into the delay. After such a start the receiver repeats its settings until the sender
  is through with its combinations, and the experiment starts then
  (`ExperimentStarts`).
* While the receiver is free for a ping, the sender neither holds settings a ping could
  overwrite nor sends a packet that would overflow the 5 bytes of a ping's response
  (`QuietWhenIdle`).
* The three writes of a loop leave the sender looping with both numbers the user
  entered, if none is lost and both fit (`LoopsAsAsked`); the loop then starts
  (`LoopStarts`). While the countdown runs, a running loop is shown, so that its buttons
  stay disabled (`ShownIfLooping`), and the countdown has the length of the loop
  (`CountdownRight`). The exceptions `late`, `rest` and `old` are real: cancelling does
  not remove the posted start, dismissing a dialog does not reset `loopSeconds`, and a
  cancelled loop's countdown goes on.
* The flags of a work item tell the truth about the lists and the threads of two queues,
  so that no handler is entered twice (`FlagsTrue`); a cancelled item stays idle
  (`StoppedStays`); a flush returns after the submission it found, whatever was
  submitted, cancelled or flushed meanwhile (`FlushWaits`). No wake-up is lost
  (`NoLostWakeup`): queued work is handled, and whoever waits for a flush, a
  cancellation or a drain is released (`QueuedRuns`, `WaitsEnd`, `DrainEnds`).
* A screen that has closed its connection neither scans nor connects again, also when
  the connection is lost at that moment: whatever is within reach of `closeConnection`
  when it starts stays closed, in every interleaving of its steps with a callback
  (`ClosedForGood`). What is out of reach (`close`) goes on: a posted result ends the app
  or connects again, and the other cases scan for a screen that is gone. An open screen scans or holds a connection whose loss restarts
  the scan, except after `cut` (`NeverStranded`). When nothing is under way, a screen
  that is ready can write, except after `double` (`ReadyIsTrue`). While something is
  under way it need not be so: `ready` lags behind, and a button pressed then ends the
  app with a null pointer (`crashed`).
* The rows of results are whole as long as no notification is lost, in whichever order
  the two halves of a message arrive (`RowsMatch`). After a loss `dbEntries` keeps half
  a row, and the rows that follow are mixed from two messages.
* On every path through the screens, the columns that are parsed without a test have
  been written (`ColumnsWritten`).

Bounds. The sender's experiment has two combinations of two messages, so that every
loop of `exec_experiment` is entered again, left and followed by a second
experiment; preparations and experiments are unbounded. The receiver has two
experiments: two combinations on one frequency, and two frequencies, after each of
which `lora_init` runs again. Both power levels occur where the code distinguishes
them. The character codes
are small distinct numbers, above every number of messages. The semaphore counts up to two unread packets
(`MaxUnread`): one more behaves as the second. To keep the states
apart that multiply without touching each other's variables, `sender_explore` has
pings above 10 dBm and no loops, and `sender_loop` has loops of one and two messages
at low power and hears no packets; its time of 257 seconds does not fit a byte.
`receiver_experiment` hears pings, settings and explore pings; any other packet takes
the path of one of these. Its `VIEW` leaves out what no step and no property reads:
what was transmitted and notified last, and the buffers and locals that are written
anew before they are read again. The `VIEW` of `ble_life` leaves out the fields of objects
nobody refers to, and of a screen that was left. Two states that agree in the rest have
the same future in the rest, so no reachable view is missed. `link` has three combinations, the second with the
parameters of the start of an experiment (there settings, ACKs and messages can be
mistaken for each other), and three experiments: two messages with a delay in which a
lost ACK can be repeated, one message with a delay in which it cannot, one message above
10 dBm with no delay but the reconnection. The times on air are those of 20 bytes
(1712 ms), settings (1450 ms) and 5 bytes (925 ms) with spreading factor 12 and coding
rate 4/8, and 72 ms for the fast combinations. The number of experiments, pings and
losses is unbounded. The devices' own work adds up to 9 ms to a sleep of the sender and
up to 200 ms to the opening of a window. The code never resynchronises, so these add up
over the combinations; a window has 5 seconds less the time on air to spare before its
first message, and the time between messages after its last. Three combinations use
little of that: `InStep` says nothing of an experiment whose combinations use it up.
`explore_loop` has loops of no and of two messages (the first leaves -1 in `loopSeconds`),
times of 2 and 257 seconds (the second does not fit a byte), and lets at most 1 be left
over in either direction; the number of loops and connections is unbounded. A countdown
that lasts does not end before the start it belongs to has arrived.
`work_queue` has a plain item used with two queues, a delayable one used with the first,
which is also drained, and one waiting thread: enough for an item submitted to one queue
while it runs in another, and for a flusher among other items; the number of calls is
unbounded. `ble_life` has two `BluetoothGatt` objects, enough for a
`Central` that connects twice and for a lost one beside the current one, three
`Central` objects, one posted scan result at a time (a second one is posted when the
first is taken), and two broadcasts or delayed runnables under way; connections are
unbounded in number. `app_life` has two experiments, so that one can follow another,
be deleted, or be measured while the screen of the other is open, and two messages,
so that halves of different messages can meet. Neither of these two checks for deadlock:
a screen that was left, and an app that crashed, stop.

Fairness. In `sender_loop`, a loop thread that is ready again and again is run
(strong fairness: a handover on another thread may keep it waiting for a moment), and
so is an experiment thread. Zephyr runs a ready thread as soon as the ones before it
block, and every path of these threads blocks. In `link`, time passes (weak fairness of
the devices), and a channel over which settings, or ACKs, are heard again and again does
not lose all of them (strong fairness); of messages and pings all may be lost. In
`explore_loop` posted runnables run, and a write that was accepted arrives unless its
connection is lost first (weak fairness). In
`work_queue` the thread of a queue runs and handlers return (weak fairness); nothing is
assumed of timeouts and callers. `DrainEnds` excepts handlers that submit more work to
the drained queue for ever, which the code permits.

### Disagreements between code and comments

Each of these runs ends in a counterexample; `findings` quotes the lines.

| run | property | what happens |
|---|---|---|
| `sender_autoprep` | `AutomaticPreparation` | A sender prepared anew while `stack_number` is 1 runs its experiment on thread 1, switches to stack 0, aborts itself, and nobody waits for the next experiment. |
| `receiver_sync` | `ConfigSynchronised` | `reconnect` is still set from a screen that was left: the next screen's configuration is confirmed and not applied. |
| `link_33` | `ExperimentStarts` | Settings for 33 messages start with the byte of a ping: the sender echoes them as a ping, and the receiver repeats them for ever. |

Met while modelling, without a run of their own:

* A preparation between `k_thread_create` and the assignment of `thread3_tid` leaves
  thread 3 running beside the new thread 1 (the proviso of `OneExperimentThread`).
* A packet that came after an earlier wait had ended is counted, and the next
  `lora_recv` returns it at once: it is taken for the answer to a ping, or for an ACK. Two
  packets that arrive before a thread fetches the first are both counted, and the
  second is read twice. Both devices do this in the runs; no property excludes it.
* An experiment started before the verdict on a ping finds its radio set to sending
  inside a receive window (a case of `meddled`).
* 17 is subtracted from a shorter delay after a stale configuration above 10 dBm.
* `millis_total` starts at one second, so that with one second between messages each is
  reported under the number of its successor, and `KeepsPromise` fails; the experiments
  of `link` have at least two.
* An unanswered ping ends the app (`NoResponse`).
* `startScanning` and `stopScanning` on two threads leave a scan nobody can stop, or end
  the app (see *The connection of a screen*).
* The exceptions described under *A sending loop*, and the cancellation described under
  *Work queues*.

## Proofs

`tlapm M.tla` for the modules whose names end in `Proofs`; together they take about a
quarter of an hour from nothing, most of it for the sender.

The sender (`LoraSenderProofs`, `LoraSenderWaitProofs`). The assumptions are `PacketAssumption` and `SenderAssumption`: the sets of
packets, parameters, texts and loop lengths are arbitrary, and the special bytes differ
from each other.

* `SenderTypeOK`: `Spec => []TypeOK`. The type invariant is inductive. Per action,
  each driver operator keeps the driver's state well-typed (`RadioTypes`,
  `ConfiguredType`, `RxDoneType`), and what goes into one or two bytes fits.
* `SenderOneExperimentThread` and `SenderStaysPrepared`, from one inductive
  invariant, `ThreadInv`. Neither property is inductive: whether a thread aborts
  itself or creates the other depends on `stack_number` and on which tids are stored.
  `ThreadInv` adds that `thread1_tid` is set before any experiment thread runs, that
  a thread which has created its successor has switched the stack, that a running
  thread 3 without a tid was either created a moment ago or has escaped an abort,
  and that a sender prepared with `stack_number` 0 has an active thread for which
  `stack_number` is right. Steps inside an experiment keep it by `WalkKeepsThreads`,
  steps of other threads by `FrameKeepsThreads`; the callbacks and the four steps of
  the handover are treated one by one. The handover needs the scheduler: no other
  experiment thread runs inside it.
* `SenderPacketsReachWaiters`, from the inductive invariant `WaitInv`. The property alone
  is not inductive: a thread may be aborted between the two steps of `lora_recv`, and
  unlinking a thread that is not in the queue would lose the others. `WaitInv` adds
  `Linked`: a thread is in the queue at most once, and a thread between the two steps is
  not in it; and that every thread in `lora_recv`, suspended or
  about to be, is at a place of its code that receives, that the ping's tid is set before
  its thread runs, and that the sending loop never receives. The lemmas about the driver
  (`Sx12xxProofs`) show that each operator keeps `Linked`, except `k_sem_init`, which the
  sender calls only at boot. Callbacks keep the rest because they abort through a tid
  that is set for every thread that waits (`CallbackKeepsWait`).

A sending loop (`ExploreLoopProofs`), for any numbers of messages and any times:

* `LoopLoopsAsAsked`, `LoopShownIfLooping` and `LoopCountdownRight`, from one inductive
  invariant, `LoopInv`, which says of each stage of the dialogs and of the write under way
  what the sender already has of the loop that is asked for, unless a mishap is recorded.

The experiments in the app (`ExperimentAppProofs`), for any number of experiments and
messages (`AppAssumption`); the types and the shape of the screens are `AppInv`:

* `AppColumnsWritten`: with `Written`, which follows the columns through the screens: the
  sender's location is written once a sender is prepared or the start screen is open,
  the receiver's once it is logged or the experiment runs.
* `AppRowsMatch`: with `Halves`. Without a loss, what waits in `dbEntries` is one half of
  the message that the device notifies, and the device has exactly the other half to
  send; so the second notification completes the row of its message.

Only model-checked: the properties of the receiver, of the link, of the work queues and of
the connection of a screen, `ExperimentOwnsRadio` and `IdleSenderCanSend`. The liveness
properties under fairness (`LoopEnds`, `ExperimentStarts`, the liveness part of
`KeepsPromise`, `LoopStarts`, `QueuedRuns`, `WaitsEnd`, `DrainEnds`) are out of the prover's
reach.

## Not modelled, and the plan

1. Proofs about the work queues (`FlagsTrue` is meant to be inductive with the types,
   and `NoLostWakeup` beside it), the link (`QuietWhenIdle`, `AloneOnlyAfterLosses`, the
   safety part of `KeepsPromise`), the receiver (`WaitersListen`, `ReconnectionHarmless`),
   of `ExperimentOwnsRadio` and `IdleSenderCanSend`, and of the three properties of
   `BleCentral` for pools of any size.
2. The contents of the measurements: the total number of a message, which the app
   computes from a signed byte (`hazards` has it), and what is uploaded with which
   locations: `allGPSDataExists` tests the latitude of the sender six times, so that an
   upload may contain placeholders for the receiver. These are matters of single
   functions.

In `ExperimentLink`: a `lora_send` that returns before its packet has left (see above),
clocks of different speed (like the devices' own work, a drift
breaks `InStep` after enough combinations), packets that collide, and packets
that arrive damaged. In `WorkQueue`: the memory of a flusher, which its caller may
reuse before the queue's thread has let go of it, and a timeout that another core is
already handling when it is aborted. In `ExperimentApp`: two screens that overlap while one
replaces the other. In `ExploreLoop`: a loop cancelled and another asked
for within the same 200 ms.

Left out for good: the plotting script, the upload, sensors and display (no state
another part depends on), the contents of measurements (RSSI, bit errors), printing,
`ReceiverExploreScreen` beyond its connection (it only displays), and the rest of
Zephyr, which is modelled only through what the services and the driver call.
