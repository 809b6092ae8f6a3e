---------------------------- MODULE BleCentral ----------------------------
(***************************************************************************)
(* The Bluetooth side of a screen of the app (BLEHandler, Scanner and      *)
(* Central) and the fields a screen keeps about it, over the life of one   *)
(* screen.                                                                 *)
(*                                                                         *)
(* Two threads take the steps.  The main thread runs one event of its      *)
(* queue at a time: scan results, broadcasts, delayed runnables, presses   *)
(* of a button, the destruction of the screen.  Android's binder threads   *)
(* run the BluetoothGattCallback, in between any two steps of the main     *)
(* thread.  Where the two meet, in the fields bluetoothLeScanner, central  *)
(* and reopenConnection, startScanning, stopScanning and closeConnection   *)
(* are therefore taken apart into steps that use one of these fields.      *)
(*                                                                         *)
(* Central and BluetoothGatt objects come from the pools Centrals and      *)
(* Gatts; an object nobody refers to any more may be handed out again.     *)
(***************************************************************************)
EXTENDS Naturals, Sequences

CONSTANTS
  Centrals,     \* Central objects
  Gatts,        \* BluetoothGatt objects
  Null,
  MaxResults,   \* bound: scan results queued on the main thread
  MaxEvents     \* bound: broadcasts, or delayed runnables, queued there

ASSUME PoolAssumption ==
  Null \notin Centrals /\ Null \notin Gatts /\ MaxResults \in Nat /\ MaxEvents \in Nat

VARIABLES
  screen,    \* "prepare" for PrepareSenderScreen, "other" for the rest
  scanner,   \* bluetoothLeScanner is not null
  scan,      \* scanCallback is registered with Android
  results,   \* scan results queued on the main thread
  main,      \* what the main thread has yet to do, see Main
  central,   \* Scanner.central
  cent,      \* the fields bluetoothGatt and reopenConnection of each Central
  gatt,      \* what each BluetoothGatt is at, see Gatt
  writes,    \* the Centrals with a runnable of onServicesDiscovered pending
  events,    \* broadcasts on their way to the screen
  delayed,   \* PrepareSenderScreen: runnables that set connected and ready
  ready,     \* the screen's field
  closed,    \* closeConnection was called
  crashed,   \* a NullPointerException ended the app
  races      \* history: the races of the two threads that have happened

vars == <<screen, scanner, scan, results, main, central, cent, gatt, writes,
          events, delayed, ready, closed, crashed, races>>

\* The part that belongs to the scan.
scanning == <<scanner, scan, results, main>>

Event == {"connected", "disconnected", "consistent"}

(***************************************************************************)
(* A BluetoothGatt is closed (also: not yet created), connecting, up, or   *)
(* inside the callback of its disconnection: closed but before the test    *)
(* of reopenConnection (dropped), or past it in startScanning, before      *)
(* bluetoothLeScanner is set (restart), before the new Central (central)   *)
(* and before startScan (start).  Its list of services stays once          *)
(* discovered; asked says that a configuration was written and not yet     *)
(* confirmed.                                                              *)
(***************************************************************************)
Restarting == {"restart", "central", "start"}

Gatt == [st : {"closed", "connecting", "up", "dropped"} \cup Restarting,
         owner : Centrals \cup {Null}, services : BOOLEAN, asked : BOOLEAN]

NoGatt == [st |-> "closed", owner |-> Null, services |-> FALSE, asked |-> FALSE]

\* The main thread is between events (idle), or has to set central to null
\* (forget), to call stopScanning (stop), or, within it, to set
\* bluetoothLeScanner to null (clear).
Main == {"idle", "forget", "stop", "clear"}

\* Mutant: reopenConnection has Java's default value.
NewCentralByDefault == [gatt |-> Null, reopen |-> FALSE]

\* The initial values of the fields of a Central.
NewCentral == [gatt |-> Null, reopen |-> TRUE]

TypeOK ==
  /\ screen \in {"prepare", "other"}
  /\ scanner \in BOOLEAN
  /\ scan \in BOOLEAN
  /\ results \in 0 .. MaxResults
  /\ main \in Main
  /\ central \in Centrals \cup {Null}
  /\ cent \in [Centrals -> [gatt : Gatts \cup {Null}, reopen : BOOLEAN]]
  /\ gatt \in [Gatts -> Gatt]
  /\ writes \subseteq Centrals
  /\ events \in Seq(Event) /\ Len(events) <= MaxEvents
  /\ delayed \in Seq(BOOLEAN) /\ Len(delayed) <= MaxEvents
  /\ ready \in BOOLEAN
  /\ closed \in BOOLEAN
  /\ crashed \in BOOLEAN
  /\ races \subseteq {"cut", "double", "close"}

InUse(g) == gatt[g].st # "closed"

FreeCentral(c) ==
  /\ c # central
  /\ c \notin writes
  /\ \A g \in Gatts : InUse(g) => gatt[g].owner # c

FreeGatt(g) ==
  /\ ~InUse(g)
  /\ \A c \in Centrals : cent[c].gatt = g => FreeCentral(c)

\* onCreate: the screen is new and scans for its device.
Init ==
  /\ screen \in {"prepare", "other"}
  /\ scanner = TRUE
  /\ scan = TRUE
  /\ results = 0
  /\ main = "idle"
  /\ central \in Centrals
  /\ cent = [c \in Centrals |-> NewCentral]
  /\ gatt = [g \in Gatts |-> NoGatt]
  /\ writes = {}
  /\ events = << >>
  /\ delayed = << >>
  /\ ready = FALSE
  /\ closed = FALSE
  /\ crashed = FALSE
  /\ races = {}

---------------------------------------------------------------------------
\* A screen that was left has unregistered its receivers.
Send(e) ==
  IF closed THEN events' = events
  ELSE Len(events) < MaxEvents /\ events' = Append(events, e)

(* The scan *)

\* The Bluetooth stack posts a result to the main thread.  stopScan does not
\* take back what is posted.
Advertisement ==
  /\ scan /\ results < MaxResults
  /\ results' = results + 1
  /\ UNCHANGED <<screen, scanner, scan, main, central, cent, gatt, writes,
                 events, delayed, ready, closed, crashed, races>>

\* onScanResult up to stopScanning: connect overwrites the field bluetoothGatt.
OnScanResult ==
  /\ results > 0 /\ main = "idle"
  /\ results' = results - 1
  /\ \/ /\ central = Null
        /\ crashed' = TRUE
        /\ UNCHANGED <<cent, gatt, main, races>>
     \/ /\ central # Null
        /\ \E g \in Gatts :
             /\ FreeGatt(g)
             /\ gatt' = [gatt EXCEPT ![g] = [NoGatt EXCEPT !.st = "connecting",
                                                           !.owner = central]]
             /\ cent' = [cent EXCEPT ![central].gatt = g]
        /\ main' = "stop"
        /\ races' = IF cent[central].gatt # Null THEN races \cup {"double"} ELSE races
        /\ UNCHANGED crashed
  /\ UNCHANGED <<screen, scanner, scan, central, writes, events, delayed, ready,
                 closed>>

\* A scan is registered for a Central that has no connection yet, and no
\* callback is about to start it again.
ScanNeeded ==
  /\ ~closed /\ central # Null /\ cent[central].gatt = Null
  /\ \A g \in Gatts : gatt[g].st \notin Restarting

\* stopScanning up to stopScan: the test and the call.  Between the two only
\* startScanning writes the field, and not null.
StopScan ==
  /\ main = "stop"
  /\ main' = IF scanner THEN "clear" ELSE "idle"
  /\ scan' = (scan /\ ~scanner)
  /\ races' = races \cup (IF scanner /\ ScanNeeded THEN {"cut"} ELSE {})
                   \cup (IF closed /\ results > 0 THEN {"close"} ELSE {})
  /\ UNCHANGED <<screen, scanner, results, central, cent, gatt, writes, events,
                 delayed, ready, closed, crashed>>

\* The end of stopScanning.
ClearScanner ==
  /\ main = "clear"
  /\ main' = "idle"
  /\ scanner' = FALSE
  /\ UNCHANGED <<screen, scan, results, central, cent, gatt, writes, events,
                 delayed, ready, closed, crashed, races>>

---------------------------------------------------------------------------
(* BluetoothGattCallback, on a binder thread *)

\* onConnectionStateChange, STATE_CONNECTED
Connected(g) ==
  /\ gatt[g].st = "connecting"
  /\ gatt' = [gatt EXCEPT ![g].st = "up"]
  /\ Send("connected")
  /\ UNCHANGED <<screen, scanning, central, cent, writes, delayed,
                 ready, closed, crashed, races>>

\* Mutant: the runnable writes through the Central the scanner has now.
ServicesDiscoveredAnyCentral(g) ==
  /\ gatt[g].st = "up" /\ ~gatt[g].services
  /\ gatt' = [gatt EXCEPT ![g].services = TRUE]
  /\ writes' = IF screen = "prepare" THEN writes ELSE writes \cup {central}
  /\ UNCHANGED <<screen, scanning, central, cent, events, delayed,
                 ready, closed, crashed, races>>

\* onServicesDiscovered: except on PrepareSenderScreen the configuration is
\* written 400 ms later.
ServicesDiscovered(g) ==
  /\ gatt[g].st = "up" /\ ~gatt[g].services
  /\ gatt' = [gatt EXCEPT ![g].services = TRUE]
  /\ writes' = IF screen = "prepare" THEN writes ELSE writes \cup {gatt[g].owner}
  /\ UNCHANGED <<screen, scanning, central, cent, events, delayed,
                 ready, closed, crashed, races>>

\* onCharacteristicChanged with -2
Consistent(g) ==
  /\ gatt[g].st = "up" /\ gatt[g].asked
  /\ gatt' = [gatt EXCEPT ![g].asked = FALSE]
  /\ Send("consistent")
  /\ UNCHANGED <<screen, scanning, central, cent, writes, delayed,
                 ready, closed, crashed, races>>

\* onConnectionStateChange, STATE_DISCONNECTED, up to the test.
Disconnected(g) ==
  /\ gatt[g].st \in {"connecting", "up"}
  /\ gatt' = [gatt EXCEPT ![g].st = "dropped", ![g].asked = FALSE]
  /\ Send("disconnected")
  /\ UNCHANGED <<screen, scanning, central, cent, writes, delayed,
                 ready, closed, crashed, races>>

\* The test of reopenConnection.
TestReopen(g) ==
  /\ gatt[g].st = "dropped"
  /\ gatt' = [gatt EXCEPT ![g].st =
                IF cent[gatt[g].owner].reopen THEN "restart" ELSE "closed"]
  /\ UNCHANGED <<screen, scanning, central, cent, writes, events,
                 delayed, ready, closed, crashed, races>>

\* scanner.startScanning() at the end of the callback: the field is set ...
SetScanner(g) ==
  /\ gatt[g].st = "restart"
  /\ scanner' = TRUE
  /\ gatt' = [gatt EXCEPT ![g].st = "central"]
  /\ UNCHANGED <<screen, scan, results, main, central, cent, writes, events,
                 delayed, ready, closed, crashed, races>>

\* ... a new Central is made ...
MakeCentral(g) ==
  /\ gatt[g].st = "central"
  /\ \E c \in Centrals :
       /\ FreeCentral(c)
       /\ central' = c
       /\ cent' = [cent EXCEPT ![c] = NewCentral]
  /\ gatt' = [gatt EXCEPT ![g].st = "start"]
  /\ UNCHANGED <<screen, scanning, writes, events, delayed,
                 ready, closed, crashed, races>>

\* ... and the scan starts, through a field that may be null by now.
StartScan(g) ==
  /\ gatt[g].st = "start"
  /\ gatt' = [gatt EXCEPT ![g].st = "closed"]
  /\ scan' = (scan \/ scanner)
  /\ crashed' = ~scanner
  /\ UNCHANGED <<screen, scanner, results, main, central, cent, writes, events,
                 delayed, ready, closed, races>>

---------------------------------------------------------------------------
(* Events of the main thread *)

\* A write of a characteristic through Central c: it needs a gatt and its
\* services; what is written to a connection that is down is lost.
CanWrite(c) == c # Null /\ cent[c].gatt # Null /\ gatt[cent[c].gatt].services

WriteTo(c) ==
  \/ /\ CanWrite(c)
     /\ gatt' = [gatt EXCEPT ![cent[c].gatt].asked = @ \/ gatt[cent[c].gatt].st = "up"]
     /\ UNCHANGED crashed
  \/ /\ ~CanWrite(c)
     /\ crashed' = TRUE
     /\ UNCHANGED gatt

\* The runnable of onServicesDiscovered.
WriteConfig(c) ==
  /\ c \in writes /\ main = "idle"
  /\ writes' = writes \ {c}
  /\ WriteTo(c)
  /\ UNCHANGED <<screen, scanning, central, cent, events, delayed,
                 ready, closed, races>>

\* A button of the screen: changeConfig, sendOrPing, prepareSender, ...
Press ==
  /\ ready /\ ~closed /\ main = "idle"
  /\ WriteTo(central)
  /\ UNCHANGED <<screen, scanning, central, cent, writes, events,
                 delayed, ready, closed, races>>

\* Mutant: the screen stays ready when its connection is lost.
OnReceiveKeepingReady ==
  /\ events # << >> /\ main = "idle"
  /\ events' = Tail(events)
  /\ \/ /\ screen = "prepare" /\ Head(events) # "consistent"
        /\ Len(delayed) < MaxEvents
        /\ delayed' = Append(delayed, Head(events) = "connected")
        /\ UNCHANGED ready
     \/ /\ screen = "other"
        /\ ready' = (ready \/ Head(events) = "consistent")
        /\ UNCHANGED delayed
     \/ /\ screen = "prepare" /\ Head(events) = "consistent"
        /\ UNCHANGED <<ready, delayed>>
  /\ UNCHANGED <<screen, scanning, central, cent, gatt, writes,
                 closed, crashed, races>>

\* The broadcast receivers of the screen.
OnReceive ==
  /\ events # << >> /\ main = "idle"
  /\ events' = Tail(events)
  /\ \/ /\ screen = "prepare" /\ Head(events) # "consistent"
        /\ Len(delayed) < MaxEvents
        /\ delayed' = Append(delayed, Head(events) = "connected")
        /\ UNCHANGED ready
     \/ /\ screen = "other"
        /\ ready' = CASE Head(events) = "consistent" -> TRUE
                      [] Head(events) = "disconnected" -> FALSE
                      [] OTHER -> ready
        /\ UNCHANGED delayed
     \/ /\ screen = "prepare" /\ Head(events) = "consistent"
        /\ UNCHANGED <<ready, delayed>>
  /\ UNCHANGED <<screen, scanning, central, cent, gatt, writes,
                 closed, crashed, races>>

\* PrepareSenderScreen: two seconds after the broadcast.
DelayedState ==
  /\ delayed # << >> /\ main = "idle"
  /\ ready' = Head(delayed)
  /\ delayed' = Tail(delayed)
  /\ UNCHANGED <<screen, scanning, central, cent, gatt, writes,
                 events, closed, crashed, races>>

\* Mutant: closeConnection leaves reopenConnection alone.
CloseCentralStillReopening ==
  IF central # Null /\ cent[central].gatt # Null
  THEN /\ gatt' = [gatt EXCEPT ![cent[central].gatt].st =
                     IF @ \in {"connecting", "up"} THEN "closed" ELSE @]
       /\ UNCHANGED cent
  ELSE UNCHANGED <<cent, gatt>>

\* Central.closeConnection: a closed gatt calls back no more, a callback that
\* is running goes on.
CloseCentral ==
  IF central # Null /\ cent[central].gatt # Null
  THEN /\ cent' = [cent EXCEPT ![central].reopen = FALSE]
       /\ gatt' = [gatt EXCEPT ![cent[central].gatt].st =
                     IF @ \in {"connecting", "up"} THEN "closed" ELSE @]
  ELSE UNCHANGED <<cent, gatt>>

\* What closeConnection does not reach: a posted scan result, a scan that was
\* started between stopScan and the reset of the field, a callback that is past
\* the test of reopenConnection, a gatt the current Central lost.
OutOfReach ==
  \/ results > 0
  \/ scan /\ ~scanner
  \/ \E g \in Gatts :
       \/ gatt[g].st \in Restarting
       \/ InUse(g) /\ (central = Null \/ cent[central].gatt # g)

\* BLEHandler.closeConnection, when the screen is destroyed: the Central is
\* closed, then forgotten (Forget), then the scan stops (StopScan).
CloseConnection ==
  /\ ~closed /\ main = "idle"
  /\ CloseCentral
  /\ main' = IF central = Null THEN "stop" ELSE "forget"
  /\ events' = << >>
  /\ closed' = TRUE
  /\ races' = IF OutOfReach THEN races \cup {"close"} ELSE races
  /\ UNCHANGED <<screen, scanner, scan, results, central, writes, delayed,
                 ready, crashed>>

\* The end of Scanner.closeConnection.
Forget ==
  /\ main = "forget"
  /\ main' = "stop"
  /\ central' = Null
  /\ UNCHANGED <<screen, scanner, scan, results, cent, gatt, writes, events,
                 delayed, ready, closed, crashed, races>>

Next ==
  /\ ~crashed
  /\ \/ Advertisement \/ OnScanResult \/ StopScan \/ ClearScanner
     \/ \E g \in Gatts :
          \/ Connected(g) \/ ServicesDiscovered(g) \/ Consistent(g)
          \/ Disconnected(g) \/ TestReopen(g)
          \/ SetScanner(g) \/ MakeCentral(g) \/ StartScan(g)
     \/ \E c \in Centrals : WriteConfig(c)
     \/ Press \/ OnReceive \/ DelayedState \/ CloseConnection \/ Forget

Spec == Init /\ [][Next]_vars

---------------------------------------------------------------------------
(* Properties *)

\* Once a screen has closed its connection it neither scans nor holds a
\* connection again (Central.closeConnection: "we don't want it to reopen
\* automatically"), even when the connection is being lost at that moment.  Only
\* what OutOfReach lists, and a scan result posted before the scan stops, may
\* undo it: such a result ends the app or connects again, such a callback or scan
\* goes on scanning for a screen that is gone.
ClosedForGood ==
  closed /\ main = "idle" /\ "close" \notin races =>
    /\ ~scan /\ results = 0
    /\ \A g \in Gatts : gatt[g].st \in {"closed", "dropped"}

\* An open screen never ends up without a way back to its device: it scans, or
\* holds a gatt whose disconnection will start the scan again
\* (onConnectionStateChange: "Automatically reconnects on disconnection"),
\* unless stopScanning has cut off a scan that was started while onScanResult
\* was running.
NeverStranded ==
  ~closed /\ ~crashed /\ "cut" \notin races =>
    \/ scan
    \/ \E g \in Gatts : InUse(g) /\ cent[gatt[g].owner].reopen

\* No event is on its way, and every connection has its services.
Quiet ==
  /\ events = << >> /\ delayed = << >> /\ main = "idle"
  /\ \A g \in Gatts : gatt[g].st = "closed" \/ (gatt[g].st = "up" /\ gatt[g].services)

\* When all is quiet a screen that believes it is ready can write to a
\* connection that is up: the Central it writes through is the one whose
\* connection made it ready.  It fails once a second scan result has made one
\* Central connect twice.
ReadyIsTrue ==
  Quiet /\ ready /\ ~closed /\ ~crashed /\ "double" \notin races =>
    CanWrite(central) /\ gatt[cent[central].gatt].st = "up"
=============================================================================
