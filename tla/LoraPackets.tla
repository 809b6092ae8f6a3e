----------------------------- MODULE LoraPackets -----------------------------
(***************************************************************************)
(* The LoRa packets the two devices exchange, reduced to the bytes their   *)
(* code tells apart.                                                       *)
(*                                                                         *)
(*   head   byte 0: the number of messages in an experiment's settings,    *)
(*          '!' in a ping of the experiment mode, '&' in a ping of the     *)
(*          explore mode, a digit in a measuring message                   *)
(*   mid    bytes 1 to 4: in settings, how many frequencies are selected   *)
(*   tail   the bytes from 5 on (the other LoRa parameters and the delay,  *)
(*          or a text), NoTail for a packet of 5 bytes                     *)
(***************************************************************************)
EXTENDS Integers

CONSTANTS
  Tails,        \* the contents of bytes 5 and up
  NoTail,       \* the tail of a packet of 5 bytes, and of a zeroed buffer
  Payload,      \* the tail of a measuring message
  Settings,     \* the experiment settings a phone may send
  Texts,        \* the texts a phone may send in explore mode
  Combinations, \* Combinations[t]: bandwidth/SF/CR/power choices in tail t
  PingByte,     \* '!', 33
  PingMid,      \* "ping" read as bytes 1 to 4 of settings
  AmpByte,      \* '&', 38
  LetterByte,   \* the first byte of any other explore text
  DigitByte     \* the first byte of a measuring message

\* The numbers of values of one and of two bytes.
Byte == 256
Word == Byte * Byte
Uint8 == 0 .. Byte - 1
Uint16 == 0 .. Word - 1

Packet == [head : Nat, mid : Nat, tail : Tails]

ASSUME PacketAssumption ==
  /\ NoTail \in Tails
  /\ Payload \in Tails
  /\ Texts \subseteq Tails \ {NoTail}
  /\ Settings \subseteq [head : Nat, mid : Nat, tail : Tails \ {NoTail}]
  /\ Combinations \in [Tails -> Nat]
  /\ PingByte \in Nat
  /\ PingMid \in Nat
  /\ AmpByte \in Nat \ {PingByte}
  /\ LetterByte \in Nat \ {PingByte, AmpByte}
  /\ DigitByte \in Nat \ {PingByte, AmpByte}

\* A zeroed receive buffer.
Zeros == [head |-> 0, mid |-> 0, tail |-> NoTail]

\* "!ping", the ping of the experiment mode.
Ping == [head |-> PingByte, mid |-> PingMid, tail |-> NoTail]

\* "&" followed by a text, the ping of the explore mode.
ExplorePing(x) == [head |-> AmpByte, mid |-> 0, tail |-> x]

\* Any other explore text.
ExploreMessage(x) == [head |-> LetterByte, mid |-> 0, tail |-> x]

\* A measuring message of combination c.
Measurement(c) == [head |-> DigitByte, mid |-> c, tail |-> Payload]

\* A buffer after packet p was copied over it: only the received bytes change.
Store(buf, p) ==
  IF p.tail = NoTail THEN [buf EXCEPT !.head = p.head, !.mid = p.mid] ELSE p

\* The first 5 bytes of a buffer, sent as a packet.
FirstFive(buf) == [buf EXCEPT !.tail = NoTail]

\* How many parameter combinations an experiment with these settings covers.
Combos(d) == d.mid * Combinations[d.tail]
=============================================================================
