SPECIFICATION Spec
CONSTANTS
  NoTail = NoTail
  Payload = Payload
  Unset = Unset
  e1 = e1
  e2 = e2
  x1 = x1
  p1 = p1
  p2 = p2
  Tails <- MCTails
  Settings <- MCSettings
  Texts <- MCTexts
  Combinations <- MCCombinations
  Delays <- MCDelays
  PingByte = 3
  PingMid = 1
  AmpByte = 4
  LetterByte = 5
  DigitByte = 6
  Thread <- MCThread
  Params = {p1, p2}
  HighPower <- MCHighPower
  Heard <- AllPackets
  MaxUnread = 2
  Explore = TRUE

VIEW View

INVARIANTS
  TypeOK
  MeasuresAsReceiver
  WaitersListen

PROPERTIES
  ReconnectionHarmless
