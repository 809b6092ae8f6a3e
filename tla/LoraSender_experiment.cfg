SPECIFICATION Spec
CONSTANTS
  NoTail = NoTail
  Payload = Payload
  Unset = Unset
  e1 = e1
  x1 = x1
  p1 = p1
  p2 = p2
  Tails <- MCTails
  Settings <- MCSettings
  Texts <- NoTexts
  Combinations <- MCCombinations
  PingByte = 3
  PingMid = 1
  AmpByte = 4
  LetterByte = 5
  DigitByte = 6
  Thread <- MCThread
  Params = {p1, p2}
  HighPower = {p1}
  LoopTexts <- NoTexts
  LoopCounts = {}
  LoopTimes = {}
  Heard <- ExperimentPackets
  MaxUnread = 2
  Explore = FALSE

INVARIANTS
  TypeOK
  StaysPrepared
  OneExperimentThread
  ExperimentOwnsRadio
