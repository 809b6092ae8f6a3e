SPECIFICATION FairSpec
CONSTANTS
  NoTail = NoTail
  Payload = Payload
  Unset = Unset
  e1 = e1
  x1 = x1
  p1 = p1
  p2 = p2
  Tails <- MCTails
  Settings <- MCSettings
  Texts <- MCTexts
  Combinations <- MCCombinations
  PingByte = 3
  PingMid = 1
  AmpByte = 4
  LetterByte = 5
  DigitByte = 6
  Thread <- MCThread
  Params = {p2}
  HighPower = {p1}
  LoopTexts <- MCTexts
  LoopCounts = {1, 2}
  LoopTimes = {257}
  Heard <- NoPackets
  MaxUnread = 2
  Explore = TRUE

PROPERTIES
  LoopEnds
