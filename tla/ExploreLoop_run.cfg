SPECIFICATION FairSpec
CONSTANTS
  Numbers = {0, 2}
  Times = {2, 257}
  MaxRest = 1
INVARIANTS
  TypeOK
  LoopsAsAsked
  ShownIfLooping
  CountdownRight
PROPERTIES
  LoopStarts
