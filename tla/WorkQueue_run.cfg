SPECIFICATION FairSpec
CONSTANTS
  a = a
  d = d
  q1 = q1
  q2 = q2
  c1 = c1
  Work <- MCWork
  Delayable <- MCDelayable
  Queue <- MCQueue
  Users <- MCUsers
  Drained = {q1}
  Client <- MCClient
  NoQueue = NoQueue
  Nobody = Nobody
INVARIANTS
  TypeOK
  FlagsTrue
  StoppedStays
  NoLostWakeup
PROPERTIES
  FlushWaits
  QueuedRuns
  WaitsEnd
  DrainEnds
