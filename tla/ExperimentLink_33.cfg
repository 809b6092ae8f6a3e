SPECIFICATION FairSpec
CONSTANTS
  Experiments <- ThirtyThree
  Combos = 3
  StartCombo = 1
  Air <- MCAir
  AirSettings = 1450
  AirAck = 1712
  AirPing = 925
  ExtraTime = {0, 9}
  SetupTime = {0, 200}
  ReportTime = {0, 120}
  UserTimes = {0, 1400}
PROPERTY
  ExperimentStarts
