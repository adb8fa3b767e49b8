SPECIFICATION FairSpec
CONSTANTS
  Ctl = Ctl
  w1 = w1
  w2 = w2
  Workers = {w1}
  None = None
  Temps <- MCTemps
  Choices <- MCChoices
  TextLength <- MCTextLength
  SaveInterval = 1
  MaxRequests = 1
  MaxShutdowns = 1
  MaxClockSets = 1
  MaxBack = 1
  MaxCrashes = 1
INVARIANTS
  TypeOK
  SnapshotConsistent
PROPERTIES
  HeatsWhenCold
  BandReachesDisk
  UndisturbedSavesAreWhole
