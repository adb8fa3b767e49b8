SPECIFICATION Spec
CONSTANTS
  Ctl = Ctl
  w1 = w1
  w2 = w2
  Workers = {w1, w2}
  None = None
  Temps <- MCTemps
  Choices <- MCChoices
  TextLength <- MCTextLength
  SaveInterval = 1
  MaxRequests = 2
  MaxShutdowns = 0
  MaxClockSets = 0
  MaxBack = 1
  MaxCrashes = 1
SYMMETRY WorkerSymmetry
INVARIANTS
  TypeOK
  SnapshotConsistent
  RelayAgreesWithPin
  LogMatchesRelay
  Inv
PROPERTIES
  SwitchesCrossTheBand
  ImplementsThermostat
