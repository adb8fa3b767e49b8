SPECIFICATION Spec
CONSTANTS
  Ctl = Ctl
  w1 = w1
  w2 = w2
  Workers = {w1}
  None = None
  Temps <- FewTemps
  Choices <- MCChoices
  TextLength <- MCTextLength
  SaveInterval = 1
  MaxRequests = 1
  MaxShutdowns = 0
  MaxClockSets = 0
  MaxBack = 1
  MaxCrashes = 0
INVARIANTS
  SavedBandWasInForce
