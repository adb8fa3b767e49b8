SPECIFICATION FairSpec
CONSTANTS
  Ctl = Ctl
  w1 = w1
  w2 = w2
  Workers = {w1}
  None = None
  Temps <- FewTemps
  Choices <- MCChoices
  TextLength <- MCTextLength
  SaveInterval = 1
  MaxRequests = 0
  MaxShutdowns = 0
  MaxClockSets = 0
  MaxBack = 1
  MaxCrashes = 1
PROPERTIES
  RestartRecovers
