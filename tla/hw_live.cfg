SPECIFICATION FairSpec
CONSTANTS
  Ctl = Ctl
  w1 = w1
  w2 = w2
  Workers = {w1}
  None = None
  Temps <- FewTemps
  Choices <- MCChoices
  TextLength <- MCTextLength
  SaveInterval = 0
  MaxRequests = 1
  MaxShutdowns = 1
  MaxClockSets = 1
  MaxBack = 1
  MaxCrashes = 1
PROPERTIES
  HeatsWhenCold
  BandReachesDisk
  RestartReleasesHeater
  UndisturbedSavesAreWhole
