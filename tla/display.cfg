SPECIFICATION FairSpec
CONSTANTS
  Texts <- MCTexts
  d1 = d1
  d2 = d2
  d3 = d3
  digitPins <- MCDigitPins
  NoPin = NoPin
  MaxShows = 2
  MaxCrashes = 1
INVARIANTS
  TypeOK
  NoGhosting
  QuietPassIsSafe
  FrameIsNumber
PROPERTIES
  ShowsTheNumber
