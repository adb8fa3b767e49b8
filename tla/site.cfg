SPECIFICATION FairSpec
CONSTANTS
  w1 = w1
  w2 = w2
  t1 = t1
  t2 = t2
  Ctl = Ctl
  Workers = {w1, w2}
  Tokens = {t1, t2}
  None = None
  Lifetime = 1
  DayLength = 2
  Temps <- MCTemps
  SavedBands <- MCSavedBands
  OldRows <- MCOldRows
  Budgets <- MCBudgets
  Requests <- MCRequests
INVARIANTS
  TypeOK
  NothingWithoutASession
  AnswersAreComplete
  DurationsAreReal
PROPERTIES
  SetsWhatWasAsked
  EveryRequestIsAnswered
