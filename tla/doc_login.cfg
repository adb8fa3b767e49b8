SPECIFICATION Spec
CONSTANTS
  w1 = w1
  w2 = w2
  t1 = t1
  t2 = t2
  Tokens = {t1, t2}
  Workers = {w1}
  Cleaner = Cleaner
  None = None
  Lifetime = 1
  MaxUptime = 0
  MaxCorrections = 2
INVARIANTS
  LoginIsAnswered
