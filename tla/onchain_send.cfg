SPECIFICATION Spec
CONSTANTS
  s1 = s1
  s2 = s2
  t1 = t1
  t2 = t2
  t3 = t3
  c1 = c1
  c2 = c2
  Sends = {s1, s2}
  Txs = {t1, t2, t3}
  Coins = {c1, c2}
  None = None
  Opening = 2
  MaxMishaps = 1
  MaxBumps = 1
SYMMETRY Symmetry
INVARIANTS
  NotReplaced
  DebitedOnce
  ConfirmedIsMined
CHECK_DEADLOCK FALSE
