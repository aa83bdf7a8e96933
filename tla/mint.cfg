SPECIFICATION Spec
CONSTANTS
  c1 = c1
  c2 = c2
  n1 = n1
  n2 = n2
  o1 = o1
  o2 = o2
  i1 = i1
  q1 = q1
  q2 = q2
  r1 = r1
  r2 = r2
  Claims = {c1, c2}
  NewProofs = {n1, n2}
  OldProofs = {o1, o2}
  Asked = {i1}
  Quotes = {q1, q2}
  Requests = {r1, r2}
  None = None
  Opening = 1
  Cap = 1
  MaxOutages = 1
  MaxFaults = 1
  MaxReboots = 1
SYMMETRY Symmetry
CONSTRAINT Apart
INVARIANTS
  PoolCovers
  CapHolds
  PollTells
  NoSilentLoss
CHECK_DEADLOCK FALSE
