SPECIFICATION Spec
CONSTANTS
  m1 = m1
  m2 = m2
  v1 = v1
  v2 = v2
  k1 = k1
  k2 = k2
  o1 = o1
  p1 = p1
  p2 = p2
  h1 = h1
  c1 = c1
  c2 = c2
  c3 = c3
  Users = {m1, m2}
  Accounts = {v1, v2}
  Keys = {k1, k2}
  Calls = {c1, c2, c3}
  Offers = {o1}
  Secrets = {p1, p2}
  Hashes = {p1, p2, h1}
  Merchant = m1
  None = None
  MaxIndex = 2
  MaxQueue = 2
  MaxRestarts = 1
SYMMETRY Symmetry
CONSTRAINT Apart
INVARIANTS
  CodesLead
  PreimagesKept
CHECK_DEADLOCK FALSE
