SPECIFICATION Spec
CONSTANTS
  u1 = u1
  u2 = u2
  a1 = a1
  a2 = a2
  k1 = k1
  k2 = k2
  e1 = e1
  c1 = c1
  c2 = c2
  c3 = c3
  Users = {u1, u2}
  Names = {a1, a2}
  Keys = {k1, k2}
  Emails = {e1}
  Calls = {c1, c2, c3}
  None = None
  MaxFails = 1
  MaxTime = 2
  MaxRestarts = 1
SYMMETRY Symmetry
CONSTRAINT Apart
INVARIANTS
  NamesLead
  EvictedStaysOut
  OldSessionsEnd
  LockoutEnds
  VerifiedIsOwned
CHECK_DEADLOCK FALSE
