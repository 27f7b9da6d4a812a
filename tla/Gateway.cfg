SPECIFICATION FairSpec
CONSTANTS
  Streams = {s1}
  Updates = {p1, p2}
  Events = {m1, m2, m3}
  MaxText = 2
  None = None
  Users = {u1, u2}
  Admins = {a1, a2}
  u1 = u1
  u2 = u2
  m1 = m1
  m2 = m2
  m3 = m3
  a1 = a1
  a2 = a2
  s1 = s1
  Scripts <- All
CHECK_DEADLOCK FALSE
INVARIANTS
  OnlyApproved
  FinalIsLast
PROPERTIES
  ReloadCatchesUp
  ClosesEnd
