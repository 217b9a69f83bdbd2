SPECIFICATION Spec
CONSTANTS
  A = A
  B = B
  L = L
  tA = tA
  tB = tB
  pa = pa
  pb = pb
  pg = pg
  p1 = p1
  p2 = p2
  None = None
  Unread = Unread
  Hosts = {A, B, L}
  Tokens = {tA, tB}
  HostOf <- MCHostOf
  Profiles = {pa, pb, pg}
  ProfileHost <- MCProfileHost
  ProfileToken <- MCProfileToken
  Gateways = {pg}
  Ambient <- MCAmbient
  Procs = {p1, p2}
  Interval = 1
  Hour = 3
  MaxPerHour = 2
  MaxTime = 3
  MaxRuns = 3
  MaxFaults = 2
INVARIANTS TokenGoesHome LoggedOut LoginsSpaced
CHECK_DEADLOCK FALSE
SYMMETRY Symmetry
