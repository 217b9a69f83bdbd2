SPECIFICATION OpsFairSpec
CONSTANTS
  apply = apply
  again = again
  adopt = adopt
  p1 = p1
  p2 = p2
  Free = Free
  NoTtl = NoTtl
  Ops = {apply, again, adopt}
  TwoPhase = {apply, again}
  Procs = {p1, p2}
  ProcOf <- MCProcOf
  Locks = {"apply", "adopt"}
  LockOf <- MCLockOf
  Ttl <- MCTtl
  MaxSaves = 2
  MaxClock = 2
INVARIANTS
  SingleUse
PROPERTIES
  LossNeedsWindow
  EveryOperationEnds
CHECK_DEADLOCK FALSE
