SPECIFICATION FairSpec
CONSTANTS
  c1 = c1
  c2 = c2
  get = get
  put = put
  ajax = ajax
  alice = alice
  bob = bob
  None = None
  Anonymous = Anonymous
  Clients = {c1, c2}
  Reads = {get}
  Writes = {put}
  Legacy = {ajax}
  ClientOf <- MCClientOf
  TokenOf <- MCTokenOf
  Fresh = {c2}
  Earlier = {alice}
  MaxSession = 7
  MaxFaults = 1
INVARIANTS
  OneLogin
  NoLoginStorm
  OwnSession
PROPERTY
  EveryThreadEnds
CHECK_DEADLOCK FALSE
