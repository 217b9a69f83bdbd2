SPECIFICATION Spec
CONSTANTS
  wahl = wahl
  menu = menu
  exact = exact
  other = other
  v0 = v0
  v1 = v1
  A = A
  B = B
  leader = leader
  member = member
  guest = guest
  chief = chief
  helper = helper
  hidden = hidden
  m1 = m1
  m2 = m2
  p = p
  q = q
  None = None
  Fields = {wahl, menu}
  References = {exact, other}
  SlugOf <- MCSlugOf
  Names = {wahl, menu}
  Values = {v0, v1}
  Types = {A, B}
  Roles = {leader, member, guest, chief, helper}
  TypeOf <- MCTypeOf
  NameOf <- MCNameOf
  DefaultRole <- MCDefaultRole
  ServerProps = v0
  Unlisted = {hidden}
  Members = {m1, m2}
  Parents = {p}
  Strangers = {q}
  Configs <- MCConfigs
  Mapped = 1
  InitialRoles <- MCInitialRoles
  UiRows <- MCUiRows
  UiRulesets <- MCUiRulesets
  MaxId = 4
  Ids <- MCIds
  FirstId = 2
  MaxConfigs = 1
  MaxEdits = 0
  MaxFaults = 1
INVARIANT
  DemotedGroupConverges
CHECK_DEADLOCK FALSE
