SPECIFICATION Spec
CONSTANTS
  gt1 = gt1
  gt2 = gt2
  gt3 = gt3
  g = g
  r1 = r1
  r2 = r2
  r3 = r3
  dienst = dienst
  team = team
  k3 = k3
  g_3 = g_3
  jugend = jugend
  leiter = leiter
  Dienst = Dienst
  Team = Team
  Jugend = Jugend
  Leiter = Leiter
  None = None
  Missing = Missing
  Deleted = Deleted
  Keys <- MCKeys
  Ids <- MCIds
  TypeOf <- MCTypeOf
  Names = {Dienst, Team, Jugend, Leiter}
  SlugOf <- MCSlugOf
  LabelOf <- MCLabelOf
  GroupType <- MCGroupType
  Present <- MCPresent
  Started <- MCStarted
  Adoptions <- MCAdoptions
  InRulesets = {r2}
  Renames <- MCRenames
  Added <- MCAdded
  MaxEdits = 1
  MaxAdopts = 2
  MaxExports = 2
  MaxTofu = 1
  MaxBreaks = 1
  MaxCaptures = 1
INVARIANTS
  CutOverStays
  ExportedStaysOne
  RoleMarkersResolveBack
CHECK_DEADLOCK FALSE
