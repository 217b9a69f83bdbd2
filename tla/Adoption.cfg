SPECIFICATION Spec
CONSTANTS
  team = team
  choir = choir
  tofu = tofu
  g1 = g1
  g2 = g2
  g3 = g3
  None = None
  Keys = {team, choir, tofu}
  Ids = {g1, g2, g3}
  Dynamic = {g1, g2, g3}
  RulesetRefs <- MCRulesetRefs
  Mapped <- MCMapped
  TypeOf <- MCTypeOf
  ChildrenOf <- MCChildrenOf
  Lists <- MCLists
  Declared = {team}
  References = {choir, tofu}
  Names = {team, choir}
  Invocations <- MCInvocations
  MaxRenames = 1
  MaxFaults = 1
INVARIANTS
  SoundState
PROPERTIES
  AllOrNothing
  ProtectionIsKept
  RemovalIsSafe
CHECK_DEADLOCK FALSE
