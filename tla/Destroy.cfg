SPECIFICATION FairSpec
CONSTANTS
  parent = parent
  child = child
  department = department
  r1 = r1
  r2 = r2
  None = None
  Keys = {parent, child, department}
  Groups = {parent, child}
  Undeletable = {department}
  Parent <- MCParent
  Tier <- MCTier
  Rows = {r1, r2}
  Protections <- MCProtections
  InitialRows <- MCInitialRows
  MaxEdits = 1
  MaxFaults = 1
PROPERTIES
  ForgottenIsGone
  OnlyTargetsDeleted
  ChildrenFirst
  FieldsBeforeResources
  EventuallyDestroyed
CHECK_DEADLOCK FALSE
