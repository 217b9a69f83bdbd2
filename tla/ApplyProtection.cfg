SPECIFICATION Spec
CONSTANTS
  campus = campus
  group = group
  name = name
  remark = remark
  v0 = v0
  v1 = v1
  None = None
  Nil = Nil
  Pending = Pending
  Keys = {campus, group}
  Ids <- MCIds
  Foreign <- MCForeign
  Attrs <- MCAttrs
  Values = {v0, v1}
  Default = v0
  PutKeys = {campus}
  Configs <- MCConfigs
  FirstId = 2
  MaxId = 5
  MaxConfigs = 1
  MaxEdits = 1
  MaxFaults = 1
  TornWrites = TRUE
INVARIANT
  ProtectionReachesState
CHECK_DEADLOCK FALSE
