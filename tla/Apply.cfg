SPECIFICATION FairSpec
CONSTANTS
  campus = campus
  group = group
  name = name
  remark = remark
  v0 = v0
  v1 = v1
  None = None
  Nil = Nil
  Pending = Pending
  Keys = {campus, group}
  Ids <- MCIds
  Foreign <- MCForeign
  Attrs <- MCAttrs
  Values = {v0, v1}
  Default = v0
  PutKeys = {campus}
  Configs <- MCConfigs
  FirstId = 2
  MaxId = 6
  MaxConfigs = 1
  MaxEdits = 1
  MaxFaults = 2
  TornWrites = TRUE
INVARIANTS
  LagsByOneItem
  PendingResolves
  OrphansNeedFaults
  CompletedWorkIsNoop
  SnapshotIsExact
PROPERTIES
  OnlyManagedTouched
  EventuallyReconciled
CHECK_DEADLOCK FALSE
