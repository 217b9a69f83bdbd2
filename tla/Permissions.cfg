SPECIFICATION FairSpec
CONSTANTS
  view = view
  edit = edit
  camp = camp
  cat = cat
  mod = mod
  odd = odd
  g = g
  h = h
  c = c
  d1 = d1
  d2 = d2
  None = None
  All = All
  NoData = NoData
  Rights = {view, edit, camp, cat, mod, odd}
  Host = {view, edit, camp, cat}
  Bundled = {view, edit, camp, cat, mod}
  PerInstance = TRUE
  Strict = FALSE
  ScopeField <- MCField
  Keys = {g, h, c}
  KindOf <- MCKindOf
  Declared = {g, h}
  LiveName <- MCLiveName
  Decls = {d1, d2}
  Configs <- MCConfigs
  InitialState <- MCState
  InitialRows <- MCRows
  Baseline <- MCBaseline
  UiRows <- MCUiRows
  MaxId = 6
  Ids <- MCIds
  FirstId = 4
  Workers = 2
  MaxConfigs = 1
  MaxEdits = 1
  MaxFaults = 1
INVARIANTS
  ResumeIsExact
PROPERTIES
  AdoptedIsNoop
  Promise
  EventuallySettled
CHECK_DEADLOCK FALSE
