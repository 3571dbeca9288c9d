SPECIFICATION Spec
CONSTANTS
  Task = {t1, t2}
  Commit = {c0, c1, c2, c3, c4}
  Nothing = Nothing
  Names = {"a", "b"}
  Data = {"x", "y"}
  Obj <- MCObj
  Tree <- MCTree
  Edit <- MCEdit
  Read <- MCRead
  Root = c0
  InitialTree <- Full
  OtherTree <- MCOthers
  MaxOthers = 0
  MaxInFlight = 2
  MaxAttempts = 1
  MaxTries = 2
  DenyNonFastForwards = TRUE
  Faults = {}
  Closure <- MCClosure
  Reach <- MCReach
  Precheck <- MCPrecheck
  ReadFile <- MCReadFile
  EditTree <- MCEditTree
INVARIANT CachedWhenQuiet
