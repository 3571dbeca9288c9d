SPECIFICATION FairSpec
CONSTANTS
  Task = {t1, t2}
  Commit = {c0, c1, c2, c3, c4, c5, c6}
  Nothing = Nothing
  Names = {"a", "b"}
  Data = {"x", ""}
  Obj <- MCObj
  Tree <- MCTree
  Edit <- SeqEdit
  Read <- MCRead
  Root = c0
  InitialTree <- Full
  OtherTree = {}
  MaxOthers = 0
  MaxInFlight = 1
  MaxAttempts = 3
  MaxTries = 3
  DenyNonFastForwards = FALSE
  Faults = {"session", "corrupt", "lost", "unpack", "rejected", "cancel", "restart"}
  Closure <- MCClosure
  Reach <- MCReach
  Precheck <- MCPrecheck
  ReadFile <- MCReadFile
  EditTree <- MCEditTree
INVARIANTS
  TypeOK
  CacheComplete
  AckedDurable
PROPERTIES
  BranchOnlyGrows
  ImplementsBranch
  EveryRequestAnswered
