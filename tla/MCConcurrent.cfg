SPECIFICATION Spec
CONSTANTS
  Task = {t1, t2}
  Commit = {c0, c1, c2, c3, c4}
  Nothing = Nothing
  Names = {"a", "b"}
  Data = {"x", "y"}
  Obj <- MCObj
  Tree <- MCTree
  Edit <- MCEdit
  Read <- MCRead
  Root = c0
  InitialTree <- Full
  OtherTree <- MCOthers
  MaxOthers = 1
  MaxInFlight = 2
  MaxAttempts = 1
  MaxTries = 2
  DenyNonFastForwards = FALSE
  Faults = {"session", "cut", "corrupt", "late", "lost", "unpack", "refuse", "rejected", "cancel", "restart"}
  Closure <- MCClosure
  Reach <- MCReach
  Precheck <- MCPrecheck
  ReadFile <- MCReadFile
  EditTree <- MCEditTree
INVARIANTS
  IInv
  RemoteIntact
  CacheOnRemote
  HistoryIsFaithful
  ReadsSound
SYMMETRY Symmetry
