SPECIFICATION HandlerSpec
CONSTANTS
  Task = {t1, t2}
  Commit = {c0, c1, c2, c3}
  Nothing = Nothing
  Obj <- MCObj
  Tree <- MCTree
  Edit <- MCEdit
  Read = {}
  Root = c0
  InitialTree <- Start
  OtherTree <- MCOther
  MaxOthers = 1
  MaxInFlight = 2
  MaxAttempts = 1
  MaxTries = 1
  DenyNonFastForwards = FALSE
  Faults = {}
  Closure <- MCClosure
  Reach <- MCReach
  Precheck <- MCPrecheck
  ReadFile <- MCReadFile
  EditTree <- MCEditTree
  Request <- MCRequest
INVARIANTS
  HandlerInv
  FactsSound
  PushesDoNotDisturb
  OneHeadAnswers
SYMMETRY Symmetry
