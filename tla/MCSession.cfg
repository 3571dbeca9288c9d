SPECIFICATION Spec
CONSTANTS
  Setup <- MCSetup
  MaxAuthTries = 2
  Tip = Tip
  Theirs = Theirs
  Elsewhere = Elsewhere
  New = New
  Pack = {New, tree}
  None = None
INVARIANTS
  SessionInv
  KeysInv
  KeyGetsIn
  FetchIsOfTheBranch
PROPERTIES
  ImplementsRound
  SessionEnds
