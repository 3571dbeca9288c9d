SPECIFICATION Spec
CONSTANTS
  None = "none"
  Obj <- MCObj
  TypeOf <- MCTypeOf
  Content <- MCContent
  Packs <- MCPacks
  Lists <- MCLists
INVARIANTS
  PackReadsBack
  PackInv
  ParseSound
  WholePackIsParsed
  OnlyLateBasesAreSkipped
