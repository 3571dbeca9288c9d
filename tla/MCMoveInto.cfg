SPECIFICATION Spec
CONSTANTS
  NoTree = NoTree
  Roots <- MCRoots
  Parts <- MCParts
  Requests <- MCRequests
  Paths <- MCPaths
INVARIANT MoveKeepsContent
