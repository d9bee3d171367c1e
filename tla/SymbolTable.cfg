SPECIFICATION FairSpec
CONSTANTS
  Names = {x, y}
  Vals = {v1, v2}
  Nodes = {a1, a2, a3}
  NIL = NIL
  MaxScopes = 4
INVARIANTS
  TypeOK
  ScopesOwnDefinitions
  ChainsAreTrue
  TableIsInnermost
PROPERTIES
  ImplementsScopeStack
  TeardownFrees
CHECK_DEADLOCK FALSE
