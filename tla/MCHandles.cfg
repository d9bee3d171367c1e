SPECIFICATION FairSpec
CONSTANTS
  o1 = o1
  o2 = o2
  o3 = o3
  Objects <- Three
  Slots <- Classes
  Locals = {a, b}
  Temp = temp
  Null = null
INVARIANTS
  CountIsHandles
PROPERTIES
  ImplementsGraph
  CallsReturn
CHECK_DEADLOCK FALSE
