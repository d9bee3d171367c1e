SPECIFICATION Spec
CONSTANTS
  UserNames = {"A", "B"}
  Fields = {1}
  MaxArgs = 0
  MaxTypes = 8
INVARIANTS
  SingleInstance
CHECK_DEADLOCK FALSE
