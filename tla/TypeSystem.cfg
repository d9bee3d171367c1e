SPECIFICATION Spec
CONSTANTS
  UserNames = {"A", "B"}
  Fields = {1}
  MaxArgs = 0
  MaxTypes = 6
INVARIANTS
  TypeOK
  OneObjectPerShape
  PlaceholderIsConcrete
PROPERTIES
  DenotationIsFinal
CHECK_DEADLOCK FALSE
