SPECIFICATION Spec
CONSTANTS
  Programs <- IllBehavedPrograms
  Natives = {"print"}
  MaxObjects = 200
INVARIANTS
  ReturnFlagIsOwn
  VariablesAreApart
CHECK_DEADLOCK FALSE
