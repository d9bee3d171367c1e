SPECIFICATION Spec
CONSTANTS
  Programs <- PrintsThenReadsPrograms
  Natives = {"print"}
  MaxObjects = 200
INVARIANTS
  ParametersAreOwn
CHECK_DEADLOCK FALSE
