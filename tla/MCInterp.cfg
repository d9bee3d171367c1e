SPECIFICATION FairSpec
CONSTANTS
  Programs <- WellBehavedPrograms
  Natives = {"print"}
  MaxObjects = 200
INVARIANTS
  TypeOK
  OperandsAreCurrent
  ResultIsOwn
  ParametersAreOwn
  NoFault
  OutputIsMeaning
PROPERTIES
  Halts
CHECK_DEADLOCK FALSE
