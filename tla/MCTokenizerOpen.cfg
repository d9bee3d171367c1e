SPECIFICATION FairSpec
CONSTANTS
  Texts <- OpenTexts
PROPERTIES
  EveryCallReturns
CHECK_DEADLOCK FALSE
