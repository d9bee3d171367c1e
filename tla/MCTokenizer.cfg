SPECIFICATION FairSpec
CONSTANTS
  Texts <- ClosedTexts
INVARIANTS
  TypeOK
  UnreadIsTheRest
  PositionIsTrue
  TokenIsLongest
  OnlySpaceBetween
  PeekIsStable
PROPERTIES
  EveryCallReturns
CHECK_DEADLOCK FALSE
