SPECIFICATION FairSpec
CONSTANTS
  Programs <- WastefulPrograms
INVARIANTS
  TypeOK
  NothingDangles
  LiveUsersAreListed
  RemovesTheUnread
PROPERTIES
  Ends
CHECK_DEADLOCK FALSE
