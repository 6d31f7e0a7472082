SPECIFICATION FairSpec
CONSTANTS
  Creates = {p1, p2}
  Replaces = {p2}
  Names = {n1}
  NoProc = NoProc
  MaxUpdates = 1
  MaxChecks = 1
INVARIANTS
  TypeOK
  NoDeadlock
  DeletionRemembered
PROPERTIES
  SendsAreTaken
  DeletionAnnounced
CHECK_DEADLOCK FALSE
