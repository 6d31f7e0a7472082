SPECIFICATION FairSpec
CONSTANTS
  Watchers = {process, engine, replica}
  Capacity = 2
  MaxRetry = 2
  MaxEvents = 4
INVARIANTS
  TypeOK
  NotStranded
PROPERTIES
  UpdatesReachClient
  StreamsClosed
  ReturnsUnlessFull
CHECK_DEADLOCK FALSE
