SPECIFICATION FairSpec
CONSTANTS
  Subs = {s1, s2}
  Capacity = 2
  MaxItems = 4
INVARIANTS
  TypeOK
  NoSendOnClosed
  CompleteOrDropped
PROPERTY SlowWatcherEnds
CHECK_DEADLOCK FALSE
