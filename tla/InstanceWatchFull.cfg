SPECIFICATION FairSpec
CONSTANTS
  Watchers = {process, engine}
  Capacity = 1
  MaxRetry = 1
  MaxEvents = 3
PROPERTY InstanceWatchReturns
CHECK_DEADLOCK FALSE
