SPECIFICATION DaemonFairSpec
CONSTANTS
  Base = 10
  Size = 1
  Creates = {c1}
  Replaces = {}
  Deletes = {d1, n1}
  Names = {n1}
  Binaries = {b1}
  PortCounts = {0}
  NoProc = NoProc
  Servers = {pm, proxy}
  PmServer = pm
INVARIANTS
  DaemonTypeOK
  AllToldToStop
PROPERTIES
  ShutdownEnds
  StopEndsProcess
  DeleteRemovesStopped
CHECK_DEADLOCK FALSE
