SPECIFICATION Spec
CONSTANTS
  Base = 10
  Size = 2
  Creates = {c1}
  Replaces = {r1}
  Deletes = {d1}
  Names = {n1}
  Binaries = {b1, b2}
  PortCounts = {1, 2}
  NoProc = NoProc
INVARIANTS
  TypeOK
  PortAccounting
  RunningHoldsPorts
  OneOwner
  StoppingEnds
PROPERTY ImplementsPortPool
SYMMETRY Symmetry
CHECK_DEADLOCK FALSE
