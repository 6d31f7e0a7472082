SPECIFICATION Spec
CONSTANTS
  Base = 10
  Size = 1
  Creates = {c1}
  Replaces = {}
  Deletes = {d1}
  Names = {n1}
  Binaries = {b1}
  PortCounts = {1}
  NoProc = NoProc
INVARIANT NoOrphan
SYMMETRY Symmetry
CHECK_DEADLOCK FALSE
