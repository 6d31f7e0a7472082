SPECIFICATION Spec
CONSTANTS
  Base = 10000
  Size = 4
  MaxCount = 2
INVARIANT RefusedOnlyWithoutRun
