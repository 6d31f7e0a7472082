SPECIFICATION Spec
CONSTANTS
  Base = 10000
  Size = 7
  MaxCount = 3
INVARIANTS
  TypeOK
  RefusedOnlyWithoutLongerRun
PROPERTIES
  NoQuickReuse
  ImplementsPortPool
