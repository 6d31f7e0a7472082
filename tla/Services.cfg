SPECIFICATION Spec
CONSTANTS
  c1 = c1
  c2 = c2
  Calls <- MCCalls
  Operations <- MCOperations
  Items = 2
  Replicas = {r1, r2}
  BackupAt = {r2}
  Keys = {"id", "secret"}
  None = None
INVARIANTS
  TypeOK
  SuccessMeansDone
  EveryNameTried
  ListComplete
  OwnCredential
  OnlyBlockDisks
CHECK_DEADLOCK FALSE
