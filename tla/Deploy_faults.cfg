CONSTANTS
  None = "none"
  Scripts <- Small
  Conf <- SmallConf
  Flags <- SmallFlags
  Module <- SmallModule
  Shipped <- SmallShipped
  Leftover = {"0126"}
  MaxFaults = 2
  MaxCuts = 1
SPECIFICATION Spec
INVARIANTS TypeOK BackupFirst SuccessIsDurable
PROPERTIES RestoreUndoes
CHECK_DEADLOCK FALSE
