CONSTANTS
  None = "none"
  Scripts <- Chain
  Conf <- ChainConf
  Flags <- ChainFlags
  Module <- ChainModule
  Shipped <- ChainShipped
  Leftover = {}
  LeftArmed <- ChainLeftArmed
  LastCleanup <- SecondCleanup
  MaxFaults = 0
  MaxCuts = 0
SPECIFICATION HistorySpec
INVARIANTS DroppedFlags
CHECK_DEADLOCK FALSE
