CONSTANTS
  Rates <- TwoRates
  LateMode = FALSE
  MaxFails = 0
SPECIFICATION Spec
INVARIANTS TypeOK GatesClocked ClockOwned MuxBalanced
PROPERTIES BringUpAtRate
