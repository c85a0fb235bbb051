CONSTANTS
  Rates <- TwoRates
  LateMode = TRUE
  MaxFails = 0
SPECIFICATION Spec
PROPERTIES BringUpClocked
