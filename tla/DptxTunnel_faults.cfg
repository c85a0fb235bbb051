CONSTANTS
  Rates <- TwoRates
  LateMode = TRUE
  MaxFails = 2
SPECIFICATION Spec
INVARIANTS CallbackScoped
