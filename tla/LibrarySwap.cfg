CONSTANTS
    Built = Built
    Torn = Torn
    Garbled = Garbled
    None = None
    MaxUpdates <- MCUpdates
    MaxFaults <- MCFaults
    MaxCuts <- MCCuts
SPECIFICATION Spec
INVARIANTS
    TypeOK
    LaunchWhole
    Recoverable
    OutcomeHolds
