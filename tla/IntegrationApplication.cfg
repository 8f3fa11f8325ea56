SPECIFICATION Spec
CONSTANTS
  MaxCalls = 2
  MaxFaults = 1
INVARIANT ReceiptsAreTrue
PROPERTIES SettledRowIsFinal MovedBranchSettles
CHECK_DEADLOCK FALSE
