SPECIFICATION Spec
CONSTANTS
  c1 = c1
  c2 = c2
  Callers <- MCCallers
  MaxReady = 3
  MaxInstructions = 2
  MaxHandlers = 2
  MaxFaults = 1
INVARIANTS ReplacedWorkerIsSilent WorkingIsAcknowledged InstructionsOnceInOrder
 
CHECK_DEADLOCK FALSE
