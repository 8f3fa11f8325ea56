SPECIFICATION WorktreeSpec
CONSTANTS
  N = 3
  Change <- EveryKind
  MaxEdits = 2
  MaxCrashes = 2
INVARIANT WorktreePreserved
PROPERTY InterruptedMaterializationCompletes
CHECK_DEADLOCK FALSE
