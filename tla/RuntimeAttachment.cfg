SPECIFICATION Spec
CONSTANTS
  c1 = c1
  c2 = c2
  Callers <- MCCallers
  Run <- MCRun
  MaxFaults = 1
INVARIANTS RefusalIsExplained AttachmentIsWholeOrGone
PROPERTIES ForeignPathsPreserved ShutdownCompletes
