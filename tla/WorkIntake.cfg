SPECIFICATION Spec
CONSTANTS
  i1 = i1
  i2 = i2
  None = None
  Items <- MCItems
  DependsOn <- MCDependsOn
  Workloads <- MCWorkloads
  Callers = {c1, c2}
  MaxEvidence = 2
  MaxFaults = 1
INVARIANTS RequestBecomesWorkOnce AnswersAgree LatestLookStands
PROPERTIES InterruptedIntakeCompletes
