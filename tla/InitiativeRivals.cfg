CONSTANTS
  Initiatives = {1, 2}
  Tasks = {1, 2, 3, 4}
  InitiativeOf <- Rivals
  Edges = {}
  OwnerOf <- NoOwner
  Repository <- TwoRepositories
  Profiles = {"codex", "claude"}
  MaxConcurrentTasks = 2
  MaxConcurrentTasksPerRepository = 1
  WorkerProfileLimits <- OneWorkerEach
  MemberMoves = {"working", "paused", "failed"}
SPECIFICATION Spec
INVARIANTS
  LaunchFactsCurrent
PROPERTIES
  NextInTurnKeepsItsSlot
