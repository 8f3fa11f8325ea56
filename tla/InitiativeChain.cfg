CONSTANTS
  Initiatives = {1, 2}
  Tasks = {1, 2, 3}
  InitiativeOf <- Chain
  Edges <- ChainEdges
  OwnerOf <- ChainOwner
  Repository <- OneRepository
  Profiles = {"codex"}
  MaxConcurrentTasks = 1
  MaxConcurrentTasksPerRepository = 1
  WorkerProfileLimits <- OneWorkerEach
  MemberMoves = {"working", "paused", "ready", "validating", "candidate_complete", "delivered", "failed", "cancelled", "cleanup_held", "cleaned", "unknown"}
SPECIFICATION Spec
INVARIANTS
  TypeOK
  GroupJoinsAsAWhole
PROPERTIES
  ClosingIsFinal
  ImplementsTaskMachine
