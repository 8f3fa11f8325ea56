CONSTANTS
  Tasks = {t1}
  Sessions = {s1, s2}
  NoSession = NoSession
  DecisionKeys = {k1}
  Profiles = {codex, fixture}
  FixtureWorker = fixture
  Observed = {"created", "running", "exited", "lost"}
  MaxLaunch = 2
  MaxBrief = 2
SPECIFICATION Spec
SYMMETRY Symmetry
INVARIANTS
  TypeOK
  BindingDiscipline
  TerminalEvidence
  StandingRequestsAreCurrent
  CandidateHistory
PROPERTIES
  TasksNeverReturn
  ImplementsTaskMachine
