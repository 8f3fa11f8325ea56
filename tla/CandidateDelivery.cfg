CONSTANTS
  Tasks = {t1}
  Sessions = {s1}
  NoSession = NoSession
  DecisionKeys = {}
  Profiles = {codex}
  FixtureWorker = fixture
  Observed = {"created", "running", "exited", "lost"}
  MaxLaunch = 1
  MaxBrief = 1
SPECIFICATION FairSpec
PROPERTY OriginatedCandidateIsDelivered
