CONSTANTS
  Files <- McFiles
  Databases <- McDatabases
  MaxRuns = 3
  ConfigFaults = 1
  Bodies = {"y"}
  SiteTypes = {"http", "push"}
  FirstRows <- Two
  PollEdits = 2
  Probes = {"p1", "p2"}
  ProbedSites = {"s"}
  Deployments <- McDeployments
  Regions <- McRegions
  StaleAfter = 1
  MaxFlips = 1
  ProbeFaults = 1
  Clients = {"a", "b"}
  Burst = 2
  Cost = 1
  Cutoff = 2
  MaxVisitors = 1
  LimitTime = 4
  UserKeys = {"a", "b"}
  EnvKeys = {"a"}
  Attempts = {1}
  UserChanges = 3
  Ranges = {2, 4}
  DayLength = 2
  ReportTime = 4
  StatusChanges = 3
  Monitors = {1, 2}
  Parent <- McParent
  Durations = {0, 1}
  Limit = 2
  Retention = 1
  WindowTime = 3
  WindowEdits = 2
SPECIFICATION Spec
INVARIANTS
  AppliedMatches IdempotentClosed DryRunTruth RoundTrip
  TokenIndexExact RegionRespected LimitHolds RemovalTakesEffect
  SlaTruth OutagesAddUp OverlapWarned
PROPERTIES
  Settles TokenStable Converges ViewsConverge
CHECK_DEADLOCK FALSE
