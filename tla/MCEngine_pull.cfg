SPECIFICATION Spec
CONSTANTS
  NoSite = NoSite
  Everything = Everything
  group = group
  child = child
  Sites = {s1}
  Routines = {r1}
  Handlers = {h1}
  Configs <- PullConfigs
  Probed = {s1}
  Windows <- NoWindows
  Results <- PullResults
  SeedHistory = {"none"}
  MinPushGrace = 2
  MaxTime = 2
  RetryCap = 2
INVARIANTS TypeOK StepDownDrains PagedIffBroken
PROPERTIES RetriesExhausted ImplementsPager
