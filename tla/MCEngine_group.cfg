SPECIFICATION FairSpec
CONSTANTS
  NoSite = NoSite
  Everything = Everything
  group = group
  child = child
  Sites = {group, child}
  Routines = {r1, r2}
  Handlers = {}
  Configs <- GroupConfigs
  Probed = {}
  Windows <- NoWindows
  Results <- Failing
  SeedHistory = {"none"}
  MinPushGrace = 2
  MaxTime = 1
  RetryCap = 1
INVARIANTS LogFollowsStatus
PROPERTIES GroupConverges
