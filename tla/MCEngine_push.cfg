SPECIFICATION FairSpec
CONSTANTS
  NoSite = NoSite
  Everything = Everything
  group = group
  child = child
  Sites = {s1}
  Routines = {r1}
  Handlers = {h1}
  Configs <- PushConfigs
  Probed = {}
  Windows <- PushWindows
  Results = {}
  SeedHistory = {"up", "down"}
  MinPushGrace = 2
  MaxTime = 5
  RetryCap = 2
INVARIANT TokenIndexExact
PROPERTIES HeartbeatHonoured ImplementsPager DeadManSwitch
