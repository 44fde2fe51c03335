SPECIFICATION Spec
CONSTANTS
  NoSite = NoSite
  Everything = Everything
  group = group
  child = child
  Sites = {s1}
  Routines = {r1}
  Handlers = {h1}
  Configs <- PushConfigs
  Probed = {}
  Windows = {{s1}}
  Results = {}
  SeedHistory = {"none", "up","down"}
  MinPushGrace = 2
  MaxTime = 3
  RetryCap = 2
PROPERTIES NoRecoveryAlertInMaintenance
