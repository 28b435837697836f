SPECIFICATION FairSpec
CONSTANTS
  s1 = s1
  s2 = s2
  Sessions = {s1}
  MaxSessions = 1
  Configs <- TwoConfigs
  NoDenylist = "none"
  NoHash = "nohash"
  MaxSighups = 2
  Watchdog = FALSE
PROPERTY ReloadCompletes
CHECK_DEADLOCK FALSE
