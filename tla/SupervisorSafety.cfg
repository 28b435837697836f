SPECIFICATION Spec
CONSTANTS
  s1 = s1
  s2 = s2
  Sessions = {s1, s2}
  MaxSessions = 1
  Configs <- TwoConfigs
  NoDenylist = "none"
  NoHash = "nohash"
  MaxSighups = 3
  Watchdog = TRUE
SYMMETRY Symmetric
PROPERTY EarlierSessionsAreNotCutOff
INVARIANTS TypeOK NoServiceOnOldPool ListenerObeysLastMessage DenylistIsCurrent
CHECK_DEADLOCK FALSE
