SPECIFICATION MCSpec
CONSTANTS
  Root = "home"
  Dirs = {"config", "autostart", "sub", "claude"}
  Files = {"zshrc"}
  Parent <- MCParent
  Initially = {{"config", "autostart", "claude", "zshrc"}}
  Targets <- MCTargets
  MaxDirectories = 3
  MaxChanges = 2
  MaxErrors = 1
  None = None
  Key = {k1, k2, k3}
  Null = Null
  MaxPerWindow = 2
  Window = 2
  Cooldown = 4
  RecentBound = 2
  Time = {0, 1, 2, 3, 4}
  MaxGrants = 6
INVARIANTS NothingLeaks NoEarlyRepeat BurstIsBounded RefusalsAreEarned
PROPERTIES CoverageSettles NoFalseGreen
CHECK_DEADLOCK FALSE
