SPECIFICATION LiveSpec
CONSTANTS
  Loud = {"zshrc"}
  Quiet = {"npmrc"}
  Content = {"good", "bad"}
  Harmful = {"bad"}
  Null = Null
  Initially = {"good"}
  MaxPerWindow = 1
  Window = 1
  Cooldown = 2
  RecentBound = 2
  Scenarios <- MCScenarios
  Time = {0, 1}
INVARIANTS TrustIsEarned
PROPERTIES FinalStateObserved
CHECK_DEADLOCK FALSE
