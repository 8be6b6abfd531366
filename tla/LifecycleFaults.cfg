SPECIFICATION LiveSpec
CONSTANTS
  Null = Null
  UserContents <- MCContents
  Unmergeable <- MCUnmergeable
  Originals <- MCFresh
  HooksPaths = {}
  Fragile = {}
  Faults = {"write", "remove", "restore"}
  SystemFaults = {"git", "service"}
  Events = {}
  MaxEvents = 0
  MaxCommands = 2
INVARIANTS ManifestIsTruth
PROPERTIES CommandEnds
CHECK_DEADLOCK FALSE
