SPECIFICATION Spec
CONSTANTS
  Null = Null
  UserContents <- MCContents
  Unmergeable <- MCUnmergeable
  Originals <- MCOriginals
  HooksPaths = {"husky"}
  Fragile = {}
  Faults = {}
  SystemFaults = {}
  Events = {"upgrade", "announce"}
  MaxEvents = 1
  MaxCommands = 2
PROPERTIES RepairReconciles
CHECK_DEADLOCK FALSE
