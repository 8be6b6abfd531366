SPECIFICATION Spec
CONSTANTS
  Null = Null
  UserContents <- MCContents
  Unmergeable <- MCUnmergeable
  Originals <- MCOriginals
  HooksPaths = {"husky"}
  Fragile = {"state", "replica", "hook", "manifest"}
  Faults = {}
  SystemFaults = {}
  Events = {"edit", "git", "crash", "damage", "stop", "upgrade", "announce"}
  MaxEvents = 2
  MaxCommands = 3
INVARIANTS UserBytesSurvive HooksPathRecoverable NoDangling
PROPERTIES SuccessStands
CHECK_DEADLOCK FALSE
