SPECIFICATION MCSpec
CONSTANTS
  Scans = {"tty", "git"}
  Interactive = {"tty"}
  File = {"agent-settings", "instructions"}
  Content <- MCContent
  Huge = Huge
  None = None
  Disabled = {}
  MaxEdits = 1
  Calls <- MCCalls
  ActionIds = {"AG-A002", "AG-A006"}
INVARIANTS ApprovalIsTheUsers NothingHidden RefusalHolds
PROPERTIES NoSilentDrift
CHECK_DEADLOCK FALSE
