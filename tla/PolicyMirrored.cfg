SPECIFICATION GrantsSpec
CONSTANTS
  c1 = c1
  c2 = c2
  Commands = {c1, c2}
  Requests <- MCRequests
  HandWritten <- MCHandWritten
  Workspaces <- MCWorkspaces
  Agents = {"claude"}
  Paths <- MCPaths
  Directories <- MCDirectories
  Profile <- MCProfile
  MaxEntries = 2
  MaxCommands = 2
  MaxEdits = 1
SYMMETRY CommandSymmetry
INVARIANTS AllowsMirrorsProfiles
CHECK_DEADLOCK FALSE
