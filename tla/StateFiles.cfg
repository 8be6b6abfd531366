SPECIFICATION MCSpec
CONSTANTS
  shared = shared
  owned = owned
  manifest = manifest
  u = u
  m = m
  Null = Null
  Path <- MCPath
  Content <- MCContent
  Plans <- MCPlans
  Faults = {"read", "write", "remove", "restore"}
  Proc = {"cli", "daemon"}
  MaxAppends <- MCAppends
  Readers = {"cli"}
  MaxSegment = 2
  MaxTotal = 3
  MaxSegments = 2
  Retention = 1
  MaxDay = 2
  Legacy = "legacy"
  LegacySize = 1
  Nothing = Nothing
  c1 = c1
  c2 = c2
  Commands = {c1, c2}
  Requests <- MCRequests
  HandWritten <- MCHandWritten
  Workspaces <- MCWorkspaces
  Agents = {"claude"}
  Paths <- MCPaths
  Directories <- MCDirectories
  Profile <- MCProfile
  MaxEntries = 2
  MaxCommands = 2
  MaxEdits = 1
SYMMETRY CommandSymmetry
INVARIANTS CommitIsWhole FailureLeavesNothing LastChangeCommits
INVARIANTS EvidenceKept CapacityBound ReadOmitsOnlyMoved
INVARIANTS TierTwoIsTyped NeverGrantsMore GrantTakesEffect
PROPERTIES UnseenBytesKept ActiveEvidenceSafe
CHECK_DEADLOCK FALSE
