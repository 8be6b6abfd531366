SPECIFICATION Spec
CONSTANTS
  None = None
  Worlds <- MCWorlds
INVARIANTS ProtectedIsProven StatusIsConsistent NothingLeft
PROPERTIES DoctorEnds CanaryReclaimed
CHECK_DEADLOCK FALSE
