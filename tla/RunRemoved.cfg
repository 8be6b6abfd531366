SPECIFICATION Spec
CONSTANTS
  Connection = {c1, c2}
  Host = {"api", "localhost", "other"}
  Explicit = {"api"}
  Local = {"localhost"}
  LoopbackRule = TRUE
  Answers <- MCAnswers
  MaxConnections = 1
  Null = Null
INVARIANTS RemovedOnEveryExit
CHECK_DEADLOCK FALSE
