SPECIFICATION PartsSpec
CONSTANTS
  a = a
  b = b
  RankCount = 2
  IdCount = 3
  MaxSubmissions = 2
  Slots = {a, b}
  Capacity = 2
  Faults = {"BUSY", "REFUSE", "QUEUE_FULL", "DECISION", "CONTINUE", "RUN", "START", "REJECT"}
  Topology = "STAGES"
  WorkKinds = {"ROWS", "PUBLISH", "RELEASE"}
  LaneSets = {{a}}
  Deadlines = {TRUE}
  MaxBreaks = 1
INVARIANTS
  RunsInOrder
  SuccessIsTotal
  SessionIsolation
  UnanimousRun
  EndedEverywhere
CHECK_DEADLOCK FALSE
