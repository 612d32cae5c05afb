SPECIFICATION Spec
CONSTANTS
  RankCount = 2
  IdCount = 3
  Slots = {a, b}
  Capacity = 1
  Faults = {}
  Topology = "STAGES"
  WorkKinds = {"ROWS"}
  LaneSets = {{a}, {b}}
  Deadlines = {FALSE, TRUE}
  MaxBreaks = 0
INVARIANTS
  ContinuationHasRoute
CHECK_DEADLOCK FALSE
