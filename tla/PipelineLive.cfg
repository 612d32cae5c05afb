SPECIFICATION FairSpec
CONSTANTS
  RankCount = 2
  IdCount = 2
  Slots = {a}
  Capacity = 2
  Faults = {"DROP", "RESTART", "ABORT_BUSY"}
  Topology = "STAGES"
  WorkKinds = {"ROWS"}
  LaneSets = {{a}}
  Deadlines = {FALSE}
  MaxBreaks = 1
PROPERTIES
  SubmissionsEnd
  Heals
  PortRefined
CHECK_DEADLOCK FALSE
