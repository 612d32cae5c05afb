SPECIFICATION FairSpec
CONSTANTS
  Requests = {r1, r2}
  Slots = {s1, s2}
  k1 = k1
  k2 = k2
  k3 = k3
  b1 = b1
  b2 = b2
  AllResidents = {k1}
  AllSubmissions = {b1}
  MaxLanes = 1
  Prompt = 1
  Budget = 2
  None = None
  Settings <- LateHealSettings
PROPERTIES
  EveryRequestEnds
