SPECIFICATION Spec
CONSTANTS
  Requests = {r1, r2, r3}
  Slots = {s1, s2, s3}
  k1 = k1
  k2 = k2
  k3 = k3
  b1 = b1
  b2 = b2
  AllResidents = {k1, k2, k3}
  AllSubmissions = {b1, b2}
  MaxLanes = 2
  Prompt = 1
  Budget = 1
  None = None
  Settings <- DoubleFreeSettings
SYMMETRY Symmetry
INVARIANTS
  SlotAccounting
