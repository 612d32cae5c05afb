SPECIFICATION Spec
CONSTANTS
  a = a  b = b  c = c  d = d  e = e
  Identities = {a, b, c, d, e}
  NoIdentity = NoIdentity
  Generation <- MCGeneration
  Start <- MCStart
  Capacity = 3
  Fingerprints = {1}
  Statuses = {"OK"}
  EpochMax = 3
SYMMETRY MCSymmetry
INVARIANTS
  OneEntryPerIdentity
  CountersAgree
PROPERTIES
  ActiveNeverLost
  OutcomeIsFinal
