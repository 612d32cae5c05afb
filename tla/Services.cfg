SPECIFICATION Spec
CONSTANTS
  o1 = o1
  a1 = a1
  a2 = a2
  e1 = e1
  e2 = e2
  e3 = e3
  c1 = c1
  c2 = c2
  c3 = c3
  c4 = c4
  d1 = d1
  d2 = d2
  r1 = r1
  Parts = {"orders", "teams", "notices", "gate", "models", "packs"}
  Orders = {o1}
  Total = 3
  Cent = 1
  Dollar = 2
  Payments = {1, 3}
  Handlers = {t1, t2}
  Sales <- SalesSafety
  TeamAccounts = {a1, a2}
  Emails = {e1, e2, e3}
  Clients = {t1, t2}
  CodeTries = 1
  InviteDays = 1
  SessionDays = 1
  RetireDays = 1
  MembersPerAccount = 1
  Teams <- MCTeams
  Events = {v1}
  Announced = {n1}
  Hooks = {k1}
  Workers = {w1}
  Reports = {t1, t2}
  Retries = 1
  MaxStops = 1
  Asks = {c1, c2, c3, c4}
  SeqSlots = 2
  Reserve = 2
  ShareNum = 3
  ShareDen = 4
  Rushes <- MCRushes
  MaxQuits = 2
  ModelIds = {d1, d2}
  FleetNodes = {x1, x2}
  Chats = {r1, r2, r3}
  WarmDepth = 1
  SwapPlays <- PlaysSafety
  Commits = {"k1", "k2"}
  Definitions = {"x1", "x2"}
  Sittings = {s1, s2}
  DayLength = 2
  LastHour = 2
  PackPlays <- PacksSafety
INVARIANTS
  IssuedOnce
  
  RefundsBacked
  
  KnownIsBacked
  OneNoticePerEvent
  SlotsAccounted
  
  
  ServedIsStored
SYMMETRY Symmetry
CHECK_DEADLOCK FALSE
