SPECIFICATION Spec
CONSTANTS
  s1 = s1
  s2 = s2
  r1 = r1
  r2 = r2
  r3 = r3
  Unlocked = Unlocked
  Absent = Absent
  SessionOf <- OneSession
  EventOf <- TwoTries
  Sessions = {s1}
  Requests = {r1, r2, r3}
  Outputs = {r3}
  Confirms = {r2}
  Recogniser = TRUE
  FindingAction = "block"
  Scope <- Unscoped
  DeferBecomes = "allow"
  Enabled = TRUE
  Threshold = 2
  LockAction = "l3_require"
  Cooldown = 1
  MaxTracked = 1
  MaxSessions = 1
  MaxTimeline = 6
INVARIANTS
  NothingSlipsPast
  CountersMatchTimeline
PROPERTIES
  QuarantineStands
