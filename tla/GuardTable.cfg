SPECIFICATION Spec
CONSTANTS
  s1 = s1
  s2 = s2
  r1 = r1
  r2 = r2
  r3 = r3
  Unlocked = Unlocked
  Absent = Absent
  SessionOf <- OddOneOut
  EventOf <- OwnEvents
  Sessions = {s1, s2}
  Requests = {r1, r2, r3}
  Outputs = {r2}
  Confirms = {r1}
  Recogniser = TRUE
  FindingAction = "block"
  Scope <- Scoped
  DeferBecomes = "block"
  Enabled = TRUE
  Threshold = 2
  LockAction = "defer"
  Cooldown = 1
  MaxTracked = 1
  MaxSessions = 1
  MaxTimeline = 3
INVARIANTS
  TablesBounded
PROPERTIES
  LockGrounded
  LocksEndByRule
