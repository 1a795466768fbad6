SPECIFICATION Spec
CONSTANTS
  r1 = r1
  r2 = r2
  r3 = r3
  NoEvent = NoEvent
  Requests = {r1, r2, r3}
  Recogniser = TRUE
  Triggered = {r3}
  Usages <- InputUsages
  Limit = 3
  Scope = "input"
  MaxCalls = 2
  LastDay = 1
INVARIANTS
  NoInventedTokens
