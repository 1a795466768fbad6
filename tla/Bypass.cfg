SPECIFICATION Spec
CONSTANTS
  script = script
  retry = retry
  edit = edit
  place = place
  other = other
  family = family
  Attempts = {script, retry, edit}
  Event <- Events
  Effect <- Effects
  Likeness <- Likenesses
  Leaks = {script, retry}
  Confirms = {edit}
  Recogniser = TRUE
  Bridge = TRUE
  Lenient = TRUE
  ExactAction = "block"
  SameToolAction = "defer"
  CrossToolAction = "force_l3"
  LLMAction = "force_l3"
  TTL = 2
  MaxRecords = 3
INVARIANTS
  MemoryGrounded
PROPERTIES
  Challenged
