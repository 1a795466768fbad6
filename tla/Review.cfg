SPECIFICATION Spec
CONSTANTS
  s1 = s1
  s2 = s2
  Sessions = {s1, s2}
  Events <- AllCases
  SessionOf <- Halves
  L1 <- Cases
  Strategy = "upgrade_next"
  Benchmark = TRUE
  ReplaceL2 = FALSE
  Cap = 1
INVARIANTS
  ReviewFailsClosed
  RiskNeverLowered
  ContaminationReviewed
