SPECIFICATION FairSpec
CONSTANTS
  t1 = t1  t2 = t2  t3 = t3
  shared = shared  own3 = own3
  hash = hash  h1 = h1  h2 = h2
  NoTask = NoTask
  NoBinding = NoBinding
  Bindings <- MCBindings
  Payloads = {}
  Tasks <- MCTasks
  Ids <- MCIds
  IdOf <- MCIdOf
  BindingOf <- MCBindingOf
  TimeoutAction = "allow"
  MaxPending = 1
  MaxFinalized = 1
INVARIANTS
  TablesBounded
  NoOrphans
  AllowHasAuthority
  AnswerStands
  ReportAgrees
PROPERTIES
  OneAnswer
  WaitsEnd
  ContractSpec
