SPECIFICATION Spec
CONSTANTS
  a1 = a1  a2 = a2  a3 = a3  a4 = a4  a5 = a5
  confirm = confirm  action = action  unrouted = unrouted
  c = c  c5 = c5  d3 = d3  d4 = d4
  NoAttempt = NoAttempt  NoBinding = NoBinding  NoResponse = NoResponse
  Requests <- MCRequests
  Confirmations <- MCConfirmations
  Routed <- MCRouted
  Attempts <- MCAttemptsMixed
  RequestOf <- MCRequestOfMixed
  ApprovalIds <- MCIdsMixed
  ApprovalOf <- MCApprovalOfMixed
  Payloads = {}
  TimeoutAction = "block"
  MaxPending = 1
  MaxFinalized = 1
  MaxCached = 1
INVARIANTS
  AnswersAudited
  GaugeExact
  CacheHonest
