SPECIFICATION FairSpec
CONSTANTS
  a1 = a1  a2 = a2  a3 = a3  a4 = a4  a5 = a5
  confirm = confirm  action = action  unrouted = unrouted
  c = c  c5 = c5  d3 = d3  d4 = d4
  NoAttempt = NoAttempt  NoBinding = NoBinding  NoResponse = NoResponse
  Requests <- MCRequests
  Confirmations <- MCConfirmations
  Routed <- MCRouted
  Attempts <- MCAttemptsAction
  RequestOf <- MCRequestOfAction
  ApprovalIds <- MCIdsAction
  ApprovalOf <- MCApprovalOfAction
  Payloads = {"p"}
  TimeoutAction = "allow"
  MaxPending = 1
  MaxFinalized = 2
  MaxCached = 1
INVARIANTS
  GrantsGrounded
  ReplacementStands
PROPERTIES
  AttemptsEnd
