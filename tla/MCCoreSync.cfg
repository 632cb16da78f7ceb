SPECIFICATION CloudSpec
CONSTANTS
  o1 = o1
  o2 = o2
  t1 = t1
  t2 = t2
  Orders = {o1, o2}
  DirectOrders = {o2}
  None = None
  Ops <- MCOps
  Submissions <- MCSubmissions
INVARIANTS
  LedgerContiguous
  EvidenceMatchesEffect
  ProjectionFollowsLedger
  ConsumptionMatchesLedger
PROPERTY AnswersStable
CHECK_DEADLOCK FALSE
