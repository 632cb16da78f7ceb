SPECIFICATION FairPipeSpec
CONSTANTS
  Orders = {o1}
  Tickets = {t1}
  Refs = {}
  None = None
  Operations = 4
  Ops <- MCOps
  Keys <- MCOps
  Envelopes <- MCEnvelopes
  Commands <- WholeOrderCommands
  DirectOrders = {}
  BatchSize = 2
  Slots = {s1, s2}
  MaxFaults = 2
  MaxRestores = 0
INVARIANT CloudConverges
PROPERTY EveryOperationSettles
CHECK_DEADLOCK FALSE
