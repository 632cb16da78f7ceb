SPECIFICATION FairPipeSpec
CONSTANTS
  Orders = {o1}
  Tickets = {t1}
  Refs = {}
  None = None
  Operations = 3
  Ops <- MCOps
  Keys <- MCOps
  Envelopes <- MCEnvelopes
  Commands <- MixedCommands
  DirectOrders = {}
  BatchSize = 2
  Slots = {s1, s2}
  MaxFaults = 0
  MaxRestores = 0
PROPERTY EveryOperationSettles
CHECK_DEADLOCK FALSE
