SPECIFICATION PipeSpec
CONSTANTS
  Orders = {o1, o2}
  Tickets = {t1, t2}
  Refs = {}
  None = None
  Operations = 4
  Ops <- MCOps
  Keys <- MCOps
  Envelopes <- MCEnvelopes
  Commands <- SomeCommands
  DirectOrders = {}
  BatchSize = 2
  Slots = {s1, s2}
  MaxFaults = 2
  MaxRestores = 0
SYMMETRY Symmetry
INVARIANTS
  OutboxTruthful
PROPERTIES
  ImplementsDelivery
  CloudStepsValid
CHECK_DEADLOCK FALSE
