SPECIFICATION PipeSpec
CONSTANTS
  Orders = {o1}
  Tickets = {t1}
  Refs = {}
  None = None
  Operations = 6
  Ops <- MCOps
  Keys <- MCOps
  Envelopes <- MCEnvelopes
  Commands <- CompletingCommands
  DirectOrders = {o1}
  BatchSize = 2
  Slots = {s1, s2}
  MaxFaults = 1
  MaxRestores = 1
SYMMETRY Symmetry
INVARIANTS
  EffectsOnce
CHECK_DEADLOCK FALSE
