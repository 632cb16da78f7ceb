SPECIFICATION IdemSpec
CONSTANTS
  None = None
  t1 = t1
  t2 = t2
  out1 = out1
  MaxRequests = 3
  Calls <- MCAllCalls
  ActiveDevices = {"active"}
  ClockSkew = 1
  MaxFaults = 2
INVARIANTS
  OperationOnce
  OneExecutionPerScope
  ReplayIsOriginal
  EffectsInScope
PROPERTY EveryRequestAnswered
CHECK_DEADLOCK FALSE
