SPECIFICATION Spec
CONSTANTS
  Orders = {o1, o2}
  Tickets = {t1, t2}
  Refs = {}
  Ops = {a, b, c, d}
  SharedKey = k
  None = None
  Keys <- MCKeys
  Envelopes <- MCEnvelopes
SYMMETRY Symmetry
INVARIANTS
  HistoryReplays
  EffectOnce
  AnswersAgree
  VersionsIncrease
  StreamsRooted
CHECK_DEADLOCK FALSE
