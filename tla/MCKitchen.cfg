SPECIFICATION Spec
CONSTANTS
  Orders = {o1, o2}
  Tickets = {t1, t2, t3}
  Refs = {r1}
  None = None
  MaxIntents = 3
  MaxVersions = 7
SYMMETRY Symmetry
INVARIANTS
  TerminalTogether
  StatusBacked
  ProjectionCurrent
  IdentityUnique
  PendingShown
  CommandsInOrder
PROPERTY NeverRegresses
CHECK_DEADLOCK FALSE
