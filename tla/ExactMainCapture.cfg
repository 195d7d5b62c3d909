SPECIFICATION Spec
CONSTANTS
  Entries = {e1, e2}
  Mirrors = {m1, m2}
  Places = {p1, p2}
  MaxPlan = 2
  MaxSource = 2
  NoTicket = NoTicket
SYMMETRY Symmetry
INVARIANTS ReferencesAccounted
PROPERTIES ReplaysOwnTicketOnce ReplaysOverCleanState
CHECK_DEADLOCK FALSE
