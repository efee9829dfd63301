SPECIFICATION FairSpec
CONSTANTS
  TicketIds = {t1}
  Agents = {a1}
  Requests = {r1, r2}
  None = None
  Window = 1
  MaxDuration = 1
  MaxTime = 4
CHECK_DEADLOCK FALSE
INVARIANTS ConstraintsHold AnsweredIsStamped
PROPERTIES ClosedIsTerminal ReopensWithinWindow ResolvedTicketsLeave
