SPECIFICATION Spec
CONSTANTS
  Attachments = {a1, a2}
  Tickets = {k1, k2}
  Requests = {r1, r2, r3}
  None = None
SYMMETRY Symmetry
INVARIANTS AllOrNothing
PROPERTIES BoundOnce
