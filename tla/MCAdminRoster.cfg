SPECIFICATION RosterSpec
CONSTANTS
  Users = {u1, u2, u3}
  Roles = {admin, agent}
  Admin = admin
  Requests = {r1, r2}
SYMMETRY Symmetry
INVARIANTS CountStaysTrue LockedStayAdmins
