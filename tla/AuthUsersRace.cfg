SPECIFICATION Spec
CONSTANTS
  Names = {n1}
  Passwords = {p1, p2}
  None = None
  Admins = {a1, a2}
  Boot = Boot
  Lookups = {}
  MaxWrites = 3
SYMMETRY Symmetry
INVARIANT
  HelperFollowsStore
CHECK_DEADLOCK FALSE
