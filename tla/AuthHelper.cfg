SPECIFICATION HelperSpec
CONSTANTS
  Names = {n1}
  Passwords = {p1}
  None = None
  Admins = {a1, a2}
  Boot = Boot
  Lookups = {k1, k2}
  MaxWrites = 3
  Contexts = {c1, c2, c3}
  MaxChallenges = 2
SYMMETRY HelperSymmetry
INVARIANTS
  TypeOK
  FollowsUnlessRaced
  FreshAnswer
  NtlmTypeOK
  ChallengeUsedOnce
CONSTRAINT
  Explored
