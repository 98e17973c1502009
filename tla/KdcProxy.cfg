SPECIFICATION Spec
CONSTANTS
  Udp = {u1, u2}
  Tcp = {t1, t2}
  None = None
INVARIANTS
  TypeOK
  ErrorMeansNoReply
PROPERTIES
  FirstReplyWins
  NothingLeaks
CHECK_DEADLOCK FALSE
