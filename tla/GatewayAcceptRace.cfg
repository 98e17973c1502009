SPECIFICATION Spec
CONSTANTS
  Requests = {r1, r2}
  r1 = r1  r2 = r2  r3 = r3
  h1 = h1  h2 = h2  a1 = a1  a2 = a2  u1 = u1  u2 = u2  c1 = c1  c2 = c2
  None = None
  Hosts = {h1}
  Addrs = {a1, a2}
  Users = {u1}
  ConnIds = {c1}
  Tokens = {}
  TokenAuth = FALSE
  SmartCardAuth = FALSE
  VerifyClientIP = TRUE
  HostSelection = "roundrobin"
  Method <- LiveMethod
  ConnId <- OneConnId
  ClientIp <- OneAddr
  UserName <- OneUser
  After <- InAfterOut
INVARIANT LegacyHasOutput
CHECK_DEADLOCK FALSE
