SPECIFICATION Spec
CONSTANTS
  Requests = {r1, r2}
  r1 = r1  r2 = r2  r3 = r3
  h1 = h1  h2 = h2  a1 = a1  a2 = a2  u1 = u1  u2 = u2  c1 = c1  c2 = c2
  None = None
  Hosts = {h1, h2}
  Addrs = {a1, a2}
  Users = {u1}
  ConnIds = {c1}
  Tokens <- TwoTokens
  TokenAuth = TRUE
  SmartCardAuth = FALSE
  VerifyClientIP = TRUE
  HostSelection = "roundrobin"
  Method <- SharedMethod
  ConnId <- OneConnId
  ClientIp <- TwoAddrs
  UserName <- OneUser
  After <- AnyOrder
INVARIANTS
  DialsTokenHost
  DialsOwnTokenHost
  ForwardsOwnBackend
  NoStaleEntry
PROPERTY
  ImplementsRelay
CONSTRAINT
  QuietRelay
CHECK_DEADLOCK FALSE
