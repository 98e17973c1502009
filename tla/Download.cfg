SPECIFICATION DownloadSpec
CONSTANTS
  Users = {u1, u2}
  Groups = {g1}
  None = None
  Claims <- MCClaims
  Requests = {r1, r2}
  MaxLogins = 2
  CacheExpiration = 2
  SignIn = 1
  Stall = 1
  MaxTime = 3
  Hosts = {h1, h2}
  ConfiguredHosts = {h1, h2}
SYMMETRY DownloadSymmetry
INVARIANTS TypeOK OwnAnswer DownloadTypeOK TokenOwner TokenForVisibleHost
PROPERTIES SingleUse AnsweredOnce
CONSTRAINT Explored
