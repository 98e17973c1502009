SPECIFICATION DashboardSpec
CONSTANTS
  Ids = {i1, i2}
  Files = {f1, f2, f3}
  Sizes = {1, 2}
  Groups = {g1}
  None = None
  Admins = {a1, a2}
  MaxUploads = 2
  MaxStorageBytes = 3
  IconIds = {c1, c2, c3}
  MaxIcons = 2
  MaxNames = 5
SYMMETRY Symmetry
INVARIANTS
  TypeOK
  WithinQuota
  NoOrphan
  IconTypeOK
  OneActive
  ListedHasFile
  NoOrphanIcon
PROPERTIES
  KeepsUploads
  ShowsChosenIcon
CHECK_DEADLOCK FALSE
