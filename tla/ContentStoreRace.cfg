SPECIFICATION Spec
CONSTANTS
  Ids = {i1, i2}
  Files = {f1, f2}
  Sizes = {1, 2}
  Groups = {g1}
  None = None
  Admins = {a1, a2}
  MaxUploads = 1
  MaxStorageBytes = 2
SYMMETRY Symmetry
INVARIANT TemplateHasFile
CHECK_DEADLOCK FALSE
