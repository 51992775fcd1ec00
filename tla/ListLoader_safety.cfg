SPECIFICATION Spec
CONSTANTS
  Versions = {v1, v2, v3}
  Loaders = {l1, l2}
  MayForce = TRUE
  None = None
SYMMETRY Symmetry
INVARIANTS
  TypeOK
  SearchableIsComplete
  LoadIsAllOrNothing
  LoadsDoNotCollide
PROPERTY
  ActiveNeverOlder
