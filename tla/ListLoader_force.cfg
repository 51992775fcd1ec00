SPECIFICATION Spec
CONSTANTS
  Versions = {v1, v2}
  Loaders = {l1}
  MayForce = TRUE
  None = None
SYMMETRY Symmetry
INVARIANT
  ForcedLoadSearchable
