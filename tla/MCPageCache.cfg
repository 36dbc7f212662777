CONSTANTS
  d1 = d1
  d2 = d2
  d3 = d3
  r1 = r1
  r2 = r2
  Documents = {d1, d2, d3}
  Rasters = {r1, r2}
  Pages = {0}
  Targets = {"fit", "zoom"}
  Capacity = 3
SPECIFICATION Spec
SYMMETRY Symmetric
INVARIANTS
  TypeOK
  HitIsLatest
PROPERTY KeepsMostRecentlyUsed
