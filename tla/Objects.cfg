SPECIFICATION Spec
CONSTANTS
  Objects = {o1, o2}
  Caches = {hashed, plain}
  Hashed = {hashed}
  Keys = {k1, k2}
  Merging = TRUE
  None = None
  MaxRefs = 4
  MaxUsers = 3
SYMMETRY Symmetry
CHECK_DEADLOCK FALSE
INVARIANTS TypeOK Counted CachesSound CachesCounted
