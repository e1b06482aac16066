SPECIFICATION Spec
CONSTANTS
  s1 = s1
  k1 = k1
  k2 = k2
  v1 = v1
  v2 = v2
  image = image
  None = None
  Sets = {s1}
  KeyOrder <- MCKeyOrder
  GVKs = {v1, v2}
  GK <- MCGK
  Known = {v1, v2}
  Cached = {v1}
  Strict = FALSE
  NoDelete = {}
  NoPrune = {}
  Fields = {image}
  Guarded = None
  Values = {1, 2}
  Specs = {1, 2}
  Generated <- MCGenerated
  Watched = TRUE
  MaxChanges = 3
  MaxFaults = 1
INVARIANTS
  SkipsOnlyApplied
PROPERTIES
  CascadeDelete
  EventuallyGenerated
  StatusSettles
CHECK_DEADLOCK FALSE
