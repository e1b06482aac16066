SPECIFICATION Spec
CONSTANTS
  s1 = s1
  k1 = k1
  k2 = k2
  v1 = v1
  v2 = v2
  image = image
  env = env
  note = note
  None = None
  Sets = {s1}
  KeyOrder <- MCKeyOrder
  GVKs = {v1, v2}
  GK <- MCGK
  Known = {v1, v2}
  Cached = {v1, v2}
  Strict = TRUE
  NoDelete = {}
  NoPrune = {}
  Fields = {image, env, note}
  Guarded = image
  Values = {1, 2}
  Wants <- EnvWants
  Watched = TRUE
  ForeignField = note
  MaxChanges = 3
  MaxFaults = 0
PROPERTY Converges
CHECK_DEADLOCK FALSE
