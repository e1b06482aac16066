SPECIFICATION Spec
CONSTANTS
  s1 = s1
  s2 = s2
  h1 = h1
  c1 = c1
  Services = {s1, s2}
  Webhooks = {h1}
  CRDs = {c1}
  Existing <- MCExisting
  Keys <- MCKeys
  Calls <- MCCalls
  Variants <- MCVariants
  MaxDisturbances = 2
  MaxCollects = 1
PROPERTY EventuallyTrusted
INVARIANTS TrustsOnlyStored RestingIsTrusted
CHECK_DEADLOCK FALSE
