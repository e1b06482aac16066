SPECIFICATION Spec
CONSTANTS
  p1 = p1  p2 = p2  c1 = c1  c2 = c2  w1 = w1  w2 = w2
  Proc = {p1, p2}
  CRD = {c1, c2}
  Worker = {w1, w2}
  Crds <- MCCrds
  Uses <- MCUses
  Selects <- MCSelects
  Key <- MCKey
  ProcOf <- MCProcOf
  Envs <- MCEnvs
  Hostname <- MCHostname
  OrDie = {p2}
  Kinds = {c1}
  Deleter = Deleter
  Nobody = Nobody
  Unset = Unset
  Unparsable = Unparsable
  Before = {w1, Deleter}
  MaxDisturbances = 2
  MaxFaults = 2
  MaxSignals = 2
  MaxSkips = 2
  MaxErrs = 2
  MaxRestarts = 2
INVARIANTS CRDsEstablished OneLeads
CHECK_DEADLOCK FALSE
PROPERTIES OverlapEnds EventuallyServed
