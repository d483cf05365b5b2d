SPECIFICATION Spec
CONSTANTS
  None = None
  h1 = h1
  u1 = u1
  u2 = u2
  k1 = k1
  k2 = k2
  standard = standard
  custom = custom
  Workers = {w1, w2}
  Users = {u1, u2}
  Keys = {k1, k2}
  KeyOwner <- OwnKeys
  Hosts = {h1}
  MaxSample = 2
  MaxAgents = 2
  Settings = {standard}
  DefaultSettings = standard
  LegacyAgents <- OneLegacy
SYMMETRY WorkerSymmetry
INVARIANTS
  IInv
  LatestIsInHistory
PROPERTY
  RevocationIsFinal
\* With every key deleted and every agent id used nothing is left to do.
CHECK_DEADLOCK FALSE
