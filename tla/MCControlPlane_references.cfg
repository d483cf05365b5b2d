SPECIFICATION Spec
CONSTANTS
  None = None
  h1 = h1
  u1 = u1
  u2 = u2
  k1 = k1
  k2 = k2
  standard = standard
  custom = custom
  Workers = {w1, w2}
  Users = {u1}
  Keys = {k1}
  KeyOwner <- OneKey
  Hosts = {h1}
  MaxSample = 2
  MaxAgents = 2
  Settings = {standard}
  DefaultSettings = standard
  LegacyAgents <- NoLegacy
SYMMETRY WorkerSymmetry
INVARIANT
  ReferencesHold
\* With every key deleted and every agent id used nothing is left to do.
CHECK_DEADLOCK FALSE
