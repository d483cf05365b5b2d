SPECIFICATION FairPipeline
CONSTANTS
  None = None
  h1 = h1
  u1 = u1
  k1 = k1
  standard = standard
  custom = custom
  Workers = {w1, w2}
  Users = {u1}
  Keys = {k1}
  KeyOwner <- OneKey
  Hosts = {h1}
  MaxSample = 2
  MaxAgents = 2
  Settings = {standard, custom}
  DefaultSettings = standard
  LegacyAgents <- NoLegacy
  Key = k1
  Host = h1
  Capacity = 1
INVARIANTS
  PipelineInv
  StoredOnce
  ConfirmedIsKept
PROPERTIES
  PipelinePromise
  SettingsChangeOnlyWhenSaved
  QueueDrains
\* When every sample is delivered nothing may be left to do.
CHECK_DEADLOCK FALSE
