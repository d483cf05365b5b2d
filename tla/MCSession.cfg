SPECIFICATION FairSpec
CONSTANTS
  None = None
  u1 = u1
  u2 = u2
  Users = {u1, u2}
  Agents <- TwoAgents
  Owner <- OwnerOf
  MaxVersion = 2
  InitialAgents = {1}
  MaxHydrates = 2
  MaxViews = 2
  MaxDeletes = 1
INVARIANTS
  SessionInv
  LoadingMeansWaiting
  ViewsFollowSelection
PROPERTIES
  RefreshesTakenInOrder
  ComesIntoSync
\* Nobody has to log in.
CHECK_DEADLOCK FALSE
