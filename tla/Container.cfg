SPECIFICATION ContainerSpec
CONSTANTS
  None = None
  Workers = {w1, w2}
  Names = {admin, ann}
  Admin = admin
  Added = {owner, interval}
  LegacyRows = {a1, a2}
  Twins = {a2}
  Layouts = {plain}
  FleetLayout = plain
  EmptyLayout = plain
  MaxUsers = 2
  MaxDashboards = 2
  MaxCrashes = 1
INVARIANTS
  ContainerInv
  ServesUpgradedTables
  OnlyALeftoverStopsAStart
  AdminExists
PROPERTIES
  AgentsSurvive
  EndsAsAWhole
  RequestsFinish
