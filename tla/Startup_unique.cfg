SPECIFICATION Spec
CONSTANTS
  None = None
  Workers = {w1, w2}
  Names = {admin, ann}
  Admin = admin
  Added = {owner}
  LegacyRows = {a1}
  Twins = {}
  Layouts = {fleet, empty}
  FleetLayout = fleet
  EmptyLayout = empty
  MaxUsers = 3
  MaxDashboards = 1
  MaxCrashes = 1
INVARIANT
  UsernamesUnique
