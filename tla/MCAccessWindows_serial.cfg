SPECIFICATION Spec
CONSTANTS
  None = None
  w1 = w1  p1 = p1
  PackageIds = {p1}
  Workers = {w1}
  Instants = {14, 24, 50}
  Times = {0, 24, 40}
  Durations = {1, 2}
  Kinds = {"GRANT", "PATCH"}
  MaxGrants = 2
INVARIANTS
  GrantsCountWholeDays
  WindowValid
PROPERTY ExtensionFollowsAccess
