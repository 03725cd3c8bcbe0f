SPECIFICATION Spec
CONSTANTS
  None = None
  w1 = w1  w2 = w2
  r1 = r1  r2 = r2
  k1 = k1  k2 = k2  k3 = k3  k4 = k4  k5 = k5  k6 = k6
  Workers = {w1}
  RuleIds = {r1}
  SlotIds = {k1, k2}
  RuleShapes <- MCOneShape
  Windows <- MCOneWindow
  Statuses = {"AVAILABLE", "BLOCKED", "BOOKED"}
  Instants = {20, 34}
  MaxClasses = 1
  Kinds = {"CREATE_RULE", "DELETE_RULE", "GENERATE", "CREATE_SLOT", "UPDATE_SLOT", "DELETE_SLOT", "BOOK", "CANCEL", "SWITCH"}
SYMMETRY MCKeys
INVARIANT
  OnlyRevivedSlotsOverlap
