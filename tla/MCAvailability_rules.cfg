SPECIFICATION FairSpec
CONSTANTS
  None = None
  w1 = w1  w2 = w2
  r1 = r1  r2 = r2
  k1 = k1  k2 = k2  k3 = k3  k4 = k4  k5 = k5  k6 = k6
  Workers = {w1}
  RuleIds = {r1}
  SlotIds = {k1, k2, k3, k4}
  RuleShapes <- MCTwoShapes
  Windows <- MCOneWindow
  Statuses = {"AVAILABLE"}
  Instants = {20, 200}
  MaxClasses = 1
  Kinds = {"CREATE_RULE", "UPDATE_RULE", "GENERATE", "BOOK", "CANCEL"}
PROPERTIES
  RuleEventuallyCovered
  StaleSlotsWithdrawn
