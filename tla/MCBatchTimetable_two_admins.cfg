SPECIFICATION Spec
CONSTANTS
  None = None
  w1 = w1  w2 = w2
  g1 = g1  g2 = g2
  m1 = m1  m2 = m2  m3 = m3  m4 = m4
  Workers = {w1, w2}
  GroupIds = {g1}
  SessionIds = {m1, m2, m3}
  Windows <- MCWindows
  Templates <- MCTemplates
  Dates = {0, 1}
  WeekdaySets = {{0}, {1}, {0, 1}}
  Instants = {10, 21}
  Kinds = {"CREATE", "GENERATE", "VOID", "REACTIVATE"}
SYMMETRY MCKeys
INVARIANTS
  TypeOK
  RefusedOnlyWhenOvertaken
