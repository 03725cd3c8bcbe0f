SPECIFICATION Spec
CONSTANTS
  None = None
  amy = amy  ben = ben  cat = cat
  g1 = g1  g2 = g2
  m1 = m1  m2 = m2  m3 = m3
  o1 = o1  o2 = o2  o3 = o3
  t1 = t1  t2 = t2
  StudentIds = {amy, ben}
  GroupIds = {g1, g2}
  SlotIds = {t1}
  SessionIds = {m1, m2, m3}
  BookingIds = {1, 2, 3}
  Instants = {24, 25, 45, 48, 70}
  MaxMarks = 2
  InitialStudents <- MixStudents
  InitialMemberships <- MixMemberships
  InitialSlots <- MixSlots
  InitialSessions <- MixSessions
CHECK_DEADLOCK FALSE
INVARIANT EmptyClassIsEmpty
