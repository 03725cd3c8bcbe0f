SPECIFICATION EnrolmentSpec
CONSTANTS
  None = None
  amy = amy  ben = ben
  g1 = g1  g2 = g2
  m1 = m1  m2 = m2
  o1 = o1  o2 = o2
  t1 = t1
  StudentIds = {amy}
  GroupIds = {g1, g2}
  SlotIds = {t1}
  SessionIds = {m1, m2, o1, o2}
  BookingIds = {1, 2, 3}
  Instants = {24, 49, 90}
  MaxMarks = 1
  InitialStudents <- MCStudents
  InitialMemberships <- MCMemberships
  InitialSlots <- MCSlots
  InitialSessions <- MCSessions
CHECK_DEADLOCK FALSE
INVARIANTS
  FutureSeatsBelongToMembers
  InactiveGroupHasNoFutureActivity
  CancelledClassHasNobodyBooked
  SlotHeldByItsClass
  AuditTrailReplays
