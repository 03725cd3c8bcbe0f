SPECIFICATION Spec
CONSTANTS
  None = None
  amy = amy  ben = ben
  m1 = m1  m2 = m2
  b1 = b1  b2 = b2  b3 = b3
  w1 = w1  w2 = w2
  Workers = {w1, w2}
  StudentIds = {amy, ben}
  SessionIds = {m1, m2}
  BookingIds = {b1, b2}
  MaxMarks = 2
  Capacity <- MCCapacity
  DayOf <- OneDay
  Kinds = {"BOOK", "ADMIN_ADD", "CANCEL", "ADMIN_CANCEL", "RESCHEDULE", "ADMIN_RESCHEDULE", "MARK", "MARK_CLASS"}
INVARIANT OneActiveClassPerDay
