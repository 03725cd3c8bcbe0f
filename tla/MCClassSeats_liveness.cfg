SPECIFICATION FairSpec
CONSTANTS
  None = None
  amy = amy  ben = ben
  m1 = m1  m2 = m2
  b1 = b1  b2 = b2  b3 = b3
  w1 = w1  w2 = w2
  Workers = {w1, w2}
  StudentIds = {amy, ben}
  SessionIds = {m1, m2}
  BookingIds = {b1, b2}
  MaxMarks = 1
  Capacity <- MCCapacity
  DayOf <- TwoDays
  Kinds = {"BOOK", "ADMIN_RESCHEDULE", "MARK_CLASS"}
PROPERTY RequestsFinish
