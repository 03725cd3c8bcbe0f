SPECIFICATION Spec
CONSTANTS
  None = None
  amy = amy  ben = ben
  t1 = t1  t2 = t2
  b1 = b1  b2 = b2  b3 = b3
  w1 = w1  w2 = w2
  Workers = {w1, w2}
  StudentIds = {amy, ben}
  SlotIds = {t1}
  BookingIds = {b1, b2, b3}
  DayOf <- TwoDays
  Kinds = {"BOOK", "CANCEL", "ADMIN_CANCEL", "MARK", "RESCHEDULE", "ADMIN_RESCHEDULE", "SWITCH", "UPDATE_SLOT", "DELETE_SLOT"}
SYMMETRY MCSymmetry
INVARIANTS
  OneLiveClassPerSlot
  CancelledWithItsBooking
  NoSlotStranded
  
PROPERTIES
  ImplementsDiary
