SPECIFICATION Spec
CONSTANTS
  Capacity = 2
  Items = {a, b}
  Blank = a
CONSTRAINT SentBound
INVARIANTS
  RingInv
  NoDataRace
  PendingIntact
  DepthReadingSound
PROPERTY FifoSpec
