SPECIFICATION Spec
CONSTANTS
  Aggregate = {a1, a2}
  EventId = {i1, i2, i3, i4}
  Data = {d}
  Owner = {o1, o2}
  NoOwner = NoOwner
  Publisher = {p1}
  Replayer = {r1}
  Follower = {}
  MaxSeq = 2
  BatchSize = 2
SYMMETRY Symmetry
INVARIANTS TypeOK Contiguous
PROPERTIES ImplementsLog OwnerFence AllOrNothing
CHECK_DEADLOCK FALSE
