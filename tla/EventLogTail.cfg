SPECIFICATION FairSpec
CONSTANTS
  Aggregate = {a1}
  EventId = {i1, i2, i3}
  Data = {d}
  Owner = {}
  NoOwner = NoOwner
  Publisher = {p1}
  Replayer = {r1}
  Follower = {f1}
  MaxSeq = 2
  BatchSize = 2
INVARIANTS EmitsInOrder
PROPERTIES TailCatchesUp
CHECK_DEADLOCK FALSE
