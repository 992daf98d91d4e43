SPECIFICATION FairSpec
CONSTANTS
  Entry = {e1, e2, e3}
  Caller = {r1, r2}
  Stopper = {s1}
  NoEntry = NoEntry
INVARIANTS TypeOK OneOwner NoOrphan QuietIsIdle
PROPERTIES NoLostWake GateFairSpec WaitersReturn
