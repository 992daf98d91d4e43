SPECIFICATION FairSpec
CONSTANTS
  Entry = {e1, e2}
  Caller = {r1}
  Stopper = {s1}
  NoEntry = NoEntry
PROPERTY ResumeAfterCleanup
