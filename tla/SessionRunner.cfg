SPECIFICATION FairSpec
CONSTANTS
  Input = {i1, i2}
  Steps = 2
INVARIANTS TypeOK NoStrandedInput StepLimit
PROPERTIES NoIdleRequest QueueOneAtATime InputIsAnswered
