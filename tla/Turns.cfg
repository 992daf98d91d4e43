SPECIFICATION Spec
CONSTANTS
  Instances = {"tools", "limited", "epoch", "moved"}
  Unavailable = Unavailable
  Removed = Removed
  NoEpoch = NoEpoch
  NoSystem = NoSystem
INVARIANT ToolsAreHonest
INVARIANT ContextIsShown
PROPERTY TurnEnds
