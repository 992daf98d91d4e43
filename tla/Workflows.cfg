SPECIFICATION Spec
CONSTANT Instances = {"fork", "crashed", "retried", "branch", "live"}
INVARIANT RunsAreHonest
PROPERTY DoneIsFinal
PROPERTY RunEnds
CHECK_DEADLOCK FALSE
