SPECIFICATION Spec
CONSTANT Instances = {"ledger", "race", "review", "settle", "execution", "drain", "jobs", "stopping"}
INVARIANT CompletionIsTrue
PROPERTY OutcomeFinal
PROPERTY WorkEnds
CHECK_DEADLOCK FALSE
