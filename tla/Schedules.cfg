SPECIFICATION Spec
CONSTANT Instances = {"chain", "recurring", "edits", "two", "updates", "retries", "defects"}
CONSTANT None = None
INVARIANT HappensOnce
PROPERTY StartsAreAsked
PROPERTY DueEnds
