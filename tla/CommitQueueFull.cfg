CONSTANTS
  MaxCommitQueue = 2
  MaxChanges = 2
  MaxFinals = 2
  MaxFailures = 2
  MaxCrashes = 1
SPECIFICATION Spec
INVARIANTS
  SkippedWhenFull
