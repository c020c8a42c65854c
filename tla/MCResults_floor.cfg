SPECIFICATION Spec
CHECK_DEADLOCK FALSE
CONSTANTS
  MinSuccessfulReps = 2
  Revisions <- FullTable
  Measurements <- ShortSweeps
  MaxTime = 2
  MaxRevisions = 1
  MaxRuns = 1
  DirectCommits = TRUE
INVARIANT
  FloorIsOnCommittedRepetitions
