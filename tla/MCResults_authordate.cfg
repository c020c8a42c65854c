SPECIFICATION Spec
CHECK_DEADLOCK FALSE
CONSTANTS
  MinSuccessfulReps = 2
  Revisions <- FullTable
  Measurements <- WholeSweeps
  MaxTime = 2
  MaxRevisions = 1
  MaxRuns = 1
  DirectCommits = FALSE
INVARIANT
  NoRetroactiveExclusion
