SPECIFICATION Spec
CHECK_DEADLOCK FALSE
CONSTANTS
  MinSuccessfulReps = 2
  Revisions <- AllRevisions
  Measurements <- AllSweeps
  MaxTime = 2
  MaxRevisions = 2
  MaxRuns = 2
  DirectCommits = TRUE
INVARIANTS
  NoRetroactiveExclusion
  RefusalIsRecorded
  ReportIsAccepted
  SpreadIsAcrossRuns
  MeasurementsAreAccounted
