SPECIFICATION FairSpec
CONSTANTS
  Cent = 2
  Configs <- ReleasedMatrix
  BudgetUSD = 0
  MaxCharge = 2
  ReportingStages <- Reporting_v012
  RemoveMayFail = FALSE
INVARIANTS
  LineageInStore
  CleanStageIsAccounted
PROPERTIES
  CancelTerminates
