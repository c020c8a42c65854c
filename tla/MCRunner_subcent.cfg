SPECIFICATION Spec
CONSTANTS
  Cent = 2
  Configs <- OneConfig
  BudgetUSD = 2
  MaxCharge = 2
  ReportingStages <- Reporting_v012
  RemoveMayFail = FALSE
INVARIANT
  SubCentIsBooked
