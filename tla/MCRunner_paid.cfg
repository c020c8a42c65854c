SPECIFICATION Spec
CONSTANTS
  Cent = 2
  Configs <- PaidMatrix
  BudgetUSD = 2
  MaxCharge = 2
  ReportingStages <- AllReport
  RemoveMayFail = FALSE
INVARIANTS
  TypeOK
  OverspendBounded
  FreshStore
  CleanRepetitionIsWhole
  ReasonIsExact
  MissingIsMarked
  BooksMatchRecord
PROPERTIES
  NoSpawnOverBudget
  ImplementsSweep
