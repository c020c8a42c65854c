SPECIFICATION Spec
CHECK_DEADLOCK FALSE
CONSTANTS
  Files <- MixedFiles
  GoodFile <- OneGoodFile
  Directories <- PairsOfFiles
  Values = {20, 21, 22, 30}
  MaxLength = 6
INVARIANTS
  LoadedConfigsAreDriven
  ExplicitWarmupsAreRun
  CleanWorkflowsAreGated
  QuartilesAreType7
  UnstableIsFivePercent
