SPECIFICATION Spec
CHECK_DEADLOCK FALSE
CONSTANTS
  bootstrap = bootstrap
  ada = ada
  bob = bob
  Writers <- Everyone
  Jobs <- Scheduled
  MaxRuns = 3
INVARIANTS
  TypeOK
  OnlyTheCountLags
  MainIsReadable
PROPERTY
  ImplementsArchive
