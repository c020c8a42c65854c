SPECIFICATION Spec
CONSTANTS
  ada = ada
  bob = bob
  Job = Job
  People <- Reviewed
  MaxRuns = 1
  MaxForged = 1
SYMMETRY Symmetric
INVARIANTS
  TypeOK
  OnlyTheCountLags
PROPERTY
  ImplementsArchive
