SPECIFICATION Unprotected
CONSTANTS
  ada = ada
  bob = bob
  Job = Job
  People <- Alone
  MaxRuns = 1
  MaxForged = 1
PROPERTY
  EditsFailCI
