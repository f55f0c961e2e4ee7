\* At most three loads on an engine, two rounds of run_handle.
CONSTANTS
  Archives <- MCArchives
  MaxLoads = 3
  MaxStatements = 2
  Rounds = 2
SPECIFICATION Spec
INVARIANTS
  TypeOK
  StagesInOrder
  ValidatedStaysValid
  WritesNeedConfig
PROPERTIES
  LoadReports
  EveryCallReturns
