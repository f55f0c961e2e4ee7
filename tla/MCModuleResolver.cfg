\* Four uses of a resolver without a base path.
CONSTANTS
  Archive <- MCArchive
  Entrypoints <- MCEntrypoints
  Queries <- MCQueries
  base_path = None
  None = None
  MaxDepth = 5
  MaxRounds = 4
SPECIFICATION Spec
INVARIANTS
  TypeOK
  CacheIsComplete
  SharedInstances
  EvaluatedOnce
\* A run ends when the uses are up, or with a trap.
CHECK_DEADLOCK FALSE
