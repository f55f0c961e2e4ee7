\* Two keys, two values, two transactions that may be nested or side by side.
CONSTANTS
  Keys = {k1, k2}
  Values = {v1, v2}
  Txns = {t1, t2}
  BASE = BASE
  None = None
  Untouched = Untouched
  MaxOps = 2
SPECIFICATION HistorySpec
SYMMETRY Symmetric
INVARIANTS
  LocalMatchesLog
  CommitsWhatItShowed
PROPERTY
  ImplementsSnapshots
