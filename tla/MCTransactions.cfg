\* Three transactions: chains three deep, and siblings below a common store.
CONSTANTS
  Keys = {k1, k2}
  Values = {v1}
  Txns = {t1, t2, t3}
  BASE = BASE
  None = None
  Untouched = Untouched
  MaxOps = 1
SPECIFICATION Spec
SYMMETRY Symmetric
PROPERTY ImplementsSnapshots
