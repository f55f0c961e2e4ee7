\* Every overlay, every store below, every pair of bounds, both orders.
CONSTANTS
  MaxKey = 2
  Values = {v1, v2}
  None = None
  Untouched = Untouched
  Unbounded = Unbounded
SPECIFICATION Spec
INVARIANTS
  TypeOK
  YieldsPrefix
  YieldsAll
PROPERTY
  Drains
\* An iterator that is exhausted stays so.
CHECK_DEADLOCK FALSE
