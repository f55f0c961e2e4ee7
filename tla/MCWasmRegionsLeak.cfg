\* What is left after an address conversion has failed.
CONSTANTS
  Addresses = {a1, a2, a3, a4, a5, a6, a7}
  iterator = TRUE
  NULL = NULL
  MaxLeaks = 2
SPECIFICATION Spec
SYMMETRY Symmetric
INVARIANT
  NothingLeft
