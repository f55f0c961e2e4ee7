\* The bounds of a range while the VM is asked for an iterator.
CONSTANTS
  Addresses = {a1, a2, a3, a4, a5, a6, a7}
  iterator = TRUE
  NULL = NULL
  MaxLeaks = 2
SPECIFICATION Spec
SYMMETRY Symmetric
INVARIANT
  PassedAreLive
