SPECIFICATION Spec
CONSTANTS
  Base = 2
  Places = 3
  Fractional = 8
  Max = 31
  Amounts <- MCAmounts
  Totals <- MCTotals
  Texts <- MCTexts
CHECK_DEADLOCK FALSE
INVARIANTS
  SharesFit
  LossBounded
  RoundTrip
  ReadsExactly
