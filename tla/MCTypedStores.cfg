\* Fourteen views on one storage, at most three entries in it.
CONSTANTS
  Radix = 3
  Views <- MCViews
  Keys <- MCKeys
  RawValues <- MCRawValues
  Dot = 2
  NotString = NotString
  MaxCounter = 2
  MaxEntries = 3
  NoBound = NoBound
SPECIFICATION Spec
INVARIANTS
  CounterRemembers
  RangesAreExact
PROPERTY
  Isolation
