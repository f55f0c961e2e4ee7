\* A range of a nested bucket whose name ends in the largest byte.
CONSTANTS
  Radix = 3
  Views <- MCViews
  Keys <- MCKeys
  RawValues <- MCRawValues
  Dot = 2
  NotString = NotString
  MaxCounter = 1
  MaxEntries = 1
  NoBound = NoBound
SPECIFICATION Spec
INVARIANT
  OverflowIsHandled
