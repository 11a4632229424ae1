SPECIFICATION Spec
CONSTANTS
  a = a
  b = b
  Size = 2
  Values = {a}
  Null = Null
  Junk = Junk
  Initial <- NoEntries
  Posix = TRUE
  MaxInt = 20
  ProduceTimeouts = {"infinite"}
  ConsumeTimeouts = {"infinite"}
  MaxItems = 4
INVARIANT ConsumesOnlyEntries
CHECK_DEADLOCK FALSE
