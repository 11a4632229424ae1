SPECIFICATION FairSpec
CONSTANTS
  a = a
  b = b
  Size = 2
  Values = {a, b}
  Null = Null
  Junk = Junk
  Initial <- ThreeEntries
  Posix = FALSE
  MaxInt = 4
  ProduceTimeouts = {"zero", "finite", "infinite"}
  ConsumeTimeouts = {"zero", "infinite"}
  MaxItems = 6
INVARIANTS TypeOK NoLostWakeup CountersAgree FifoOrder NoSlotRace
PROPERTIES SleeperWakes ImplementsFifo
CHECK_DEADLOCK FALSE
