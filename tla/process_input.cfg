SPECIFICATION Spec
CONSTANTS
  Handles = {h1, h2}
  Pids = {p1, p2}
  Parent = parent
  Platforms = {TRUE}
  Programs = {"filter", "missing"}
  FlushesFirst = FALSE
  MaxCreates = 2
  MaxWrites = 1
INVARIANT InputIntact
CHECK_DEADLOCK FALSE
