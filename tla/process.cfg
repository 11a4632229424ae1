SPECIFICATION FairSpec
CONSTANTS
  Handles = {h1, h2}
  Pids = {p1, p2}
  Parent = parent
  Platforms = {TRUE, FALSE}
  Programs = {"filter", "writer", "missing"}
  FlushesFirst = TRUE
  MaxCreates = 2
  MaxWrites = 1
INVARIANTS TypeOK HandlesOwnTheirChildren OutputEnds InputIntact
PROPERTY JoinReturns
CHECK_DEADLOCK FALSE
