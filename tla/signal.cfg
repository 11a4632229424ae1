SPECIFICATION FairSpec
CONSTANTS
  Raisers = {r1, r2}
  Waiters = {w1, w2}
  Timeouts = {TRUE, FALSE}
  Posix = TRUE
  NoThread = NoThread
  MaxEvents = 5
INVARIANTS TypeOK NoStrandedRaise
PROPERTIES ImplementsEvent RaiseReleasesWaiter TimedWaitReturns
CHECK_DEADLOCK FALSE
