SPECIFICATION DeadlineSpec
CONSTANTS
  UsPerMs = 2
  MsPerSec = 3
  TimeoutValues = {0, 1, 2, 3, 4, 7}
  TimeLag = 0
  MaxClock = 20
CHECK_DEADLOCK FALSE
INVARIANTS DeadlineTypeOK NeverEarly LateByLessThanASecond
