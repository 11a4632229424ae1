SPECIFICATION Spec
CONSTANTS
  Users = {u1, u2}
  MaxSockets = 2
  Fds = {0, 3, 4}
  Posix = FALSE
  NoFd = NoFd
INVARIANTS TypeOK SlotsOwnFds HeldMeansOwn NoSlotLost
PROPERTY NoFdLeak
SYMMETRY Symmetry
CHECK_DEADLOCK FALSE
