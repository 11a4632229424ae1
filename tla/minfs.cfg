SPECIFICATION Spec
CONSTANTS
  Programs = {p1, p2}
  Platforms = {TRUE, FALSE}
  Bytes <- SomeBytes
  Paths <- SomePaths
  Leaves <- SomeLeaves
  BufSize = 8
  MaxStarts = 2
  MaxCalls = 2
  MaxDisturbances = 1
SYMMETRY Symmetry
INVARIANT WritesFit
PROPERTIES CreatesWhatIsMeant CreatesNothingElse
CHECK_DEADLOCK FALSE
