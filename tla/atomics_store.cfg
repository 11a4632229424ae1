SPECIFICATION Spec
CONSTANTS
  t1 = t1
  t2 = t2
  Threads = {t1, t2}
  Operations <- EveryOperation
  Platforms = {TRUE}
  Types = {"int", "ptr"}
  MaxInt = 1
  MaxWord = 3
PROPERTY SetsTheValue
