SPECIFICATION Spec
CONSTANTS
  t1 = t1
  t2 = t2
  Threads = {t1, t2}
  Operations <- EveryOperation
  Platforms = {TRUE, FALSE}
  Types = {"int", "ptr"}
  MaxInt = 1
  MaxWord = 3
INVARIANT TypeOK
PROPERTY ImplementsCell
