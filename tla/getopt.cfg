SPECIFICATION Spec
CONSTANTS
  Letters <- SomeLetters
  Options <- ThreeOptions
  Words <- SomeWords
  MaxWords = 3
INVARIANTS TypeOK OptindInArgv ReportsArgv
PROPERTY Progress
CHECK_DEADLOCK FALSE
