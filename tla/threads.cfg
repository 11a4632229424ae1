SPECIFICATION FairSpec
CONSTANTS
  Owners = {o1, o2}
  Names = {n1, n2}
  Null = Null
  Jobs = {"returns", "polls", "raises"}
  Platforms = {TRUE, FALSE}
  MaxCreated = 3
INVARIANT DataOutlivesThread
PROPERTIES JoinReturnsOwn JoinsReturn
CHECK_DEADLOCK FALSE
