\* A retrieval that an action depends on and one beside it, two calls, a ttl of one
\* tick.
CONSTANTS
  TypedTask = {"r1", "r2", "a1"}
  DependsOn <- MCDependsOn
  Readers = {"r1", "r2"}
  Names <- MCNames
  MessageNames = {"o1"}
  Thing = {"o1"}
  Passage <- MCPassage
  Fields <- MCOneField
  Ttl = 1
  DayLength = 2
  MaxPassages = 2
  MaxReads = 2
  MaxNow = 2
SPECIFICATION LedgerSpec
INVARIANTS
  SupersededByLater
CHECK_DEADLOCK FALSE
