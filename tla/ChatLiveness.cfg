\* Two workers that resume one run from each other, one frame each; fair tasks,
\* clients and clocks; cancellations, late database calls, crashes, dead heartbeats
\* and failing calls.
CONSTANTS
  Run = {r1}
  Conv = {c1}
  Owner = {o1, o2}
  Key = {}
  Call = {}
  None = None
  AppendType = {"session", "token", "done", "error"}
  MaxAttempt = 2
  MaxEvents = 3
  ToolKind = {}
  MaxFrames = 1
SPECIFICATION FairChatSpec
INVARIANTS EndedRunSaysSo
PROPERTIES SessionIsFreed EndedRunIsClosed
CHECK_DEADLOCK FALSE
