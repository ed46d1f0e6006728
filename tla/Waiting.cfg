\* Stream: one run that two workers execute, recover and resume; a client that
\* disconnects and comes back at any cursor, and in the end stays.
\* Agents: plans of up to two tasks over three ids, replanned once, with one key of
\* reads.
CONSTANTS
  Run = {r1}
  Conv = {c1}
  Owner = {o1, o2}
  Key = {}
  Call = {t1}
  None = None
  AppendType = {"token"}
  MaxAttempt = 2
  MaxEvents = 2
  Stream = {s1}
  Id = {1, 2, 3}
  ReadKey = {k1}
  Intent = {"off", "none", "cancel", "preview"}
  MaxTasks = 2
  MaxReplans = 1
  MaxSteps = 5
  MaxIterations = 2
  MaxRepairs = 1
SPECIFICATION Spec
INVARIANTS
  ReturnedStreamIsComplete
  ActionAfterRetrieval
  StatusIsEarned
PROPERTIES
  LifecycleSpec
  StreamEnds
  RunEnds
CHECK_DEADLOCK FALSE
