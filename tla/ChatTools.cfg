\* Confirmed writes in a run that crashes, is recovered and resumed; what a task
\* logs and a client sends is bounded by three events, and no frames are emitted.
CONSTANTS
  Run = {r1}
  Conv = {c1}
  Owner = {o1, o2}
  Key = {}
  Call = {t1}
  None = None
  AppendType = {"session", "token", "done", "error"}
  MaxAttempt = 2
  MaxEvents = 3
  ToolKind = {"write"}
  MaxFrames = 0
SPECIFICATION ChatSpec
SYMMETRY Symmetry
INVARIANTS EffectIsRecorded
PROPERTIES WritesAreFinal
CHECK_DEADLOCK FALSE
