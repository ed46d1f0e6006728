\* One run of the agents is enough.
CONSTANTS
  AgentRun = {a1}
  Messages <- MCMessages
  MaxIterations = 2
  MaxRepairs = 1
  MaxActs = 2
  MaxReplans = 1
SPECIFICATION ActionSpec
INVARIANT SuccessHasArtifact
CHECK_DEADLOCK FALSE
