\* Knowledge: one review that two operators answer differently, a document of one
\* chunk that builds replace, and one conversation to mine, twice over in case a
\* run dies: two chunk ids, one of them left to the pair until it is decided about.
\* Paid calls: two at a time, an estimate of 2 under a cap of 4, bills below and
\* above it, three reservations, one end of the process.  Depth runs: two targets,
\* three answers, one process that dies.  Evaluation calls: two requests in two
\* worktrees, two attempts each, two units, one end of a process.  Ablation runs:
\* two cases, two protocols, three processes.  Case runs: two items, two
\* processes, two runs, three calls.
CONSTANTS
  c1 = c1
  c2 = c2
  t1 = t1
  t2 = t2
  s1 = s1
  s2 = s2
  i1 = i1
  i2 = i2
  w1 = w1
  w2 = w2
  Caller <- MCCaller
  Bill <- MCBill
  Limit = 4
  Est = 2
  MaxRows = 3
  MaxTries = 3
  MaxCrashes = 1
  Request <- MCRequest
  Worktree <- MCWorktree
  Uses <- MCUses
  Usage = {TRUE, FALSE}
  LedgerLimit = 2
  RunLimit = 2
  MaxAttempts = 2
  MaxFalls = 1
  Target <- MCTarget
  MaxAnswers = 3
  MaxFails = 1
  Case <- MCCase
  MaxProtocol = 2
  MaxRuns = 3
  Item <- MCItem
  Worker <- MCWorker
  MaxCalls = 3
  MaxStarts = 2
  mine = mine
  Writer <- MCWriter
  Miner = mine
  Review = {1}
  Solution <- MCSolution
  Talk = {"talk"}
  MaxChunks = 2
  DocChunks = 1
  Batch = 1
  MaxStops = 1
SYMMETRY Alike
SPECIFICATION Spec
INVARIANTS
  ApprovalHolds
  DoneIsSearchable
  MinedOnce
  WithinLimit
  BillIsCovered
  ResultsHold
  RowsOfOneProtocol
  RowCostsItsCalls
  LedgerHolds
CHECK_DEADLOCK FALSE
