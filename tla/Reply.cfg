\* Graph: two turns of a thread, so that the second finds what the first left
\* behind; an agent of two steps; a loop of two rounds that can pay for two calls
\* and not for a third.  Plans of two claims.  Retrieval: three chunks, orders with
\* and without a date, one change of the rows during the call.  Gate: three samples
\* of up to two scores, so that samples tie, and a second calibration.  Verification:
\* answers of two sentences against two evidences, one of which has a value in its
\* first line and another in the next.  Tools: two turns, a plugin and two servers
\* that claim the same names, one change of what they offer.  Action: two runs,
\* one task of an action agent of two iterations that may repair once, one more plan.
CONSTANTS
  Query <- MCQuery
  First = "q"
  Chunk <- MCChunk
  MaxRounds = 2
  MaxSubs = 1
  TokenBudget = 6
  Input = 1
  Reserve = 1
  Extra = 1
  MaxTurns = 2
  MaxAgentSteps = 2
  Candidate <- MCCandidate
  Claim <- MCClaim
  MaxClaims = 2
  MaxCorrections = 1
  ChunkId = {"a", "b", "c"}
  About <- MCAbout
  Versions <- MCVersions
  Faces <- MCFaces
  Subject = {"o1", "o2"}
  Version = {"v1", "v2"}
  Day = {"d1", "d2"}
  Window <- MCWindow
  SignedOn <- MCSigned
  FaceOrder <- MCFaceOrder
  TopK = 2
  Pool = 3
  JudgeTop = 1
  MaxEdits = 1
  One = 6
  Grid = 2
  Score = {2, 3}
  Case = {1, 2, 3}
  MaxItems = 2
  MaxFits = 2
  NoFit <- MCFallback
  Sentence <- MCSentence
  Evidence <- MCEvidence
  Question <- MCAsked
  Boundary = 2
  MaxSentences = 2
  MaxEvidence = 2
  MaxRevisions = 1
  Turn = {"t1", "t2"}
  Name = {"ticket", "ship", "slow"}
  Builtin <- MCBuiltin
  Plugins <- MCPlugins
  Debug <- MCDebug
  Server <- MCServer
  List <- MCList
  Retries = 1
  MaxChanges = 1
  AgentRun = {"g1", "g2"}
  Messages <- MCMessages
  MaxIterations = 2
  MaxRepairs = 1
  MaxActs = 1
  MaxReplans = 1
SPECIFICATION Spec
INVARIANTS
  GatedRelease
  StateIsOfThisTurn
  EndedTurnIsKept
  LinesAreInEvidence
  ShownIsInScope
  FacetsSurvive
  HardNegativesStayOut
  ReleasedIsBacked
  WritesAreGuarded
  CancelHolds
CHECK_DEADLOCK FALSE
