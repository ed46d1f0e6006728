\* Store: two workers whose resume_run transactions overlap, three runs that take
\* one session from each other; no tool attempts and no events but its own.
\* Layers: one worker, three tasks, four messages; turns that fail or append,
\* summaries that fail, overlap, and a crash.  Tickets: two requests with any keys
\* and contents, previews of two conversations.  Runs and tasks
\* have the same names, two of them those of the requests, and the owners those of
\* the confirmation keys: the permutations of one serve for the other.  Routing: two
\* requests, one of them resumed once, a router with a judge.  Claims: a retrieval
\* that an action depends on and one beside it, two calls, a ttl of one tick.
CONSTANTS
  Run = {k1, k2, k3}
  Conv = {c1}
  Owner = {y1, y2}
  Key = {k0}
  Call = {}
  None = None
  AppendType = {}
  MaxAttempt = 2
  MaxEvents = 0
  Worker = {w1}
  Task = {k1, k2, k3}
  MaxMessages = 4
  Sizes = {1, 2}
  Layer1Budget = 2
  Layer2Budget = 1
  Sliding = 3
  HeadTokens = 0
  SummaryTokens = 1
  NoWorker = NoWorker
  Request = {k1, k2}
  Chat = {c2, c3}
  Content = {d3, d4}
  ConfirmKey = {y1, y2}
  TicketNo = {n1, n2}
  NoKey = NoKey
  Inquiry = {k1, k2}
  OrderId = {"o1", "o2"}
  Question <- MCQuestion
  Earlier <- MCEarlier
  Naming <- MCNaming
  Visible = 3
  MaxAttempts = 2
  MaxResumed = 1
  TypedTask = {"r1", "r2", "a1"}
  DependsOn <- MCDependsOn
  Readers = {"r1", "r2"}
  Names <- MCNames
  MessageNames = {"o1"}
  Thing = {"o1"}
  Passage <- MCPassage
  Fields <- MCOneField
  Ttl = 1
  DayLength = 2
  MaxPassages = 2
  MaxReads = 2
  MaxNow = 2
SPECIFICATION Spec
SYMMETRY Alike
INVARIANTS
  LeaseNamesActiveRun
  SegmentsTile
  TurnFits
  OneTicketPerKey
  AnswerIsOwnTicket
  RequestIsRouted
  ShownIsCurrent
PROPERTIES
  LeaseLostOnlyToResume
CHECK_DEADLOCK FALSE
