SPECIFICATION Spec
CONSTANTS
  a = a
  b = b
  w1 = w1
  w2 = w2
  Node = {a, b}
  NoNode = NoNode
  NoPlan = NoPlan
  NoRow = NoRow
  TurnId = {0, 1, 2}
  ConfidenceMin = 6
  MaxProbes = 1
  MinProbeTime = 1
  CheatFlagsToReview = 2
  DriftToReview = 2
  CandidateTimeout = 2
  Worker = {w1, w2}
  Plans <- OnePlan
  AssessorOutputs <- GoodOutputs
  OtherMoves = {}
  Costs = {0}
  Ceiling = 1
  EnforceCeiling = FALSE
  AgentsFail = FALSE
  Patient = FALSE
  MaxPosts = 3
  MaxDeaths = 0
INVARIANTS
  AskedOnce
CHECK_DEADLOCK FALSE
