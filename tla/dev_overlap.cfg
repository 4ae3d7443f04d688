SPECIFICATION Spec
CONSTANTS
  a = a
  b = b
  w1 = w1
  w2 = w2
  Node = {a, b}
  NoNode = NoNode
  NoPlan = NoPlan
  NoRow = NoRow
  TurnId = {0, 1, 2, 3}
  ConfidenceMin = 6
  MaxProbes = 1
  MinProbeTime = 1
  CheatFlagsToReview = 2
  DriftToReview = 2
  CandidateTimeout = 2
  Worker = {w1, w2}
  Plans <- OnePlan
  AssessorOutputs <- GoodOutputs
  OtherMoves = {}
  Costs = {1}
  Ceiling = 3
  EnforceCeiling = TRUE
  AgentsFail = TRUE
  Patient = FALSE
  MaxPosts = 4
  MaxDeaths = 0
SYMMETRY Symmetry
INVARIANTS
  RowIsCoherent
  SpendIsBounded
CHECK_DEADLOCK FALSE
