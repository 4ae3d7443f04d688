SPECIFICATION FairSpec
CONSTANTS
  a = a
  b = b
  w1 = w1
  w2 = w2
  Node = {a, b}
  NoNode = NoNode
  NoPlan = NoPlan
  NoRow = NoRow
  TurnId = {0, 1, 2, 3, 4}
  ConfidenceMin = 6
  MaxProbes = 1
  MinProbeTime = 1
  CheatFlagsToReview = 2
  DriftToReview = 2
  CandidateTimeout = 2
  Worker = {w1}
  Plans <- QuietPlans
  AssessorOutputs <- Outputs
  OtherMoves = {"redirect"}
  Costs = {0, 1}
  Ceiling = 3
  EnforceCeiling = TRUE
  AgentsFail = TRUE
  Patient = TRUE
  MaxPosts = 5
  MaxDeaths = 1
INVARIANTS
  RowKeepsWhatWasDone
  DecisionMatchesRow
  TranscriptIsTheDialog
PROPERTIES
  TurnIsAnswered
  EndedRowStays
CHECK_DEADLOCK FALSE
