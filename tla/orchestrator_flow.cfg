SPECIFICATION Spec
CONSTANTS
  a = a
  b = b
  Node = {a, b}
  NoNode = NoNode
  NoPlan = NoPlan
  TurnId = {0, 1, 2, 3}
  Plans <- FlowPlans
  AssessorOutputs <- FlowOutputs
  ConfidenceMin = 6
  MaxProbes = 1
  MinProbeTime = 1
  CheatFlagsToReview = 2
  DriftToReview = 2
  CandidateTimeout = 2
  MaxClock = 0
INVARIANTS
  TypeOK
  PlanHolds
  FlaggedIffThreshold
  PendingIsExact
  CoverageIsTheEvidence
PROPERTIES
  NoSilentExit
