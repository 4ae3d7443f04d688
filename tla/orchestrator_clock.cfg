SPECIFICATION FairSpec
CONSTANTS
  a = a
  b = b
  Node = {a}
  NoNode = NoNode
  NoPlan = NoPlan
  TurnId = {0, 1, 2}
  Plans <- ClockPlans
  AssessorOutputs <- ClockOutputs
  ConfidenceMin = 6
  MaxProbes = 1
  MinProbeTime = 1
  CheatFlagsToReview = 2
  DriftToReview = 2
  CandidateTimeout = 2
  MaxClock = 3
INVARIANTS
  TurnTaking
  OneDecision
  InOrderDelivery
  FailureLadder
  OvertimeIsBounded
PROPERTIES
  RefinesLifecycle
  EveryInterviewEnds
