SPECIFICATION FairSpec
CONSTANTS
  t1 = t1
  t2 = t2
  Task = {t1, t2}
  Ceiling = 1
  MaxCost = 1
  MaxTurns = 1
  Faults = {"sink", "ledger"}
  StatusCodes <- Codes
  OutputSchema <- AssessorSchema
  MeetsSchema <- parse_and_validate
  Texts <- AllTexts
INVARIANTS
  TracesAreExact
  SpendIsBounded
PROPERTIES
  TurnsEnd
CHECK_DEADLOCK FALSE
