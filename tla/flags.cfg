SPECIFICATION FairSpec
CONSTANTS
  f1 = f1
  c1 = c1
  c2 = c2
  j1 = j1
  Flag = {f1}
  Caller = {c1, c2}
  Job = {j1}
  CacheTTL = 2
  MaxAge = 2
  MaxEvents = 3
  Env = {"operator", "outage", "deploy", "merge"}
INVARIANTS
  AnswerIsRecent
  DarkByDefault
PROPERTIES
  CacheConverges
