SPECIFICATION Spec
CONSTANTS
  s1 = s1
  s2 = s2
  s3 = s3
  c1 = c1
  c2 = c2
  d1 = d1
  d2 = d2
  r1 = r1
  r2 = r2
  r3 = r3
  Stack = {s1, s2}
  Competency = {c1, c2}
  StackOf <- StackOfCompetency
  Details = {d1, d2}
  Request = {r1, r2}
  Bodies <- AllBodies
  Patches <- AllPatches
  Unset = Unset
  NoTemplate = NoTemplate
  MaxRequests = 3
INVARIANT
  TemplateIsValid
CHECK_DEADLOCK FALSE
