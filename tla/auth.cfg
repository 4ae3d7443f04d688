SPECIFICATION Spec
CONSTANTS
  k1 = k1
  k2 = k2
  ann = ann
  bob = bob
  Key = {k1, k2}
  OtherKey = OtherKey
  Person = {ann, bob}
  InDomain = {ann}
  Verified = {ann, bob}
  NoRole = NoRole
  Mappings <- AllMappings
  c1 = c1
  c2 = c2
  Call = {c1, c2}
  ManagerRoles = {"recruiter", "admin"}
  NoToken = NoToken
  NoCerts = NoCerts
  CertsTtl = 2
  Cooldown = 1
  FetchTime = 1
  MaxClock = 4
INVARIANTS
  WithdrawnKeyDies
  NewKeyIsHonoured
  RoleIsTheMappings
SYMMETRY Symmetry
CHECK_DEADLOCK FALSE
