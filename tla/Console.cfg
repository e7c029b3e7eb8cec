\* An admin and a teacher, two requests in flight, expiry, logout and restart.
CONSTANTS
  ann = ann
  tim = tim
  org1 = org1
  i1 = i1
  i2 = i2
  Users = {ann, tim}
  Orgs = {org1}
  Classes = {c1}
  None = None
  Items = {i1, i2}
  Tokens = {t1, t2}
  Workers = {w1, w2}
  Store = "postgres"
  TTL = 0
  MaxTime = 1
  MaxRequests = 3
  OrgOf <- MCOrgOf
  SeedUsers <- MCSeedUsers
  TeacherOf <- MCTeacherOf
  Asks <- MCAsks
  Edits <- MCEdits
  RuleLists <- MCRuleLists
  BulkBodies <- MCBulkBodies
  Traffic <- MCTraffic
SPECIFICATION Spec
SYMMETRY Symmetry
INVARIANTS
  TypeOK
  GrantsJustified
  MembershipStands
  ContentStands
PROPERTIES
  TokensStayOut
  OwnersOnly
