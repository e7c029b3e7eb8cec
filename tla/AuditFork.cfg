\* hash_chain.go:80-81: Verify confirms no link has been broken. Two overlapping
\* appends break one.
CONSTANTS
  x = x
  Bar = Bar
  org1 = org1
  org2 = org2
  Orgs <- MCOrgs
  Tokens <- MCTokens
  Texts <- MCTexts
  Contents <- MCContents
  Appenders = {a1, a2}
  Store = "memory"
  Micro = 1
  MaxTime = 1
  MaxEntries = 3
SPECIFICATION OSpec
INVARIANTS
  Intact
