\* Two appenders on the memory store: what a forked chain still guarantees.
CONSTANTS
  x = x
  Bar = Bar
  org1 = org1
  org2 = org2
  Orgs <- MCOrgs
  Tokens <- MCTokens
  Texts <- MCTexts
  Contents <- MCContents
  Appenders = {a1, a2}
  Store = "memory"
  Micro = 1
  MaxTime = 1
  MaxEntries = 4
SPECIFICATION OSpec
INVARIANTS
  ForkWidth
  
  GapDetected
