\* Two appenders on Postgres, whose clock is twice as fine as a TIMESTAMPTZ:
\* rounded times, lost inserts, and entries stamped in one order and inserted
\* in another.
CONSTANTS
  x = x
  Bar = Bar
  org1 = org1
  org2 = org2
  Orgs <- MCOrgs
  Tokens <- MCTokens
  Texts <- MCTexts
  Contents <- MCContents
  Appenders = {a1, a2}
  Store = "postgres"
  Micro = 2
  MaxTime = 5
  MaxEntries = 4
SPECIFICATION OSpec
INVARIANTS
  IntactIffWhole
  LinksStored
  VerifiesInOrder
