SPECIFICATION FairSpec
CONSTANTS
  c1 = c1
  c2 = c2
  Client <- OneClient
  Donor = c1
  Page <- MCPage
  FirstPage = 4
  ZeroWord = 5
  Data <- MCData
  Sizes <- MCSizes
  MaxCalls = 5
INVARIANTS
  TypeOK
  ListSound
  NothingLost
PROPERTIES
  BlocksAligned
  Returns
