SPECIFICATION Spec
CONSTANTS
  c1 = c1
  c2 = c2
  Client <- TwoClients
  Donor = c1
  Page <- MCPage
  FirstPage = 4
  ZeroWord = 5
  Data <- MCData
  Sizes <- PairSizes
  MaxCalls = 3
INVARIANTS
  Exclusive
