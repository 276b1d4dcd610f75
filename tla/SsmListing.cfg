SPECIFICATION FairSpec
CONSTANTS
  NoToken = NoToken
  l1 = l1
  Key <- MCKey
  Rank <- MCRank
  Path <- MCPath
  Matching <- MCMatching
  PageLimit <- MCPageLimit
  MaxResults <- MCMaxResults
  FilterList <- MCFilterList
  Lister <- MCLister
INVARIANTS
  TypeOK
  InOrder
  SteadyAreListed
PROPERTIES
  ListingsEnd
  IsAScan
