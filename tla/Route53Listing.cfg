SPECIFICATION FairSpec
CONSTANTS
  Absent = Absent
  Invalid = Invalid
  NoMax = NoMax
  c1 = c1
  z1 = z1
  z2 = z2
  z3 = z3
  ZoneId = {z1, z2, z3}
  Home = z1
  Client = {c1}
  DefaultMax = 3
  HalfWidth = 2
  Lower <- MCLower
  ApexKey <- MCApexKey
  HomeName <- MCHomeName
  RrName <- MCRrName
  RrType <- MCRrType
  ChangeBatch <- MCChangeBatch
  Rank <- MCRank
  Start <- MCStart
  MaxItems <- MCMaxItems
INVARIANTS
  TypeOK
  OnlyNegativeIsCutOff
  PlainNamesAreKept
PROPERTIES
  ListingsEnd
  IsAScan
