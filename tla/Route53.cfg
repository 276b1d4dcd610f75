SPECIFICATION Spec
CONSTANTS
  Absent = Absent
  Outside = Outside
  NoComment = NoComment
  NoTags = NoTags
  z1 = z1
  z2 = z2
  c1 = c1
  c2 = c2
  plain = plain
  odd = odd
  star = star
  soa = soa
  ns = ns
  www = www
  c = c
  t = t
  h1 = h1
  h2 = h2
  Soa = soa
  Ns = ns
  ZoneId <- MCZoneId
  ChangeId <- MCChangeId
  ZoneName <- MCZoneName
  Occurs <- MCOccurs
  Malformed <- MCMalformed
  Rr <- MCRr
  RrType <- MCRrType
  Comment <- MCComment
  Tags <- OneTags
  Handler <- MCHandler
  ChangeBatch <- MCChangeBatch
  ImportList <- MCImportList
SYMMETRY HandlerSymmetry
INVARIANTS
  TypeOK
  RecordsHaveZone
  UniqueNames
PROPERTIES
  EditsOneField
  DeletesOnlyApex
  NoZoneReplaced
