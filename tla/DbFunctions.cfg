SPECIFICATION DbSpec
CONSTANTS
  Absent = Absent
  BadArn = BadArn
  NoKey = NoKey
  NoAad = NoAad
  Unreadable = Unreadable
  NoTag = NoTag
  NoKeyId = NoKeyId
  Gone = Gone
  a = a
  v1 = v1
  v2 = v2
  old = old
  m1 = m1
  h1 = h1
  z1 = z1
  r1 = r1
  p1 = p1
  s1 = s1
  Base <- MCBase
  Reserved <- MCReserved
  Value <- MCValue
  TagKey <- MCTagKey
  TagVal <- MCTagVal
  Alias <- MCAlias
  Id <- MCMaterial
  Material <- MCMaterial
  Keyrings <- MCKeyrings
  Handler <- MCHandler
  PutRequest <- MCPutRequest
  TagRequest <- MCTagRequest
  DeleteList <- MCNone
  ImportList <- MCNone
  KeyOrder <- MCKeyOrder
  ZoneOrder <- MCZoneOrder
  FileOrder <- MCFileOrder
  Record <- MCRecord
  Content <- MCContent
  Body <- MCBody
  Damage <- MCDamage
  PageSize = 1
  Torn = Torn
  MaxVersion = 2
INVARIANTS
  DbTypeOK
  ArchiveIsWhole
  ImportRestores
  NothingOldSurvives
