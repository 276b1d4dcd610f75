SPECIFICATION Spec
CONSTANTS
  Absent = Absent
  BadArn = BadArn
  NoKey = NoKey
  NoAad = NoAad
  Unreadable = Unreadable
  NoTag = NoTag
  NoKeyId = NoKeyId
  Gone = Gone
  a = a
  aws = aws
  v1 = v1
  v2 = v2
  env = env
  prod = prod
  old = old
  new = new
  m1 = m1
  m2 = m2
  h1 = h1
  h2 = h2
  Base <- MCBase
  Reserved <- MCReserved
  Value <- MCValue
  TagKey <- MCTagKey
  TagVal <- MCTagVal
  Alias <- MCAlias
  Id <- MCMaterial
  Material <- MCMaterial
  Keyrings <- MCKeyrings
  Handler <- MCHandler
  PutRequest <- MCPutRequest
  TagRequest <- MCTagRequest
  DeleteList <- MCDeleteList
  ImportList <- MCImportList
  MaxVersion = 2
SYMMETRY HandlerSymmetry
INVARIANTS
  TypeOK
  SecureAtRest
  NameIsKey
  ExportReadable
  SerialRead
PROPERTIES
  VersionCountsWrites
