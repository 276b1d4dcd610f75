SPECIFICATION Spec
CONSTANTS
  Down = Down
  NoDate = NoDate
  c1 = c1
  s1 = s1
  s2 = s2
  r1 = "r1"
  r2 = "r2"
  today = today
  NoQuery = "none"
  Client = {c1}
  MaxTries = 2
  KeyLength <- MCKeyLength
  Long <- MCLong
  Stripped <- MCStripped
  Flaw <- MCFlaw
  Stray <- MCStray
  StrayHeader <- MCStrayHeader
  LostHeader <- MCLostHeader
  File <- MCFile
  Ask <- MCAsk
INVARIANTS
  TypeOK
  HandledAsSigned
  GoodIsAccepted
  SuccessIsDone
  DoneOnce
