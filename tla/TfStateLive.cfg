SPECIFICATION FairSpec
CONSTANTS
  None = None
  Hole = Hole
  p = p
  b1 = b1
  b2 = b2
  h1 = h1
  h2 = h2
  Project <- MCProject
  Handler <- MCHandler
  Body <- MCOneBody
  LockInfo <- MCOneBody
  Size <- MCOneSize
  Inode <- MCInode
  Place <- MCPlace
PROPERTIES
  RequestsAnswered
