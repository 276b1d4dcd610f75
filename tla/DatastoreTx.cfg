SPECIFICATION FairSpec
CONSTANTS
  Absent = Absent
  NoClient = NoClient
  k1 = k1
  k2 = k2
  v1 = v1
  v2 = v2
  c1 = c1
  c2 = c2
  Key <- MCKey
  Val <- MCVal
  Client <- MCClient
  Batch <- MCBatch
INVARIANTS
  TypeOK
  LoopInv
PROPERTIES
  AtomicSpec
  CallsAnswered
