SPECIFICATION FairSpec
CONSTANTS
  t1 = t1
  t2 = t2
  w1 = w1
  a = a
  b = b
  Tx <- MCTx
  Direct <- MCDirect
  Id <- MCId
  TxOps <- MCTxOps
  DirectOps <- MCDirectOps
  MaxOps = 2
  Nothing = Nothing
INVARIANTS
  BufferedUntilCommit
  NoReadMissesOwnWrite
PROPERTIES
  AloneAllOrNone
  CommitEnds
CHECK_DEADLOCK FALSE
