CONSTANTS
  TxIDs = {t1, t2, t3, t4}
  EmptyTxID = EmptyTxID
  NoData = NoData
  States = {1, 2, 3}
  Timestamps = {1, 2}
  BufferSize = 3
SPECIFICATION BufferSpec
INVARIANTS
  ReplayInOrder
