CONSTANTS
  TxIDs = {t1, t2, t3}
  EmptyTxID = EmptyTxID
  NoData = NoData
  Server = Server
  Nobody = Nobody
  NoFilter = NoFilter
  States = {1}
  Timestamps = {1, 2, 3}
  BufferSize = 2
  MaxSubs = 2
  MaxEvents = 3
  QueueSize = 1
  Slack = 0
  Matches = {{t1}}
  Sinces = {1}
SPECIFICATION Spec
SYMMETRY Unsearched
INVARIANTS
  TypeOK
  ReplayNeverBlocks
  JoinersKnowNoMore
  NoSendAfterClose
  DeliveredInOrder
  ExactlyOnce
