CONSTANTS
  TxIDs = {t1}
  EmptyTxID = EmptyTxID
  NoData = NoData
  Server = Server
  Nobody = Nobody
  NoFilter = NoFilter
  States = {1}
  Timestamps = {1, 2}
  BufferSize = 1
  MaxSubs = 2
  MaxEvents = 2
  QueueSize = 1
  Slack = 0
  Matches = {}
  Sinces = {}
SPECIFICATION FairSpec
PROPERTIES
  BroadcastCompletes
  HandlersLeave
  RunStops
  HandlersStop
