CONSTANTS
  TxIDs = {t1, t2, t3}
  EmptyTxID = EmptyTxID
  NoData = NoData
  NoQuery = NoQuery
  EventTXRow = EventTXRow
  States = {1, 2, 3, 4}
  Timestamps = {1, 2, 3, 4}
  BufferSize = 2
  Stores = {"mock", "pg"}
  Slots = {s1, s2}
  QueueSize = 1
  MaxEvents = 4
  Limit = 3
  Slack = 0
  PerSecond = 3
  MaxBreaks = 2
SPECIFICATION Spec
SYMMETRY Interchangeable
INVARIANTS
  TypeOK
  MapMatchesRing
  RingFillsInOrder
  ReplayComplete
  PageShowsRing
  OneRowPerConnection
  RowLeadsToPage
PROPERTIES
  NeverRegresses
  RingIsWindow
  RowsGoBackWithinSecond
