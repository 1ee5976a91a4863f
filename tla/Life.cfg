CONSTANTS
  Tickers = {"cache"}
  Clients = {c1}
  QueueSize = 1
  MaxEvents = 2
  MaxSignals = 1
  Faults = TRUE
SPECIFICATION FairSpec
INVARIANTS
  TypeOK
  DrainedBeforeExit
PROPERTIES
  ReturnStopsAll
  InterruptObeyed
