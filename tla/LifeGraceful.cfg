CONSTANTS
  Tickers = {"cache", "aggregator"}
  Clients = {c1}
  QueueSize = 1
  MaxEvents = 3
  MaxSignals = 2
  Faults = FALSE
SPECIFICATION Spec
INVARIANTS
  GracefulShutdown
