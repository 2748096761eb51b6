CONSTANTS
  NumSlots = 2
  Ids <- MCIds
  INVALID = INVALID
  Timeouts = {300}
  Periods = {10000, 15000}
  RingFrames = 1
  LineLen = 1
  Retries = {1}
  Replies = {"answer"}
  StatusOf <- Rs232Status
  ReportsRspId = FALSE
  MaxAdds = 2
  MaxSendFailures = 0
  QueueLen = 2
  AppCalls <- MCAppCalls
  WorkerStartsFirst = TRUE
CHECK_DEADLOCK FALSE
\* The tasks around the command queue with the shipped plugin: no tick is
\* lost, and under fair scheduling (a waiting send strongly fair) inv_init
\* completes and every request is served.
SPECIFICATION TFairSpec
INVARIANTS TTypeOK TickPending
PROPERTIES EveryRequestServed AppInitCompletes
