CONSTANTS
  NumSlots = 2
  Ids <- MCIds
  INVALID = INVALID
  Timeouts = {300}
  Periods = {10000, 15000}
  RingFrames = 1
  LineLen = 1
  Retries = {1}
  Replies = {"answer"}
  StatusOf <- Rs232Status
  ReportsRspId = FALSE
  MaxAdds = 2
  MaxSendFailures = 0
  QueueLen = 2
  AppCalls <- MCAppCalls
  WorkerStartsFirst = TRUE
CHECK_DEADLOCK FALSE
\* The uart rx task against a full command queue.
SPECIFICATION TSpec
INVARIANTS UartRxNeverStalls
