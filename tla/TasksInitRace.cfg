CONSTANTS
  NumSlots = 2
  Ids <- MCIds
  INVALID = INVALID
  Timeouts = {300}
  Periods = {10000, 15000}
  RingFrames = 1
  LineLen = 1
  Retries = {1}
  Replies = {"answer"}
  StatusOf <- Rs232Status
  ReportsRspId = FALSE
  MaxAdds = 2
  MaxSendFailures = 0
  QueueLen = 2
  AppCalls <- MCAppCalls
  WorkerStartsFirst = FALSE
CHECK_DEADLOCK FALSE
\* inv_init may run before the worker task has created the queue.
SPECIFICATION TSpec
INVARIANTS QueueCreatedBeforeUse
