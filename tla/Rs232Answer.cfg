\* The shipped rs232 2400 plugin: a valid answer to a one-shot request.
CONSTANTS
  NumSlots = 1
  Ids <- MCIds
  INVALID = INVALID
  Timeouts = {300}
  RingFrames = 1
  LineLen = 1
  MaxSendFailures = 0
  Periods = {1000}
  Retries = {1}
  Replies = {"answer"}
  StatusOf <- Rs232Status
  ReportsRspId = FALSE
  MaxAdds = 1
SPECIFICATION Spec
PROPERTIES AnsweredNotResent
CHECK_DEADLOCK FALSE
