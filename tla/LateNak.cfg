\* Two requests; a NAK may still be on the line when the next one is sent.
CONSTANTS
  NumSlots = 2
  Ids <- MCIds
  INVALID = INVALID
  Timeouts = {300}
  RingFrames = 1
  LineLen = 2
  MaxSendFailures = 0
  Periods = {1000}
  Retries = {1}
  Replies = {"answer", "nak"}
  StatusOf <- Rs232Status
  ReportsRspId = TRUE
  MaxAdds = 2
SPECIFICATION Spec
INVARIANTS AckedByOwnResponse
CHECK_DEADLOCK FALSE
