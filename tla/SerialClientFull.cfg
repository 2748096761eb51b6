\* A single slot: adds beyond the capacity are rejected.
CONSTANTS
  NumSlots = 1
  Ids <- MCIds
  INVALID = INVALID
  Timeouts = {300}
  Periods = {10000}
  RingFrames = 1
  LineLen = 2
  Retries = {1}
  Replies = {"nak", "badcrc"}
  StatusOf <- Rs232Status
  ReportsRspId = FALSE
  MaxAdds = 3
  MaxSendFailures = 1
SPECIFICATION FairSpec
PROPERTIES EveryRequestServed
CHECK_DEADLOCK FALSE
