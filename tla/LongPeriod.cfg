\* The 600000 ms period inverter.c gives QPIWS and QMOD.
CONSTANTS
  NumSlots = 1
  Ids <- MCIds
  INVALID = INVALID
  Timeouts = {300}
  RingFrames = 1
  LineLen = 1
  MaxSendFailures = 0
  Periods = {600000}
  Retries = {1}
  Replies = {"nak"}
  StatusOf <- Rs232Status
  ReportsRspId = FALSE
  MaxAdds = 1
SPECIFICATION Spec
PROPERTIES NoEarlyTransmission
CHECK_DEADLOCK FALSE
