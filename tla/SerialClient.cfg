\* Safety of the request table and its timer with the shipped rs232 plugin
\* (an answer parses as PARSE_STATUS_UNKNOWN, a NAK as RQ_REJECTED) and
\* the periods inverter.c uses, and every request in a two-slot table
\* eventually served.
CONSTANTS
  NumSlots = 2
  Ids <- MCIds
  INVALID = INVALID
  Timeouts = {300}
  Periods = {10000}
  RingFrames = 1
  LineLen = 1
  Retries = {1}
  Replies = {"answer", "nak"}
  StatusOf <- Rs232Status
  ReportsRspId = FALSE
  MaxAdds = 2
  MaxSendFailures = 1
SPECIFICATION FairSpec
VIEW SafetyView
INVARIANTS TypeOK ActiveImpliesScheduled OneShotBoundedSends
PROPERTIES PeriodicOnlyRemovedExplicitly EveryRequestServed
\* The engine legitimately idles once no request is left.
CHECK_DEADLOCK FALSE
