CONSTANTS
  Msgs <- MC_Msgs
  RxBufferSize = 10
  SlipDecodedBufSize = 128
  SlipEncodedBufSize = 128
  MaxInFlight = 2
  MaxBreaks = 2
SPECIFICATION Spec
INVARIANTS
  DeliveredInOrder
  NothingLost
  RxNeverAborts
CHECK_DEADLOCK FALSE
