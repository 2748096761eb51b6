CONSTANTS
  Msgs <- MC_Msgs
  RxBufferSize = 4
  SlipDecodedBufSize = 128
  SlipEncodedBufSize = 128
  MaxInFlight = 2
  MaxBreaks = 2
SPECIFICATION Spec
INVARIANTS
  DeliveredInOrder
CHECK_DEADLOCK FALSE
