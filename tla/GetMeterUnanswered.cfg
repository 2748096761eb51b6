CONSTANTS
  Msgs <- MC_MeterMsgs
  RxBufferSize = 24
  SlipDecodedBufSize = 128
  SlipEncodedBufSize = 128
  MaxInFlight = 2
  MaxBreaks = 1
  SendQSize = 2
  SsidLens = {0, 32}
  TxPowers = {84}
  Channels = {6}
SPECIFICATION TSpec
INVARIANTS
  EveryRequestAnswered
CHECK_DEADLOCK FALSE
