\* The server asks for the wireless status and then sets Wi-Fi
\* credentials: parse_wireless_credentials_msg asserts a size relation
\* between its fields that never holds.
CONSTANTS
  Msgs <- MC_CredentialMsgs
  RxBufferSize = 24
  SlipDecodedBufSize = 128
  SlipEncodedBufSize = 128
  MaxInFlight = 2
  MaxBreaks = 1
  SendQSize = 2
  SsidLens = {0, 32}
  TxPowers = {84}
  Channels = {6}
SPECIFICATION TSpec
INVARIANT NeverAborts
CHECK_DEADLOCK FALSE
