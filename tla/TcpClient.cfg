\* The TCP client under Wi-Fi loss, dropped links, failed connects and
\* access-point disconnects.  A state where every task waits on an empty
\* queue for a network event is the device idling, not a deadlock.
CONSTANTS
  NumBufs <- MCNumBufs
  CmdQMax <- MCCmdQMax
  SendQMax <- MCSendQMax
  RxQMax <- MCRxQMax
  MaxFaults <- MCMaxFaults
  EvQMax <- MCEvQMax
SPECIFICATION FairSpec
INVARIANTS TypeOK SendCmdHasBuffer
PROPERTIES Reconnects BrokenLinkDetected
CHECK_DEADLOCK FALSE
