\* submit_tcp_client_disconnect / _connect: xQueueReset(cmd_q), then
\* xQueueSend(cmd_q, .., 0) and assert.  The event and rx queues are made
\* long enough that no other assert fires, so an abort found here is the
\* submit assert failing on a cmd_q refilled between the two calls.
CONSTANTS
  NumBufs <- MCNumBufs
  CmdQMax <- MCCmdQMax
  SendQMax <- MCSendQMax
  RxQMax = 6
  MaxFaults <- MCMaxFaults
  EvQMax = 12
SPECIFICATION Spec
INVARIANT NoAbort
CHECK_DEADLOCK FALSE
