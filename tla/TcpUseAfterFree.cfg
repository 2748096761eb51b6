\* em_tcp_client_send queues the buffer on send_q and then fails on a full
\* cmd_q; send_data frees the buffer that send_q still holds.
CONSTANTS
  NumBufs <- MCNumBufs
  CmdQMax <- MCCmdQMax
  SendQMax <- MCSendQMax
  RxQMax <- MCRxQMax
  MaxFaults <- MCMaxFaults
  EvQMax <- MCEvQMax
SPECIFICATION Spec
INVARIANT QueuedBuffersLive
