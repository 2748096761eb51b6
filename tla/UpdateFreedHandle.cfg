CONSTANTS
  OtaQLen = 1
  Chunks = 2
  Accuracy = 10
  ImageVer = 2
  InstalledVer = 1
  Faults = {}
  ServerMsgs <- MC_DelayedMsgs
SPECIFICATION Spec
INVARIANT NoFreedHandleUse
CHECK_DEADLOCK FALSE
