CONSTANTS
  OtaQLen = 1
  Chunks = 2
  Accuracy = 10
  ImageVer = 2
  InstalledVer = 1
  Faults = {}
  ServerMsgs <- MC_Msgs
SPECIFICATION Spec
INVARIANT HeapGuardHolds
CHECK_DEADLOCK FALSE
