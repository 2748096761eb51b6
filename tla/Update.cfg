CONSTANTS
  OtaQLen = 1
  Chunks = 2
  Accuracy = 10
  ImageVer = 2
  InstalledVer = 1
  Faults = {"decrypt_start", "begin", "perform", "decrypt", "incomplete"}
  ServerMsgs <- MC_Msgs
SPECIFICATION Spec
INVARIANTS UTypeOK BeginAssertsHold
PROPERTIES OtaSettles ImmediateUpdateRuns
CHECK_DEADLOCK FALSE
