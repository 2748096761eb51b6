\* An answer whose CRC MSB is '(' on a clean line.
CONSTANTS
  Requests <- MCRequests
  INVALID = INVALID
  Bodies <- MCCollidingBodies
  MaxPacketLen = 7
  MaxChunk = 3
  NoiseBytes <- MCNoiseBytes
  MaxAnswers = 1
  MaxFaults = 0
SPECIFICATION Spec
INVARIANT AnswerRecognised
CHECK_DEADLOCK FALSE
