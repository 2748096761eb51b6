\* Answers whose CRC bytes are not delimiters, read in chunks of any size,
\* with one line fault: the CRC is XMODEM, damaged frames never pass the
\* CRC check, and a partly read answer is never consumed.
CONSTANTS
  Requests <- MCRequests
  INVALID = INVALID
  Bodies <- MCBodies
  MaxPacketLen = 7
  MaxChunk = 3
  NoiseBytes <- MCNoiseBytes
  MaxAnswers = 3
  MaxFaults = 1
SPECIFICATION Spec
INVARIANTS TypeOK CrcMatchesReference NoPhantomFrame KeepsPartialAnswer
\* The inverter stops after MaxAnswers answers and the line falls silent.
CHECK_DEADLOCK FALSE
