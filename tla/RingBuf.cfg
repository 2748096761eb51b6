\* em_ringbuf against the byte queue it promises.
CONSTANTS
  Size = 4
  Bytes <- MCBytes
  MaxChunk = 5
SPECIFICATION Spec
INVARIANTS TypeOK ReadReturnsOldest
PROPERTIES RefinesQueue
\* Writes are always possible: no deadlock to report.
