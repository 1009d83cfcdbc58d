\* A ring of two bytes with counters modulo four; writes longer than the ring.
CONSTANTS
  b1 = b1
  b2 = b2
  Reader = {r1}
  Writer = {w1, w2}
  Byte = {b1, b2}
  Payload <- MCPayload
  ReadSize = {2}
  PIPESIZE = 2
  UINT = 4
  NoProc = NoProc
SPECIFICATION FairSpec
INVARIANT NoUseAfterFree
PROPERTIES ByteStreamSpec SleeperWoken
CHECK_DEADLOCK FALSE
