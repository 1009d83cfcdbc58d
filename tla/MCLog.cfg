\* A log of two blocks and three home sectors: transactions that fit, that
\* absorb, and that are too big.
CONSTANTS
  Proc = {p1, p2}
  Block = {b1, b2, b3}
  Data = {d1, d2}
  LOGSIZE = 3
  Size = 3
  NoProc = NoProc
  NoBlock = NoBlock
  NoBuf = NoBuf
SPECIFICATION FairSpec
PROPERTIES CommittedLogKept AtomicDiskSpec RecoveryEnds SleeperWoken
