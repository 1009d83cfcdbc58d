\* Interrupts that no drive raised: a buffer is clean before its sector is
\* written (CleanIsOnDisk is violated).
CONSTANTS
  s1 = s1
  s2 = s2
  s3 = s3
  s4 = s4
  Proc = {p1, p2}
  Sector = {s1, s2, s3, s4}
  Writable = {s1}
  Data = {d1, d2}
  NBUF = 2
  Channel = {0, 1}
  ChannelOf <- MCChannelOf
  Nest <- FatNest
  TransNest <- LogNest
  NoProc = NoProc
  NoSector = NoSector
  NoData = NoData
  NoBuf = NoBuf
SPECIFICATION SpuriousSpec
INVARIANT CleanIsOnDisk
CHECK_DEADLOCK FALSE
