\* Four sectors for two buffers, so that bget recycles and runs out of buffers
\* (then it panics and its process stops); one sector is written, with bwrite
\* and through the log.
CONSTANTS
  s1 = s1
  s2 = s2
  s3 = s3
  s4 = s4
  Proc = {p1, p2}
  Sector = {s1, s2, s3, s4}
  Writable = {s1}
  Data = {d1, d2}
  NBUF = 2
  Channel = {0, 1}
  ChannelOf <- MCChannelOf
  Nest <- FatNest
  TransNest <- LogNest
  NoProc = NoProc
  NoSector = NoSector
  NoData = NoData
  NoBuf = NoBuf
SPECIFICATION LiveSpec
INVARIANTS CacheCoherent DriverCoherent
PROPERTIES SectorStoreSpec RequestsEnd
CHECK_DEADLOCK FALSE
