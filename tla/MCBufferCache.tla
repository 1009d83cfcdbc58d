--------------------------- MODULE MCBufferCache ---------------------------
(* Instances of BufferCache for TLC. *)
EXTENDS BufferCache, TLC

CONSTANTS s1, s2, s3, s4

\* The sectors are on the disk of channel 0, but s3 on that of channel 1.
MCChannelOf == [s \in Sector |-> IF s = s3 THEN 1 ELSE 0]
\* A read of FAT holds the sector s3 of the table while it reads the sector s4.
FatNest == {<<s3, s4>>}
\* log_write reads the log sector s2 while its caller holds the home sector s1,
\* and install_trans the home sector while it holds the log sector.
LogNest == {<<s1, s2>>, <<s2, s1>>}
=============================================================================
