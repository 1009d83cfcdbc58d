---------------------------- MODULE SectorStore ----------------------------
(***************************************************************************)
(* What bio.c promises to its callers: bread gives one process at a time a *)
(* sector with its last written contents.                                  *)
(***************************************************************************)
CONSTANTS Proc, Sector, Data, NoProc

VARIABLES contents,  \* what was last written to each sector
          holder     \* the process between bread and brelse of the sector

vars == <<contents, holder>>

Init == /\ contents \in [Sector -> Data]
        /\ holder = [s \in Sector |-> NoProc]

Acquire(p, s) == /\ holder[s] = NoProc
                 /\ holder' = [holder EXCEPT ![s] = p]
                 /\ UNCHANGED contents

Write(p, s, d) == /\ holder[s] = p
                  /\ contents' = [contents EXCEPT ![s] = d]
                  /\ UNCHANGED holder

Release(p, s) == /\ holder[s] = p
                 /\ holder' = [holder EXCEPT ![s] = NoProc]
                 /\ UNCHANGED contents

Next == \E p \in Proc, s \in Sector :
          \/ Acquire(p, s)
          \/ Release(p, s)
          \/ \E d \in Data : Write(p, s, d)

Spec == Init /\ [][Next]_vars
=============================================================================
