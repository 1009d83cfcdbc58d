---------------------------- MODULE AtomicDisk ----------------------------
(***************************************************************************)
(* What log.c promises to the file system: a disk whose blocks are changed *)
(* by one transaction at a time, and which after a crash holds either all  *)
(* the writes of a transaction or none of them.                            *)
(***************************************************************************)
CONSTANTS Proc,     \* processes
          Block,    \* home sectors
          Data,     \* contents of a sector
          NoProc    \* owner when there is no transaction

VARIABLES stable,   \* the disk a reboot would bring back
          working,  \* the disk the running kernel reads
          owner     \* the process that is in a transaction

vars == <<stable, working, owner>>

Init == /\ stable \in [Block -> Data]
        /\ working = stable
        /\ owner = NoProc

Begin(p) == /\ owner = NoProc
            /\ owner' = p
            /\ UNCHANGED <<stable, working>>

Write(p, b, d) == /\ owner = p
                  /\ working' = [working EXCEPT ![b] = d]
                  /\ UNCHANGED <<stable, owner>>

\* All the writes of the transaction reach the stable disk in one step.
Commit(p) == /\ owner = p
             /\ stable' = working
             /\ owner' = NoProc
             /\ UNCHANGED working

\* The memory of the machine is lost: so is the transaction in progress.
Crash == /\ working' = stable
         /\ owner' = NoProc
         /\ UNCHANGED stable

Next == \/ \E p \in Proc : Begin(p) \/ Commit(p)
        \/ \E p \in Proc, b \in Block, d \in Data : Write(p, b, d)
        \/ Crash

Spec == Init /\ [][Next]_vars
=============================================================================
