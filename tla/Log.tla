-------------------------------- MODULE Log --------------------------------
(***************************************************************************)
(* The redo log of log.c: begin_trans, log_write, commit_trans, the        *)
(* recovery that initlog runs at boot, and crashes at any point.           *)
(*                                                                         *)
(* One step is at most one sector written to the disk (bwrite returns only *)
(* when the sector is on the disk: module BufferCache), so that a crash    *)
(* can fall between any two sector writes.  The buffer cache is seen as    *)
(* what bread returns for a home sector: the cached contents, or what the  *)
(* disk holds when no buffer caches the sector.                            *)
(***************************************************************************)
EXTENDS Naturals, Sequences

CONSTANTS Proc,      \* processes that make system calls
          Block,     \* home sectors of the file system
          Data,      \* contents of a sector
          LOGSIZE,   \* entries of struct logheader (param.h)
          Size,      \* log.size: sectors of the on-disk log, header included
          NoProc, NoBlock, NoBuf

ASSUME SizeAssumption == LOGSIZE \in Nat \ {0} /\ Size \in Nat \ {0, 1}
ASSUME NoneAssumption == NoProc \notin Proc /\ NoBlock \notin Block /\ NoBuf \notin Data

VARIABLES
  disk,    \* the home sectors on the disk
  head,    \* the header block on the disk: the first n entries of sector[]
  logblk,  \* the log blocks on the disk, sectors start+1, start+2, ...
  buf,     \* the cached contents of each home sector, NoBuf if not cached
  dirty,   \* the home sectors whose buffer has B_DIRTY set
  busy,    \* log.busy
  lh,      \* log.lh: the first n entries of sector[]
  tail,    \* install_trans: log blocks already installed
  pc,      \* where each process is in its system call
  cur,     \* the B_BUSY buffer a process is about to log_write
  kernel   \* what the kernel does: recovery, normal operation, or panic

diskvars == <<disk, head, logblk>>
vars == <<disk, head, logblk, buf, dirty, busy, lh, tail, pc, cur, kernel>>

\* log_write panics on lh.n >= LOGSIZE and on lh.n >= size - 1.
LogLimit == IF LOGSIZE < Size - 1 THEN LOGSIZE ELSE Size - 1

TypeOK ==
  /\ disk \in [Block -> Data]
  /\ logblk \in [1..LogLimit -> Data]
  /\ head \in Seq(Block) /\ Len(head) <= LogLimit
  /\ lh \in Seq(Block) /\ Len(lh) <= LogLimit
  /\ buf \in [Block -> Data \cup {NoBuf}]
  /\ dirty \in SUBSET Block
  /\ busy \in {0, 1}
  /\ tail \in 0..LogLimit
  /\ pc \in [Proc -> {"user", "begin", "sleep", "trans", "write",
                      "install", "release"}]
  /\ cur \in [Proc -> Block \cup {NoBlock}]
  /\ kernel \in {"read_head", "install", "up", "panic"}

\* What bread returns in the running kernel.
View == [b \in Block |-> IF buf[b] = NoBuf THEN disk[b] ELSE buf[b]]

\* The disk once the log blocks blks have been installed from header h.
Installed(h, blks, d) ==
  [b \in Block |-> IF \E i \in 1..Len(h) : h[i] = b
                   THEN blks[CHOOSE i \in 1..Len(h) : h[i] = b]
                   ELSE d[b]]

\* The disk that a reboot would bring back.
Recovered == Installed(head, logblk, disk)

\* A machine that boots from a disk with an empty log.
Init ==
  /\ disk \in [Block -> Data]
  /\ logblk \in [1..LogLimit -> Data]
  /\ head = <<>>
  /\ buf = [b \in Block |-> NoBuf]
  /\ dirty = {}
  /\ busy = 0
  /\ lh = <<>>
  /\ tail = 0
  /\ pc = [p \in Proc |-> "user"]
  /\ cur = [p \in Proc |-> NoBlock]
  /\ kernel = "read_head"

(***************************************************************************)
(* Recovery, run by initlog before any system call.                        *)
(***************************************************************************)
\* Mutant: the header is not read.
read_head_Skip ==
  /\ kernel = "read_head"
  /\ lh' = <<>>
  /\ tail' = 0
  /\ kernel' = "install"
  /\ UNCHANGED <<diskvars, buf, dirty, busy, pc, cur>>

read_head ==
  /\ kernel = "read_head"
  /\ lh' = head
  /\ tail' = 0
  /\ kernel' = "install"
  /\ UNCHANGED <<diskvars, buf, dirty, busy, pc, cur>>

\* Mutant: tail is not incremented.
install_block_Again ==
  LET b == lh[tail + 1]
  IN  /\ tail < Len(lh)
      /\ disk' = [disk EXCEPT ![b] = logblk[tail + 1]]
      /\ buf' = [buf EXCEPT ![b] = logblk[tail + 1]]
      /\ dirty' = dirty \ {b}
      /\ UNCHANGED tail

\* One round of the loop of install_trans: the log block is copied to its
\* home buffer, and bwrite writes the buffer and clears B_DIRTY.
install_block ==
  LET b == lh[tail + 1]
  IN  /\ tail < Len(lh)
      /\ disk' = [disk EXCEPT ![b] = logblk[tail + 1]]
      /\ buf' = [buf EXCEPT ![b] = logblk[tail + 1]]
      /\ dirty' = dirty \ {b}
      /\ tail' = tail + 1

\* Mutant: the header is cleared before the last block is installed.
clear_head_Early ==
  /\ lh' = <<>>
  /\ head' = <<>>
  /\ tail' = 0

\* write_head after log.lh.n = 0.
clear_head ==
  /\ tail = Len(lh)
  /\ lh' = <<>>
  /\ head' = <<>>
  /\ tail' = 0

RecoverInstall ==
  /\ kernel = "install"
  /\ install_block
  /\ UNCHANGED <<head, logblk, busy, lh, pc, cur, kernel>>

RecoverClear ==
  /\ kernel = "install"
  /\ clear_head
  /\ kernel' = "up"
  /\ UNCHANGED <<disk, logblk, buf, dirty, busy, pc, cur>>

(***************************************************************************)
(* Transactions.                                                           *)
(***************************************************************************)
\* One test of the loop of begin_trans, under log.lock, by a system call that
\* starts or was woken: sleep releases the lock only once the process is on
\* the channel.
begin_trans(p) ==
  /\ kernel = "up"
  /\ pc[p] \in {"user", "begin"}
  /\ IF busy = 1
     THEN pc' = [pc EXCEPT ![p] = "sleep"] /\ UNCHANGED busy
     ELSE pc' = [pc EXCEPT ![p] = "trans"] /\ busy' = 1
  /\ UNCHANGED <<diskvars, buf, dirty, lh, tail, cur, kernel>>

\* The caller of log_write: it gets the buffer with bread and modifies it.
Modify(p, b, d) ==
  /\ kernel = "up"
  /\ pc[p] = "trans"
  /\ buf' = [buf EXCEPT ![b] = d]
  /\ cur' = [cur EXCEPT ![p] = b]
  /\ pc' = [pc EXCEPT ![p] = "write"]
  /\ UNCHANGED <<diskvars, dirty, busy, lh, tail, kernel>>

\* The index log_write uses: that of the block if it is already logged (log
\* absorption), else the next free one.
LogIndex(b) ==
  IF \E i \in 1..Len(lh) : lh[i] = b
  THEN CHOOSE i \in 1..Len(lh) : lh[i] = b
  ELSE Len(lh) + 1

\* The first check of log_write.
Room == Len(lh) < LogLimit

\* b->flags |= B_DIRTY, which keeps bget from recycling the buffer.
Pin(b) == dirty' = dirty \cup {b}

\* log_write and the caller's brelse, when neither panic check fires.
log_write(p) ==
  LET b == cur[p]
      i == LogIndex(b)
  IN  /\ kernel = "up"
      /\ pc[p] = "write"
      /\ Room
      /\ busy = 1
      /\ logblk' = [logblk EXCEPT ![i] = buf[b]]
      /\ lh' = IF i = Len(lh) + 1 THEN Append(lh, b) ELSE lh
      /\ Pin(b)
      /\ pc' = [pc EXCEPT ![p] = "trans"]
      /\ cur' = [cur EXCEPT ![p] = NoBlock]
      /\ UNCHANGED <<disk, head, buf, busy, tail, kernel>>

\* "too big a transaction" and "write outside of trans".
LogPanic(p) ==
  /\ kernel = "up"
  /\ pc[p] = "write"
  /\ ~Room \/ busy = 0
  /\ kernel' = "panic"
  /\ UNCHANGED <<diskvars, buf, dirty, busy, lh, tail, pc, cur>>

\* commit_trans up to its first write_head, the commit point.
CommitHead(p) ==
  /\ kernel = "up"
  /\ pc[p] = "trans"
  /\ IF lh # <<>>
     THEN head' = lh /\ pc' = [pc EXCEPT ![p] = "install"]
     ELSE pc' = [pc EXCEPT ![p] = "release"] /\ UNCHANGED head
  /\ UNCHANGED <<disk, logblk, buf, dirty, busy, lh, tail, cur, kernel>>

CommitInstall(p) ==
  /\ kernel = "up"
  /\ pc[p] = "install"
  /\ install_block
  /\ UNCHANGED <<head, logblk, busy, lh, pc, cur, kernel>>

CommitClear(p) ==
  /\ kernel = "up"
  /\ pc[p] = "install"
  /\ clear_head
  /\ pc' = [pc EXCEPT ![p] = "release"]
  /\ UNCHANGED <<disk, logblk, buf, dirty, busy, cur, kernel>>

\* Mutant: no wakeup.
Woken_None(p) == [pc EXCEPT ![p] = "user"]

\* wakeup(&log) makes every process that sleeps on &log test log.busy again.
Woken(p) == [q \in Proc |-> IF q = p THEN "user"
                            ELSE IF pc[q] = "sleep" THEN "begin" ELSE pc[q]]

\* The end of commit_trans, under log.lock.
CommitRelease(p) ==
  /\ kernel = "up"
  /\ pc[p] = "release"
  /\ busy' = 0
  /\ pc' = Woken(p)
  /\ UNCHANGED <<diskvars, buf, dirty, lh, tail, cur, kernel>>

\* kill (proc.c) makes a sleeping process run: its loop tests again.
KillWakes(p) ==
  /\ kernel = "up"
  /\ pc[p] = "sleep"
  /\ pc' = [pc EXCEPT ![p] = "begin"]
  /\ UNCHANGED <<diskvars, buf, dirty, busy, lh, tail, cur, kernel>>

(***************************************************************************)
(* The buffer cache, and the power switch.                                 *)
(***************************************************************************)
\* A read-only use of the sector: bread by any process.
bread(b) ==
  /\ kernel = "up"
  /\ buf[b] = NoBuf
  /\ buf' = [buf EXCEPT ![b] = disk[b]]
  /\ UNCHANGED <<diskvars, dirty, busy, lh, tail, pc, cur, kernel>>

\* bget takes the buffer for another sector: not B_BUSY and not B_DIRTY.
Recycle(b) ==
  /\ kernel = "up"
  /\ buf[b] # NoBuf
  /\ b \notin dirty
  /\ \A p \in Proc : cur[p] # b
  /\ buf' = [buf EXCEPT ![b] = NoBuf]
  /\ UNCHANGED <<diskvars, dirty, busy, lh, tail, pc, cur, kernel>>

\* Power failure or reset: only the disk survives.
Crash ==
  /\ buf' = [b \in Block |-> NoBuf]
  /\ dirty' = {}
  /\ busy' = 0
  /\ lh' = <<>>
  /\ tail' = 0
  /\ pc' = [p \in Proc |-> "user"]
  /\ cur' = [p \in Proc |-> NoBlock]
  /\ kernel' = "read_head"
  /\ UNCHANGED diskvars

Next ==
  \/ read_head \/ RecoverInstall \/ RecoverClear
  \/ \E p \in Proc :
       \/ begin_trans(p) \/ KillWakes(p)
       \/ \E b \in Block, d \in Data : Modify(p, b, d)
       \/ log_write(p) \/ LogPanic(p)
       \/ CommitHead(p) \/ CommitInstall(p) \/ CommitClear(p) \/ CommitRelease(p)
  \/ \E b \in Block : bread(b) \/ Recycle(b)
  \/ Crash

Spec == Init /\ [][Next]_vars

\* A process that can run is scheduled again (WF), and a system call makes
\* finitely many log_writes before it calls commit_trans (SF).
Fairness ==
  /\ WF_vars(read_head \/ RecoverInstall \/ RecoverClear)
  /\ \A p \in Proc :
       /\ WF_vars(pc[p] = "begin" /\ begin_trans(p))
       /\ WF_vars(log_write(p) \/ LogPanic(p))
       /\ SF_vars(CommitHead(p))
       /\ WF_vars(CommitInstall(p) \/ CommitClear(p) \/ CommitRelease(p))

FairSpec == Spec /\ Fairness

(***************************************************************************)
(* Properties.                                                             *)
(***************************************************************************)
InTrans == {p \in Proc : pc[p] \in {"trans", "write"}}
Owner == {p \in Proc : pc[p] \in {"trans", "write", "install", "release"}}

(* begin_trans lets one system call at a time through: log.busy is set     *)
(* exactly when one process is between begin_trans and the end of          *)
(* commit_trans, log.lh, which no lock protects, is empty otherwise, and   *)
(* no process then sleeps on &log, as nobody would wake it.                *)
OneTransaction ==
  /\ \A p, q \in Owner : p = q
  /\ busy = 1 <=> Owner # {}
  /\ (kernel = "up" /\ busy = 0) => lh = <<>>
  /\ busy = 0 => \A p \in Proc : pc[p] # "sleep"

(* log_write pins what it logs: a home sector whose buffer is newer than   *)
(* the disk is either in the hands of its writer or in the log of the      *)
(* transaction, with B_DIRTY set and the same contents in its log block.   *)
NewerBlocksAreLogged ==
  \A b \in Block :
    (View[b] # disk[b] /\ kernel \in {"up", "panic"}) =>
      \/ \E p \in Proc : cur[p] = b
      \/ /\ b \in dirty
         /\ \E i \in 1..Len(lh) : lh[i] = b /\ logblk[i] = View[b]

(* A committed log is read-only: while the header on the disk names        *)
(* blocks, no log block changes, and the header is cleared only when every *)
(* block it names has its logged contents at home.                         *)
CommittedLogKept ==
  [][head # <<>> => /\ logblk' = logblk
                    /\ head' # head => head' = <<>> /\ disk = Recovered]_vars

AbsWorking == IF kernel \in {"up", "panic"} THEN View ELSE Recovered
AbsOwner == IF InTrans = {} THEN NoProc ELSE CHOOSE p \in Proc : p \in InTrans
Abstract == INSTANCE AtomicDisk WITH
  stable <- Recovered, working <- AbsWorking, owner <- AbsOwner

(* Crash atomicity: the log implements the atomic disk.  The stable disk   *)
(* is what recovery would install, and changes only at the first           *)
(* write_head of commit_trans, by all the writes of the transaction.       *)
AtomicDiskSpec == Abstract!Spec

(* Recovery ends: if the machine is not reset for ever, it comes up and    *)
(* stays up, or panics.                                                    *)
RecoveryEnds ==
  <>[](kernel # "read_head") => <>[](kernel \in {"up", "panic"})

(* A process that waits in begin_trans is woken: every transaction reaches *)
(* the end of commit_trans, unless it is too big and the kernel panics.    *)
SleeperWoken ==
  \A p \in Proc : (pc[p] = "sleep") ~> (pc[p] # "sleep" \/ kernel = "panic")

(***************************************************************************)
(* The inductive invariant behind these properties.                        *)
(***************************************************************************)
Running == kernel \in {"up", "panic"}

Distinct(h) == \A i, j \in 1..Len(h) : h[i] = h[j] => i = j

\* Where each process may be.
ControlInv ==
  /\ \A p, q \in Owner : p = q
  /\ busy = 1 <=> Owner # {}
  /\ (\E p \in Proc : pc[p] = "sleep") => busy = 1
  /\ \A p \in Proc : cur[p] # NoBlock <=> pc[p] = "write"
  /\ ~Running => \A p \in Proc : pc[p] = "user"

\* How the header in memory and the header on the disk relate.
HeadInv ==
  /\ Distinct(head) /\ Distinct(lh)
  /\ tail <= Len(lh)
  /\ kernel = "read_head" => lh = <<>>
  /\ kernel = "install" => lh = head
  /\ Running => \A p \in Proc : pc[p] = "install" => lh = head
  /\ (Running /\ \A p \in Proc : pc[p] # "install") => head = <<>> /\ tail = 0
  /\ (Running /\ \A p \in Proc : pc[p] \notin {"trans", "write", "install"}) => lh = <<>>

\* What the disk, the log blocks and the buffers hold.
ContentsInv ==
  /\ \A i \in 1..tail : disk[lh[i]] = logblk[i]
  /\ Running => \A i \in (tail + 1)..Len(lh) :
                  /\ lh[i] \in dirty
                  /\ (\A p \in Proc : cur[p] # lh[i]) => buf[lh[i]] = logblk[i]
  /\ \A b \in dirty : Running /\ \E i \in (tail + 1)..Len(lh) : lh[i] = b
  /\ \A b \in Block : (b \notin dirty /\ \A p \in Proc : cur[p] # b)
                       => buf[b] \in {NoBuf, disk[b]}
  /\ \A p \in Proc : pc[p] = "write" => buf[cur[p]] # NoBuf
  /\ \A b \in dirty : buf[b] # NoBuf

(* The bookkeeping of log.c as a whole: one transaction owns log.lh and    *)
(* the log blocks, its header is on the disk exactly while it installs,    *)
(* installed blocks are at home, the others are pinned and in the log.     *)
LogInv == TypeOK /\ ControlInv /\ HeadInv /\ ContentsInv
=============================================================================
