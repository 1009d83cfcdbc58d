------------------------------- MODULE Files -------------------------------
(***************************************************************************)
(* Descriptors, the open file table of fs/file.c and the contents of SFS   *)
(* files (balloc, bmap, sfs_readi, sfs_writei, sfs_itrunc).  A volume is   *)
(* the record                                                              *)
(*   dino    the inodes: live (type # 0), nlink, size, addrs               *)
(*   blk     the blocks, data or block numbers                             *)
(*   used    the blocks whose bit is set in the bitmap                     *)
(* A chunk of filewrite is one step: the inode is locked from the moment   *)
(* f->off is read until it is changed, and begin_trans and commit_trans    *)
(* enclose it, so that a crash leaves the volume before or after it (Log   *)
(* shows that).  Between two chunks, and between fileclose's release of a  *)
(* slot and the put of the inode, other processes run.  One bitmap block   *)
(* covers the volume and one inode block holds the inodes, as on the       *)
(* volume that mkfs makes for a few files.                                 *)
(***************************************************************************)
EXTENDS Integers, FiniteSets, FiniteSetsExt

CONSTANTS
  Proc, First,  \* processes, and the one that runs at the start
  Openers,      \* the processes that open files, the others inherit them
  NOFILE, NFILE, NDIRECT, NINDIRECT, BSIZE, NBlock, LOGSIZE,
  Inum, Pairs,  \* files, and what pipes are called
  Modes,        \* of an open: readable and writable
  Lens,         \* lengths of writes
  MaxRead,      \* length of reads
  MaxCrash,     \* bound on crashes
  None

File == 1..NFILE
Fd == 1..NOFILE
Block == 1..NBlock
MAXFILE == NDIRECT + NINDIRECT
BitmapBlock == 0
InodeBlock == -1

ASSUME FilesAssumption ==
  /\ {NOFILE, NFILE, NDIRECT, NINDIRECT, BSIZE, NBlock} \subseteq Nat \ {0}
  /\ NINDIRECT <= BSIZE /\ LOGSIZE \in Nat /\ LOGSIZE >= 6
  /\ First \in Proc /\ Openers \subseteq Proc /\ IsFiniteSet(Proc)
  /\ None \notin {"log", "bfree", "balloc"}
  /\ Modes \subseteq BOOLEAN \X BOOLEAN /\ Lens \subseteq Nat \ {0} /\ MaxRead \in Nat

VARIABLES
  vol,
  ino, iref,    \* inodes in memory, and their counts, which icache.lock protects
  ftable, ofile,
  pc,           \* where a process is in a system call
  fault,        \* the panic that stopped the kernel
  crashes

vars == <<vol, ino, iref, ftable, ofile, pc, fault, crashes>>

NoFile == [ref |-> 0, type |-> "none", i |-> None, off |-> 0, rd |-> FALSE, wr |-> FALSE]
NoAddrs == [k \in 0..NDIRECT |-> 0]
NoInode == [valid |-> FALSE, live |-> FALSE, nlink |-> 0, size |-> 0, addrs |-> NoAddrs]
In(where) == [at |-> where, f |-> 0, n |-> 0, i |-> None, then |-> "user"]
Writing(f, n) == [at |-> "write", f |-> f, n |-> n, i |-> None, then |-> "user"]
Putting(i, then) == [at |-> "put", f |-> 0, n |-> 0, i |-> i, then |-> then]
User == In("user")
Dead == In("dead")
Zero == [k \in 1..BSIZE |-> 0]
Junk == [k \in 1..BSIZE |-> None]      \* in a free block, whatever it held

(***************************************************************************)
(* Blocks.  An operation takes and yields v: the blocks, the bitmap and    *)
(* the block numbers of the inode, the blocks logged, the block returned,  *)
(* the panic.                                                              *)
(***************************************************************************)
With(x, Op(_)) == Op(x)
Then(v, Op(_)) == IF v.fault # None THEN v ELSE Op(v)
Inode(d) == [valid |-> TRUE, live |-> d.live, nlink |-> d.nlink, size |-> d.size,
             addrs |-> d.addrs]
ilock(i) == IF ino[i].valid THEN ino[i] ELSE Inode(vol.dino[i])
On(i) == [blk |-> vol.blk, used |-> vol.used, addrs |-> ilock(i).addrs, logged |-> {},
          ret |-> 0, fault |-> None]
\* Mutant: the log is one block shorter.
log_write_Short(v, b) ==
  IF Cardinality(v.logged) >= LOGSIZE - 2 THEN [v EXCEPT !.fault = "log"]
  ELSE [v EXCEPT !.logged = @ \cup {b}]
log_write(v, b) ==
  IF Cardinality(v.logged) >= LOGSIZE - 1 THEN [v EXCEPT !.fault = "log"]
  ELSE [v EXCEPT !.logged = @ \cup {b}]

bzero(v, b) == Then(log_write(v, b), LAMBDA w : [w EXCEPT !.blk[b] = Zero, !.ret = b])
BitSet(v, b) == log_write([v EXCEPT !.used = @ \cup {b}], BitmapBlock)
balloc(v) ==
  IF v.used = Block THEN [v EXCEPT !.fault = "balloc"]
  ELSE With(Min(Block \ v.used), LAMBDA b : Then(BitSet(v, b), LAMBDA w : bzero(w, b)))
\* A block number of the inode, made on demand.
Direct(v, k) ==
  IF v.addrs[k] # 0 THEN [v EXCEPT !.ret = v.addrs[k]]
  ELSE Then(balloc(v), LAMBDA w : [w EXCEPT !.addrs[k] = w.ret])
Indirect(v, a, j) ==
  IF v.blk[a][j] # 0 THEN [v EXCEPT !.ret = v.blk[a][j]]
  ELSE Then(balloc(v), LAMBDA w : log_write([w EXCEPT !.blk[a][j] = w.ret], a))
bmap(v, bn) ==
  IF bn < NDIRECT THEN Direct(v, bn)
  ELSE Then(Direct(v, NDIRECT), LAMBDA w : Indirect(w, w.ret, 1 + bn - NDIRECT))

Dinode(ip) == [live |-> ip.live, nlink |-> ip.nlink, size |-> ip.size, addrs |-> ip.addrs]
\* The steps below write Dinode(ip) to the volume.
sfs_iupdate(v) == log_write(v, InodeBlock)

\* The block numbers of an inode: those in the inode, the last of which is that
\* of the indirect block, and those in the indirect block.
Ptr == 0..NDIRECT + NINDIRECT
Pointer(m, d, k) ==
  IF k <= NDIRECT THEN d.addrs[k]
  ELSE IF d.addrs[NDIRECT] = 0 THEN 0 ELSE m.blk[d.addrs[NDIRECT]][k - NDIRECT]
BlocksOf(m, d) == {Pointer(m, d, k) : k \in Ptr} \ {0}

\* bfree of one block of S after the other; no block number occurs twice in an
\* inode (BlocksExact).
FreeAll(v, S) ==
  IF S = {} THEN v
  ELSE IF ~(S \subseteq v.used) THEN [v EXCEPT !.fault = "bfree"]
  ELSE log_write([v EXCEPT !.used = @ \ S,
                           !.blk = [b \in Block |-> IF b \in S THEN Junk ELSE @[b]]],
                 BitmapBlock)
\* Mutant: the blocks behind the indirect block are forgotten.
sfs_itrunc_Direct(v) ==
  Then(FreeAll(v, {v.addrs[k] : k \in 0..NDIRECT} \ {0}),
       LAMBDA w : sfs_iupdate([w EXCEPT !.addrs = NoAddrs]))
sfs_itrunc(v) ==
  Then(FreeAll(v, BlocksOf(v, v)), LAMBDA w : sfs_iupdate([w EXCEPT !.addrs = NoAddrs]))

\* sfs_iput of an inode that is ip in memory and has ref users: the last user
\* of a file without a name frees it, content and inode.
\* Mutant: other references do not count.
LastUse_Early(ip, ref) == ip.valid /\ ip.nlink = 0
LastUse(ip, ref) == ref = 1 /\ ip.valid /\ ip.nlink = 0
sfs_iput(v, ip, ref) == IF LastUse(ip, ref) THEN Then(sfs_itrunc(v), sfs_iupdate) ELSE v

(***************************************************************************)
(* Contents.                                                               *)
(***************************************************************************)
\* The block number of block bn of a file, and unit r of that block.
PtrOf(bn) == IF bn < NDIRECT THEN bn ELSE bn + 1
UnitAt(m, d, bn, r) == m.blk[Pointer(m, d, PtrOf(bn))][r + 1]

\* What sfs_readi returns: -1, or the number of units up to the end.
sfs_readi(ip, off, n) ==
  IF off > ip.size THEN -1 ELSE IF off + n > ip.size THEN ip.size - off ELSE n

\* A unit of data is the file it was written to.
PutUnits(v, b, lo, n, i) ==
  log_write([v EXCEPT !.blk[b] = [k \in 1..BSIZE |->
                                    IF k - 1 \in lo..lo + n - 1 THEN i ELSE @[k]]], b)
\* The part of block bn that a write of n units at off covers.
From(off, bn) == IF bn = off \div BSIZE THEN off % BSIZE ELSE 0
To(off, n, bn) == Min({BSIZE, off + n - bn * BSIZE})
Round(v, i, off, n, bn) ==
  Then(bmap(v, bn),
       LAMBDA w : PutUnits(w, w.ret, From(off, bn), To(off, n, bn) - From(off, bn), i))
WriteLoop(v, i, off, n) ==
  LET first == off \div BSIZE
      last == (off + n - 1) \div BSIZE
      After[bn \in first - 1..last] ==
        IF bn < first THEN v ELSE Then(After[bn - 1], LAMBDA w : Round(w, i, off, n, bn))
  IN  After[last]
\* Whether the write is within bounds, and what it does to the size.
CanWrite(ip, off, n) == off <= ip.size /\ off + n <= MAXFILE * BSIZE
Grows(ip, off, n) == CanWrite(ip, off, n) /\ off + n > ip.size
sfs_writei(v, ip, i, off, n) ==
  IF ~CanWrite(ip, off, n) THEN v
  ELSE Then(WriteLoop(v, i, off, n),
            LAMBDA w : IF Grows(ip, off, n) THEN sfs_iupdate(w) ELSE w)

(***************************************************************************)
(* Descriptors and open files.                                             *)
(***************************************************************************)
FreeFds(p) == {fd \in Fd : ofile[p][fd] = 0}
FreeFiles == {f \in File : ftable[f].ref = 0}
IsFirst(x, S) == x \in S /\ \A y \in S : x <= y
fdalloc(p, fd) == IsFirst(fd, FreeFds(p))
filealloc(f) == IsFirst(f, FreeFiles)

At(p, where) == fault = None /\ pc[p].at = where

\* A step on inode i commits, unless it panics: it leaves the inode ip in
\* memory with ref users, and d on the volume.
Apply(v, i, ip, ref, d) ==
  IF v.fault # None THEN fault' = v.fault /\ UNCHANGED <<vol, ino, iref>>
  ELSE /\ vol' = [dino |-> [vol.dino EXCEPT ![i] = d], blk |-> v.blk, used |-> v.used]
       /\ ino' = [ino EXCEPT ![i] = ip] /\ iref' = [iref EXCEPT ![i] = ref]
       /\ UNCHANGED fault

\* An open that finds no free slot or descriptor gives back what it took.
Full(p) == FreeFiles = {} \/ FreeFds(p) = {}
Install(p, i, rd, wr) ==
  IF Full(p) THEN UNCHANGED <<ftable, ofile>>
  ELSE \E f \in File, fd \in Fd :
         /\ filealloc(f) /\ fdalloc(p, fd)
         /\ ftable' = [ftable EXCEPT ![f] =
                         [ref |-> 1, type |-> "inode", i |-> i, off |-> 0, rd |-> rd, wr |-> wr]]
         /\ ofile' = [ofile EXCEPT ![p] = [@ EXCEPT ![fd] = f]]
Opened(p, i, ip) ==
  /\ iref' = IF Full(p) THEN iref ELSE [iref EXCEPT ![i] = @ + 1]
  /\ ino' = [ino EXCEPT ![i] = IF Full(p) /\ iref[i] = 0 THEN NoInode ELSE ip]

sys_open(p, i, rd, wr) ==
  /\ At(p, "user") /\ vol.dino[i].nlink > 0
  /\ Opened(p, i, ilock(i)) /\ Install(p, i, rd, wr)
  /\ UNCHANGED <<vol, pc, fault, crashes>>

New == [valid |-> TRUE, live |-> TRUE, nlink |-> 1, size |-> 0, addrs |-> NoAddrs]
sys_open_create(p, i) ==
  /\ At(p, "user") /\ ~vol.dino[i].live
  /\ vol' = [dino |-> [vol.dino EXCEPT ![i] = Dinode(New)], blk |-> vol.blk, used |-> vol.used]
  /\ Opened(p, i, New) /\ Install(p, i, TRUE, TRUE)
  /\ UNCHANGED <<pc, fault, crashes>>

Unlinked(ip) == [valid |-> TRUE, live |-> ip.live, nlink |-> 0, size |-> ip.size,
                 addrs |-> ip.addrs]
sys_unlink(p, i) ==
  /\ At(p, "user") /\ vol.dino[i].nlink > 0
  /\ LET ip == Unlinked(ilock(i))
         ref == iref[i] + 1
     IN  Apply(Then(sfs_iupdate(On(i)), LAMBDA v : sfs_iput(v, ip, ref)), i,
               IF ref = 1 THEN NoInode ELSE ip, iref[i],
               IF LastUse(ip, ref) THEN Dinode(NoInode) ELSE Dinode(ip))
  /\ UNCHANGED <<ftable, ofile, pc, crashes>>

\* Slot f with the reference count ref.
Counted(f, ref) == [ftable[f] EXCEPT !.ref = ref]
sys_dup(p, fd) ==
  LET f == ofile[p][fd] IN
  /\ At(p, "user") /\ f # 0
  /\ \E new \in Fd : fdalloc(p, new) /\ ofile' = [ofile EXCEPT ![p] = [@ EXCEPT ![new] = f]]
  /\ ftable' = [ftable EXCEPT ![f] = Counted(f, ftable[f].ref + 1)]
  /\ UNCHANGED <<vol, ino, iref, pc, fault, crashes>>

\* With too few slots or descriptors all is given back.
PipeEnd(x, rd) == [ref |-> 1, type |-> "pipe", i |-> x, off |-> 0, rd |-> rd, wr |-> ~rd]
sys_pipe(p, x) ==
  /\ At(p, "user")
  /\ \A f \in File : ftable[f].i # x
  /\ \E a, b \in File, fd0, fd1 \in Fd :
       /\ filealloc(a) /\ IsFirst(b, FreeFiles \ {a})
       /\ fdalloc(p, fd0) /\ IsFirst(fd1, FreeFds(p) \ {fd0})
       /\ ofile' = [ofile EXCEPT ![p] = [@ EXCEPT ![fd0] = a, ![fd1] = b]]
       /\ ftable' = [ftable EXCEPT ![a] = PipeEnd(x, TRUE), ![b] = PipeEnd(x, FALSE)]
  /\ UNCHANGED <<vol, ino, iref, pc, fault, crashes>>

\* fileclose of descriptor fd; then says where the caller goes on.  The last
\* close of an inode frees the slot first and puts the inode in a transaction.
fileclose(p, fd, then) ==
  LET f == ofile[p][fd] IN
  /\ f # 0
  /\ ofile' = [ofile EXCEPT ![p] = [@ EXCEPT ![fd] = 0]]
  /\ ftable' = [ftable EXCEPT ![f] = IF ftable[f].ref > 1 THEN Counted(f, ftable[f].ref - 1)
                                     ELSE NoFile]
  /\ pc' = [pc EXCEPT ![p] = IF ftable[f].ref = 1 /\ ftable[f].type = "inode"
                             THEN Putting(ftable[f].i, then) ELSE In(then)]
  /\ UNCHANGED <<vol, ino, iref, fault, crashes>>
Put(p) ==
  /\ At(p, "put")
  /\ LET i == pc[p].i
     IN  Apply(sfs_iput(On(i), ino[i], iref[i]), i, IF iref[i] = 1 THEN NoInode ELSE ino[i],
               iref[i] - 1, IF LastUse(ino[i], iref[i]) THEN Dinode(NoInode) ELSE vol.dino[i])
  /\ pc' = [pc EXCEPT ![p] = In(pc[p].then)]
  /\ UNCHANGED <<ftable, ofile, crashes>>
sys_close(p, fd) == At(p, "user") /\ fileclose(p, fd, "user")

\* exit closes what is open, one descriptor after the other.
exit(p) ==
  /\ At(p, "user") \/ At(p, "exit")
  /\ p # First
  /\ \E fd \in Fd : IsFirst(fd, Fd \ FreeFds(p)) /\ fileclose(p, fd, "exit")
ExitEnd(p) ==
  /\ At(p, "user") \/ At(p, "exit")
  /\ p # First /\ FreeFds(p) = Fd
  /\ pc' = [pc EXCEPT ![p] = Dead]
  /\ UNCHANGED <<vol, ino, iref, ftable, ofile, fault, crashes>>

\* Mutant: a file held by two descriptors is counted once.
Dupped_Once(p) == [f \in File |-> IF \E fd \in Fd : ofile[p][fd] = f THEN 1 ELSE 0]
Dupped(p) == [f \in File |-> Cardinality({fd \in Fd : ofile[p][fd] = f})]
fork(p, q) ==
  /\ At(p, "user") /\ pc[q].at = "dead"
  /\ ofile' = [ofile EXCEPT ![q] = ofile[p]]
  /\ ftable' = [f \in File |-> Counted(f, ftable[f].ref + Dupped(p)[f])]
  /\ pc' = [pc EXCEPT ![q] = User]
  /\ UNCHANGED <<vol, ino, iref, fault, crashes>>

(***************************************************************************)
(* sys_read and sys_write.                                                 *)
(***************************************************************************)
Advance(f, r) ==
  [ftable EXCEPT ![f] = [ftable[f] EXCEPT !.off = IF r > 0 THEN ftable[f].off + r ELSE @]]
sys_read(p, fd, n) ==
  LET f == ftable[ofile[p][fd]] IN
  /\ At(p, "user") /\ ofile[p][fd] # 0
  /\ f.rd /\ f.type = "inode"
  /\ ino' = [ino EXCEPT ![f.i] = ilock(f.i)]
  /\ ftable' = Advance(ofile[p][fd], sfs_readi(ilock(f.i), f.off, n))
  /\ UNCHANGED <<vol, iref, ofile, pc, fault, crashes>>

\* One chunk of filewrite, then the rest; a chunk that fails ends the call.
max == ((LOGSIZE - 1 - 1 - 2) \div 2) * BSIZE
Chunk(n) == IF n > max THEN max ELSE n
Rest(f, n, r) == IF r < 0 \/ r = n THEN User ELSE Writing(f, n - r)
\* The inode in memory after n units have been written at off.
Written(ip, v, off, n) ==
  [valid |-> TRUE, live |-> ip.live, nlink |-> ip.nlink,
   size |-> IF Grows(ip, off, n) THEN off + n ELSE ip.size, addrs |-> v.addrs]
filewrite(p, f, n) ==
  LET i == ftable[f].i
      off == ftable[f].off
      n1 == Chunk(n)
      ip == ilock(i)
      r == IF CanWrite(ip, off, n1) THEN n1 ELSE -1
  IN  \E v \in {sfs_writei(On(i), ip, i, off, n1)} :
        /\ Apply(v, i, Written(ip, v, off, n1), iref[i],
                 IF Grows(ip, off, n1) THEN Dinode(Written(ip, v, off, n1)) ELSE vol.dino[i])
        /\ IF v.fault # None THEN UNCHANGED <<ftable, pc>>
           ELSE ftable' = Advance(f, r) /\ pc' = [pc EXCEPT ![p] = Rest(f, n, r)]
        /\ UNCHANGED <<ofile, crashes>>
sys_write(p, fd, n) ==
  /\ At(p, "user") /\ ofile[p][fd] # 0
  /\ ftable[ofile[p][fd]].wr /\ ftable[ofile[p][fd]].type = "inode"
  /\ filewrite(p, ofile[p][fd], n)
NextChunk(p) == At(p, "write") /\ filewrite(p, pc[p].f, pc[p].n)

Booted == [ino    |-> [i \in Inum |-> NoInode],
           iref   |-> [i \in Inum |-> 0],
           ftable |-> [f \in File |-> NoFile],
           ofile  |-> [p \in Proc |-> [fd \in Fd |-> 0]],
           pc     |-> [p \in Proc |-> IF p = First THEN User ELSE Dead]]

\* Power fails, or the machine that panicked is started again.
Crash ==
  /\ crashes < MaxCrash \/ fault # None
  /\ crashes' = IF fault # None THEN crashes ELSE crashes + 1
  /\ ino' = Booted.ino /\ iref' = Booted.iref /\ ftable' = Booted.ftable /\ ofile' = Booted.ofile
  /\ pc' = Booted.pc /\ fault' = None
  /\ UNCHANGED vol

Init ==
  /\ vol = [dino |-> [i \in Inum |-> Dinode(NoInode)], blk |-> [b \in Block |-> Junk],
            used |-> {}]
  /\ ino = Booted.ino /\ iref = Booted.iref /\ ftable = Booted.ftable /\ ofile = Booted.ofile
  /\ pc = Booted.pc /\ fault = None
  /\ crashes = 0

Next ==
  \/ \E p \in Openers :
       \/ \E i \in Inum : sys_open_create(p, i) \/ sys_unlink(p, i)
                          \/ \E m \in Modes : sys_open(p, i, m[1], m[2])
       \/ \E fd \in Fd : sys_dup(p, fd)
       \/ \E x \in Pairs : sys_pipe(p, x)
       \/ \E q \in Proc : fork(p, q)
  \/ \E p \in Proc :
       \/ \E fd \in Fd : sys_close(p, fd) \/ sys_read(p, fd, MaxRead)
                         \/ \E n \in Lens : sys_write(p, fd, n)
       \/ exit(p) \/ ExitEnd(p) \/ Put(p) \/ NextChunk(p)
  \/ Crash

Spec == Init /\ [][Next]_vars

(***************************************************************************)
(* Properties.                                                             *)
(***************************************************************************)
\* The bitmap marks exactly the blocks that inodes point to, no block has two
\* pointers, and each unit of a file is one that was written to it: balloc, bmap,
\* sfs_writei, sfs_itrunc and sfs_iupdate agree over chunks, unlinks of open
\* files, last closes and crashes.
BlocksExact ==
  /\ vol.used = UNION {BlocksOf(vol, vol.dino[i]) : i \in Inum}
  /\ \A i, j \in Inum, k, l \in Ptr :
       Pointer(vol, vol.dino[i], k) = Pointer(vol, vol.dino[j], l) =>
         Pointer(vol, vol.dino[i], k) = 0 \/ <<i, k>> = <<j, l>>
  /\ \A i \in Inum, bn \in 0..MAXFILE - 1, r \in 0..BSIZE - 1 :
       bn * BSIZE + r < vol.dino[i].size =>
         /\ Pointer(vol, vol.dino[i], PtrOf(bn)) # 0
         /\ UnitAt(vol, vol.dino[i], bn, r) = i

\* No transaction of filewrite or fileclose outgrows the log, which is what the
\* chunks of filewrite are for, and bfree never finds its block free.
FitsLog == fault \notin {"log", "bfree"}

\* The descriptors of an open file, and who refers to an inode: open files,
\* and closes that have not put it yet.
Descriptors(f) == {x \in Proc \X Fd : ofile[x[1]][x[2]] = f}
OpenFiles(i) == {f \in File : ftable[f].type = "inode" /\ ftable[f].i = i}
Putters(i) == {p \in Proc : pc[p].at = "put" /\ pc[p].i = i}

FilesCounted ==
  \A f \in File : /\ ftable[f].ref = Cardinality(Descriptors(f))
                  /\ ftable[f].ref = 0 <=> ftable[f].type = "none"
InodesCounted ==
  \A i \in Inum : iref[i] = Cardinality(OpenFiles(i)) + Cardinality(Putters(i))

\* f->ref counts the descriptors of all processes, and the references of an
\* inode are its open files and the closes that have not put it yet: after any
\* order of open, dup, fork, pipe, close and exit no slot is lost or freed early.
RefsExact == fault = None => FilesCounted /\ InodesCounted

\* While somebody has a file open it stays and never gets shorter, with or
\* without a name, and no offset is beyond its end: the next chunk of a write
\* that was interrupted finds the file as the last chunk left it.
OpenKept ==
  [][\A f \in File :
       ftable[f].type = "inode" /\ ftable'[f].type = "inode" /\ ftable[f].i = ftable'[f].i =>
         LET i == ftable[f].i IN
         /\ vol'.dino[i].live
         /\ vol'.dino[i].size >= vol.dino[i].size
         /\ ftable'[f].off <= vol'.dino[i].size]_vars

(***************************************************************************)
(* The inductive invariant of RefsExact and OpenKept.                      *)
(***************************************************************************)
OpenFile == [ref : Nat, type : {"none", "inode", "pipe"}, i : Inum \cup Pairs \cup {None},
             off : Nat, rd : BOOLEAN, wr : BOOLEAN]
Place == [at : {"user", "write", "put", "exit", "dead"}, f : 0..NFILE, n : Nat,
          i : Inum \cup {None}, then : {"user", "exit"}]

Volume ==
  /\ vol.dino = [i \in Inum |-> vol.dino[i]]
  /\ \A i \in Inum : /\ vol.dino[i].size \in Nat /\ vol.dino[i].nlink \in Nat
                     /\ vol.dino[i].nlink > 0 => vol.dino[i].live

Shapes ==
  /\ ftable \in [File -> OpenFile] /\ ofile \in [Proc -> [Fd -> 0..NFILE]]
  /\ pc \in [Proc -> Place] /\ iref \in [Inum -> Nat]
  /\ ino = [i \in Inum |-> ino[i]]

\* What a process in a system call relies on.
Placed ==
  \A p \in Proc :
    /\ pc[p].at = "put" => pc[p].i \in Inum
    /\ pc[p].at = "dead" => \A fd \in Fd : ofile[p][fd] = 0
    /\ pc[p].at = "write" => /\ pc[p].f \in File /\ ftable[pc[p].f].type = "inode"
                             /\ \E fd \in Fd : ofile[p][fd] = pc[p].f

\* An inode in memory is as it is on the volume.
Coherent ==
  \A i \in Inum : ino[i].valid => /\ ino[i].size = vol.dino[i].size
                                  /\ ino[i].nlink = vol.dino[i].nlink
                                  /\ ino[i].live = vol.dino[i].live

\* An open file is there, and its offset is not beyond its end.
OpenLive ==
  \A f \in File : ftable[f].type = "inode" =>
    /\ ftable[f].i \in Inum /\ vol.dino[ftable[f].i].live
    /\ ftable[f].off <= vol.dino[ftable[f].i].size

FilesInv ==
  /\ Volume
  /\ fault = None =>
       Shapes /\ Placed /\ Coherent /\ OpenLive /\ FilesCounted /\ InodesCounted

=============================================================================
