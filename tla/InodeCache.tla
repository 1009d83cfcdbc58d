----------------------------- MODULE InodeCache -----------------------------
(***************************************************************************)
(* The inode cache (sfs_iget to sfs_iput in sfs_inode.c, inode_init in     *)
(* vfs/inode.c): entries are found or recycled, counted, locked, filled    *)
(* from the disk, and free their inode with the last reference to it.      *)
(*                                                                         *)
(* A step is one hold of icache.lock, or what is done between two of them  *)
(* under I_BUSY.  A process has at most one reference.  The directories    *)
(* are abstracted to the number of names of each inode; the directory in   *)
(* which a process has just found a name is locked until sfs_iget returns, *)
(* so that this name stays.  The FAT volume shares the table: an entry of  *)
(* its is one that sfs_iget finds neither empty nor to be of its device.   *)
(***************************************************************************)
(* sfs_iget sets the fstype of a recycled entry, by which it recognises its*)
(* own entries, only after it has released icache.lock: raced records that *)
(* a process has asked for an inode while another was about to set the     *)
(* fstype of an entry for it that had another one before.                  *)
(***************************************************************************)
EXTENDS Naturals, FiniteSets

CONSTANTS Proc, Inode,
          Root,     \* ROOTINO
          Type,     \* T_DIR, T_FILE, T_DEV
          NINODE,
          MaxLink,  \* bound: names of one inode
          NoInode

T_DIR == "dir"
SFS_INODE == 1
FAT_INODE == 2
NoType == "free"   \* the type of a free inode, and the in_ops of an entry never used
Entry == 1..NINODE

ASSUME CacheAssumption ==
  /\ NINODE \in Nat \ {0} /\ MaxLink \in Nat \ {0}
  /\ NoInode \notin Inode
  /\ Root \in Inode /\ T_DIR \in Type /\ NoType \notin Type
  /\ IsFiniteSet(Proc)

VARIABLES inum, ref, busy, valid, type, nlink,  \* struct sfs_inode, per entry
          fstype, in_ops,                       \* struct inode, per entry
          dtype, dlink,                         \* the inodes on the disk
          names,                                \* directory entries of an inode
          pc, ip, want,                         \* per process: place, entry, argument of iget
          making,                               \* processes whose new inode has no name yet
          fat,                                  \* entries that hold an inode of the FAT volume
          raced                                 \* history: sfs_iget has missed an entry being set up

entries == <<inum, ref, busy, valid, type, nlink, fstype, in_ops>>
disk == <<dtype, dlink, names>>
others == <<fat, raced>>
vars == <<entries, disk, pc, ip, want, making, others>>

Place == {"idle", "alloc", "fill", "filled", "init", "typed", "held", "locked", "trunc", "freed",
          "panic", "noinodes"}

TableOK ==
  /\ inum \in [Entry -> Inode \cup {NoInode}] /\ ref \in [Entry -> Nat]
  /\ busy \in [Entry -> {0, 1}] /\ valid \in [Entry -> {0, 1}]
  /\ type \in [Entry -> Type \cup {NoType}] /\ in_ops \in [Entry -> Type \cup {NoType}]
  /\ nlink \in [Entry -> 0..MaxLink]
  /\ fstype \in [Entry -> {0, SFS_INODE, FAT_INODE}]
  /\ dtype \in [Inode -> Type \cup {NoType}]
  /\ dlink \in [Inode -> 0..MaxLink] /\ names \in [Inode -> 0..MaxLink]
  /\ pc \in [Proc -> Place]
  /\ ip \in [Proc -> Entry \cup {0}]
  /\ want \in [Proc -> Inode \cup {NoInode}]
  /\ making \in SUBSET Proc

TypeOK == TableOK /\ fat \in SUBSET Entry /\ raced \in BOOLEAN

\* Some inodes have a name, the others are free.  The table is that of a program
\* just loaded: no entry is in use or has ever been.
Init ==
  /\ inum = [e \in Entry |-> NoInode] /\ ref = [e \in Entry |-> 0]
  /\ busy = [e \in Entry |-> 0] /\ valid = [e \in Entry |-> 0]
  /\ fstype = [e \in Entry |-> 0]
  /\ type = [e \in Entry |-> NoType] /\ in_ops = type
  /\ nlink = [e \in Entry |-> 0]
  /\ dtype \in [Inode -> Type \cup {NoType}] /\ dtype[Root] = T_DIR
  /\ dlink \in [Inode -> 0..MaxLink] /\ \A i \in Inode : dlink[i] = 0 <=> dtype[i] = NoType
  /\ names = dlink
  /\ pc = [p \in Proc |-> "idle"]
  /\ ip = [p \in Proc |-> 0]
  /\ want = [p \in Proc |-> NoInode]
  /\ making = {}
  /\ fat = {} /\ raced = FALSE

Goto(p, l) == pc' = [pc EXCEPT ![p] = l]

\* Names that a process has found in a directory that it still has locked.
Found(i) == {p \in Proc : want[p] = i /\ pc[p] \in {"fill", "filled", "init"}}

(***************************************************************************)
(* sfs_iget and sfs_ialloc                                                 *)
(***************************************************************************)
Cached(i) == {e \in Entry : fstype[e] = SFS_INODE /\ ref[e] > 0 /\ inum[e] = i}

\* Mutant: the first entry is recycled.
Empty_Any == Entry

Empty == {e \in Entry : ref[e] = 0 /\ e \notin fat}

IsFirst(e, S) == \A f \in S : e <= f

Recycled(e) == [valid EXCEPT ![e] = 0]

\* Processes between the release of icache.lock and vop_init, with an entry for i
\* that does not have the fstype of SFS yet.
Window == {"fill", "filled", "init", "typed"}
Opening(i) ==
  {q \in Proc : pc[q] \in Window /\ want[q] = i /\ fstype[ip[q]] # SFS_INODE}

\* The hold of icache.lock in sfs_iget: a cached entry, or the first empty one,
\* which has still to be filled (l says how; with a type, that is set at once).
iget(p, i, l, t) ==
  \/ \E e \in Cached(i) :
       /\ IsFirst(e, Cached(i))
       /\ ref' = [ref EXCEPT ![e] = @ + 1]
       /\ ip' = [ip EXCEPT ![p] = e]
       /\ want' = [want EXCEPT ![p] = NoInode]
       /\ Goto(p, "held")
       /\ UNCHANGED <<inum, busy, valid, type, raced>>
  \/ /\ Cached(i) = {}
     /\ \E e \in Empty :
          /\ IsFirst(e, Empty)
          /\ inum' = [inum EXCEPT ![e] = i]
          /\ ref' = [ref EXCEPT ![e] = 1]
          /\ busy' = [busy EXCEPT ![e] = 0] /\ valid' = Recycled(e)
          /\ type' = IF l = "typed" THEN [type EXCEPT ![e] = t] ELSE type
          /\ ip' = [ip EXCEPT ![p] = e]
          /\ want' = [want EXCEPT ![p] = i]
          /\ raced' = (raced \/ Opening(i) # {})
          /\ Goto(p, l)
  \/ /\ Cached(i) = {} /\ Empty = {}
     /\ Goto(p, "noinodes")
     /\ UNCHANGED <<inum, ref, busy, valid, type, ip, want, raced>>

\* A name has been found, in a directory in which no other process looks:
\* sfs_iget(dev, inum, 0).
dirlookup(p, i) ==
  /\ pc[p] = "idle" /\ Cardinality(Found(i)) < names[i]
  /\ iget(p, i, "fill", NoType)
  /\ UNCHANGED <<nlink, fstype, in_ops, disk, making, fat>>

\* sfs_iget without a type: lock, read, unlock, and only then set in_ops.
FillLock(p) ==
  /\ pc[p] = "fill" /\ busy[ip[p]] = 0
  /\ busy' = [busy EXCEPT ![ip[p]] = 1]
  /\ Goto(p, "filled")
  /\ UNCHANGED <<inum, ref, valid, type, nlink, fstype, in_ops, disk, ip, want, making, others>>

FillUnlock(p) ==
  /\ pc[p] = "filled"
  /\ LET e == ip[p]
         i == inum[e]
     IN  /\ type' = [type EXCEPT ![e] = IF valid[e] = 1 THEN @ ELSE dtype[i]]
         /\ nlink' = [nlink EXCEPT ![e] = IF valid[e] = 1 THEN @ ELSE dlink[i]]
         /\ valid' = [valid EXCEPT ![e] = 1]
         /\ IF valid[e] = 0 /\ type'[e] = NoType
            THEN Goto(p, "panic") /\ UNCHANGED busy
            ELSE Goto(p, "init") /\ busy' = [busy EXCEPT ![e] = 0]
  /\ UNCHANGED <<inum, ref, fstype, in_ops, disk, ip, want, making, others>>

\* vop_init
inode_init(p) ==
  /\ pc[p] \in {"init", "typed"}
  /\ in_ops' = [in_ops EXCEPT ![ip[p]] = type[ip[p]]]
  /\ fstype' = [fstype EXCEPT ![ip[p]] = SFS_INODE]
  /\ want' = [want EXCEPT ![p] = NoInode]
  /\ Goto(p, "held")
  /\ UNCHANGED <<inum, ref, busy, valid, type, nlink, disk, ip, making, others>>

\* sfs_iget with a type: it is set without reading the disk.
igetTyped(p, i, t) ==
  /\ iget(p, i, "typed", t)
  /\ UNCHANGED <<nlink, fstype, in_ops, disk, making, fat>>

sfs_get_root(p) == pc[p] = "idle" /\ igetTyped(p, Root, T_DIR)

\* sfs_ialloc: a free inode gets a type on the disk, and then an entry.
ialloc(p, i, t) ==
  /\ pc[p] = "idle" /\ dtype[i] = NoType
  /\ dtype' = [dtype EXCEPT ![i] = t] /\ dlink' = [dlink EXCEPT ![i] = 0]
  /\ want' = [want EXCEPT ![p] = i]
  /\ Goto(p, "alloc")
  /\ making' = making \cup {p}
  /\ UNCHANGED <<entries, names, ip, others>>

iallocGet(p) == pc[p] = "alloc" /\ igetTyped(p, want[p], dtype[want[p]])

(***************************************************************************)
(* References and locks.                                                   *)
(***************************************************************************)
\* fork: the child shares a reference of its parent.
idup(p, q) ==
  /\ pc[p] \in {"held", "locked"} /\ p \notin making /\ pc[q] = "idle"
  /\ ref' = [ref EXCEPT ![ip[p]] = @ + 1]
  /\ ip' = [ip EXCEPT ![q] = ip[p]]
  /\ Goto(q, "held")
  /\ UNCHANGED <<inum, busy, valid, type, nlink, fstype, in_ops, disk, want, making, others>>

\* sfs_ilock waits while I_BUSY is set; every step that clears it calls
\* wakeup(ip).
ilock(p) ==
  /\ pc[p] = "held" /\ busy[ip[p]] = 0
  /\ LET e == ip[p]
         i == inum[e]
     IN  /\ busy' = [busy EXCEPT ![e] = 1]
         /\ type' = [type EXCEPT ![e] = IF valid[e] = 1 THEN @ ELSE dtype[i]]
         /\ nlink' = [nlink EXCEPT ![e] = IF valid[e] = 1 THEN @ ELSE dlink[i]]
         /\ valid' = [valid EXCEPT ![e] = 1]
         /\ Goto(p, IF valid[e] = 0 /\ type'[e] = NoType THEN "panic" ELSE "locked")
  /\ UNCHANGED <<inum, ref, fstype, in_ops, disk, ip, want, making, others>>

iunlock(p) ==
  /\ pc[p] = "locked" /\ p \notin making
  /\ busy' = [busy EXCEPT ![ip[p]] = 0]
  /\ Goto(p, "held")
  /\ UNCHANGED <<inum, ref, valid, type, nlink, fstype, in_ops, disk, ip, want, making, others>>

\* nlink++, sfs_iupdate and sfs_dirlink: sys_link, and in sfs_create_inode the
\* first name of a new inode.
link(p) ==
  /\ pc[p] = "locked"
  /\ LET e == ip[p]
         i == inum[e]
     IN  /\ nlink[e] < MaxLink
         /\ nlink' = [nlink EXCEPT ![e] = @ + 1]
         /\ dlink' = [dlink EXCEPT ![i] = nlink'[e]]
         /\ names' = [names EXCEPT ![i] = @ + 1]
  /\ making' = making \ {p}
  /\ UNCHANGED <<inum, ref, busy, valid, type, fstype, in_ops, dtype, pc, ip, want, others>>

\* sfs_unlink: a name is erased, nlink-- and sfs_iupdate.
unlink(p) ==
  /\ pc[p] = "locked" /\ p \notin making
  /\ LET e == ip[p]
         i == inum[e]
     IN  /\ i # Root /\ Cardinality(Found(i)) < names[i]
         /\ nlink' = [nlink EXCEPT ![e] = @ - 1]
         /\ dlink' = [dlink EXCEPT ![i] = nlink'[e]]
         /\ names' = [names EXCEPT ![i] = @ - 1]
  /\ UNCHANGED <<inum, ref, busy, valid, type, fstype, in_ops, dtype, pc, ip, want, making, others>>

\* Mutant: the count of references is not looked at.
LastUse_AnyRef(e) == valid[e] = 1 /\ nlink[e] = 0

\* The test of sfs_iput under icache.lock.
LastUse(e) == ref[e] = 1 /\ valid[e] = 1 /\ nlink[e] = 0

iput(p) ==
  /\ pc[p] = "held" /\ p \notin making
  /\ IF LastUse(ip[p])
     THEN /\ Goto(p, IF busy[ip[p]] = 1 THEN "panic" ELSE "trunc")
          /\ busy' = [busy EXCEPT ![ip[p]] = 1]
          /\ UNCHANGED <<ref, ip>>
     ELSE /\ ref' = [ref EXCEPT ![ip[p]] = @ - 1]
          /\ ip' = [ip EXCEPT ![p] = 0]
          /\ Goto(p, "idle")
          /\ UNCHANGED busy
  /\ UNCHANGED <<inum, valid, type, nlink, fstype, in_ops, disk, want, making, others>>

\* sfs_itrunc, type = 0 and sfs_iupdate: the inode is free on the disk.
IputFree(p) ==
  /\ pc[p] = "trunc"
  /\ type' = [type EXCEPT ![ip[p]] = NoType]
  /\ dtype' = [dtype EXCEPT ![inum[ip[p]]] = NoType]
  /\ Goto(p, "freed")
  /\ UNCHANGED <<inum, ref, busy, valid, nlink, fstype, in_ops, dlink, names, ip, want, making, others>>

\* icache.lock again: flags = 0 and ref--.
IputDone(p) ==
  /\ pc[p] = "freed"
  /\ busy' = [busy EXCEPT ![ip[p]] = 0] /\ valid' = [valid EXCEPT ![ip[p]] = 0]
  /\ ref' = [ref EXCEPT ![ip[p]] = @ - 1]
  /\ ip' = [ip EXCEPT ![p] = 0]
  /\ Goto(p, "idle")
  /\ UNCHANGED <<inum, type, nlink, fstype, in_ops, disk, want, making, others>>

(***************************************************************************)
(* fat_iget, up to its vop_init, and fat_iput: what they do to the table.  *)
(* The other fields that they leave are set before sfs_iget reads them.    *)
(***************************************************************************)
fat_iget(e) ==
  /\ e \in Empty /\ IsFirst(e, Empty)
  /\ fat' = fat \cup {e}
  /\ inum' = [inum EXCEPT ![e] = NoInode]
  /\ fstype' = [fstype EXCEPT ![e] = FAT_INODE]
  /\ UNCHANGED <<ref, busy, valid, type, nlink, in_ops, disk, pc, ip, want, making, raced>>

fat_iput(e) ==
  /\ e \in fat
  /\ fat' = fat \ {e}
  /\ UNCHANGED <<entries, disk, pc, ip, want, making, raced>>

Next ==
  \/ \E p \in Proc :
       \/ \E i \in Inode : dirlookup(p, i) \/ \E t \in Type : ialloc(p, i, t)
       \/ FillLock(p) \/ FillUnlock(p) \/ inode_init(p) \/ sfs_get_root(p) \/ iallocGet(p)
       \/ \E q \in Proc : idup(p, q)
       \/ ilock(p) \/ iunlock(p) \/ link(p) \/ unlink(p)
       \/ iput(p) \/ IputFree(p) \/ IputDone(p)
  \/ \E e \in Entry : fat_iget(e) \/ fat_iput(e)

Spec == Init /\ [][Next]_vars

(***************************************************************************)
(* Properties.                                                             *)
(***************************************************************************)
Holders(e) == {p \in Proc : ip[p] = e}

(* An inode has one entry, whose ref is the number of pointers to it; an   *)
(* entry that is valid and unlocked agrees with the disk and with the      *)
(* directories; sfs_ilock and sfs_iput meet no inode that is free or busy. *)
CacheInv ==
  /\ TypeOK
  /\ \A e \in Entry :
       /\ ref[e] = Cardinality(Holders(e))
       /\ \A f \in Entry : ref[e] > 0 /\ ref[f] > 0 /\ inum[e] = inum[f] => e = f
       /\ ref[e] > 0 /\ busy[e] = 0 /\ valid[e] = 1 =>
            type[e] = dtype[inum[e]] /\ nlink[e] = dlink[inum[e]]
  /\ \A i \in Inode : dlink[i] = names[i]
  /\ \A p \in Proc : pc[p] # "panic"

\* p has locked its entry.
Locks(p) == pc[p] \in {"filled", "locked", "trunc", "freed"}

(* The lock of an entry is the lock of the inode: two processes never      *)
(* have the same inode locked.  The table is there to synchronise access   *)
(* to inodes that are used by more than one process.                       *)
LockExcludes ==
  \A p, q \in Proc :
    Locks(p) /\ Locks(q) /\ inum[ip[p]] = inum[ip[q]] => p = q

(* sfs_iget and sfs_iput keep the table exact under every interleaving:    *)
(* one entry per inode, true counts, and a lock that excludes, in a table  *)
(* that is cold at boot and that FAT recycles.  The one way to break it is *)
(* the window between the release of icache.lock and vop_init.             *)
EntriesExact == ~raced => CacheInv /\ LockExcludes

\* p has a reference to the inode, or has just allocated it.
Uses(p, i) ==
  \/ ip[p] # 0 /\ inum[ip[p]] = i /\ pc[p] # "freed"
  \/ pc[p] \in {"alloc", "noinodes"} /\ want[p] = i

\* An inode with a name or a user has a type, one with neither has none.
Freed == \A i \in Inode : dtype[i] # NoType <=> names[i] > 0 \/ \E p \in Proc : Uses(p, i)

(* sfs_iput frees an inode with its last name and its last reference,      *)
(* neither earlier nor never, as long as the window has not given the      *)
(* inode a second entry, whose references sfs_iput does not see.           *)
FreedAtLastUse == ~raced => Freed

(***************************************************************************)
(* The inductive strengthening.                                            *)
(***************************************************************************)
\* Where a process is says whether it has an entry, and what it wants.
PlaceInv ==
  \A p \in Proc :
    /\ pc[p] # "panic"
    /\ ip[p] = 0 <=> pc[p] \in {"idle", "alloc", "noinodes"}
    /\ pc[p] \in {"idle", "held", "locked", "trunc", "freed"} => want[p] = NoInode
    /\ pc[p] \in {"fill", "filled", "init", "typed"} => want[p] = inum[ip[p]]
    /\ pc[p] = "alloc" => want[p] \in Inode /\ p \in making
    /\ pc[p] = "noinodes" => (want[p] \in Inode <=> p \in making)
    /\ pc[p] = "typed" /\ p \notin making => want[p] = Root
    /\ p \in making => pc[p] \in {"alloc", "typed", "held", "locked", "noinodes"}

\* The table counts its users and has one entry for an inode.
RefInv ==
  \A e \in Entry :
    /\ ref[e] = Cardinality(Holders(e))
    /\ ref[e] > 0 => inum[e] \in Inode
    /\ \A f \in Entry : ref[e] > 0 /\ ref[f] > 0 /\ inum[e] = inum[f] => e = f

\* An entry in use without the fstype of SFS is about to get it.
ColdInv ==
  \A e \in Entry : ref[e] > 0 /\ fstype[e] # SFS_INODE => \E p \in Proc : ip[p] = e /\ pc[p] \in Window

\* I_BUSY names one process.
BusyInv ==
  /\ \A e \in Entry : busy[e] = 1 => \E p \in Proc : ip[p] = e /\ Locks(p)
  /\ \A p \in Proc : Locks(p) => busy[ip[p]] = 1
  /\ \A p, q \in Proc : Locks(p) /\ Locks(q) /\ ip[p] = ip[q] => p = q

\* An entry with I_VALID agrees with the disk, but for the type of an inode
\* that sfs_iput has just freed; one without has a name, or is that of a new
\* inode.
ValidInv ==
  \A e \in Entry :
    /\ ref[e] > 0 /\ valid[e] = 1 =>
         /\ nlink[e] = dlink[inum[e]]
         /\ type[e] = dtype[inum[e]] \/ \E p \in Proc : ip[p] = e /\ pc[p] = "freed"
    /\ ref[e] > 0 /\ valid[e] = 0 =>
         names[inum[e]] > 0 \/ \E p \in making : ip[p] = e

\* sfs_iput between its two holds of icache.lock: nobody can find the entry,
\* until sfs_ialloc takes the inode again.
PutInv ==
  \A p \in Proc :
    /\ pc[p] = "locked" => valid[ip[p]] = 1
    /\ pc[p] \in {"trunc", "freed"} =>
         valid[ip[p]] = 1 /\ nlink[ip[p]] = 0 /\ names[inum[ip[p]]] = 0
    /\ pc[p] \in {"trunc", "freed"} =>
         \A q \in Proc \ {p} :
           ip[q] = ip[p] => pc[p] = "freed" /\ q \in making /\ pc[q] = "held"

\* The inode that sfs_ialloc has found is its own until it has a name.
MakeInv ==
  \A p \in making, i \in Inode :
    Uses(p, i) => names[i] = 0 /\ \A q \in Proc : Uses(q, i) => q = p

\* A directory that is locked keeps the names found in it.
NameInv ==
  /\ names[Root] > 0
  /\ \A i \in Inode : dlink[i] = names[i] /\ Cardinality(Found(i)) <= names[i]

EntryInv ==
  /\ fat \in SUBSET Entry /\ raced \in BOOLEAN
  /\ ~raced => /\ TableOK /\ PlaceInv /\ RefInv /\ ColdInv /\ BusyInv /\ ValidInv /\ PutInv
               /\ MakeInv /\ NameInv /\ Freed
=============================================================================
