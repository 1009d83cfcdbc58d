-------------------------- MODULE InodeCacheProofs --------------------------
(***************************************************************************)
(* Proofs about the inode cache, for any number of processes, inodes,      *)
(* entries and names.                                                      *)
(***************************************************************************)
EXTENDS InodeCache, FiniteSetTheorems, TLAPS

(* Two facts of arithmetic.                                                *)
LEMMA SmallNumbers == 0 # 1 /\ ~(0 > 0)
OBVIOUS

(***************************************************************************)
(* What the counts say: ref counts the processes with a pointer to the     *)
(* entry, so that an entry without references has no user, the last user   *)
(* is alone, and another has company.                                      *)
(***************************************************************************)
HolderFacts ==
  /\ \A e \in Entry : ref[e] > 0 <=> \E p \in Proc : ip[p] = e
  /\ \A e \in Entry : ref[e] = 0 <=> \A p \in Proc : ip[p] # e
  /\ \A p, q \in Proc : ip[p] # 0 /\ ref[ip[p]] = 1 /\ ip[q] = ip[p] => q = p
  /\ \A p \in Proc : ip[p] # 0 /\ ref[ip[p]] # 1 => \E q \in Proc \ {p} : ip[q] = ip[p]
  /\ \A p \in Proc : ip[p] # 0 => ip[p] \in Entry /\ ref[ip[p]] > 0 /\ inum[ip[p]] \in Inode
  /\ \A p, q \in Proc : ip[p] # 0 /\ ip[q] # 0 /\ inum[ip[p]] = inum[ip[q]] => ip[p] = ip[q]
  /\ \A i \in Inode : Cardinality(Found(i)) \in Nat
  /\ 0 \notin Entry

(***************************************************************************)
(* The actions with several outcomes, for each of them.                    *)
(***************************************************************************)
\* sfs_iget finds the inode in the table.
HitAt(p, i, e) ==
  /\ pc[p] \in {"idle", "alloc"} /\ ref[e] > 0 /\ inum[e] = i
  /\ pc[p] = "idle" => names[i] > 0
  /\ pc[p] = "alloc" => i = want[p]
  /\ ref' = [ref EXCEPT ![e] = @ + 1] /\ ip' = [ip EXCEPT ![p] = e]
  /\ want' = [want EXCEPT ![p] = NoInode] /\ pc' = [pc EXCEPT ![p] = "held"]
  /\ UNCHANGED <<inum, busy, valid, type, nlink, fstype, in_ops, dtype, dlink, names, making>>

\* sfs_iget takes an entry that nobody uses.
RecycleAt(p, i, e, l) ==
  /\ ref[e] = 0 /\ \A f \in Entry : ref[f] > 0 => inum[f] # i
  /\ \/ pc[p] = "idle" /\ l = "fill" /\ Cardinality(Found(i)) < names[i]
     \/ pc[p] = "idle" /\ l = "typed" /\ i = Root
     \/ pc[p] = "alloc" /\ l = "typed" /\ i = want[p]
  /\ inum' = [inum EXCEPT ![e] = i] /\ ref' = [ref EXCEPT ![e] = 1]
  /\ busy' = [busy EXCEPT ![e] = 0] /\ valid' = [valid EXCEPT ![e] = 0]
  /\ ip' = [ip EXCEPT ![p] = e] /\ want' = [want EXCEPT ![p] = i]
  /\ pc' = [pc EXCEPT ![p] = l]
  /\ \E t \in Type \cup {NoType} : type' = [type EXCEPT ![e] = t]
  /\ UNCHANGED <<nlink, fstype, in_ops, dtype, dlink, names, making>>

\* sfs_iget finds no entry.
FullAt(p) ==
  /\ pc[p] \in {"idle", "alloc"} /\ pc' = [pc EXCEPT ![p] = "noinodes"]
  /\ UNCHANGED <<inum, ref, busy, valid, type, nlink, fstype, in_ops, dtype, dlink, names, ip,
                 want, making>>

\* sfs_ilock or sfs_iget has the inode in its entry.
Fetched(p) ==
  LET e == ip[p]
      i == inum[e]
  IN  /\ type' = [type EXCEPT ![e] = IF valid[e] = 1 THEN @ ELSE dtype[i]]
      /\ nlink' = [nlink EXCEPT ![e] = IF valid[e] = 1 THEN @ ELSE dlink[i]]
      /\ valid' = [valid EXCEPT ![e] = 1]
      /\ UNCHANGED <<inum, ref, fstype, in_ops, dtype, dlink, names, ip, want, making>>

FilledAt(p) ==
  /\ pc[p] = "filled" /\ pc' = [pc EXCEPT ![p] = "init"]
  /\ busy' = [busy EXCEPT ![ip[p]] = 0] /\ Fetched(p)

LockAt(p) ==
  /\ pc[p] = "held" /\ busy[ip[p]] = 0 /\ pc' = [pc EXCEPT ![p] = "locked"]
  /\ busy' = [busy EXCEPT ![ip[p]] = 1] /\ Fetched(p)

\* sfs_iput with the last reference to an inode without a name.
LastAt(p) ==
  /\ pc[p] = "held" /\ p \notin making /\ LastUse(ip[p]) /\ busy[ip[p]] = 0
  /\ pc' = [pc EXCEPT ![p] = "trunc"] /\ busy' = [busy EXCEPT ![ip[p]] = 1]
  /\ UNCHANGED <<inum, ref, valid, type, nlink, fstype, in_ops, dtype, dlink, names, ip, want,
                 making>>

\* sfs_iput otherwise.
PutAt(p) ==
  /\ pc[p] = "held" /\ p \notin making /\ ~LastUse(ip[p])
  /\ pc' = [pc EXCEPT ![p] = "idle"] /\ ip' = [ip EXCEPT ![p] = 0]
  /\ ref' = [ref EXCEPT ![ip[p]] = @ - 1]
  /\ UNCHANGED <<inum, busy, valid, type, nlink, fstype, in_ops, dtype, dlink, names, want,
                 making>>

CacheStep ==
  \/ \E p \in Proc, i \in Inode, e \in Entry :
       HitAt(p, i, e) \/ \E l \in {"fill", "typed"} : RecycleAt(p, i, e, l)
  \/ \E p \in Proc, i \in Inode, t \in Type : ialloc(p, i, t)
  \/ \E p, q \in Proc : idup(p, q)
  \/ \E p \in Proc :
       \/ FullAt(p) \/ FillLock(p) \/ FilledAt(p) \/ inode_init(p) \/ LockAt(p) \/ iunlock(p)
       \/ link(p) \/ unlink(p) \/ LastAt(p) \/ PutAt(p) \/ IputFree(p) \/ IputDone(p)

(* sfs_iget finds the entry, takes an empty one, or has none.              *)
LEMMA GetEffect ==
  ASSUME TableOK, PlaceInv, ColdInv, ~raced',
         NEW p \in Proc, NEW i \in Inode, NEW l \in {"fill", "typed"}, NEW t,
         \/ pc[p] = "idle" /\ l = "fill" /\ Cardinality(Found(i)) < names[i]
         \/ pc[p] = "idle" /\ l = "typed" /\ i = Root
         \/ pc[p] = "alloc" /\ l = "typed" /\ i = want[p],
         pc[p] = "idle" => names[i] > 0, l = "typed" => t \in Type \cup {NoType},
         iget(p, i, l, t), UNCHANGED <<nlink, fstype, in_ops, dtype, dlink, names, making>>
  PROVE  CacheStep
<1>1. CASE \E e \in Entry : HitAt(p, i, e)
  BY Zenon, <1>1 DEF CacheStep
<1>2. CASE \E e \in Entry : RecycleAt(p, i, e, l)
  BY Zenon, <1>2 DEF CacheStep
<1>3. CASE FullAt(p)
  BY Zenon, <1>3 DEF CacheStep
<1>4. ASSUME NEW e \in Cached(i), ref' = [ref EXCEPT ![e] = @ + 1], ip' = [ip EXCEPT ![p] = e],
             want' = [want EXCEPT ![p] = NoInode], Goto(p, "held"),
             UNCHANGED <<inum, busy, valid, type>>
      PROVE  e \in Entry /\ HitAt(p, i, e)
  BY <1>4 DEF HitAt, Cached, Goto
<1>5. ASSUME Cached(i) = {}, NEW e \in Empty, inum' = [inum EXCEPT ![e] = i],
             ref' = [ref EXCEPT ![e] = 1], busy' = [busy EXCEPT ![e] = 0], valid' = Recycled(e),
             type' = IF l = "typed" THEN [type EXCEPT ![e] = t] ELSE type,
             ip' = [ip EXCEPT ![p] = e], want' = [want EXCEPT ![p] = i], Goto(p, l),
             raced' = (raced \/ Opening(i) # {})
      PROVE  e \in Entry /\ RecycleAt(p, i, e, l)
  <2>1. e \in Entry /\ ref[e] = 0
    BY DEF Empty
  <2>2. ASSUME NEW f \in Entry, ref[f] > 0, inum[f] = i PROVE FALSE
    <3>1. fstype[f] # SFS_INODE
      BY Zenon, <1>5, <2>2 DEF Cached
    <3>2. PICK q \in Proc : ip[q] = f /\ pc[q] \in Window
      BY Zenon, <2>2, <3>1 DEF ColdInv
    <3>3. want[q] = i
      BY Zenon, <2>2, <3>2 DEF PlaceInv, Window
    <3>4. q \in Opening(i)
      BY Zenon, <3>1, <3>2, <3>3 DEF Opening
    <3> QED
      BY Zenon, <1>5, <3>4
  <2>3. \E u \in Type \cup {NoType} : type' = [type EXCEPT ![e] = u]
    <3>1. type[e] \in Type \cup {NoType} /\ type = [type EXCEPT ![e] = type[e]]
      BY <2>1 DEF TableOK
    <3> QED
      BY <1>5, <3>1
  <2> QED
    BY Zenon, <1>5, <2>1, <2>2, <2>3 DEF RecycleAt, Goto, Recycled
<1>6. ASSUME Goto(p, "noinodes"), UNCHANGED <<inum, ref, busy, valid, type, ip, want>>
      PROVE  FullAt(p)
  BY <1>6 DEF FullAt, Goto
<1> QED
  BY <1>1, <1>2, <1>3, <1>4, <1>5, <1>6 DEF iget

(* A locked entry has the link count of the disk and of the directories.   *)
LEMMA LockedFacts ==
  ASSUME TableOK, HolderFacts, PlaceInv, RefInv, ValidInv, PutInv, NameInv, NEW p \in Proc,
         pc[p] = "locked"
  PROVE  /\ ip[p] \in Entry /\ inum[ip[p]] \in Inode /\ valid[ip[p]] = 1
         /\ nlink[ip[p]] = names[inum[ip[p]]] /\ dlink[inum[ip[p]]] = names[inum[ip[p]]]
         /\ unlink(p) => names[inum[ip[p]]] > 0
<1>1. ip[p] \in Entry /\ inum[ip[p]] \in Inode /\ ref[ip[p]] > 0
  BY DEF HolderFacts, PlaceInv
<1>2. valid[ip[p]] = 1
  BY DEF PutInv
<1>3. nlink[ip[p]] = dlink[inum[ip[p]]]
  BY <1>1, <1>2 DEF ValidInv
<1>4. dlink[inum[ip[p]]] = names[inum[ip[p]]]
  BY <1>1 DEF NameInv
<1>5. ASSUME unlink(p) PROVE names[inum[ip[p]]] > 0
  BY <1>1, <1>5 DEF HolderFacts, unlink, TableOK
<1> QED
  BY <1>1, <1>2, <1>3, <1>4, <1>5

(* What a step does, for every outcome of it.                              *)
LEMMA NextCases ==
  ASSUME TableOK, HolderFacts, PlaceInv, RefInv, ColdInv, BusyInv, NameInv, Freed, Next, ~raced'
  PROVE  CacheStep \/ \E e \in Entry : fat_iget(e) \/ fat_iput(e)
<1>1. ASSUME NEW p \in Proc, NEW i \in Inode, dirlookup(p, i) PROVE CacheStep
  <2>1. /\ pc[p] = "idle" /\ Cardinality(Found(i)) < names[i] /\ iget(p, i, "fill", NoType)
        /\ UNCHANGED <<nlink, fstype, in_ops, dtype, dlink, names, making>>
    BY Zenon, <1>1 DEF dirlookup, disk
  <2>2. names[i] > 0
    BY <2>1 DEF HolderFacts, TableOK
  <2> QED
    BY <2>1, <2>2, GetEffect
<1>2. ASSUME NEW p \in Proc, sfs_get_root(p) PROVE CacheStep
  <2>1. /\ pc[p] = "idle" /\ iget(p, Root, "typed", T_DIR) /\ Root \in Inode /\ names[Root] > 0
        /\ UNCHANGED <<nlink, fstype, in_ops, dtype, dlink, names, making>>
        /\ T_DIR \in Type \cup {NoType}
    BY Zenon, <1>2, CacheAssumption DEF sfs_get_root, igetTyped, disk, NameInv
  <2> QED
    BY <2>1, GetEffect
<1>3. ASSUME NEW p \in Proc, iallocGet(p) PROVE CacheStep
  <2>1. /\ pc[p] = "alloc" /\ iget(p, want[p], "typed", dtype[want[p]])
        /\ UNCHANGED <<nlink, fstype, in_ops, dtype, dlink, names, making>>
    BY Zenon, <1>3 DEF iallocGet, igetTyped, disk
  <2>2. want[p] \in Inode /\ dtype[want[p]] \in Type \cup {NoType}
    BY <2>1 DEF PlaceInv, TableOK
  <2> QED
    BY <2>1, <2>2, GetEffect
<1>4. ASSUME NEW p \in Proc, FillUnlock(p) PROVE FilledAt(p)
  <2>1. pc[p] = "filled" /\ ip[p] # 0 /\ want[p] = inum[ip[p]]
    BY <1>4 DEF FillUnlock, PlaceInv
  <2>2. ip[p] \in Entry /\ inum[ip[p]] \in Inode
    BY <2>1 DEF HolderFacts
  <2>3. dtype[inum[ip[p]]] # NoType
    BY <2>1, <2>2 DEF Freed, Uses
  <2>4. ~(valid[ip[p]] = 0 /\ type'[ip[p]] = NoType)
    BY <1>4, <2>2, <2>3 DEF FillUnlock, TableOK
  <2> QED
    BY <1>4, <2>4 DEF FillUnlock, FilledAt, Fetched, Goto, disk
<1>5. ASSUME NEW p \in Proc, ilock(p) PROVE LockAt(p)
  <2>1. pc[p] = "held" /\ ip[p] # 0
    BY <1>5 DEF ilock, PlaceInv
  <2>2. ip[p] \in Entry /\ inum[ip[p]] \in Inode
    BY <2>1 DEF HolderFacts
  <2>3. dtype[inum[ip[p]]] # NoType
    BY <2>1, <2>2 DEF Freed, Uses
  <2>4. ~(valid[ip[p]] = 0 /\ type'[ip[p]] = NoType)
    BY <1>5, <2>2, <2>3 DEF ilock, TableOK
  <2> QED
    BY Zenon, <1>5, <2>4 DEF ilock, LockAt, Fetched, Goto, disk
<1>6. ASSUME NEW p \in Proc, iput(p) PROVE LastAt(p) \/ PutAt(p)
  <2>1. pc[p] = "held" /\ ip[p] # 0
    BY <1>6 DEF iput, PlaceInv
  <2>2. ip[p] \in Entry /\ busy[ip[p]] \in {0, 1}
    BY <2>1 DEF HolderFacts, TableOK
  <2>3. ASSUME LastUse(ip[p]), busy[ip[p]] = 1 PROVE FALSE
    <3>1. PICK q \in Proc : ip[q] = ip[p] /\ Locks(q)
      BY <2>2, <2>3 DEF BusyInv
    <3>2. q = p
      BY <2>1, <2>3, <3>1 DEF HolderFacts, LastUse
    <3> QED
      BY <2>1, <3>1, <3>2 DEF Locks
  <2>4. CASE LastUse(ip[p])
    <3>1. busy[ip[p]] = 0
      BY <2>2, <2>3, <2>4
    <3> QED
      BY <1>6, <2>4, <3>1 DEF iput, LastAt, Goto, disk
  <2>5. CASE ~LastUse(ip[p])
    BY <1>6, <2>5 DEF iput, PutAt, Goto, disk
  <2> QED
    BY <2>4, <2>5
<1> QED
  BY Zenon, <1>1, <1>2, <1>3, <1>4, <1>5, <1>6 DEF Next, CacheStep

(* Every variable keeps its type. *)
LEMMA TypeStep ==
  ASSUME TableOK, HolderFacts, PlaceInv, RefInv, BusyInv, ValidInv, PutInv, MakeInv, NameInv,
         Freed, CacheStep \/ UNCHANGED vars
  PROVE  TableOK'
<1> USE CacheAssumption
<1>1. ASSUME NEW p \in Proc, NEW i \in Inode, NEW e \in Entry, HitAt(p, i, e)
      PROVE  TableOK'
  <2>1. ref' \in [Entry -> Nat]
    BY <1>1, CacheAssumption DEF HitAt, TableOK
  <2>2. ip' \in [Proc -> Entry \cup {0}]
    BY <1>1, CacheAssumption DEF HitAt, TableOK
  <2>3. want' \in [Proc -> Inode \cup {NoInode}]
    BY <1>1, CacheAssumption DEF HitAt, TableOK
  <2>4. pc' \in [Proc -> Place]
    BY <1>1, CacheAssumption DEF HitAt, TableOK, Place
  <2>5. UNCHANGED <<inum, busy, valid, type, in_ops, nlink, fstype, dtype, dlink, names, making>>
    BY Zenon, <1>1 DEF HitAt
  <2> QED
    BY Zenon, <2>1, <2>2, <2>3, <2>4, <2>5 DEF TableOK
<1>2. ASSUME NEW p \in Proc, NEW i \in Inode, NEW e \in Entry,
             NEW l \in {"fill", "typed"}, RecycleAt(p, i, e, l)
      PROVE  TableOK'
  <2>1. inum' \in [Entry -> Inode \cup {NoInode}]
    BY <1>2, CacheAssumption DEF RecycleAt, TableOK
  <2>2. ref' \in [Entry -> Nat]
    BY Zenon, <1>2, CacheAssumption DEF RecycleAt, TableOK
  <2>3. busy' \in [Entry -> {0, 1}]
    BY <1>2, CacheAssumption DEF RecycleAt, TableOK
  <2>4. valid' \in [Entry -> {0, 1}]
    BY <1>2, CacheAssumption DEF RecycleAt, TableOK
  <2>5. ip' \in [Proc -> Entry \cup {0}]
    BY Zenon, <1>2, CacheAssumption DEF RecycleAt, TableOK
  <2>6. want' \in [Proc -> Inode \cup {NoInode}]
    BY <1>2, CacheAssumption DEF RecycleAt, TableOK
  <2>7. pc' \in [Proc -> Place]
    BY <1>2, CacheAssumption DEF RecycleAt, TableOK, Place
  <2>8. type' \in [Entry -> Type \cup {NoType}]
    BY Zenon, <1>2, CacheAssumption DEF RecycleAt, TableOK
  <2>9. UNCHANGED <<in_ops, nlink, fstype, dtype, dlink, names, making>>
    BY Zenon, <1>2 DEF RecycleAt
  <2> QED
    BY Zenon, <2>1, <2>2, <2>3, <2>4, <2>5, <2>6, <2>7, <2>8, <2>9 DEF TableOK
<1>3. ASSUME NEW p \in Proc, NEW i \in Inode, NEW t \in Type, ialloc(p, i, t)
      PROVE  TableOK'
  <2>1. dtype' \in [Inode -> Type \cup {NoType}]
    BY Zenon, <1>3, CacheAssumption DEF ialloc, Goto, entries, TableOK
  <2>2. dlink' \in [Inode -> 0..MaxLink]
    BY <1>3, CacheAssumption DEF ialloc, Goto, entries, TableOK
  <2>3. want' \in [Proc -> Inode \cup {NoInode}]
    BY <1>3, CacheAssumption DEF ialloc, Goto, entries, TableOK
  <2>4. pc' \in [Proc -> Place]
    BY <1>3, CacheAssumption DEF ialloc, Goto, entries, TableOK, Place
  <2>5. making' \in SUBSET Proc
    BY <1>3, CacheAssumption DEF ialloc, Goto, entries, TableOK
  <2>6. UNCHANGED <<inum, ref, busy, valid, type, in_ops, nlink, fstype, names, ip>>
    BY Zenon, <1>3 DEF ialloc, Goto, entries
  <2> QED
    BY Zenon, <2>1, <2>2, <2>3, <2>4, <2>5, <2>6 DEF TableOK
<1>4. ASSUME NEW p \in Proc, NEW q \in Proc, idup(p, q) PROVE TableOK'
  <2>0. ip[p] \in Entry /\ ref[ip[p]] > 0 /\ inum[ip[p]] \in Inode
    BY <1>4 DEF HolderFacts, idup, Goto, disk, PlaceInv
  <2>1. ref' \in [Entry -> Nat]
    BY <1>4, <2>0 DEF idup, Goto, disk, TableOK
  <2>2. ip' \in [Proc -> Entry \cup {0}]
    BY <1>4, <2>0 DEF idup, Goto, disk, TableOK
  <2>3. pc' \in [Proc -> Place]
    BY <1>4, <2>0 DEF idup, Goto, disk, TableOK, Place
  <2>4. UNCHANGED <<inum, busy, valid, type, in_ops, nlink, fstype, dtype, dlink, names, want,
                    making>>
    BY Zenon, <1>4 DEF idup, Goto, disk
  <2> QED
    BY Zenon, <2>1, <2>2, <2>3, <2>4 DEF TableOK
<1>5. ASSUME NEW p \in Proc, FullAt(p) PROVE TableOK'
  <2>1. pc' \in [Proc -> Place]
    BY <1>5, CacheAssumption DEF FullAt, TableOK, Place
  <2>2. UNCHANGED <<inum, ref, busy, valid, type, in_ops, nlink, fstype, dtype, dlink, names,
                    ip, want, making>>
    BY Zenon, <1>5 DEF FullAt
  <2> QED
    BY Zenon, <2>1, <2>2 DEF TableOK
<1>6. ASSUME NEW p \in Proc, FillLock(p) PROVE TableOK'
  <2>0. ip[p] \in Entry /\ ref[ip[p]] > 0 /\ inum[ip[p]] \in Inode
    BY <1>6 DEF HolderFacts, FillLock, Goto, disk, PlaceInv
  <2>1. busy' \in [Entry -> {0, 1}]
    BY <1>6, <2>0 DEF FillLock, Goto, disk, TableOK
  <2>2. pc' \in [Proc -> Place]
    BY Zenon, <1>6, <2>0 DEF FillLock, Goto, disk, TableOK, Place
  <2>3. UNCHANGED <<inum, ref, valid, type, in_ops, nlink, fstype, dtype, dlink, names, ip,
                    want, making>>
    BY Zenon, <1>6 DEF FillLock, Goto, disk
  <2> QED
    BY Zenon, <2>1, <2>2, <2>3 DEF TableOK
<1>7. ASSUME NEW p \in Proc, FilledAt(p) PROVE TableOK'
  <2>0. ip[p] \in Entry /\ ref[ip[p]] > 0 /\ inum[ip[p]] \in Inode
    BY Zenon, <1>7 DEF HolderFacts, FilledAt, Fetched, PlaceInv
  <2>1. pc' \in [Proc -> Place]
    BY <1>7, <2>0 DEF FilledAt, Fetched, TableOK, Place
  <2>2. busy' \in [Entry -> {0, 1}]
    BY <1>7, <2>0 DEF FilledAt, Fetched, TableOK
  <2>3. type' \in [Entry -> Type \cup {NoType}]
    BY Zenon, <1>7, <2>0 DEF FilledAt, Fetched, TableOK
  <2>4. nlink' \in [Entry -> 0..MaxLink]
    BY <1>7, <2>0 DEF FilledAt, Fetched, TableOK
  <2>5. valid' \in [Entry -> {0, 1}]
    BY <1>7, <2>0 DEF FilledAt, Fetched, TableOK
  <2>6. UNCHANGED <<inum, ref, in_ops, fstype, dtype, dlink, names, ip, want, making>>
    BY Zenon, <1>7 DEF FilledAt, Fetched
  <2> QED
    BY Zenon, <2>1, <2>2, <2>3, <2>4, <2>5, <2>6 DEF TableOK
<1>8. ASSUME NEW p \in Proc, inode_init(p) PROVE TableOK'
  <2>0. ip[p] \in Entry /\ ref[ip[p]] > 0 /\ inum[ip[p]] \in Inode
    BY <1>8 DEF HolderFacts, inode_init, Goto, disk, PlaceInv
  <2>1. in_ops' \in [Entry -> Type \cup {NoType}]
    BY Zenon, <1>8, <2>0 DEF inode_init, Goto, disk, TableOK
  <2>2. fstype' \in [Entry -> {0, SFS_INODE, FAT_INODE}]
    BY <1>8, <2>0 DEF inode_init, Goto, disk, TableOK, SFS_INODE
  <2>3. want' \in [Proc -> Inode \cup {NoInode}]
    BY <1>8, <2>0 DEF inode_init, Goto, disk, TableOK
  <2>4. pc' \in [Proc -> Place]
    BY Zenon, <1>8, <2>0 DEF inode_init, Goto, disk, TableOK, Place
  <2>5. UNCHANGED <<inum, ref, busy, valid, type, nlink, dtype, dlink, names, ip, making>>
    BY Zenon, <1>8 DEF inode_init, Goto, disk
  <2> QED
    BY Zenon, <2>1, <2>2, <2>3, <2>4, <2>5 DEF TableOK
<1>9. ASSUME NEW p \in Proc, LockAt(p) PROVE TableOK'
  <2>0. ip[p] \in Entry /\ ref[ip[p]] > 0 /\ inum[ip[p]] \in Inode
    BY <1>9 DEF HolderFacts, LockAt, Fetched, PlaceInv
  <2>1. pc' \in [Proc -> Place]
    BY Zenon, <1>9, <2>0 DEF LockAt, Fetched, TableOK, Place
  <2>2. busy' \in [Entry -> {0, 1}]
    BY Zenon, <1>9, <2>0 DEF LockAt, Fetched, TableOK
  <2>3. type' \in [Entry -> Type \cup {NoType}]
    BY <1>9, <2>0 DEF LockAt, Fetched, TableOK
  <2>4. nlink' \in [Entry -> 0..MaxLink]
    BY Zenon, <1>9, <2>0 DEF LockAt, Fetched, TableOK
  <2>5. valid' \in [Entry -> {0, 1}]
    BY Zenon, <1>9, <2>0 DEF LockAt, Fetched, TableOK
  <2>6. UNCHANGED <<inum, ref, in_ops, fstype, dtype, dlink, names, ip, want, making>>
    BY Zenon, <1>9 DEF LockAt, Fetched
  <2> QED
    BY Zenon, <2>1, <2>2, <2>3, <2>4, <2>5, <2>6 DEF TableOK
<1>10. ASSUME NEW p \in Proc, iunlock(p) PROVE TableOK'
  <2>0. ip[p] \in Entry /\ ref[ip[p]] > 0 /\ inum[ip[p]] \in Inode
    BY Zenon, <1>10 DEF HolderFacts, iunlock, Goto, disk, PlaceInv
  <2>1. busy' \in [Entry -> {0, 1}]
    BY <1>10, <2>0 DEF iunlock, Goto, disk, TableOK
  <2>2. pc' \in [Proc -> Place]
    BY <1>10, <2>0 DEF iunlock, Goto, disk, TableOK, Place
  <2>3. UNCHANGED <<inum, ref, valid, type, in_ops, nlink, fstype, dtype, dlink, names, ip,
                    want, making>>
    BY Zenon, <1>10 DEF iunlock, Goto, disk
  <2> QED
    BY Zenon, <2>1, <2>2, <2>3 DEF TableOK
<1>11. ASSUME NEW p \in Proc, link(p) PROVE TableOK'
  <2>0. ip[p] \in Entry /\ ref[ip[p]] > 0 /\ inum[ip[p]] \in Inode
    BY <1>11 DEF HolderFacts, link, PlaceInv
  <2>8. pc[p] = "locked"
    BY Zenon, <1>11 DEF link
  <2>9. /\ nlink[ip[p]] = names[inum[ip[p]]] /\ dlink[inum[ip[p]]] = names[inum[ip[p]]]
    BY Zenon, <1>11, <2>8, LockedFacts
  <2>1. nlink' \in [Entry -> 0..MaxLink]
    BY <1>11, <2>0, <2>9 DEF link, TableOK
  <2>2. dlink' \in [Inode -> 0..MaxLink]
    BY <1>11, <2>0, <2>9 DEF link, TableOK
  <2>3. names' \in [Inode -> 0..MaxLink]
    BY <1>11, <2>0, <2>9 DEF link, TableOK
  <2>4. making' \in SUBSET Proc
    BY <1>11, <2>0, <2>9 DEF link, TableOK
  <2>5. UNCHANGED <<inum, ref, busy, valid, type, in_ops, fstype, dtype, pc, ip, want>>
    BY Zenon, <1>11 DEF link
  <2> QED
    BY Zenon, <2>1, <2>2, <2>3, <2>4, <2>5 DEF TableOK
<1>12. ASSUME NEW p \in Proc, unlink(p) PROVE TableOK'
  <2>0. ip[p] \in Entry /\ ref[ip[p]] > 0 /\ inum[ip[p]] \in Inode
    BY <1>12 DEF HolderFacts, unlink, PlaceInv
  <2>8. pc[p] = "locked"
    BY Zenon, <1>12 DEF unlink
  <2>9. /\ nlink[ip[p]] = names[inum[ip[p]]] /\ dlink[inum[ip[p]]] = names[inum[ip[p]]]
        /\ names[inum[ip[p]]] > 0
    BY Zenon, <1>12, <2>8, LockedFacts
  <2>1. nlink' \in [Entry -> 0..MaxLink]
    BY <1>12, <2>0, <2>9 DEF unlink, TableOK
  <2>2. dlink' \in [Inode -> 0..MaxLink]
    BY <1>12, <2>0, <2>9 DEF unlink, TableOK
  <2>3. names' \in [Inode -> 0..MaxLink]
    BY <1>12, <2>0, <2>9 DEF unlink, TableOK
  <2>4. UNCHANGED <<inum, ref, busy, valid, type, in_ops, fstype, dtype, pc, ip, want, making>>
    BY Zenon, <1>12 DEF unlink
  <2> QED
    BY Zenon, <2>1, <2>2, <2>3, <2>4 DEF TableOK
<1>13. ASSUME NEW p \in Proc, LastAt(p) PROVE TableOK'
  <2>0. ip[p] \in Entry /\ ref[ip[p]] > 0 /\ inum[ip[p]] \in Inode
    BY Zenon, <1>13 DEF HolderFacts, LastAt, LastUse, PlaceInv
  <2>1. pc' \in [Proc -> Place]
    BY <1>13, <2>0 DEF LastAt, LastUse, TableOK, Place
  <2>2. busy' \in [Entry -> {0, 1}]
    BY Zenon, <1>13, <2>0 DEF LastAt, LastUse, TableOK
  <2>3. UNCHANGED <<inum, ref, valid, type, in_ops, nlink, fstype, dtype, dlink, names, ip,
                    want, making>>
    BY Zenon, <1>13 DEF LastAt, LastUse
  <2> QED
    BY Zenon, <2>1, <2>2, <2>3 DEF TableOK
<1>14. ASSUME NEW p \in Proc, PutAt(p) PROVE TableOK'
  <2>0. ip[p] \in Entry /\ ref[ip[p]] > 0 /\ inum[ip[p]] \in Inode
    BY Zenon, <1>14 DEF HolderFacts, PutAt, LastUse, PlaceInv
  <2>1. pc' \in [Proc -> Place]
    BY Zenon, <1>14, <2>0 DEF PutAt, LastUse, TableOK, Place
  <2>2. ip' \in [Proc -> Entry \cup {0}]
    BY <1>14, <2>0 DEF PutAt, LastUse, TableOK
  <2>3. ref' \in [Entry -> Nat]
    BY <1>14, <2>0 DEF PutAt, LastUse, TableOK
  <2>4. UNCHANGED <<inum, busy, valid, type, in_ops, nlink, fstype, dtype, dlink, names, want,
                    making>>
    BY Zenon, <1>14 DEF PutAt, LastUse
  <2> QED
    BY Zenon, <2>1, <2>2, <2>3, <2>4 DEF TableOK
<1>15. ASSUME NEW p \in Proc, IputFree(p) PROVE TableOK'
  <2>0. ip[p] \in Entry /\ ref[ip[p]] > 0 /\ inum[ip[p]] \in Inode
    BY Zenon, <1>15 DEF HolderFacts, IputFree, Goto, PlaceInv
  <2>1. type' \in [Entry -> Type \cup {NoType}]
    BY Zenon, <1>15, <2>0 DEF IputFree, Goto, TableOK
  <2>2. dtype' \in [Inode -> Type \cup {NoType}]
    BY <1>15, <2>0 DEF IputFree, Goto, TableOK
  <2>3. pc' \in [Proc -> Place]
    BY Zenon, <1>15, <2>0 DEF IputFree, Goto, TableOK, Place
  <2>4. UNCHANGED <<inum, ref, busy, valid, in_ops, nlink, fstype, dlink, names, ip, want,
                    making>>
    BY Zenon, <1>15 DEF IputFree, Goto
  <2> QED
    BY Zenon, <2>1, <2>2, <2>3, <2>4 DEF TableOK
<1>16. ASSUME NEW p \in Proc, IputDone(p) PROVE TableOK'
  <2>0. ip[p] \in Entry /\ ref[ip[p]] > 0 /\ inum[ip[p]] \in Inode
    BY Zenon, <1>16 DEF HolderFacts, IputDone, Goto, disk, PlaceInv
  <2>1. busy' \in [Entry -> {0, 1}]
    BY Zenon, <1>16, <2>0 DEF IputDone, Goto, disk, TableOK
  <2>2. valid' \in [Entry -> {0, 1}]
    BY <1>16, <2>0 DEF IputDone, Goto, disk, TableOK
  <2>3. ref' \in [Entry -> Nat]
    BY <1>16, <2>0 DEF IputDone, Goto, disk, TableOK
  <2>4. ip' \in [Proc -> Entry \cup {0}]
    BY <1>16, <2>0 DEF IputDone, Goto, disk, TableOK
  <2>5. pc' \in [Proc -> Place]
    BY <1>16, <2>0 DEF IputDone, Goto, disk, TableOK, Place
  <2>6. UNCHANGED <<inum, type, in_ops, nlink, fstype, dtype, dlink, names, want, making>>
    BY Zenon, <1>16 DEF IputDone, Goto, disk
  <2> QED
    BY Zenon, <2>1, <2>2, <2>3, <2>4, <2>5, <2>6 DEF TableOK
<1>17. ASSUME UNCHANGED vars PROVE TableOK'
  BY Zenon, <1>17 DEF vars, entries, disk, TableOK
<1> QED
  BY Zenon, <1>1, <1>2, <1>3, <1>4, <1>5, <1>6, <1>7, <1>8, <1>9, <1>10, <1>11, <1>12, <1>13,
     <1>14, <1>15, <1>16, <1>17
     DEF CacheStep

(* Where a process is says what it has. *)
LEMMA PlaceStep ==
  ASSUME TableOK, HolderFacts, PlaceInv, RefInv, BusyInv, ValidInv, PutInv, MakeInv, NameInv,
         Freed, CacheStep \/ UNCHANGED vars
  PROVE  PlaceInv'
<1> USE CacheAssumption
<1>1. ASSUME NEW p \in Proc, NEW i \in Inode, NEW e \in Entry, HitAt(p, i, e)
      PROVE  PlaceInv'
  <2>1. pc'[p] = "held" /\ want'[p] = NoInode /\ ip'[p] = e /\ e # 0
    BY <1>1 DEF HolderFacts, HitAt, TableOK
  <2>2. ASSUME NEW q \in Proc \ {p} PROVE pc'[q] = pc[q] /\ want'[q] = want[q] /\ ip'[q] = ip[q]
    BY <1>1 DEF HitAt, TableOK
  <2>3. inum' = inum /\ making' = making
    BY Zenon, <1>1 DEF HitAt
  <2> QED
    BY Zenon, <2>1, <2>2, <2>3 DEF PlaceInv
<1>2. ASSUME NEW p \in Proc, NEW i \in Inode, NEW e \in Entry,
             NEW l \in {"fill", "typed"}, RecycleAt(p, i, e, l)
      PROVE  PlaceInv'
  BY <1>2 DEF HolderFacts, RecycleAt, PlaceInv, TableOK
<1>3. ASSUME NEW p \in Proc, NEW i \in Inode, NEW t \in Type, ialloc(p, i, t)
      PROVE  PlaceInv'
  BY <1>3 DEF HolderFacts, ialloc, Goto, entries, PlaceInv, TableOK
<1>4. ASSUME NEW p \in Proc, NEW q \in Proc, idup(p, q) PROVE PlaceInv'
  BY <1>4 DEF HolderFacts, idup, Goto, disk, PlaceInv, TableOK
<1>5. ASSUME NEW p \in Proc, FullAt(p) PROVE PlaceInv'
  BY <1>5 DEF HolderFacts, FullAt, PlaceInv, TableOK
<1>6. ASSUME NEW p \in Proc, FillLock(p) PROVE PlaceInv'
  BY <1>6 DEF HolderFacts, FillLock, Goto, disk, PlaceInv, TableOK
<1>7. ASSUME NEW p \in Proc, FilledAt(p) PROVE PlaceInv'
  BY <1>7 DEF HolderFacts, FilledAt, Fetched, PlaceInv, TableOK
<1>8. ASSUME NEW p \in Proc, inode_init(p) PROVE PlaceInv'
  BY <1>8 DEF HolderFacts, inode_init, Goto, disk, PlaceInv, TableOK
<1>9. ASSUME NEW p \in Proc, LockAt(p) PROVE PlaceInv'
  BY <1>9 DEF HolderFacts, LockAt, Fetched, PlaceInv, TableOK
<1>10. ASSUME NEW p \in Proc, iunlock(p) PROVE PlaceInv'
  BY <1>10 DEF HolderFacts, iunlock, Goto, disk, PlaceInv, TableOK
<1>11. ASSUME NEW p \in Proc, link(p) PROVE PlaceInv'
  BY Zenon, <1>11 DEF HolderFacts, link, PlaceInv, TableOK
<1>12. ASSUME NEW p \in Proc, unlink(p) PROVE PlaceInv'
  BY Zenon, <1>12 DEF HolderFacts, unlink, PlaceInv, TableOK
<1>13. ASSUME NEW p \in Proc, LastAt(p) PROVE PlaceInv'
  BY <1>13 DEF HolderFacts, LastAt, LastUse, PlaceInv, TableOK
<1>14. ASSUME NEW p \in Proc, PutAt(p) PROVE PlaceInv'
  BY <1>14 DEF HolderFacts, PutAt, LastUse, PlaceInv, TableOK
<1>15. ASSUME NEW p \in Proc, IputFree(p) PROVE PlaceInv'
  BY <1>15 DEF HolderFacts, IputFree, Goto, PlaceInv, TableOK
<1>16. ASSUME NEW p \in Proc, IputDone(p) PROVE PlaceInv'
  BY <1>16 DEF HolderFacts, IputDone, Goto, disk, PlaceInv, TableOK
<1>17. ASSUME UNCHANGED vars PROVE PlaceInv'
  BY Zenon, <1>17 DEF HolderFacts, vars, entries, disk, PlaceInv, TableOK
<1> QED
  BY Zenon, <1>1, <1>2, <1>3, <1>4, <1>5, <1>6, <1>7, <1>8, <1>9, <1>10, <1>11, <1>12, <1>13,
     <1>14, <1>15, <1>16, <1>17
     DEF CacheStep

(* I_BUSY is set by who has the entry, and cleared by who has set it.       *)
LEMMA BusyStep ==
  ASSUME TableOK, HolderFacts, PlaceInv, RefInv, BusyInv, ValidInv, PutInv, MakeInv, NameInv,
         Freed, CacheStep \/ UNCHANGED vars
  PROVE  BusyInv'
<1> USE CacheAssumption
<1>1. ASSUME NEW p \in Proc, NEW i \in Inode, NEW e \in Entry, HitAt(p, i, e)
      PROVE  BusyInv'
  BY <1>1 DEF HolderFacts, HitAt, BusyInv, Locks, PlaceInv, TableOK
<1>2. ASSUME NEW p \in Proc, NEW i \in Inode, NEW e \in Entry,
             NEW l \in {"fill", "typed"}, RecycleAt(p, i, e, l)
      PROVE  BusyInv'
  BY <1>2 DEF HolderFacts, RecycleAt, BusyInv, Locks, PlaceInv, TableOK
<1>3. ASSUME NEW p \in Proc, NEW i \in Inode, NEW t \in Type, ialloc(p, i, t)
      PROVE  BusyInv'
  BY <1>3 DEF HolderFacts, ialloc, Goto, entries, BusyInv, Locks, PlaceInv, TableOK
<1>4. ASSUME NEW p \in Proc, NEW q \in Proc, idup(p, q) PROVE BusyInv'
  BY <1>4 DEF HolderFacts, idup, Goto, disk, BusyInv, Locks, PlaceInv, TableOK
<1>5. ASSUME NEW p \in Proc, FullAt(p) PROVE BusyInv'
  BY <1>5 DEF HolderFacts, FullAt, BusyInv, Locks, PlaceInv, TableOK
<1>6. ASSUME NEW p \in Proc, FillLock(p) PROVE BusyInv'
  BY <1>6 DEF HolderFacts, FillLock, Goto, disk, BusyInv, Locks, PlaceInv, TableOK
<1>7. ASSUME NEW p \in Proc, FilledAt(p) PROVE BusyInv'
  BY <1>7 DEF HolderFacts, FilledAt, Fetched, BusyInv, Locks, PlaceInv, TableOK
<1>8. ASSUME NEW p \in Proc, inode_init(p) PROVE BusyInv'
  BY <1>8 DEF HolderFacts, inode_init, Goto, disk, BusyInv, Locks, PlaceInv, TableOK
<1>9. ASSUME NEW p \in Proc, LockAt(p) PROVE BusyInv'
  BY <1>9 DEF HolderFacts, LockAt, Fetched, BusyInv, Locks, PlaceInv, TableOK
<1>10. ASSUME NEW p \in Proc, iunlock(p) PROVE BusyInv'
  BY <1>10 DEF HolderFacts, iunlock, Goto, disk, BusyInv, Locks, PlaceInv, TableOK
<1>11. ASSUME NEW p \in Proc, link(p) PROVE BusyInv'
  BY <1>11 DEF HolderFacts, link, BusyInv, Locks, PlaceInv, TableOK
<1>12. ASSUME NEW p \in Proc, unlink(p) PROVE BusyInv'
  BY <1>12 DEF HolderFacts, unlink, BusyInv, Locks, PlaceInv, TableOK
<1>13. ASSUME NEW p \in Proc, LastAt(p) PROVE BusyInv'
  BY <1>13 DEF HolderFacts, LastAt, LastUse, BusyInv, Locks, PlaceInv, TableOK
<1>14. ASSUME NEW p \in Proc, PutAt(p) PROVE BusyInv'
  BY <1>14 DEF HolderFacts, PutAt, LastUse, BusyInv, Locks, PlaceInv, TableOK
<1>15. ASSUME NEW p \in Proc, IputFree(p) PROVE BusyInv'
  BY <1>15 DEF HolderFacts, IputFree, Goto, BusyInv, Locks, PlaceInv, TableOK
<1>16. ASSUME NEW p \in Proc, IputDone(p) PROVE BusyInv'
  BY <1>16 DEF HolderFacts, IputDone, Goto, disk, BusyInv, Locks, PlaceInv, TableOK
<1>17. ASSUME UNCHANGED vars PROVE BusyInv'
  BY ZenonT(60), <1>17 DEF HolderFacts, vars, entries, disk, BusyInv, Locks, PlaceInv, TableOK
<1> QED
  BY Zenon, <1>1, <1>2, <1>3, <1>4, <1>5, <1>6, <1>7, <1>8, <1>9, <1>10, <1>11, <1>12, <1>13,
     <1>14, <1>15, <1>16, <1>17
     DEF CacheStep

(* Who uses an inode: nobody new but by sfs_iget, sfs_ialloc and sfs_idup.  *)
LEMMA SameUses ==
  ASSUME TableOK, HolderFacts, PlaceInv, RefInv, NEW p \in Proc,
         \/ FullAt(p) \/ FillLock(p) \/ FilledAt(p) \/ inode_init(p) \/ LockAt(p) \/ iunlock(p)
         \/ link(p) \/ unlink(p) \/ LastAt(p) \/ IputDone(p)
  PROVE  \A q \in Proc, j \in Inode : Uses(q, j)' <=> Uses(q, j)
<1> USE CacheAssumption DEF HolderFacts, Uses, TableOK, PlaceInv
<1>1. CASE FullAt(p)
  BY <1>1 DEF FullAt
<1>2. CASE FillLock(p)
  BY <1>2 DEF FillLock, Goto, disk
<1>3. CASE FilledAt(p)
  BY <1>3 DEF FilledAt, Fetched
<1>4. CASE inode_init(p)
  BY <1>4 DEF inode_init, Goto, disk
<1>5. CASE LockAt(p)
  BY <1>5 DEF LockAt, Fetched
<1>6. CASE iunlock(p)
  BY <1>6 DEF iunlock, Goto, disk
<1>7. CASE link(p)
  BY Zenon, <1>7 DEF link
<1>8. CASE unlink(p)
  BY Zenon, <1>8 DEF unlink
<1>9. CASE LastAt(p)
  BY <1>9 DEF LastAt, LastUse
<1>10. CASE IputDone(p)
  BY <1>10 DEF IputDone, Goto, disk
<1> QED
  BY Zenon, <1>1, <1>2, <1>3, <1>4, <1>5, <1>6, <1>7, <1>8, <1>9, <1>10

(* sfs_iget, sfs_ialloc and sfs_idup each add one user of one inode.       *)
LEMMA MoreUses ==
  ASSUME TableOK, HolderFacts, PlaceInv, RefInv
  PROVE  /\ \A p \in Proc, i \in Inode, e \in Entry : HitAt(p, i, e) =>
              \A q \in Proc, j \in Inode : Uses(q, j)' <=> Uses(q, j) \/ (q = p /\ j = i)
         /\ \A p \in Proc, i \in Inode, e \in Entry, l \in {"fill", "typed"} :
              RecycleAt(p, i, e, l) =>
                \A q \in Proc, j \in Inode : Uses(q, j)' <=> Uses(q, j) \/ (q = p /\ j = i)
         /\ \A p \in Proc, i \in Inode, t \in Type : ialloc(p, i, t) =>
              \A q \in Proc, j \in Inode : Uses(q, j)' <=> Uses(q, j) \/ (q = p /\ j = i)
         /\ \A p, r \in Proc : idup(p, r) =>
              \A q \in Proc, j \in Inode :
                Uses(q, j)' <=> Uses(q, j) \/ (q = r /\ j = inum[ip[p]])
<1> USE CacheAssumption DEF HolderFacts, Uses, TableOK, PlaceInv
<1>1. ASSUME NEW p \in Proc, NEW i \in Inode, NEW e \in Entry, HitAt(p, i, e),
             NEW q \in Proc, NEW j \in Inode
      PROVE  Uses(q, j)' <=> Uses(q, j) \/ (q = p /\ j = i)
  BY <1>1 DEF HitAt
<1>2. ASSUME NEW p \in Proc, NEW i \in Inode, NEW e \in Entry, NEW l \in {"fill", "typed"},
             RecycleAt(p, i, e, l), NEW q \in Proc, NEW j \in Inode
      PROVE  Uses(q, j)' <=> Uses(q, j) \/ (q = p /\ j = i)
  BY <1>2 DEF RecycleAt
<1>3. ASSUME NEW p \in Proc, NEW i \in Inode, NEW t \in Type, ialloc(p, i, t),
             NEW q \in Proc, NEW j \in Inode
      PROVE  Uses(q, j)' <=> Uses(q, j) \/ (q = p /\ j = i)
  BY <1>3 DEF ialloc, Goto, entries
<1>4. ASSUME NEW p \in Proc, NEW r \in Proc, idup(p, r), NEW q \in Proc, NEW j \in Inode
      PROVE  Uses(q, j)' <=> Uses(q, j) \/ (q = r /\ j = inum[ip[p]])
  BY <1>4 DEF idup, Goto, disk
<1> QED
  BY Zenon, <1>1, <1>2, <1>3, <1>4

(* sfs_iput takes one user away, where it drops the pointer or frees.      *)
LEMMA LessUses ==
  ASSUME TableOK, HolderFacts, PlaceInv, RefInv, NEW p \in Proc, PutAt(p) \/ IputFree(p)
  PROVE  /\ \A q \in Proc, j \in Inode : Uses(q, j)' <=> Uses(q, j) /\ q # p
         /\ \A j \in Inode : Uses(p, j) <=> j = inum[ip[p]]
<1> USE CacheAssumption DEF HolderFacts, Uses, TableOK, PlaceInv
<1>1. CASE PutAt(p)
  BY <1>1 DEF PutAt
<1>2. CASE IputFree(p)
  BY <1>2 DEF IputFree, Goto
<1> QED
  BY Zenon, <1>1, <1>2

(* Who asks sfs_iget for an inode has found a name of it, or has made it.  *)
LEMMA AskFacts ==
  ASSUME TableOK, HolderFacts, PlaceInv, NameInv, NEW p \in Proc, NEW i \in Inode
  PROVE  /\ \A e \in Entry : HitAt(p, i, e) =>
              (names[i] > 0 /\ p \notin making) \/ (Uses(p, i) /\ p \in making)
         /\ \A e \in Entry, l \in {"fill", "typed"} : RecycleAt(p, i, e, l) =>
              (names[i] > 0 /\ p \notin making) \/ (Uses(p, i) /\ p \in making)
<1>1. pc[p] = "idle" => p \notin making
  BY DEF PlaceInv
<1>2. pc[p] = "alloc" /\ want[p] = i => Uses(p, i) /\ p \in making
  BY DEF Uses, PlaceInv
<1>3. ASSUME NEW e \in Entry, HitAt(p, i, e)
      PROVE  (names[i] > 0 /\ p \notin making) \/ (Uses(p, i) /\ p \in making)
  <2>1. \/ pc[p] = "idle" /\ names[i] > 0
        \/ pc[p] = "alloc" /\ want[p] = i
    BY <1>3 DEF HitAt
  <2> QED
    BY Zenon, <1>1, <1>2, <2>1
<1>4. ASSUME NEW e \in Entry, NEW l \in {"fill", "typed"}, RecycleAt(p, i, e, l)
      PROVE  (names[i] > 0 /\ p \notin making) \/ (Uses(p, i) /\ p \in making)
  <2>2. Cardinality(Found(i)) \in Nat /\ names[i] \in Nat
    BY DEF HolderFacts, TableOK
  <2>3. Cardinality(Found(i)) < names[i] => names[i] > 0
    BY <2>2
  <2>4. \/ pc[p] = "idle" /\ l = "fill" /\ Cardinality(Found(i)) < names[i]
        \/ pc[p] = "idle" /\ l = "typed" /\ i = Root
        \/ pc[p] = "alloc" /\ l = "typed" /\ i = want[p]
    BY Zenon, <1>4 DEF RecycleAt
  <2>5. \/ pc[p] = "idle" /\ names[i] > 0
        \/ pc[p] = "alloc" /\ want[p] = i
    BY Zenon, <2>3, <2>4 DEF NameInv
  <2> QED
    BY Zenon, <1>1, <1>2, <2>5
<1> QED
  BY Zenon, <1>3, <1>4

(* What ValidInv says of one entry.                                        *)
ValidAt(e) ==
  /\ ref[e] > 0 /\ valid[e] = 1 =>
       /\ nlink[e] = dlink[inum[e]]
       /\ type[e] = dtype[inum[e]] \/ \E p \in Proc : ip[p] = e /\ pc[p] = "freed"
  /\ ref[e] > 0 /\ valid[e] = 0 => names[inum[e]] > 0 \/ \E p \in making : ip[p] = e

(* ValidInv says ValidAt of every entry.                                   *)
LEMMA ValidEach == ValidInv <=> \A e \in Entry : ValidAt(e)
BY Zenon DEF ValidInv, ValidAt

(* An entry that a step does not touch.                                    *)
LEMMA ValidKept ==
  ASSUME TableOK, ValidInv, NEW e \in Entry, ref'[e] > 0 => ref[e] > 0,
         inum'[e] = inum[e], valid'[e] = valid[e], nlink'[e] = nlink[e], type'[e] = type[e],
         ref[e] > 0 => /\ dlink'[inum[e]] = dlink[inum[e]] /\ dtype'[inum[e]] = dtype[inum[e]]
                       /\ names'[inum[e]] = names[inum[e]],
         \A q \in Proc : ip[q] = e /\ pc[q] = "freed" => ip'[q] = e /\ pc'[q] = "freed",
         \A q \in making : ip[q] = e => q \in making' /\ ip'[q] = e
  PROVE  ValidAt(e)'
<1>1. ValidAt(e)
  BY Zenon, ValidEach
<1> QED
  BY Zenon, <1>1 DEF ValidAt

(* What an entry says of its inode stays what the disk says.               *)
LEMMA ValidStep ==
  ASSUME TableOK, HolderFacts, PlaceInv, RefInv, BusyInv, ValidInv, PutInv, MakeInv, NameInv,
         Freed, CacheStep \/ UNCHANGED vars
  PROVE  ValidInv'
<1> USE CacheAssumption
<1>1. ASSUME NEW p \in Proc, NEW i \in Inode, NEW e \in Entry, HitAt(p, i, e)
      PROVE  ValidInv'
  BY <1>1 DEF HolderFacts, HitAt, ValidInv, PlaceInv, TableOK
<1>2. ASSUME NEW p \in Proc, NEW i \in Inode, NEW e \in Entry,
             NEW l \in {"fill", "typed"}, RecycleAt(p, i, e, l)
      PROVE  ValidInv'
  <2>1. names[i] > 0 \/ p \in making
    BY Zenon, <1>2, AskFacts
  <2>2. ip'[p] = e /\ inum'[e] = i /\ valid'[e] = 0 /\ UNCHANGED <<names, making, dtype, dlink>>
    BY Zenon, <1>2 DEF RecycleAt, TableOK
  <2>3. ASSUME NEW f \in Entry \ {e}
        PROVE  /\ ref'[f] = ref[f] /\ inum'[f] = inum[f] /\ valid'[f] = valid[f]
               /\ nlink'[f] = nlink[f] /\ type'[f] = type[f]
    BY Zenon, <1>2 DEF RecycleAt, TableOK
  <2>4. ASSUME NEW q \in Proc \ {p} PROVE ip'[q] = ip[q] /\ pc'[q] = pc[q]
    BY Zenon, <1>2 DEF RecycleAt, TableOK
  <2>5. ip[p] = 0 /\ 0 \notin Entry
    BY Zenon, <1>2 DEF HolderFacts, RecycleAt, PlaceInv
  <2>6. making \subseteq Proc
    BY Zenon DEF TableOK
  <2>7. ASSUME NEW f \in Entry \ {e} PROVE ValidAt(f)'
    <3>1. \A q \in Proc : ip[q] = f => ip'[q] = f /\ pc'[q] = pc[q]
      BY Zenon, <2>4, <2>5
    <3>2. \A q \in making : ip[q] = f => q \in making' /\ ip'[q] = f
      BY Zenon, <2>2, <2>6, <3>1
    <3> QED
      BY Zenon, <2>2, <2>3, <3>1, <3>2, ValidKept
  <2>8. ValidAt(e)'
    BY Zenon, <2>1, <2>2, SmallNumbers DEF ValidAt
  <2> QED
    BY Zenon, <2>7, <2>8 DEF ValidInv, ValidAt
<1>3. ASSUME NEW p \in Proc, NEW i \in Inode, NEW t \in Type, ialloc(p, i, t)
      PROVE  ValidInv'
  <2>1. /\ UNCHANGED <<inum, ref, valid, type, nlink, names, ip>> /\ making' = making \cup {p}
        /\ dtype' = [dtype EXCEPT ![i] = t] /\ dlink' = [dlink EXCEPT ![i] = 0]
        /\ pc' = [pc EXCEPT ![p] = "alloc"] /\ dtype[i] = NoType /\ pc[p] = "idle"
    BY Zenon, <1>3 DEF ialloc, Goto, entries
  <2>2. names[i] = 0 /\ \A q \in Proc : ~Uses(q, i)
    BY <2>1 DEF Freed, TableOK
  <2>3. dlink' = dlink
    BY <2>1, <2>2 DEF NameInv, TableOK
  <2>4. ASSUME NEW e \in Entry, ref[e] > 0, inum[e] = i
        PROVE  \E q \in Proc : ip[q] = e /\ pc'[q] = "freed"
    <3>1. PICK q \in Proc : ip[q] = e
      BY Zenon, <2>4 DEF HolderFacts
    <3>2. pc[q] = "freed"
      BY Zenon, <2>2, <2>4, <3>1 DEF HolderFacts, Uses
    <3> QED
      BY Zenon, <2>1, <3>1, <3>2 DEF TableOK
  <2>5. ASSUME NEW q \in Proc, pc[q] = "freed" PROVE pc'[q] = "freed"
    BY Zenon, <2>1, <2>5 DEF TableOK
  <2>6. ASSUME NEW e \in Entry, inum[e] # i, ref[e] > 0 PROVE dtype'[inum[e]] = dtype[inum[e]]
    BY Zenon, <2>1, <2>6 DEF TableOK, RefInv
  <2>7. making \subseteq making'
    BY Zenon, <2>1
  <2>8. ASSUME NEW e \in Entry, inum[e] # i PROVE ValidAt(e)'
    BY Zenon, <2>1, <2>3, <2>5, <2>6, <2>7, <2>8, ValidKept
  <2>9. ASSUME NEW e \in Entry, inum[e] = i PROVE ValidAt(e)'
    <3>1. ValidAt(e)
      BY Zenon, ValidEach
    <3> QED
      BY Zenon, <2>1, <2>3, <2>4, <2>7, <2>9, <3>1 DEF ValidAt
  <2> QED
    BY Zenon, <2>8, <2>9 DEF ValidInv, ValidAt
<1>4. ASSUME NEW p \in Proc, NEW q \in Proc, idup(p, q) PROVE ValidInv'
  BY <1>4 DEF HolderFacts, idup, Goto, disk, ValidInv, PlaceInv, TableOK
<1>5. ASSUME NEW p \in Proc, FullAt(p) PROVE ValidInv'
  BY <1>5 DEF HolderFacts, FullAt, ValidInv, PlaceInv, TableOK
<1>6. ASSUME NEW p \in Proc, FillLock(p) PROVE ValidInv'
  BY <1>6 DEF HolderFacts, FillLock, Goto, disk, ValidInv, PlaceInv, TableOK
<1>7. ASSUME NEW p \in Proc, FilledAt(p) PROVE ValidInv'
  <2>1. PICK e \in Entry : e = ip[p] /\ inum[e] \in Inode
    BY Zenon, <1>7 DEF HolderFacts, FilledAt, PlaceInv
  <2>2. \A q \in Proc : pc[q] = "freed" => pc'[q] = "freed"
    BY <1>7 DEF FilledAt, TableOK
  <2>3. /\ type' = [type EXCEPT ![e] = IF valid[e] = 1 THEN @ ELSE dtype[inum[e]]]
        /\ nlink' = [nlink EXCEPT ![e] = IF valid[e] = 1 THEN @ ELSE dlink[inum[e]]]
        /\ valid' = [valid EXCEPT ![e] = 1]
        /\ UNCHANGED <<inum, ref, dtype, dlink, names, ip, making>>
    BY Zenon, <1>7, <2>1 DEF FilledAt, Fetched
  <2>4. /\ valid'[e] = 1 /\ nlink'[e] = (IF valid[e] = 1 THEN nlink[e] ELSE dlink[inum[e]])
        /\ type'[e] = IF valid[e] = 1 THEN type[e] ELSE dtype[inum[e]]
    BY Zenon, <2>3 DEF TableOK
  <2>5. ASSUME NEW f \in Entry \ {e}
        PROVE  valid'[f] = valid[f] /\ nlink'[f] = nlink[f] /\ type'[f] = type[f]
    BY Zenon, <2>3 DEF TableOK
  <2>6. ASSUME NEW f \in Entry \ {e} PROVE ValidAt(f)'
    BY Zenon, <2>2, <2>3, <2>5, ValidKept
  <2>7. ValidAt(e)'
    <3>1. CASE valid[e] = 1
      <4>1. ref[e] > 0 =>
              /\ nlink[e] = dlink[inum[e]]
              /\ type[e] = dtype[inum[e]] \/ \E q \in Proc : ip[q] = e /\ pc[q] = "freed"
        BY Zenon, <3>1 DEF ValidInv
      <4> QED
        BY Zenon, <2>2, <2>3, <2>4, <3>1, <4>1, SmallNumbers DEF ValidAt
    <3>2. CASE valid[e] # 1
      BY Zenon, <2>3, <2>4, <3>2, SmallNumbers DEF ValidAt
    <3> QED
      BY Zenon, <3>1, <3>2
  <2> QED
    BY Zenon, <2>6, <2>7 DEF ValidInv, ValidAt
<1>8. ASSUME NEW p \in Proc, inode_init(p) PROVE ValidInv'
  BY <1>8 DEF HolderFacts, inode_init, Goto, disk, ValidInv, PlaceInv, TableOK
<1>9. ASSUME NEW p \in Proc, LockAt(p) PROVE ValidInv'
  <2>1. PICK e \in Entry : e = ip[p] /\ inum[e] \in Inode
    BY Zenon, <1>9 DEF HolderFacts, LockAt, PlaceInv
  <2>2. \A q \in Proc : pc[q] = "freed" => pc'[q] = "freed"
    BY <1>9 DEF LockAt, TableOK
  <2>3. /\ type' = [type EXCEPT ![e] = IF valid[e] = 1 THEN @ ELSE dtype[inum[e]]]
        /\ nlink' = [nlink EXCEPT ![e] = IF valid[e] = 1 THEN @ ELSE dlink[inum[e]]]
        /\ valid' = [valid EXCEPT ![e] = 1]
        /\ UNCHANGED <<inum, ref, dtype, dlink, names, ip, making>>
    BY Zenon, <1>9, <2>1 DEF LockAt, Fetched
  <2>4. /\ valid'[e] = 1 /\ nlink'[e] = (IF valid[e] = 1 THEN nlink[e] ELSE dlink[inum[e]])
        /\ type'[e] = IF valid[e] = 1 THEN type[e] ELSE dtype[inum[e]]
    BY Zenon, <2>3 DEF TableOK
  <2>5. ASSUME NEW f \in Entry \ {e}
        PROVE  valid'[f] = valid[f] /\ nlink'[f] = nlink[f] /\ type'[f] = type[f]
    BY Zenon, <2>3 DEF TableOK
  <2>6. ASSUME NEW f \in Entry \ {e} PROVE ValidAt(f)'
    BY Zenon, <2>2, <2>3, <2>5, ValidKept
  <2>7. ValidAt(e)'
    <3>1. CASE valid[e] = 1
      <4>1. ref[e] > 0 =>
              /\ nlink[e] = dlink[inum[e]]
              /\ type[e] = dtype[inum[e]] \/ \E q \in Proc : ip[q] = e /\ pc[q] = "freed"
        BY Zenon, <3>1 DEF ValidInv
      <4> QED
        BY Zenon, <2>2, <2>3, <2>4, <3>1, <4>1, SmallNumbers DEF ValidAt
    <3>2. CASE valid[e] # 1
      BY Zenon, <2>3, <2>4, <3>2, SmallNumbers DEF ValidAt
    <3> QED
      BY Zenon, <3>1, <3>2
  <2> QED
    BY Zenon, <2>6, <2>7 DEF ValidInv, ValidAt
<1>10. ASSUME NEW p \in Proc, iunlock(p) PROVE ValidInv'
  BY <1>10 DEF HolderFacts, iunlock, Goto, disk, ValidInv, PlaceInv, TableOK
<1>11. ASSUME NEW p \in Proc, link(p) PROVE ValidInv'
  <2>1. /\ pc[p] = "locked" /\ nlink' = [nlink EXCEPT ![ip[p]] = @ + 1]
        /\ dlink' = [dlink EXCEPT ![inum[ip[p]]] = nlink'[ip[p]]]
        /\ names' = [names EXCEPT ![inum[ip[p]]] = @ + 1] /\ making' = making \ {p}
        /\ UNCHANGED <<inum, ref, valid, type, dtype, pc, ip>>
    BY Zenon, <1>11 DEF link
  <2>2. PICK e \in Entry : e = ip[p] /\ valid[e] = 1 /\ inum[e] \in Inode /\ ref[e] > 0
    BY Zenon, <2>1, LockedFacts DEF HolderFacts, PlaceInv
  <2>3. ASSUME NEW f \in Entry \ {e}
        PROVE  /\ nlink'[f] = nlink[f]
               /\ ref[f] > 0 => /\ dlink'[inum[f]] = dlink[inum[f]]
                                /\ names'[inum[f]] = names[inum[f]]
    <3>1. ref[f] > 0 => inum[f] \in Inode /\ inum[f] # inum[e]
      BY Zenon, <2>2 DEF RefInv
    <3> QED
      BY Zenon, <2>1, <2>2, <3>1 DEF TableOK
  <2>4. ASSUME NEW f \in Entry \ {e} PROVE ValidAt(f)'
    BY Zenon, <2>1, <2>2, <2>3, ValidKept
  <2>5. ValidAt(e)'
    <3>1. nlink'[e] = dlink'[inum[e]]
      BY Zenon, <2>1, <2>2 DEF TableOK
    <3>2. type[e] = dtype[inum[e]] \/ \E q \in Proc : ip[q] = e /\ pc[q] = "freed"
      BY Zenon, <2>2 DEF ValidInv
    <3> QED
      BY Zenon, <2>1, <2>2, <3>1, <3>2, SmallNumbers DEF ValidAt
  <2> QED
    BY Zenon, <2>4, <2>5 DEF ValidInv, ValidAt
<1>12. ASSUME NEW p \in Proc, unlink(p) PROVE ValidInv'
  <2>1. /\ pc[p] = "locked" /\ nlink' = [nlink EXCEPT ![ip[p]] = @ - 1]
        /\ dlink' = [dlink EXCEPT ![inum[ip[p]]] = nlink'[ip[p]]]
        /\ names' = [names EXCEPT ![inum[ip[p]]] = @ - 1] /\ making' = making
        /\ UNCHANGED <<inum, ref, valid, type, dtype, pc, ip>>
    BY Zenon, <1>12 DEF unlink
  <2>2. PICK e \in Entry : e = ip[p] /\ valid[e] = 1 /\ inum[e] \in Inode /\ ref[e] > 0
    BY Zenon, <2>1, LockedFacts DEF HolderFacts, PlaceInv
  <2>3. ASSUME NEW f \in Entry \ {e}
        PROVE  /\ nlink'[f] = nlink[f]
               /\ ref[f] > 0 => /\ dlink'[inum[f]] = dlink[inum[f]]
                                /\ names'[inum[f]] = names[inum[f]]
    <3>1. ref[f] > 0 => inum[f] \in Inode /\ inum[f] # inum[e]
      BY Zenon, <2>2 DEF RefInv
    <3> QED
      BY Zenon, <2>1, <2>2, <3>1 DEF TableOK
  <2>4. ASSUME NEW f \in Entry \ {e} PROVE ValidAt(f)'
    BY Zenon, <2>1, <2>2, <2>3, ValidKept
  <2>5. ValidAt(e)'
    <3>1. nlink'[e] = dlink'[inum[e]]
      BY Zenon, <2>1, <2>2 DEF TableOK
    <3>2. type[e] = dtype[inum[e]] \/ \E q \in Proc : ip[q] = e /\ pc[q] = "freed"
      BY Zenon, <2>2 DEF ValidInv
    <3> QED
      BY Zenon, <2>1, <2>2, <3>1, <3>2, SmallNumbers DEF ValidAt
  <2> QED
    BY Zenon, <2>4, <2>5 DEF ValidInv, ValidAt
<1>13. ASSUME NEW p \in Proc, LastAt(p) PROVE ValidInv'
  BY <1>13 DEF HolderFacts, LastAt, LastUse, ValidInv, PlaceInv, TableOK
<1>14. ASSUME NEW p \in Proc, PutAt(p) PROVE ValidInv'
  <2>1. pc[p] = "held" /\ p \notin making /\ ip[p] \in Entry
    BY Zenon, <1>14 DEF HolderFacts, PutAt, PlaceInv
  <2>2. ASSUME NEW q \in Proc \ {p} PROVE ip'[q] = ip[q] /\ pc'[q] = pc[q]
    BY Zenon, <1>14 DEF PutAt, TableOK
  <2>3. \A e \in Entry : ref'[e] > 0 => ref[e] > 0
    BY <1>14, <2>1 DEF PutAt, TableOK
  <2>4. UNCHANGED <<inum, valid, type, nlink, dtype, dlink, names, making>>
    BY Zenon, <1>14 DEF PutAt
  <2>5. making \subseteq Proc /\ pc[p] # "freed"
    BY <2>1 DEF TableOK
  <2>6. ASSUME NEW f \in Entry PROVE ValidAt(f)'
    BY Zenon, <2>1, <2>2, <2>3, <2>4, <2>5, ValidKept
  <2> QED
    BY Zenon, <2>6 DEF ValidInv, ValidAt
<1>15. ASSUME NEW p \in Proc, IputFree(p) PROVE ValidInv'
  <2>1. ip[p] \in Entry /\ ref[ip[p]] > 0 /\ inum[ip[p]] \in Inode
    BY Zenon, <1>15 DEF HolderFacts, IputFree, PlaceInv
  <2>2. pc'[p] = "freed" /\ \A q \in Proc : pc[q] = "freed" => pc'[q] = "freed"
    BY Zenon, <1>15 DEF IputFree, Goto, TableOK
  <2>3. ASSUME NEW e \in Entry \ {ip[p]}, ref[e] > 0
        PROVE  type'[e] = type[e] /\ dtype'[inum[e]] = dtype[inum[e]]
    <3>1. inum[e] \in Inode /\ inum[e] # inum[ip[p]]
      BY Zenon, <2>1, <2>3 DEF RefInv
    <3> QED
      BY Zenon, <1>15, <2>1, <3>1 DEF IputFree, TableOK
  <2>4. UNCHANGED <<inum, ref, valid, nlink, dlink, names, ip, making>>
    BY Zenon, <1>15 DEF IputFree
  <2>5. ASSUME NEW e \in Entry \ {ip[p]} PROVE ValidAt(e)'
    <3>1. e \in Entry /\ ref'[e] = ref[e] /\ inum'[e] = inum[e] /\ valid'[e] = valid[e]
          /\ nlink'[e] = nlink[e] /\ dlink'[inum[e]] = dlink[inum[e]]
          /\ names'[inum[e]] = names[inum[e]]
      BY Zenon, <2>4, <2>5
    <3>2. type'[e] = type[e]
      BY Zenon, <1>15, <2>5 DEF IputFree, TableOK
    <3>3. \A q \in Proc : ip[q] = e /\ pc[q] = "freed" => ip'[q] = e /\ pc'[q] = "freed"
      BY Zenon, <2>2, <2>4
    <3>4. \A q \in making : ip[q] = e => q \in making' /\ ip'[q] = e
      BY Zenon, <2>4
    <3> QED
      BY Zenon, <2>3, <2>5, <3>1, <3>2, <3>3, <3>4, ValidKept
  <2>6. ASSUME NEW e, e = ip[p] PROVE ValidAt(e)'
    <3>1. ValidAt(e)
      BY Zenon, <2>1, <2>6, ValidEach
    <3> QED
      BY Zenon, <2>2, <2>4, <2>6, <3>1 DEF ValidAt
  <2> QED
    BY Zenon, <2>5, <2>6 DEF ValidInv, ValidAt
<1>16. ASSUME NEW p \in Proc, IputDone(p) PROVE ValidInv'
  <2>1. ip[p] # 0 /\ pc[p] = "freed"
    BY Zenon, <1>16 DEF IputDone, PlaceInv
  <2>2. ip[p] \in Entry /\ ref[ip[p]] > 0
    BY Zenon, <2>1 DEF HolderFacts
  <2>3. valid'[ip[p]] = 0 /\ ref'[ip[p]] = ref[ip[p]] - 1 /\ ref[ip[p]] \in Nat
    BY Zenon, <1>16, <2>2 DEF IputDone, TableOK
  <2>4. ASSUME NEW q \in Proc \ {p} PROVE ip'[q] = ip[q] /\ pc'[q] = pc[q]
    BY Zenon, <1>16 DEF IputDone, Goto, TableOK
  <2>5. ref'[ip[p]] > 0 => \E q \in making' : ip'[q] = ip[p]
    <3>1. SUFFICES ASSUME ref[ip[p]] # 1 PROVE \E q \in making' : ip'[q] = ip[p]
      BY <2>3
    <3>2. PICK q \in Proc \ {p} : ip[q] = ip[p]
      BY Zenon, <2>1, <3>1 DEF HolderFacts
    <3>3. q \in making
      BY Zenon, <2>1, <3>2 DEF PutInv
    <3> QED
      BY Zenon, <1>16, <2>4, <3>2, <3>3 DEF IputDone
  <2>6. ASSUME NEW f \in Entry \ {ip[p]} PROVE ref'[f] = ref[f] /\ valid'[f] = valid[f]
    BY Zenon, <1>16 DEF IputDone, TableOK
  <2>7. UNCHANGED <<inum, type, nlink, dtype, dlink, names, making>>
    BY Zenon, <1>16 DEF IputDone, disk
  <2>8. making \in SUBSET Proc
    BY DEF TableOK
  <2>9. ASSUME NEW f \in Entry \ {ip[p]} PROVE ValidAt(f)'
    <3>1. \A q \in Proc : ip[q] = f => q \in Proc \ {p}
      BY Zenon, <2>9
    <3>2. \A q \in Proc : ip[q] = f => ip'[q] = f /\ pc'[q] = pc[q]
      BY Zenon, <2>4, <3>1
    <3> QED
      BY Zenon, <2>6, <2>7, <2>8, <3>2, ValidKept
  <2>10. ASSUME NEW e, e = ip[p] PROVE ValidAt(e)'
    BY Zenon, <2>3, <2>5, <2>10, SmallNumbers DEF ValidAt
  <2> QED
    BY Zenon, <2>9, <2>10 DEF ValidInv, ValidAt
<1>17. ASSUME UNCHANGED vars PROVE ValidInv'
  BY <1>17 DEF HolderFacts, vars, entries, disk, ValidInv, PlaceInv, TableOK
<1> QED
  BY Zenon, <1>1, <1>2, <1>3, <1>4, <1>5, <1>6, <1>7, <1>8, <1>9, <1>10, <1>11, <1>12, <1>13,
     <1>14, <1>15, <1>16, <1>17
     DEF CacheStep

(* Nobody finds the entry that sfs_iput frees, but who makes its inode anew. *)
LEMMA PutStep ==
  ASSUME TableOK, HolderFacts, PlaceInv, RefInv, BusyInv, ValidInv, PutInv, MakeInv, NameInv,
         Freed, CacheStep \/ UNCHANGED vars
  PROVE  PutInv'
<1> USE CacheAssumption
<1>1. ASSUME NEW p \in Proc, NEW i \in Inode, NEW e \in Entry, HitAt(p, i, e)
      PROVE  PutInv'
  <2>1. (names[i] > 0 /\ p \notin making) \/ (Uses(p, i) /\ p \in making)
    BY Zenon, <1>1, AskFacts
  <2>2. ASSUME NEW r \in Proc, pc[r] \in {"trunc", "freed"}, ip[r] = e
        PROVE  pc[r] = "freed" /\ p \in making
    <3>1. names[i] = 0 /\ inum[ip[r]] = i
      BY ZenonT(60), <1>1, <2>2 DEF HitAt, PutInv
    <3>2. Uses(p, i) /\ p \in making
      BY Zenon, <2>1, <3>1, SmallNumbers
    <3>3. r # p /\ e # 0
      BY Zenon, <1>1, <2>2 DEF HolderFacts, HitAt
    <3>4. ~Uses(r, i)
      BY Zenon, <3>2, <3>3 DEF MakeInv
    <3> QED
      BY Zenon, <2>2, <3>1, <3>2, <3>3, <3>4 DEF Uses
  <2>3. pc'[p] = "held" /\ ip'[p] = e /\ e \in Entry
    BY Zenon, <1>1 DEF HitAt, TableOK
  <2>4. ASSUME NEW q \in Proc \ {p} PROVE pc'[q] = pc[q] /\ ip'[q] = ip[q]
    BY Zenon, <1>1 DEF HitAt, TableOK
  <2>5. UNCHANGED <<inum, valid, nlink, names, making>>
    BY Zenon, <1>1 DEF HitAt
  <2>6. \A r \in Proc : pc'[r] \in {"locked", "trunc", "freed"} => r # p
    BY <2>3
  <2>7. ASSUME NEW r \in Proc, pc'[r] \in {"trunc", "freed"}, NEW q \in Proc \ {r},
               ip'[q] = ip'[r]
        PROVE  pc'[r] = "freed" /\ q \in making' /\ pc'[q] = "held"
    <3>1. CASE q = p
      BY <2>2, <2>3, <2>4, <2>5, <2>6, <2>7, <3>1
    <3>2. CASE q # p
      BY <2>4, <2>5, <2>6, <2>7, <3>2 DEF PutInv
    <3> QED
      BY Zenon, <3>1, <3>2
  <2>8. ASSUME NEW r \in Proc \ {p}
        PROVE  /\ pc'[r] = "locked" => valid'[ip'[r]] = 1
               /\ pc'[r] \in {"trunc", "freed"} =>
                    valid'[ip'[r]] = 1 /\ nlink'[ip'[r]] = 0 /\ names'[inum'[ip'[r]]] = 0
    BY <2>4, <2>5 DEF PutInv
  <2> QED
    BY Zenon, <2>6, <2>7, <2>8 DEF PutInv
<1>2. ASSUME NEW p \in Proc, NEW i \in Inode, NEW e \in Entry,
             NEW l \in {"fill", "typed"}, RecycleAt(p, i, e, l)
      PROVE  PutInv'
  <2>1. \A q \in Proc : ip[q] # e
    BY Zenon, <1>2 DEF HolderFacts, RecycleAt
  <2>2. pc'[p] \in {"fill", "typed"} /\ ip'[p] = e /\ ip[p] = 0
    BY ZenonT(60), <1>2 DEF RecycleAt, TableOK, PlaceInv
  <2>3. ASSUME NEW q \in Proc \ {p} PROVE pc'[q] = pc[q] /\ ip'[q] = ip[q]
    BY Zenon, <1>2 DEF RecycleAt, TableOK
  <2>4. ASSUME NEW f \in Entry \ {e} PROVE valid'[f] = valid[f] /\ inum'[f] = inum[f]
    BY <1>2 DEF RecycleAt, TableOK
  <2>5. UNCHANGED <<nlink, names, making>>
    BY Zenon, <1>2 DEF RecycleAt
  <2>6. ASSUME NEW r \in Proc, pc[r] \in {"locked", "trunc", "freed"} PROVE ip[r] \in Entry \ {e}
    BY Zenon, <2>1, <2>6 DEF HolderFacts, PlaceInv
  <2> QED
    BY <2>1, <2>2, <2>3, <2>4, <2>5, <2>6 DEF PutInv
<1>3. ASSUME NEW p \in Proc, NEW i \in Inode, NEW t \in Type, ialloc(p, i, t)
      PROVE  PutInv'
  <2>1. pc[p] = "idle" /\ pc'[p] = "alloc"
    BY Zenon, <1>3 DEF ialloc, Goto, TableOK
  <2>2. ASSUME NEW q \in Proc \ {p} PROVE pc'[q] = pc[q]
    BY <1>3 DEF ialloc, Goto, TableOK
  <2>3. UNCHANGED <<inum, valid, nlink, names, ip>> /\ making \subseteq making'
    BY Zenon, <1>3 DEF ialloc, entries
  <2> QED
    BY <2>1, <2>2, <2>3 DEF PutInv
<1>4. ASSUME NEW p \in Proc, NEW q \in Proc, idup(p, q) PROVE PutInv'
  <2>1. /\ pc[p] \in {"held", "locked"} /\ p \notin making /\ pc[q] = "idle"
        /\ ip' = [ip EXCEPT ![q] = ip[p]] /\ pc' = [pc EXCEPT ![q] = "held"]
        /\ UNCHANGED <<inum, valid, nlink, names, making>>
    BY Zenon, <1>4 DEF idup, Goto, disk
  <2>2. ASSUME NEW r \in Proc, pc[r] \in {"trunc", "freed"} PROVE ip[r] # ip[p]
    BY Zenon, <2>1, <2>2 DEF PutInv
  <2>3. pc'[q] = "held" /\ ip'[q] = ip[p]
    BY Zenon, <2>1 DEF TableOK
  <2>4. ASSUME NEW r \in Proc \ {q} PROVE pc'[r] = pc[r] /\ ip'[r] = ip[r]
    BY Zenon, <2>1 DEF TableOK
  <2>5. UNCHANGED <<inum, valid, nlink, names, making>>
    BY Zenon, <2>1
  <2> QED
    BY <2>2, <2>3, <2>4, <2>5 DEF PutInv
<1>5. ASSUME NEW p \in Proc, FullAt(p) PROVE PutInv'
  <2>1. pc'[p] = "noinodes" /\ pc[p] \in {"idle", "alloc"}
    BY Zenon, <1>5 DEF FullAt, TableOK
  <2>2. ASSUME NEW q \in Proc \ {p} PROVE pc'[q] = pc[q]
    BY <1>5 DEF FullAt, TableOK
  <2>3. UNCHANGED <<inum, valid, nlink, names, making, ip>>
    BY Zenon, <1>5 DEF FullAt
  <2>4. ip[p] = 0 /\ \A r \in Proc : pc[r] \in {"trunc", "freed"} => ip[r] # 0
    BY Zenon, <2>1 DEF PlaceInv
  <2> QED
    BY <2>1, <2>2, <2>3, <2>4 DEF PutInv
<1>6. ASSUME NEW p \in Proc, FillLock(p) PROVE PutInv'
  <2>1. ASSUME NEW r \in Proc, pc[r] \in {"trunc", "freed"} PROVE ip[r] # ip[p]
    BY Zenon, <1>6, <2>1 DEF FillLock, PutInv
  <2>2. pc'[p] = "filled"
    BY Zenon, <1>6 DEF FillLock, Goto, TableOK
  <2>3. ASSUME NEW r \in Proc \ {p} PROVE pc'[r] = pc[r]
    BY <1>6 DEF FillLock, Goto, TableOK
  <2>4. UNCHANGED <<inum, valid, nlink, names, making, ip>>
    BY ZenonT(60), <1>6 DEF FillLock, disk
  <2> QED
    BY <2>1, <2>2, <2>3, <2>4 DEF PutInv
<1>7. ASSUME NEW p \in Proc, FilledAt(p) PROVE PutInv'
  <2>1. ASSUME NEW r \in Proc, pc[r] \in {"trunc", "freed"} PROVE ip[r] # ip[p]
    BY Zenon, <1>7, <2>1 DEF FilledAt, PutInv
  <2>0. ip[p] \in Entry
    BY <1>7 DEF HolderFacts, FilledAt, PlaceInv
  <2>2. pc'[p] = "init" /\ valid'[ip[p]] = 1
    BY Zenon, <1>7, <2>0 DEF FilledAt, Fetched, TableOK
  <2>3. ASSUME NEW r \in Proc \ {p} PROVE pc'[r] = pc[r]
    BY Zenon, <1>7 DEF FilledAt, TableOK
  <2>4. UNCHANGED <<inum, names, making, ip>>
    BY Zenon, <1>7 DEF FilledAt, Fetched
  <2>5. \A f \in Entry \ {ip[p]} : valid'[f] = valid[f] /\ nlink'[f] = nlink[f]
    BY Zenon, <1>7, <2>0 DEF FilledAt, Fetched, TableOK
  <2>6. ASSUME NEW r \in Proc, pc[r] \in {"locked", "trunc", "freed"} PROVE ip[r] \in Entry
    BY Zenon, <2>6 DEF HolderFacts, PlaceInv
  <2> QED
    BY <2>0, <2>1, <2>2, <2>3, <2>4, <2>5, <2>6 DEF PutInv
<1>8. ASSUME NEW p \in Proc, inode_init(p) PROVE PutInv'
  <2>1. ASSUME NEW r \in Proc, pc[r] \in {"trunc", "freed"} PROVE ip[r] # ip[p]
    BY Zenon, <1>8, <2>1 DEF inode_init, PutInv
  <2>2. pc'[p] = "held"
    BY Zenon, <1>8 DEF inode_init, Goto, TableOK
  <2>3. ASSUME NEW r \in Proc \ {p} PROVE pc'[r] = pc[r]
    BY <1>8 DEF inode_init, Goto, TableOK
  <2>4. UNCHANGED <<inum, valid, nlink, names, making, ip>>
    BY Zenon, <1>8 DEF inode_init, disk
  <2> QED
    BY Zenon, <2>1, <2>2, <2>3, <2>4 DEF PutInv
<1>9. ASSUME NEW p \in Proc, LockAt(p) PROVE PutInv'
  <2>1. ASSUME NEW r \in Proc, pc[r] \in {"trunc", "freed"} PROVE ip[r] # ip[p]
    BY <1>9, <2>1 DEF LockAt, BusyInv, Locks
  <2>0. ip[p] \in Entry
    BY Zenon, <1>9 DEF HolderFacts, LockAt, PlaceInv
  <2>2. pc'[p] = "locked" /\ valid'[ip[p]] = 1
    BY Zenon, <1>9, <2>0 DEF LockAt, Fetched, TableOK
  <2>3. ASSUME NEW r \in Proc \ {p} PROVE pc'[r] = pc[r]
    BY <1>9 DEF LockAt, TableOK
  <2>4. UNCHANGED <<inum, names, making, ip>>
    BY Zenon, <1>9 DEF LockAt, Fetched
  <2>5. \A f \in Entry \ {ip[p]} : valid'[f] = valid[f] /\ nlink'[f] = nlink[f]
    BY Zenon, <1>9, <2>0 DEF LockAt, Fetched, TableOK
  <2>6. ASSUME NEW r \in Proc, pc[r] \in {"locked", "trunc", "freed"} PROVE ip[r] \in Entry
    BY Zenon, <2>6 DEF HolderFacts, PlaceInv
  <2> QED
    BY <2>0, <2>1, <2>2, <2>3, <2>4, <2>5, <2>6 DEF PutInv
<1>10. ASSUME NEW p \in Proc, iunlock(p) PROVE PutInv'
  <2>1. ASSUME NEW r \in Proc, pc[r] \in {"trunc", "freed"} PROVE ip[r] # ip[p]
    BY Zenon, <1>10, <2>1 DEF iunlock, PutInv
  <2>2. pc'[p] = "held"
    BY Zenon, <1>10 DEF iunlock, Goto, TableOK
  <2>3. ASSUME NEW r \in Proc \ {p} PROVE pc'[r] = pc[r]
    BY <1>10 DEF iunlock, Goto, TableOK
  <2>4. UNCHANGED <<inum, valid, nlink, names, making, ip>>
    BY ZenonT(60), <1>10 DEF iunlock, disk
  <2> QED
    BY <2>1, <2>2, <2>3, <2>4 DEF PutInv
<1>11. ASSUME NEW p \in Proc, link(p) PROVE PutInv'
  <2>1. ASSUME NEW r \in Proc, pc[r] \in {"trunc", "freed"} PROVE ip[r] # ip[p]
    BY Zenon, <1>11, <2>1 DEF link, PutInv
  <2>2. /\ pc[p] = "locked" /\ \E v : nlink' = [nlink EXCEPT ![ip[p]] = v]
        /\ \E v : names' = [names EXCEPT ![inum[ip[p]]] = v] /\ making' \in {making, making \ {p}}
        /\ UNCHANGED <<inum, valid, pc, ip>>
    BY Zenon, <1>11 DEF link
  <2>3. ASSUME NEW r \in Proc, pc[r] \in {"trunc", "freed"}
        PROVE  /\ nlink'[ip[r]] = nlink[ip[r]] /\ names'[inum[ip[r]]] = names[inum[ip[r]]]
    <3>1. ip[r] \in Entry /\ ip[p] \in Entry /\ ip[r] # ip[p] /\ inum[ip[r]] # inum[ip[p]]
      BY <2>1, <2>2, <2>3 DEF HolderFacts, PlaceInv
    <3>2. inum[ip[r]] \in Inode /\ inum[ip[p]] \in Inode
      BY Zenon, <2>2, <2>3 DEF HolderFacts, PlaceInv
    <3> QED
      BY ZenonT(60), <2>2, <3>1, <3>2 DEF TableOK
  <2>4. ASSUME NEW q \in making, q # p PROVE q \in making'
    BY Zenon, <2>2, <2>4
  <2> QED
    BY <2>1, <2>2, <2>3, <2>4 DEF PutInv
<1>12. ASSUME NEW p \in Proc, unlink(p) PROVE PutInv'
  <2>1. ASSUME NEW r \in Proc, pc[r] \in {"trunc", "freed"} PROVE ip[r] # ip[p]
    BY Zenon, <1>12, <2>1 DEF unlink, PutInv
  <2>2. /\ pc[p] = "locked" /\ \E v : nlink' = [nlink EXCEPT ![ip[p]] = v]
        /\ \E v : names' = [names EXCEPT ![inum[ip[p]]] = v] /\ making' \in {making, making \ {p}}
        /\ UNCHANGED <<inum, valid, pc, ip>>
    BY ZenonT(60), <1>12 DEF unlink
  <2>3. ASSUME NEW r \in Proc, pc[r] \in {"trunc", "freed"}
        PROVE  /\ nlink'[ip[r]] = nlink[ip[r]] /\ names'[inum[ip[r]]] = names[inum[ip[r]]]
    <3>1. ip[r] \in Entry /\ ip[p] \in Entry /\ ip[r] # ip[p] /\ inum[ip[r]] # inum[ip[p]]
      BY <2>1, <2>2, <2>3 DEF HolderFacts, PlaceInv
    <3>2. inum[ip[r]] \in Inode /\ inum[ip[p]] \in Inode
      BY Zenon, <2>2, <2>3 DEF HolderFacts, PlaceInv
    <3> QED
      BY Zenon, <2>2, <3>1, <3>2 DEF TableOK
  <2>4. ASSUME NEW q \in making, q # p PROVE q \in making'
    BY Zenon, <2>2, <2>4
  <2> QED
    BY <2>1, <2>2, <2>3, <2>4 DEF PutInv
<1>13. ASSUME NEW p \in Proc, LastAt(p) PROVE PutInv'
  <2>1. /\ pc[p] = "held" /\ LastUse(ip[p]) /\ pc' = [pc EXCEPT ![p] = "trunc"]
        /\ UNCHANGED <<inum, valid, nlink, names, making, ip>>
    BY Zenon, <1>13 DEF LastAt
  <2>2. ip[p] \in Entry /\ inum[ip[p]] \in Inode /\ ip[p] # 0
    BY Zenon, <2>1 DEF HolderFacts, PlaceInv
  <2>3. \A q \in Proc \ {p} : ip[q] # ip[p]
    BY Zenon, <2>1, <2>2 DEF HolderFacts, LastUse
  <2>4. valid[ip[p]] = 1 /\ nlink[ip[p]] = 0 /\ names[inum[ip[p]]] = 0
    BY <2>1, <2>2 DEF LastUse, ValidInv, NameInv
  <2>5. pc'[p] = "trunc" /\ \A q \in Proc \ {p} : pc'[q] = pc[q]
    BY Zenon, <2>1 DEF TableOK
  <2>6. UNCHANGED <<inum, valid, nlink, names, making, ip>>
    BY Zenon, <2>1
  <2>7. ASSUME NEW r \in Proc \ {p}
        PROVE  /\ pc'[r] = "locked" => valid'[ip'[r]] = 1
               /\ pc'[r] \in {"trunc", "freed"} =>
                    valid'[ip'[r]] = 1 /\ nlink'[ip'[r]] = 0 /\ names'[inum'[ip'[r]]] = 0
    BY Zenon, <2>5, <2>6 DEF PutInv
  <2>8. ASSUME NEW r \in Proc \ {p}, pc'[r] \in {"trunc", "freed"}, NEW q \in Proc \ {r},
               ip'[q] = ip'[r]
        PROVE  pc'[r] = "freed" /\ q \in making' /\ pc'[q] = "held"
    <3>1. pc[r] \in {"trunc", "freed"} /\ ip[q] = ip[r]
      BY Zenon, <2>5, <2>6, <2>8
    <3>2. q # p
      BY Zenon, <2>3, <3>1
    <3>3. pc[r] = "freed" /\ q \in making /\ pc[q] = "held"
      BY Zenon, <3>1 DEF PutInv
    <3> QED
      BY Zenon, <2>5, <2>6, <3>2, <3>3
  <2>9. pc'[p] # "locked"
    BY <2>5
  <2> QED
    BY Zenon, <2>3, <2>4, <2>5, <2>6, <2>7, <2>8, <2>9 DEF PutInv
<1>14. ASSUME NEW p \in Proc, PutAt(p) PROVE PutInv'
  <2>1. pc'[p] = "idle" /\ ip'[p] = 0
    BY <1>14 DEF PutAt, TableOK
  <2>2. ASSUME NEW q \in Proc \ {p} PROVE ip'[q] = ip[q] /\ pc'[q] = pc[q]
    BY <1>14 DEF PutAt, TableOK
  <2>3. UNCHANGED <<inum, valid, nlink, names, making>>
    BY Zenon, <1>14 DEF PutAt
  <2>4. ASSUME NEW r \in Proc, pc[r] \in {"trunc", "freed"} PROVE ip[r] # 0
    BY Zenon, <2>4 DEF PlaceInv
  <2> QED
    BY <2>1, <2>2, <2>3, <2>4 DEF PutInv
<1>15. ASSUME NEW p \in Proc, IputFree(p) PROVE PutInv'
  <2>1. pc[p] = "trunc" /\ pc'[p] = "freed"
    BY Zenon, <1>15 DEF IputFree, Goto, TableOK
  <2>2. ASSUME NEW q \in Proc \ {p} PROVE pc'[q] = pc[q]
    BY Zenon, <1>15 DEF IputFree, Goto, TableOK
  <2>3. UNCHANGED <<inum, valid, nlink, names, making, ip>>
    BY Zenon, <1>15 DEF IputFree
  <2> QED
    BY <2>1, <2>2, <2>3 DEF PutInv
<1>16. ASSUME NEW p \in Proc, IputDone(p) PROVE PutInv'
  <2>1. pc[p] = "freed" /\ pc'[p] = "idle" /\ ip'[p] = 0
    BY Zenon, <1>16 DEF IputDone, Goto, TableOK
  <2>2. ASSUME NEW q \in Proc \ {p} PROVE ip'[q] = ip[q] /\ pc'[q] = pc[q]
    BY <1>16 DEF IputDone, Goto, TableOK
  <2>3. UNCHANGED <<inum, nlink, names, making>>
    BY Zenon, <1>16 DEF IputDone, disk
  <2>4. ASSUME NEW r \in Proc \ {p}, pc[r] \in {"locked", "trunc", "freed"}
        PROVE  ip[r] # ip[p] /\ ip[r] \in Entry /\ ip[r] # 0
    BY Zenon, <2>1, <2>4 DEF HolderFacts, PutInv, PlaceInv
  <2>5. \A f \in Entry : f # ip[p] => valid'[f] = valid[f]
    BY Zenon, <1>16 DEF IputDone, TableOK
  <2> QED
    BY <2>1, <2>2, <2>3, <2>4, <2>5 DEF PutInv
<1>17. ASSUME UNCHANGED vars PROVE PutInv'
  <2>1. UNCHANGED <<inum, valid, nlink, names, ip, pc, making>>
    BY Zenon, <1>17 DEF vars, entries, disk
  <2> QED
    BY Zenon, <2>1 DEF PutInv
<1> QED
  BY Zenon, <1>1, <1>2, <1>3, <1>4, <1>5, <1>6, <1>7, <1>8, <1>9, <1>10, <1>11, <1>12, <1>13,
     <1>14, <1>15, <1>16, <1>17
     DEF CacheStep

(* A new inode has no user but its maker, and no name.                     *)
LEMMA MakeStep ==
  ASSUME TableOK, HolderFacts, PlaceInv, RefInv, BusyInv, ValidInv, PutInv, MakeInv, NameInv,
         Freed, CacheStep \/ UNCHANGED vars
  PROVE  MakeInv'
<1> USE CacheAssumption
<1>1. ASSUME NEW p \in Proc, NEW i \in Inode, NEW e \in Entry, HitAt(p, i, e)
      PROVE  MakeInv'
  <2>1. \A q \in Proc, j \in Inode : Uses(q, j)' <=> Uses(q, j) \/ (q = p /\ j = i)
    BY Zenon, <1>1, MoreUses
  <2>2. (names[i] > 0 /\ p \notin making) \/ (Uses(p, i) /\ p \in making)
    BY <1>1, AskFacts
  <2>3. UNCHANGED <<names, making>>
    BY Zenon, <1>1 DEF HitAt
  <2>4. CASE names[i] > 0 /\ p \notin making
    <3>1. ASSUME NEW q \in making, NEW j \in Inode, Uses(q, j)' PROVE j # i /\ Uses(q, j)
      BY <2>1, <2>4, <3>1 DEF MakeInv, TableOK
    <3> QED
      BY Zenon, <2>1, <2>3, <3>1 DEF MakeInv, TableOK
  <2>5. CASE Uses(p, i) /\ p \in making
    <3>1. \A q \in Proc, j \in Inode : Uses(q, j)' <=> Uses(q, j)
      BY <2>1, <2>5
    <3> QED
      BY Zenon, <2>3, <3>1 DEF MakeInv, TableOK
  <2> QED
    BY Zenon, <2>2, <2>4, <2>5
<1>2. ASSUME NEW p \in Proc, NEW i \in Inode, NEW e \in Entry,
             NEW l \in {"fill", "typed"}, RecycleAt(p, i, e, l)
      PROVE  MakeInv'
  <2>1. \A q \in Proc, j \in Inode : Uses(q, j)' <=> Uses(q, j) \/ (q = p /\ j = i)
    BY <1>2, MoreUses
  <2>2. (names[i] > 0 /\ p \notin making) \/ (Uses(p, i) /\ p \in making)
    BY Zenon, <1>2, AskFacts
  <2>3. UNCHANGED <<names, making>>
    BY Zenon, <1>2 DEF RecycleAt
  <2>4. CASE names[i] > 0 /\ p \notin making
    <3>1. ASSUME NEW q \in making, NEW j \in Inode, Uses(q, j)' PROVE j # i /\ Uses(q, j)
      BY <2>1, <2>4, <3>1 DEF MakeInv, TableOK
    <3> QED
      BY <2>1, <2>3, <3>1 DEF MakeInv, TableOK
  <2>5. CASE Uses(p, i) /\ p \in making
    <3>1. \A q \in Proc, j \in Inode : Uses(q, j)' <=> Uses(q, j)
      BY Zenon, <2>1, <2>5
    <3> QED
      BY <2>3, <3>1 DEF MakeInv, TableOK
  <2> QED
    BY ZenonT(60), <2>2, <2>4, <2>5
<1>3. ASSUME NEW p \in Proc, NEW i \in Inode, NEW t \in Type, ialloc(p, i, t)
      PROVE  MakeInv'
  <2>1. \A q \in Proc, j \in Inode : Uses(q, j)' <=> Uses(q, j) \/ (q = p /\ j = i)
    BY Zenon, <1>3, MoreUses
  <2>2. dtype[i] = NoType /\ pc[p] = "idle" /\ names' = names /\ making' = making \cup {p}
    BY Zenon, <1>3 DEF ialloc
  <2>3. names[i] = 0 /\ \A q \in Proc : ~Uses(q, i)
    BY <2>2 DEF Freed, TableOK
  <2>4. \A j \in Inode : ~Uses(p, j)
    BY Zenon, <2>2 DEF Uses, PlaceInv
  <2>5. making \subseteq Proc
    BY DEF TableOK
  <2> QED
    BY <2>1, <2>2, <2>3, <2>4, <2>5 DEF MakeInv
<1>4. ASSUME NEW p \in Proc, NEW q \in Proc, idup(p, q) PROVE MakeInv'
  <2>1. \A r \in Proc, j \in Inode : Uses(r, j)' <=> Uses(r, j) \/ (r = q /\ j = inum[ip[p]])
    BY Zenon, <1>4, MoreUses
  <2>2. /\ pc[p] \in {"held", "locked"} /\ p \notin making /\ pc[q] = "idle"
        /\ names' = names /\ making' = making
    BY Zenon, <1>4 DEF idup, disk
  <2>3. Uses(p, inum[ip[p]]) /\ inum[ip[p]] \in Inode
    BY Zenon, <2>2 DEF HolderFacts, Uses, PlaceInv
  <2>4. q \notin making /\ making \subseteq Proc
    BY Zenon, <2>2 DEF PlaceInv, TableOK
  <2>5. ASSUME NEW r \in making PROVE ~Uses(r, inum[ip[p]])
    BY Zenon, <2>2, <2>3, <2>5 DEF MakeInv
  <2> QED
    BY <2>1, <2>2, <2>4, <2>5 DEF MakeInv
<1>5. ASSUME NEW p \in Proc, FullAt(p) PROVE MakeInv'
  <2>1. \A q \in Proc, j \in Inode : Uses(q, j)' <=> Uses(q, j)
    BY Zenon, <1>5, SameUses
  <2>2. UNCHANGED <<names, making>>
    BY Zenon, <1>5 DEF FullAt
  <2> QED
    BY Zenon, <2>1, <2>2 DEF MakeInv, TableOK
<1>6. ASSUME NEW p \in Proc, FillLock(p) PROVE MakeInv'
  <2>1. \A q \in Proc, j \in Inode : Uses(q, j)' <=> Uses(q, j)
    BY Zenon, <1>6, SameUses
  <2>2. UNCHANGED <<names, making>>
    BY Zenon, <1>6 DEF FillLock, Goto, disk
  <2> QED
    BY <2>1, <2>2 DEF MakeInv, TableOK
<1>7. ASSUME NEW p \in Proc, FilledAt(p) PROVE MakeInv'
  <2>1. \A q \in Proc, j \in Inode : Uses(q, j)' <=> Uses(q, j)
    BY Zenon, <1>7, SameUses
  <2>2. UNCHANGED <<names, making>>
    BY Zenon, <1>7 DEF FilledAt, Fetched
  <2> QED
    BY <2>1, <2>2 DEF MakeInv, TableOK
<1>8. ASSUME NEW p \in Proc, inode_init(p) PROVE MakeInv'
  <2>1. \A q \in Proc, j \in Inode : Uses(q, j)' <=> Uses(q, j)
    BY Zenon, <1>8, SameUses
  <2>2. UNCHANGED <<names, making>>
    BY Zenon, <1>8 DEF inode_init, Goto, disk
  <2> QED
    BY <2>1, <2>2 DEF MakeInv, TableOK
<1>9. ASSUME NEW p \in Proc, LockAt(p) PROVE MakeInv'
  <2>1. \A q \in Proc, j \in Inode : Uses(q, j)' <=> Uses(q, j)
    BY Zenon, <1>9, SameUses
  <2>2. UNCHANGED <<names, making>>
    BY Zenon, <1>9 DEF LockAt, Fetched
  <2> QED
    BY <2>1, <2>2 DEF MakeInv, TableOK
<1>10. ASSUME NEW p \in Proc, iunlock(p) PROVE MakeInv'
  <2>1. \A q \in Proc, j \in Inode : Uses(q, j)' <=> Uses(q, j)
    BY Zenon, <1>10, SameUses
  <2>2. UNCHANGED <<names, making>>
    BY Zenon, <1>10 DEF iunlock, Goto, disk
  <2> QED
    BY <2>1, <2>2 DEF MakeInv, TableOK
<1>11. ASSUME NEW p \in Proc, link(p) PROVE MakeInv'
  <2>1. \A q \in Proc, j \in Inode : Uses(q, j)' <=> Uses(q, j)
    BY Zenon, <1>11, SameUses
  <2>2. /\ pc[p] = "locked" /\ p \notin making' /\ making' \subseteq making
        /\ \E v : names' = [names EXCEPT ![inum[ip[p]]] = v]
    BY Zenon, <1>11 DEF link
  <2>3. Uses(p, inum[ip[p]]) /\ inum[ip[p]] \in Inode
    BY Zenon, <2>2 DEF HolderFacts, Uses, PlaceInv
  <2>4. ASSUME NEW q \in making', NEW j \in Inode, Uses(q, j)
        PROVE  names'[j] = names[j] /\ names[j] = 0 /\ \A r \in Proc : Uses(r, j) => r = q
    <3>1. q \in making /\ q # p
      BY Zenon, <2>2, <2>4
    <3>2. j # inum[ip[p]]
      BY <2>3, <2>4, <3>1 DEF MakeInv
    <3> QED
      BY Zenon, <2>2, <2>4, <3>1, <3>2 DEF MakeInv, TableOK
  <2>5. making' \subseteq Proc
    BY Zenon, <2>2 DEF TableOK
  <2> QED
    BY Zenon, <2>1, <2>4, <2>5 DEF MakeInv
<1>12. ASSUME NEW p \in Proc, unlink(p) PROVE MakeInv'
  <2>1. \A q \in Proc, j \in Inode : Uses(q, j)' <=> Uses(q, j)
    BY Zenon, <1>12, SameUses
  <2>2. /\ pc[p] = "locked" /\ p \notin making' /\ making' \subseteq making
        /\ \E v : names' = [names EXCEPT ![inum[ip[p]]] = v]
    BY Zenon, <1>12 DEF unlink
  <2>3. Uses(p, inum[ip[p]]) /\ inum[ip[p]] \in Inode
    BY Zenon, <2>2 DEF HolderFacts, Uses, PlaceInv
  <2>4. ASSUME NEW q \in making', NEW j \in Inode, Uses(q, j)
        PROVE  names'[j] = names[j] /\ names[j] = 0 /\ \A r \in Proc : Uses(r, j) => r = q
    <3>1. q \in making /\ q # p
      BY Zenon, <2>2, <2>4
    <3>2. j # inum[ip[p]]
      BY <2>3, <2>4, <3>1 DEF MakeInv
    <3> QED
      BY Zenon, <2>2, <2>4, <3>1, <3>2 DEF MakeInv, TableOK
  <2>5. making' \subseteq Proc
    BY <2>2 DEF TableOK
  <2> QED
    BY <2>1, <2>4, <2>5 DEF MakeInv
<1>13. ASSUME NEW p \in Proc, LastAt(p) PROVE MakeInv'
  <2>1. \A q \in Proc, j \in Inode : Uses(q, j)' <=> Uses(q, j)
    BY Zenon, <1>13, SameUses
  <2>2. UNCHANGED <<names, making>>
    BY Zenon, <1>13 DEF LastAt, LastUse
  <2> QED
    BY <2>1, <2>2 DEF MakeInv, TableOK
<1>14. ASSUME NEW p \in Proc, PutAt(p) PROVE MakeInv'
  <2>1. \A q \in Proc, j \in Inode : Uses(q, j)' => Uses(q, j)
    BY Zenon, <1>14, LessUses
  <2>2. UNCHANGED <<names, making>>
    BY Zenon, <1>14 DEF PutAt, LastUse
  <2> QED
    BY Zenon, <2>1, <2>2 DEF MakeInv, TableOK
<1>15. ASSUME NEW p \in Proc, IputFree(p) PROVE MakeInv'
  <2>1. \A q \in Proc, j \in Inode : Uses(q, j)' => Uses(q, j)
    BY Zenon, <1>15, LessUses
  <2>2. UNCHANGED <<names, making>>
    BY Zenon, <1>15 DEF IputFree, Goto
  <2> QED
    BY <2>1, <2>2 DEF MakeInv, TableOK
<1>16. ASSUME NEW p \in Proc, IputDone(p) PROVE MakeInv'
  <2>1. \A q \in Proc, j \in Inode : Uses(q, j)' <=> Uses(q, j)
    BY Zenon, <1>16, SameUses
  <2>2. UNCHANGED <<names, making>>
    BY Zenon, <1>16 DEF IputDone, Goto, disk
  <2> QED
    BY <2>1, <2>2 DEF MakeInv, TableOK
<1>17. ASSUME UNCHANGED vars PROVE MakeInv'
  <2>1. UNCHANGED <<inum, names, ip, pc, want, making>>
    BY Zenon, <1>17 DEF vars, entries, disk
  <2> QED
    BY <2>1 DEF MakeInv, Uses
<1> QED
  BY Zenon, <1>1, <1>2, <1>3, <1>4, <1>5, <1>6, <1>7, <1>8, <1>9, <1>10, <1>11, <1>12, <1>13,
     <1>14, <1>15, <1>16, <1>17
     DEF CacheStep

(* sfs_iput frees an inode when nobody is left, and only then.             *)
LEMMA FreedStep ==
  ASSUME TableOK, HolderFacts, PlaceInv, RefInv, BusyInv, ValidInv, PutInv, MakeInv, NameInv,
         Freed, CacheStep \/ UNCHANGED vars
  PROVE  Freed'
<1> USE CacheAssumption
<1>1. ASSUME NEW p \in Proc, NEW i \in Inode, NEW e \in Entry, HitAt(p, i, e)
      PROVE  Freed'
  <2>1. \A q \in Proc, j \in Inode : Uses(q, j)' <=> Uses(q, j) \/ (q = p /\ j = i)
    BY Zenon, <1>1, MoreUses
  <2>2. names[i] > 0 \/ Uses(p, i)
    BY Zenon, <1>1, AskFacts
  <2>3. UNCHANGED <<names, dtype>>
    BY Zenon, <1>1 DEF HitAt
  <2> QED
    BY Zenon, <2>1, <2>2, <2>3 DEF Freed
<1>2. ASSUME NEW p \in Proc, NEW i \in Inode, NEW e \in Entry,
             NEW l \in {"fill", "typed"}, RecycleAt(p, i, e, l)
      PROVE  Freed'
  <2>1. \A q \in Proc, j \in Inode : Uses(q, j)' <=> Uses(q, j) \/ (q = p /\ j = i)
    BY <1>2, MoreUses
  <2>2. names[i] > 0 \/ Uses(p, i)
    BY Zenon, <1>2, AskFacts
  <2>3. UNCHANGED <<names, dtype>>
    BY Zenon, <1>2 DEF RecycleAt
  <2> QED
    BY Zenon, <2>1, <2>2, <2>3 DEF Freed
<1>3. ASSUME NEW p \in Proc, NEW i \in Inode, NEW t \in Type, ialloc(p, i, t)
      PROVE  Freed'
  <2>1. \A q \in Proc, j \in Inode : Uses(q, j)' <=> Uses(q, j) \/ (q = p /\ j = i)
    BY Zenon, <1>3, MoreUses
  <2>2. dtype' = [dtype EXCEPT ![i] = t] /\ names' = names
    BY Zenon, <1>3 DEF ialloc
  <2>3. dtype'[i] # NoType /\ \A j \in Inode \ {i} : dtype'[j] = dtype[j]
    BY Zenon, <2>2 DEF TableOK
  <2> QED
    BY <2>1, <2>2, <2>3 DEF Freed
<1>4. ASSUME NEW p \in Proc, NEW q \in Proc, idup(p, q) PROVE Freed'
  <2>1. \A r \in Proc, j \in Inode : Uses(r, j)' <=> Uses(r, j) \/ (r = q /\ j = inum[ip[p]])
    BY Zenon, <1>4, MoreUses
  <2>2. pc[p] \in {"held", "locked"} /\ UNCHANGED <<names, dtype>>
    BY Zenon, <1>4 DEF idup, disk
  <2>3. Uses(p, inum[ip[p]])
    BY Zenon, <2>2 DEF HolderFacts, Uses, PlaceInv
  <2> QED
    BY Zenon, <2>1, <2>2, <2>3 DEF Freed
<1>5. ASSUME NEW p \in Proc, FullAt(p) PROVE Freed'
  <2>1. \A q \in Proc, j \in Inode : Uses(q, j)' <=> Uses(q, j)
    BY Zenon, <1>5, SameUses
  <2>2. UNCHANGED <<names, dtype>>
    BY Zenon, <1>5 DEF FullAt, disk
  <2> QED
    BY Zenon, <2>1, <2>2 DEF Freed
<1>6. ASSUME NEW p \in Proc, FillLock(p) PROVE Freed'
  <2>1. \A q \in Proc, j \in Inode : Uses(q, j)' <=> Uses(q, j)
    BY Zenon, <1>6, SameUses
  <2>2. UNCHANGED <<names, dtype>>
    BY Zenon, <1>6 DEF FillLock, Goto, disk
  <2> QED
    BY <2>1, <2>2 DEF Freed
<1>7. ASSUME NEW p \in Proc, FilledAt(p) PROVE Freed'
  <2>1. \A q \in Proc, j \in Inode : Uses(q, j)' <=> Uses(q, j)
    BY Zenon, <1>7, SameUses
  <2>2. UNCHANGED <<names, dtype>>
    BY Zenon, <1>7 DEF FilledAt, Fetched, disk
  <2> QED
    BY <2>1, <2>2 DEF Freed
<1>8. ASSUME NEW p \in Proc, inode_init(p) PROVE Freed'
  <2>1. \A q \in Proc, j \in Inode : Uses(q, j)' <=> Uses(q, j)
    BY Zenon, <1>8, SameUses
  <2>2. UNCHANGED <<names, dtype>>
    BY Zenon, <1>8 DEF inode_init, Goto, disk
  <2> QED
    BY <2>1, <2>2 DEF Freed
<1>9. ASSUME NEW p \in Proc, LockAt(p) PROVE Freed'
  <2>1. \A q \in Proc, j \in Inode : Uses(q, j)' <=> Uses(q, j)
    BY Zenon, <1>9, SameUses
  <2>2. UNCHANGED <<names, dtype>>
    BY Zenon, <1>9 DEF LockAt, Fetched, disk
  <2> QED
    BY <2>1, <2>2 DEF Freed
<1>10. ASSUME NEW p \in Proc, iunlock(p) PROVE Freed'
  <2>1. \A q \in Proc, j \in Inode : Uses(q, j)' <=> Uses(q, j)
    BY Zenon, <1>10, SameUses
  <2>2. UNCHANGED <<names, dtype>>
    BY Zenon, <1>10 DEF iunlock, Goto, disk
  <2> QED
    BY <2>1, <2>2 DEF Freed
<1>11. ASSUME NEW p \in Proc, link(p) PROVE Freed'
  <2>1. \A q \in Proc, j \in Inode : Uses(q, j)' <=> Uses(q, j)
    BY Zenon, <1>11, SameUses
  <2>2. pc[p] = "locked" /\ (\E v : names' = [names EXCEPT ![inum[ip[p]]] = v]) /\ dtype' = dtype
    BY Zenon, <1>11 DEF link
  <2>3. Uses(p, inum[ip[p]]) /\ inum[ip[p]] \in Inode
    BY Zenon, <2>2 DEF HolderFacts, Uses, PlaceInv
  <2>4. \A j \in Inode : j # inum[ip[p]] => names'[j] = names[j]
    BY Zenon, <2>2 DEF TableOK
  <2> QED
    BY ZenonT(60), <2>1, <2>2, <2>3, <2>4 DEF Freed
<1>12. ASSUME NEW p \in Proc, unlink(p) PROVE Freed'
  <2>1. \A q \in Proc, j \in Inode : Uses(q, j)' <=> Uses(q, j)
    BY Zenon, <1>12, SameUses
  <2>2. pc[p] = "locked" /\ (\E v : names' = [names EXCEPT ![inum[ip[p]]] = v]) /\ dtype' = dtype
    BY Zenon, <1>12 DEF unlink
  <2>3. Uses(p, inum[ip[p]]) /\ inum[ip[p]] \in Inode
    BY Zenon, <2>2 DEF HolderFacts, Uses, PlaceInv
  <2>4. \A j \in Inode : j # inum[ip[p]] => names'[j] = names[j]
    BY <2>2 DEF TableOK
  <2> QED
    BY <2>1, <2>2, <2>3, <2>4 DEF Freed
<1>13. ASSUME NEW p \in Proc, LastAt(p) PROVE Freed'
  <2>1. \A q \in Proc, j \in Inode : Uses(q, j)' <=> Uses(q, j)
    BY Zenon, <1>13, SameUses
  <2>2. UNCHANGED <<names, dtype>>
    BY Zenon, <1>13 DEF LastAt, LastUse, disk
  <2> QED
    BY <2>1, <2>2 DEF Freed
<1>14. ASSUME NEW p \in Proc, PutAt(p) PROVE Freed'
  <2>1. /\ \A q \in Proc, j \in Inode : Uses(q, j)' <=> Uses(q, j) /\ q # p
        /\ \A j \in Inode : Uses(p, j) <=> j = inum[ip[p]]
    BY Zenon, <1>14, LessUses
  <2>2. pc[p] = "held" /\ p \notin making /\ ~LastUse(ip[p]) /\ UNCHANGED <<names, dtype>>
    BY Zenon, <1>14 DEF PutAt
  <2>3. ip[p] \in Entry /\ inum[ip[p]] \in Inode /\ ref[ip[p]] > 0 /\ ip[p] # 0
    BY Zenon, <2>2 DEF HolderFacts, PlaceInv
  <2>4. names[inum[ip[p]]] > 0 \/ \E q \in Proc \ {p} : Uses(q, inum[ip[p]])
    <3>1. CASE ref[ip[p]] # 1
      <4>1. PICK q \in Proc \ {p} : ip[q] = ip[p]
        BY Zenon, <2>3, <3>1 DEF HolderFacts
      <4>2. pc[q] # "freed"
        BY Zenon, <2>2, <4>1 DEF PutInv
      <4> QED
        BY Zenon, <2>3, <4>1, <4>2 DEF Uses
    <3>2. CASE ref[ip[p]] = 1 /\ valid[ip[p]] = 0
      <4>1. \A q \in making : ip[q] # ip[p]
        BY <2>2, <2>3, <3>2 DEF HolderFacts, TableOK
      <4> QED
        BY Zenon, <2>3, <3>2, <4>1 DEF ValidInv
    <3>3. CASE ref[ip[p]] = 1 /\ valid[ip[p]] = 1
      <4>1. nlink[ip[p]] # 0 /\ nlink[ip[p]] = names[inum[ip[p]]]
        BY ZenonT(60), <2>2, <2>3, <3>3 DEF LastUse, ValidInv, NameInv
      <4> QED
        BY <2>3, <4>1 DEF TableOK
    <3>4. valid[ip[p]] \in {0, 1}
      BY Zenon, <2>3 DEF TableOK
    <3> QED
      BY Zenon, <3>1, <3>2, <3>3, <3>4
  <2> QED
    BY Zenon, <2>1, <2>2, <2>3, <2>4 DEF Freed
<1>15. ASSUME NEW p \in Proc, IputFree(p) PROVE Freed'
  <2>1. /\ \A q \in Proc, j \in Inode : Uses(q, j)' <=> Uses(q, j) /\ q # p
        /\ \A j \in Inode : Uses(p, j) <=> j = inum[ip[p]]
    BY Zenon, <1>15, LessUses
  <2>2. pc[p] = "trunc" /\ names' = names /\ dtype' = [dtype EXCEPT ![inum[ip[p]]] = NoType]
    BY Zenon, <1>15 DEF IputFree
  <2>3. ip[p] # 0 /\ inum[ip[p]] \in Inode /\ names[inum[ip[p]]] = 0
    BY Zenon, <2>2 DEF HolderFacts, PlaceInv, PutInv
  <2>4. ASSUME NEW q \in Proc \ {p} PROVE ~Uses(q, inum[ip[p]])
    <3>1. ip[q] # ip[p]
      BY Zenon, <2>2 DEF PutInv
    <3>2. CASE ip[q] # 0
      <4>1. inum[ip[q]] # inum[ip[p]]
        BY Zenon, <2>3, <3>1, <3>2 DEF HolderFacts
      <4>2. pc[q] \notin {"alloc", "noinodes"}
        BY Zenon, <3>2 DEF PlaceInv
      <4> QED
        BY Zenon, <4>1, <4>2 DEF Uses
    <3>3. CASE ip[q] = 0
      <4>1. q \in making => ~Uses(q, inum[ip[p]])
        BY Zenon, <2>1, <2>3 DEF MakeInv
      <4>2. Uses(q, inum[ip[p]]) => q \in making
        BY Zenon, <2>3, <3>3 DEF Uses, PlaceInv
      <4> QED
        BY Zenon, <4>1, <4>2
    <3> QED
      BY Zenon, <3>2, <3>3
  <2>5. dtype'[inum[ip[p]]] = NoType /\ \A j \in Inode \ {inum[ip[p]]} : dtype'[j] = dtype[j]
    BY Zenon, <2>2, <2>3 DEF TableOK
  <2>6. ASSUME NEW j \in Inode, j # inum[ip[p]]
        PROVE  dtype'[j] # NoType <=> names'[j] > 0 \/ \E q \in Proc : Uses(q, j)'
    BY Zenon, <2>1, <2>2, <2>5, <2>6 DEF Freed
  <2>7. ASSUME NEW j \in Inode, j = inum[ip[p]]
        PROVE  dtype'[j] = NoType /\ names'[j] = 0 /\ \A q \in Proc : ~Uses(q, j)'
    BY Zenon, <2>1, <2>2, <2>3, <2>4, <2>5, <2>7
  <2>8. ASSUME NEW j \in Inode, j = inum[ip[p]]
        PROVE  dtype'[j] # NoType <=> names'[j] > 0 \/ \E q \in Proc : Uses(q, j)'
    BY Zenon, <2>7, <2>8, SmallNumbers
  <2> QED
    BY Zenon, <2>6, <2>8 DEF Freed
<1>16. ASSUME NEW p \in Proc, IputDone(p) PROVE Freed'
  <2>1. \A q \in Proc, j \in Inode : Uses(q, j)' <=> Uses(q, j)
    BY Zenon, <1>16, SameUses
  <2>2. UNCHANGED <<names, dtype>>
    BY Zenon, <1>16 DEF IputDone, Goto, disk
  <2> QED
    BY <2>1, <2>2 DEF Freed
<1>17. ASSUME UNCHANGED vars PROVE Freed'
  <2>1. UNCHANGED <<inum, names, dtype, ip, pc, want>>
    BY Zenon, <1>17 DEF vars, entries, disk
  <2> QED
    BY Zenon, <2>1 DEF Freed, Uses
<1> QED
  BY Zenon, <1>1, <1>2, <1>3, <1>4, <1>5, <1>6, <1>7, <1>8, <1>9, <1>10, <1>11, <1>12, <1>13,
     <1>14, <1>15, <1>16, <1>17
     DEF CacheStep

(***************************************************************************)
(* Counting.                                                               *)
(***************************************************************************)

(***************************************************************************)
(* What the counts say.                                                    *)
(***************************************************************************)
(* ref counts the processes with a pointer to the entry, so that an entry  *)
(* without references has no user, and the last one is alone.              *)
LEMMA RefFacts ==
  ASSUME TableOK, PlaceInv, RefInv
  PROVE  HolderFacts
<1>1. ASSUME NEW e \in Entry PROVE IsFiniteSet(Holders(e)) /\ Cardinality(Holders(e)) \in Nat
  <2>1. Holders(e) \in SUBSET Proc
    BY DEF Holders
  <2> QED
    BY Zenon, <2>1, CacheAssumption, FS_Subset, FS_CardinalityType
<1>2. ASSUME NEW e \in Entry PROVE ref[e] = 0 <=> Holders(e) = {}
  BY Zenon, <1>1, FS_EmptySet DEF RefInv
<1>3. ASSUME NEW e \in Entry PROVE /\ ref[e] = 0 <=> \A p \in Proc : ip[p] # e
                                   /\ ref[e] > 0 <=> \E p \in Proc : ip[p] = e
  <2>1. Holders(e) = {} <=> \A p \in Proc : ip[p] # e
    BY DEF Holders
  <2>2. ref[e] \in Nat
    BY DEF TableOK
  <2> QED
    BY <1>2, <2>1, <2>2
<1>4. ASSUME NEW p \in Proc, ip[p] # 0
      PROVE  ip[p] \in Entry /\ ref[ip[p]] > 0 /\ inum[ip[p]] \in Inode
  BY <1>3, <1>4 DEF TableOK, RefInv
<1>5. ASSUME NEW p \in Proc, NEW q \in Proc, ip[p] # 0, ref[ip[p]] = 1, ip[q] = ip[p] PROVE q = p
  <2>1. ip[p] \in Entry
    BY Zenon, <1>4, <1>5
  <2>2. PICK x : Holders(ip[p]) = {x}
    BY Zenon, <1>1, <1>5, <2>1, FS_Singleton DEF RefInv
  <2>3. p \in Holders(ip[p]) /\ q \in Holders(ip[p])
    BY <1>5 DEF Holders
  <2> QED
    BY <2>2, <2>3
<1>6. ASSUME NEW p \in Proc, NEW q \in Proc, ip[p] # 0, ip[q] # 0, inum[ip[p]] = inum[ip[q]]
      PROVE  ip[p] = ip[q]
  BY Zenon, <1>4, <1>6 DEF RefInv
<1>7. 0 \notin Entry
  BY CacheAssumption DEF Entry
<1>8. ASSUME NEW p \in Proc, ip[p] # 0, ref[ip[p]] # 1 PROVE \E q \in Proc \ {p} : ip[q] = ip[p]
  <2> SUFFICES ASSUME \A q \in Proc \ {p} : ip[q] # ip[p] PROVE FALSE
    OBVIOUS
  <2>1. Holders(ip[p]) = {p}
    BY DEF Holders
  <2>2. ip[p] \in Entry
    BY <1>4, <1>8
  <2> QED
    BY Zenon, <1>8, <2>1, <2>2, FS_Singleton DEF RefInv
<1>9. ASSUME NEW i \in Inode PROVE Cardinality(Found(i)) \in Nat
  <2>1. IsFiniteSet(Found(i))
    BY Zenon, CacheAssumption, FS_Subset DEF Found
  <2> QED
    BY Zenon, <2>1, FS_CardinalityType
<1> QED
  BY Zenon, <1>3, <1>4, <1>5, <1>6, <1>7, <1>8, <1>9 DEF HolderFacts

(* A pointer more, as sfs_iget and sfs_idup add it.                        *)
LEMMA CountAdd ==
  ASSUME TableOK, RefInv, NEW p \in Proc, NEW e \in Entry, ip[p] = 0,
         ip' = [ip EXCEPT ![p] = e]
  PROVE  \A f \in Entry : Cardinality(Holders(f)') = IF f = e THEN ref[f] + 1 ELSE ref[f]
<1> TAKE f \in Entry
<1>0. ip \in [Proc -> Entry \cup {0}] /\ ref[f] = Cardinality(Holders(f)) /\ 0 \notin Entry
  BY CacheAssumption DEF TableOK, RefInv, Entry
<1>1. CASE f = e
  <2>1. Holders(f)' = Holders(f) \cup {p} /\ p \notin Holders(f)
    BY Zenon, <1>0, <1>1 DEF Holders
  <2>2. IsFiniteSet(Holders(f))
    BY CacheAssumption, FS_Subset DEF Holders
  <2>3. Cardinality(Holders(f) \cup {p}) = Cardinality(Holders(f)) + 1
    BY Zenon, <2>1, <2>2, FS_AddElement
  <2> QED
    BY Zenon, <1>0, <1>1, <2>1, <2>3
<1>2. CASE f # e
  <2>1. Holders(f)' = Holders(f)
    BY <1>0, <1>2 DEF Holders
  <2> QED
    BY Zenon, <1>0, <1>2, <2>1
<1> QED
  BY Zenon, <1>1, <1>2

(* A pointer less, as sfs_iput leaves it.                                  *)
LEMMA CountRemove ==
  ASSUME TableOK, RefInv, NEW p \in Proc, ip[p] # 0, ip' = [ip EXCEPT ![p] = 0]
  PROVE  \A f \in Entry : Cardinality(Holders(f)') = IF f = ip[p] THEN ref[f] - 1 ELSE ref[f]
<1> TAKE f \in Entry
<1>0. ip \in [Proc -> Entry \cup {0}] /\ ref[f] = Cardinality(Holders(f)) /\ 0 \notin Entry
  BY CacheAssumption DEF TableOK, RefInv, Entry
<1>1. CASE f = ip[p]
  <2>1. Holders(f)' = Holders(f) \ {p} /\ p \in Holders(f)
    BY <1>0, <1>1 DEF Holders
  <2>2. IsFiniteSet(Holders(f))
    BY CacheAssumption, FS_Subset DEF Holders
  <2> QED
    BY Zenon, <1>0, <1>1, <2>1, <2>2, FS_RemoveElement
<1>2. CASE f # ip[p]
  <2>1. Holders(f)' = Holders(f)
    BY Zenon, <1>0, <1>2 DEF Holders
  <2> QED
    BY <1>0, <1>2, <2>1
<1> QED
  BY Zenon, <1>1, <1>2

(* sfs_iget, sfs_idup and sfs_iput count, and sfs_iget looks before it    *)
(* takes a second entry for an inode.                                      *)
LEMMA RefStep ==
  ASSUME TableOK, HolderFacts, PlaceInv, RefInv, BusyInv, ValidInv, PutInv, MakeInv, NameInv,
         Freed, CacheStep \/ UNCHANGED vars
  PROVE  RefInv'
<1> USE CacheAssumption
<1>1. ASSUME NEW p \in Proc, NEW i \in Inode, NEW e \in Entry, HitAt(p, i, e)
      PROVE  RefInv'
  <2>1. ip[p] = 0
    BY Zenon, <1>1 DEF HitAt, PlaceInv
  <2>2. \A f \in Entry : Cardinality(Holders(f)') = IF f = e THEN ref[f] + 1 ELSE ref[f]
    BY Zenon, <1>1, <2>1, CountAdd DEF HitAt
  <2> QED
    BY Zenon, <1>1, <2>2 DEF HitAt, RefInv, TableOK
<1>2. ASSUME NEW p \in Proc, NEW i \in Inode, NEW e \in Entry,
             NEW l \in {"fill", "typed"}, RecycleAt(p, i, e, l)
      PROVE  RefInv'
  <2>1. ip[p] = 0
    BY Zenon, <1>2 DEF RecycleAt, PlaceInv
  <2>2. \A f \in Entry : Cardinality(Holders(f)') = IF f = e THEN ref[f] + 1 ELSE ref[f]
    BY Zenon, <1>2, <2>1, CountAdd DEF RecycleAt
  <2> QED
    BY <1>2, <2>2 DEF RecycleAt, RefInv, TableOK
<1>3. ASSUME NEW p \in Proc, NEW i \in Inode, NEW t \in Type, ialloc(p, i, t)
      PROVE  RefInv'
  <2>1. UNCHANGED <<fstype, ref, inum, ip>>
    BY Zenon, <1>3 DEF ialloc, Goto, entries
  <2> QED
    BY Zenon, <2>1 DEF RefInv, Holders
<1>4. ASSUME NEW p \in Proc, NEW q \in Proc, idup(p, q) PROVE RefInv'
  <2>1. ip[q] = 0 /\ ip[p] # 0
    BY Zenon, <1>4 DEF idup, PlaceInv
  <2>2. PICK e \in Entry : e = ip[p] /\ ref[e] > 0
    BY Zenon, <2>1 DEF HolderFacts
  <2>3. \A f \in Entry : Cardinality(Holders(f)') = IF f = e THEN ref[f] + 1 ELSE ref[f]
    BY Zenon, <1>4, <2>1, <2>2, CountAdd DEF idup
  <2> QED
    BY Zenon, <1>4, <2>2, <2>3 DEF idup, RefInv, TableOK
<1>5. ASSUME NEW p \in Proc, FullAt(p) PROVE RefInv'
  <2>1. UNCHANGED <<fstype, ref, inum, ip>>
    BY Zenon, <1>5 DEF FullAt
  <2> QED
    BY Zenon, <2>1 DEF RefInv, Holders
<1>6. ASSUME NEW p \in Proc, FillLock(p) PROVE RefInv'
  <2>1. UNCHANGED <<fstype, ref, inum, ip>>
    BY Zenon, <1>6 DEF FillLock, Goto, disk
  <2> QED
    BY Zenon, <2>1 DEF RefInv, Holders
<1>7. ASSUME NEW p \in Proc, FilledAt(p) PROVE RefInv'
  <2>1. UNCHANGED <<fstype, ref, inum, ip>>
    BY ZenonT(60), <1>7 DEF FilledAt, Fetched
  <2> QED
    BY Zenon, <2>1 DEF RefInv, Holders
<1>8. ASSUME NEW p \in Proc, inode_init(p) PROVE RefInv'
  <2>1. UNCHANGED <<ref, inum, ip>>
    BY Zenon, <1>8 DEF inode_init
  <2> QED
    BY Zenon, <2>1 DEF RefInv, Holders
<1>9. ASSUME NEW p \in Proc, LockAt(p) PROVE RefInv'
  <2>1. UNCHANGED <<fstype, ref, inum, ip>>
    BY Zenon, <1>9 DEF LockAt, Fetched
  <2> QED
    BY Zenon, <2>1 DEF RefInv, Holders
<1>10. ASSUME NEW p \in Proc, iunlock(p) PROVE RefInv'
  <2>1. UNCHANGED <<fstype, ref, inum, ip>>
    BY Zenon, <1>10 DEF iunlock, Goto, disk
  <2> QED
    BY <2>1 DEF RefInv, Holders
<1>11. ASSUME NEW p \in Proc, link(p) PROVE RefInv'
  <2>1. UNCHANGED <<fstype, ref, inum, ip>>
    BY Zenon, <1>11 DEF link
  <2> QED
    BY <2>1 DEF RefInv, Holders
<1>12. ASSUME NEW p \in Proc, unlink(p) PROVE RefInv'
  <2>1. UNCHANGED <<fstype, ref, inum, ip>>
    BY Zenon, <1>12 DEF unlink
  <2> QED
    BY <2>1 DEF RefInv, Holders
<1>13. ASSUME NEW p \in Proc, LastAt(p) PROVE RefInv'
  <2>1. UNCHANGED <<fstype, ref, inum, ip>>
    BY Zenon, <1>13 DEF LastAt, LastUse
  <2> QED
    BY <2>1 DEF RefInv, Holders
<1>14. ASSUME NEW p \in Proc, PutAt(p) PROVE RefInv'
  <2>1. ip[p] # 0
    BY Zenon, <1>14 DEF PutAt, PlaceInv
  <2>2. \A f \in Entry : Cardinality(Holders(f)') = IF f = ip[p] THEN ref[f] - 1 ELSE ref[f]
    BY Zenon, <1>14, <2>1, CountRemove DEF PutAt
  <2>3. ip[p] \in Entry /\ ref[ip[p]] > 0
    BY Zenon, <2>1 DEF HolderFacts
  <2> QED
    BY <1>14, <2>2, <2>3 DEF PutAt, RefInv, TableOK
<1>15. ASSUME NEW p \in Proc, IputFree(p) PROVE RefInv'
  <2>1. UNCHANGED <<fstype, ref, inum, ip>>
    BY Zenon, <1>15 DEF IputFree, Goto
  <2> QED
    BY <2>1 DEF RefInv, Holders
<1>16. ASSUME NEW p \in Proc, IputDone(p) PROVE RefInv'
  <2>1. ip[p] # 0
    BY Zenon, <1>16 DEF IputDone, PlaceInv
  <2>2. \A f \in Entry : Cardinality(Holders(f)') = IF f = ip[p] THEN ref[f] - 1 ELSE ref[f]
    BY Zenon, <1>16, <2>1, CountRemove DEF IputDone
  <2>3. ip[p] \in Entry /\ ref[ip[p]] > 0
    BY <2>1 DEF HolderFacts
  <2> QED
    BY <1>16, <2>2, <2>3 DEF IputDone, RefInv, TableOK
<1>17. ASSUME UNCHANGED vars PROVE RefInv'
  <2>1. UNCHANGED <<fstype, ref, inum, ip>>
    BY Zenon, <1>17 DEF vars, entries
  <2> QED
    BY Zenon, <2>1 DEF RefInv, Holders
<1> QED
  BY Zenon, <1>1, <1>2, <1>3, <1>4, <1>5, <1>6, <1>7, <1>8, <1>9, <1>10, <1>11, <1>12, <1>13,
     <1>14, <1>15, <1>16, <1>17
     DEF CacheStep

(* The names that processes have found: dirlookup finds one more, vop_init *)
(* ends a lookup.                                                          *)
LEMMA FoundStep ==
  ASSUME TableOK, HolderFacts, PlaceInv, RefInv, NEW i \in Inode
  PROVE  /\ \A p \in Proc, j \in Inode, e \in Entry : HitAt(p, j, e) => Found(i)' = Found(i)
         /\ \A p \in Proc, j \in Inode, t \in Type : ialloc(p, j, t) => Found(i)' = Found(i)
         /\ \A p, q \in Proc : idup(p, q) => Found(i)' = Found(i)
         /\ \A p \in Proc :
              \/ FullAt(p) \/ FillLock(p) \/ FilledAt(p) \/ LockAt(p) \/ iunlock(p) \/ link(p)
              \/ unlink(p) \/ LastAt(p) \/ PutAt(p) \/ IputFree(p) \/ IputDone(p)
              => Found(i)' = Found(i)
         /\ \A p \in Proc : inode_init(p) => Found(i)' \subseteq Found(i)
         /\ \A p \in Proc, j \in Inode, e \in Entry, l \in {"fill", "typed"} :
              RecycleAt(p, j, e, l) =>
                Found(i)' = IF l = "fill" /\ i = j THEN Found(i) \cup {p} ELSE Found(i)
<1> USE DEF Found, TableOK, PlaceInv
<1>1. ASSUME NEW p \in Proc, NEW j \in Inode, NEW e \in Entry, HitAt(p, j, e)
      PROVE  Found(i)' = Found(i)
  BY Zenon, <1>1 DEF HitAt
<1>2. ASSUME NEW p \in Proc, NEW j \in Inode, NEW t \in Type, ialloc(p, j, t)
      PROVE  Found(i)' = Found(i)
  BY Zenon, <1>2 DEF ialloc, Goto
<1>3. ASSUME NEW p \in Proc, NEW q \in Proc, idup(p, q) PROVE Found(i)' = Found(i)
  BY Zenon, <1>3 DEF idup, Goto
<1>4. ASSUME NEW p \in Proc, FullAt(p) PROVE Found(i)' = Found(i)
  BY Zenon, <1>4 DEF FullAt
<1>5. ASSUME NEW p \in Proc, FillLock(p) PROVE Found(i)' = Found(i)
  BY Zenon, <1>5 DEF FillLock, Goto, disk
<1>6. ASSUME NEW p \in Proc, FilledAt(p) PROVE Found(i)' = Found(i)
  BY <1>6 DEF FilledAt, Fetched
<1>7. ASSUME NEW p \in Proc, LockAt(p) PROVE Found(i)' = Found(i)
  BY Zenon, <1>7 DEF LockAt, Fetched
<1>8. ASSUME NEW p \in Proc, iunlock(p) PROVE Found(i)' = Found(i)
  BY Zenon, <1>8 DEF iunlock, Goto, disk
<1>9. ASSUME NEW p \in Proc, link(p) PROVE Found(i)' = Found(i)
  BY Zenon, <1>9 DEF link
<1>10. ASSUME NEW p \in Proc, unlink(p) PROVE Found(i)' = Found(i)
  BY <1>10 DEF unlink
<1>11. ASSUME NEW p \in Proc, LastAt(p) PROVE Found(i)' = Found(i)
  BY Zenon, <1>11 DEF LastAt, LastUse
<1>12. ASSUME NEW p \in Proc, PutAt(p) PROVE Found(i)' = Found(i)
  BY Zenon, <1>12 DEF PutAt, LastUse
<1>13. ASSUME NEW p \in Proc, IputFree(p) PROVE Found(i)' = Found(i)
  BY Zenon, <1>13 DEF IputFree, Goto
<1>14. ASSUME NEW p \in Proc, IputDone(p) PROVE Found(i)' = Found(i)
  BY Zenon, <1>14 DEF IputDone, Goto, disk
<1>15. ASSUME NEW p \in Proc, inode_init(p) PROVE Found(i)' \subseteq Found(i)
  BY Zenon, <1>15 DEF inode_init, Goto
<1>16. ASSUME NEW p \in Proc, NEW j \in Inode, NEW e \in Entry, NEW l \in {"fill", "typed"},
              RecycleAt(p, j, e, l)
       PROVE  Found(i)' = IF l = "fill" /\ i = j THEN Found(i) \cup {p} ELSE Found(i)
  <2>1. pc[p] \in {"idle", "alloc"}
    BY Zenon, <1>16 DEF RecycleAt
  <2>2. pc'[p] = l /\ want'[p] = j
    BY Zenon, <1>16 DEF RecycleAt
  <2>3. \A q \in Proc \ {p} : pc'[q] = pc[q] /\ want'[q] = want[q]
    BY Zenon, <1>16 DEF RecycleAt
  <2> QED
    BY Zenon, <2>1, <2>2, <2>3
<1> QED
  BY Zenon, <1>1, <1>2, <1>3, <1>4, <1>5, <1>6, <1>7, <1>8, <1>9, <1>10, <1>11, <1>12, <1>13,
     <1>14, <1>15, <1>16

(* A name that has been found stays, and nlink is the number of the names. *)
LEMMA NameStep ==
  ASSUME TableOK, HolderFacts, PlaceInv, RefInv, BusyInv, ValidInv, PutInv, MakeInv, NameInv,
         Freed, CacheStep \/ UNCHANGED vars
  PROVE  NameInv'
<1> USE CacheAssumption
<1>1. ASSUME NEW p \in Proc, NEW i \in Inode, NEW e \in Entry, HitAt(p, i, e)
      PROVE  NameInv'
  <2>1. \A j \in Inode : Found(j)' = Found(j)
    BY Zenon, <1>1, FoundStep
  <2>2. UNCHANGED <<dlink, names>>
    BY Zenon, <1>1 DEF HitAt, disk
  <2> QED
    BY Zenon, <2>1, <2>2 DEF NameInv
<1>2. ASSUME NEW p \in Proc, NEW i \in Inode, NEW e \in Entry,
             NEW l \in {"fill", "typed"}, RecycleAt(p, i, e, l)
      PROVE  NameInv'
  <2>1. UNCHANGED <<dlink, names>>
    BY Zenon, <1>2 DEF RecycleAt
  <2>2. ASSUME NEW j \in Inode PROVE Cardinality(Found(j)') <= names[j]
    <3>1. Found(j)' = IF l = "fill" /\ j = i THEN Found(j) \cup {p} ELSE Found(j)
      BY <1>2, FoundStep
    <3>2. CASE l = "fill" /\ j = i
      <4>1. pc[p] = "idle" /\ Cardinality(Found(i)) < names[i]
        BY Zenon, <1>2, <3>2 DEF RecycleAt
      <4>2. IsFiniteSet(Found(i)) /\ p \notin Found(i)
        BY Zenon, <4>1, FS_Subset DEF Found
      <4>3. Cardinality(Found(j)') = Cardinality(Found(i)) + 1
        BY Zenon, <3>1, <3>2, <4>2, FS_AddElement
      <4> QED
        BY <3>2, <4>1, <4>2, <4>3, FS_CardinalityType DEF TableOK
    <3>3. CASE ~(l = "fill" /\ j = i)
      BY Zenon, <3>1, <3>3 DEF NameInv
    <3> QED
      BY Zenon, <3>2, <3>3
  <2> QED
    BY Zenon, <2>1, <2>2 DEF NameInv
<1>3. ASSUME NEW p \in Proc, NEW i \in Inode, NEW t \in Type, ialloc(p, i, t)
      PROVE  NameInv'
  <2>1. \A j \in Inode : Found(j)' = Found(j)
    BY Zenon, <1>3, FoundStep
  <2>2. dtype[i] = NoType /\ dlink' = [dlink EXCEPT ![i] = 0] /\ names' = names
    BY Zenon, <1>3 DEF ialloc
  <2>3. names[i] = 0
    BY <2>2 DEF Freed, TableOK
  <2>4. dlink' = dlink
    BY Zenon, <2>2, <2>3 DEF NameInv, TableOK
  <2> QED
    BY Zenon, <2>1, <2>2, <2>4 DEF NameInv
<1>4. ASSUME NEW p \in Proc, NEW q \in Proc, idup(p, q) PROVE NameInv'
  <2>1. \A j \in Inode : Found(j)' = Found(j)
    BY Zenon, <1>4, FoundStep
  <2>2. UNCHANGED <<dlink, names>>
    BY Zenon, <1>4 DEF idup, Goto, disk
  <2> QED
    BY Zenon, <2>1, <2>2 DEF NameInv
<1>5. ASSUME NEW p \in Proc, FullAt(p) PROVE NameInv'
  <2>1. \A j \in Inode : Found(j)' = Found(j)
    BY Zenon, <1>5, FoundStep
  <2>2. UNCHANGED <<dlink, names>>
    BY Zenon, <1>5 DEF FullAt, disk
  <2> QED
    BY Zenon, <2>1, <2>2 DEF NameInv
<1>6. ASSUME NEW p \in Proc, FillLock(p) PROVE NameInv'
  <2>1. \A j \in Inode : Found(j)' = Found(j)
    BY Zenon, <1>6, FoundStep
  <2>2. UNCHANGED <<dlink, names>>
    BY Zenon, <1>6 DEF FillLock, Goto, disk
  <2> QED
    BY Zenon, <2>1, <2>2 DEF NameInv
<1>7. ASSUME NEW p \in Proc, FilledAt(p) PROVE NameInv'
  <2>1. \A j \in Inode : Found(j)' = Found(j)
    BY Zenon, <1>7, FoundStep
  <2>2. UNCHANGED <<dlink, names>>
    BY Zenon, <1>7 DEF FilledAt, Fetched, disk
  <2> QED
    BY <2>1, <2>2 DEF NameInv
<1>8. ASSUME NEW p \in Proc, inode_init(p) PROVE NameInv'
  <2>1. ASSUME NEW i \in Inode PROVE Cardinality(Found(i)') <= Cardinality(Found(i))
    <3>1. Found(i)' \subseteq Found(i)
      BY Zenon, <1>8, FoundStep
    <3>2. IsFiniteSet(Found(i))
      BY Zenon, FS_Subset DEF Found
    <3> QED
      BY Zenon, <3>1, <3>2, FS_Subset
  <2>2. UNCHANGED <<dlink, names>>
    BY Zenon, <1>8 DEF inode_init, disk
  <2>3. ASSUME NEW i \in Inode PROVE Cardinality(Found(i)') <= names[i]
    <3>1. IsFiniteSet(Found(i)) /\ IsFiniteSet(Found(i)')
      BY Zenon, FS_Subset DEF Found
    <3>2. Cardinality(Found(i)) \in Nat /\ Cardinality(Found(i)') \in Nat /\ names[i] \in Nat
      BY <3>1, FS_CardinalityType DEF TableOK
    <3> QED
      BY <2>1, <3>2 DEF NameInv
  <2> QED
    BY Zenon, <2>2, <2>3 DEF NameInv
<1>9. ASSUME NEW p \in Proc, LockAt(p) PROVE NameInv'
  <2>1. \A j \in Inode : Found(j)' = Found(j)
    BY Zenon, <1>9, FoundStep
  <2>2. UNCHANGED <<dlink, names>>
    BY Zenon, <1>9 DEF LockAt, Fetched, disk
  <2> QED
    BY <2>1, <2>2 DEF NameInv
<1>10. ASSUME NEW p \in Proc, iunlock(p) PROVE NameInv'
  <2>1. \A j \in Inode : Found(j)' = Found(j)
    BY <1>10, FoundStep
  <2>2. UNCHANGED <<dlink, names>>
    BY Zenon, <1>10 DEF iunlock, Goto, disk
  <2> QED
    BY <2>1, <2>2 DEF NameInv
<1>11. ASSUME NEW p \in Proc, link(p) PROVE NameInv'
  <2>1. \A j \in Inode : Found(j)' = Found(j)
    BY Zenon, <1>11, FoundStep
  <2>2. /\ pc[p] = "locked" /\ nlink' = [nlink EXCEPT ![ip[p]] = @ + 1]
        /\ dlink' = [dlink EXCEPT ![inum[ip[p]]] = nlink'[ip[p]]]
        /\ names' = [names EXCEPT ![inum[ip[p]]] = @ + 1]
    BY Zenon, <1>11 DEF link
  <2>3. /\ ip[p] \in Entry /\ inum[ip[p]] \in Inode
        /\ nlink[ip[p]] = names[inum[ip[p]]]
    BY Zenon, <2>2, LockedFacts
  <2>4. \A j \in Inode : IsFiniteSet(Found(j))
    BY Zenon, FS_Subset DEF Found
  <2>5. \A j \in Inode : Cardinality(Found(j)) \in Nat /\ names[j] \in Nat
    BY <2>4, FS_CardinalityType DEF TableOK
  <2>6. \A j \in Inode \ {inum[ip[p]]} : dlink'[j] = dlink[j] /\ names'[j] = names[j]
    BY Zenon, <2>2, <2>3 DEF TableOK
  <2>7. /\ names'[inum[ip[p]]] = names[inum[ip[p]]] + 1
        /\ dlink'[inum[ip[p]]] = names[inum[ip[p]]] + 1
    BY Zenon, <2>2, <2>3 DEF TableOK
  <2> QED
    BY <2>1, <2>2, <2>3, <2>5, <2>6, <2>7 DEF NameInv
<1>12. ASSUME NEW p \in Proc, unlink(p) PROVE NameInv'
  <2>1. \A j \in Inode : Found(j)' = Found(j)
    BY <1>12, FoundStep
  <2>2. /\ pc[p] = "locked" /\ nlink' = [nlink EXCEPT ![ip[p]] = @ - 1]
        /\ dlink' = [dlink EXCEPT ![inum[ip[p]]] = nlink'[ip[p]]]
        /\ names' = [names EXCEPT ![inum[ip[p]]] = @ - 1]
        /\ Cardinality(Found(inum[ip[p]])) < names[inum[ip[p]]]
        /\ inum[ip[p]] # Root
    BY Zenon, <1>12 DEF unlink
  <2>3. /\ ip[p] \in Entry /\ inum[ip[p]] \in Inode
        /\ nlink[ip[p]] = names[inum[ip[p]]]
    BY Zenon, <2>2, LockedFacts
  <2>4. \A j \in Inode : IsFiniteSet(Found(j))
    BY FS_Subset DEF Found
  <2>5. \A j \in Inode : Cardinality(Found(j)) \in Nat /\ names[j] \in Nat
    BY <2>4, FS_CardinalityType DEF TableOK
  <2>6. \A j \in Inode \ {inum[ip[p]]} : dlink'[j] = dlink[j] /\ names'[j] = names[j]
    BY Zenon, <2>2, <2>3 DEF TableOK
  <2>7. /\ names'[inum[ip[p]]] = names[inum[ip[p]]] - 1
        /\ dlink'[inum[ip[p]]] = names[inum[ip[p]]] - 1
    BY Zenon, <2>2, <2>3 DEF TableOK
  <2>8. names'[Root] > 0
    BY <2>2, <2>6 DEF NameInv
  <2>9. ASSUME NEW j \in Inode PROVE dlink'[j] = names'[j] /\ Cardinality(Found(j)') <= names'[j]
    <3>1. CASE j = inum[ip[p]]
      BY <2>1, <2>2, <2>5, <2>7, <3>1
    <3>2. CASE j # inum[ip[p]]
      BY <2>1, <2>6, <3>2 DEF NameInv
    <3> QED
      BY Zenon, <3>1, <3>2
  <2> QED
    BY Zenon, <2>8, <2>9 DEF NameInv
<1>13. ASSUME NEW p \in Proc, LastAt(p) PROVE NameInv'
  <2>1. \A j \in Inode : Found(j)' = Found(j)
    BY Zenon, <1>13, FoundStep
  <2>2. UNCHANGED <<dlink, names>>
    BY Zenon, <1>13 DEF LastAt, LastUse, disk
  <2> QED
    BY <2>1, <2>2 DEF NameInv
<1>14. ASSUME NEW p \in Proc, PutAt(p) PROVE NameInv'
  <2>1. \A j \in Inode : Found(j)' = Found(j)
    BY <1>14, FoundStep
  <2>2. UNCHANGED <<dlink, names>>
    BY Zenon, <1>14 DEF PutAt, LastUse, disk
  <2> QED
    BY <2>1, <2>2 DEF NameInv
<1>15. ASSUME NEW p \in Proc, IputFree(p) PROVE NameInv'
  <2>1. \A j \in Inode : Found(j)' = Found(j)
    BY Zenon, <1>15, FoundStep
  <2>2. UNCHANGED <<dlink, names>>
    BY Zenon, <1>15 DEF IputFree, Goto, disk
  <2> QED
    BY <2>1, <2>2 DEF NameInv
<1>16. ASSUME NEW p \in Proc, IputDone(p) PROVE NameInv'
  <2>1. \A j \in Inode : Found(j)' = Found(j)
    BY Zenon, <1>16, FoundStep
  <2>2. UNCHANGED <<dlink, names>>
    BY Zenon, <1>16 DEF IputDone, Goto, disk
  <2> QED
    BY <2>1, <2>2 DEF NameInv
<1>17. ASSUME UNCHANGED vars PROVE NameInv'
  <2>1. UNCHANGED <<dlink, names, want, pc>>
    BY Zenon, <1>17 DEF vars, entries, disk
  <2> QED
    BY <2>1 DEF NameInv, Found
<1> QED
  BY Zenon, <1>1, <1>2, <1>3, <1>4, <1>5, <1>6, <1>7, <1>8, <1>9, <1>10, <1>11, <1>12, <1>13,
     <1>14, <1>15, <1>16, <1>17
     DEF CacheStep

(***************************************************************************)
(* The invariant and what follows.                                         *)
(***************************************************************************)
(* The table of a program just loaded has it.                              *)
LEMMA InitInv ==
  ASSUME Init
  PROVE  EntryInv
<1> USE CacheAssumption
<1>1. TableOK
  <2>1. 0 \in 0..MaxLink
    OBVIOUS
  <2>2. /\ inum \in [Entry -> Inode \cup {NoInode}] /\ ref \in [Entry -> Nat]
        /\ busy \in [Entry -> {0, 1}] /\ valid \in [Entry -> {0, 1}]
        /\ fstype \in [Entry -> {0, SFS_INODE, FAT_INODE}] /\ nlink \in [Entry -> 0..MaxLink]
    BY Zenon, <2>1 DEF Init
  <2>3. type \in [Entry -> Type \cup {NoType}] /\ in_ops \in [Entry -> Type \cup {NoType}]
    BY Zenon, <2>1 DEF Init
  <2>4. /\ pc \in [Proc -> Place] /\ ip \in [Proc -> Entry \cup {0}]
        /\ want \in [Proc -> Inode \cup {NoInode}] /\ making \in SUBSET Proc
    BY DEF Init, Place
  <2> QED
    BY Zenon, <2>2, <2>3, <2>4 DEF Init, TableOK
<1>2. \A p \in Proc : pc[p] = "idle" /\ ip[p] = 0 /\ want[p] = NoInode
  BY DEF Init
<1>3. \A e \in Entry : ref[e] = 0 /\ busy[e] = 0
  BY DEF Init
<1>4. PlaceInv
  BY Zenon, <1>2 DEF Init, PlaceInv
<1>5. RefInv
  <2>1. \A e \in Entry : Holders(e) = {}
    <3>1. 0 \notin Entry
      BY DEF Entry
    <3> QED
      BY Zenon, <1>2, <3>1 DEF Holders
  <2> QED
    BY <1>3, <2>1, FS_EmptySet DEF RefInv
<1>6. BusyInv /\ PutInv
  BY <1>2, <1>3 DEF BusyInv, Locks, PutInv
<1>7. ValidInv
  BY <1>3 DEF ValidInv
<1>8. MakeInv
  BY DEF Init, MakeInv
<1>9. NameInv
  <2>1. \A i \in Inode : Found(i) = {}
    BY <1>2 DEF Found
  <2>2. \A i \in Inode : Cardinality(Found(i)) = 0
    BY Zenon, <2>1, FS_EmptySet
  <2>3. names = dlink /\ dtype[Root] # NoType /\ dlink[Root] # 0 /\ \A i \in Inode : names[i] \in Nat
    BY <1>1 DEF Init, TableOK
  <2> QED
    BY <2>2, <2>3 DEF NameInv
<1>10. Freed
  <2>1. \A p \in Proc, i \in Inode : ~Uses(p, i)
    BY Zenon, <1>2 DEF Uses
  <2>2. \A i \in Inode : names[i] \in Nat /\ (names[i] = 0 <=> dtype[i] = NoType)
    BY <1>1 DEF Init, TableOK
  <2> QED
    BY <2>1, <2>2 DEF Freed
<1>11. ColdInv
  BY <1>3 DEF ColdInv
<1>12. fat \in SUBSET Entry /\ raced \in BOOLEAN
  BY DEF Init
<1> QED
  BY Zenon, <1>1, <1>4, <1>5, <1>6, <1>7, <1>8, <1>9, <1>10, <1>11, <1>12 DEF EntryInv

(* An entry that is in use has the fstype of SFS, or a process is about to *)
(* set it: sfs_iget leaves the window with vop_init only.                  *)
LEMMA ColdStep ==
  ASSUME TableOK, HolderFacts, PlaceInv, RefInv, ColdInv, CacheStep \/ UNCHANGED vars
  PROVE  ColdInv'
<1> SUFFICES ASSUME NEW e \in Entry, ref'[e] > 0, fstype'[e] # SFS_INODE
             PROVE  \E p \in Proc : ip'[p] = e /\ pc'[p] \in Window
  BY Zenon DEF ColdInv
<1>0. 0 \notin Entry
  BY Zenon DEF HolderFacts
<1>1. ASSUME fstype' = fstype, ref[e] > 0,
             \A p \in Proc : ip[p] = e /\ pc[p] \in Window => ip'[p] = e /\ pc'[p] \in Window
      PROVE  \E p \in Proc : ip'[p] = e /\ pc'[p] \in Window
  BY Zenon, <1>1 DEF ColdInv
<1>2. ASSUME NEW p \in Proc, NEW i \in Inode, NEW f \in Entry, HitAt(p, i, f)
      PROVE  \E q \in Proc : ip'[q] = e /\ pc'[q] \in Window
  <2>1. fstype' = fstype /\ ref[e] > 0 /\ pc[p] \notin Window
    BY <1>2 DEF HitAt, TableOK, Window
  <2>2. \A q \in Proc \ {p} : pc'[q] = pc[q] /\ ip'[q] = ip[q]
    BY Zenon, <1>2 DEF HitAt, TableOK
  <2> QED
    BY Zenon, <1>1, <2>1, <2>2
<1>3. ASSUME NEW p \in Proc, NEW i \in Inode, NEW f \in Entry, NEW l \in {"fill", "typed"},
             RecycleAt(p, i, f, l)
      PROVE  \E q \in Proc : ip'[q] = e /\ pc'[q] \in Window
  <2>1. fstype' = fstype /\ pc[p] \notin Window
    BY Zenon, <1>3 DEF RecycleAt, Window
  <2>2. \A q \in Proc \ {p} : pc'[q] = pc[q] /\ ip'[q] = ip[q]
    BY Zenon, <1>3 DEF RecycleAt, TableOK
  <2>3. pc'[p] \in Window /\ ip'[p] = f
    BY Zenon, <1>3 DEF RecycleAt, TableOK, Window
  <2>4. CASE e = f
    BY Zenon, <2>3, <2>4
  <2>5. CASE e # f
    <3>1. ref[e] > 0
      BY Zenon, <1>3, <2>5 DEF RecycleAt, TableOK
    <3> QED
      BY Zenon, <1>1, <2>1, <2>2, <3>1
  <2> QED
    BY Zenon, <2>4, <2>5
<1>4. ASSUME NEW p \in Proc, NEW q \in Proc, idup(p, q)
      PROVE  \E r \in Proc : ip'[r] = e /\ pc'[r] \in Window
  <2>1. fstype' = fstype /\ pc[q] \notin Window /\ ip[p] \in Entry /\ ref[ip[p]] > 0
    BY Zenon, <1>4 DEF idup, Window, HolderFacts, PlaceInv
  <2>2. \A r \in Proc \ {q} : pc'[r] = pc[r] /\ ip'[r] = ip[r]
    BY Zenon, <1>4 DEF idup, Goto, TableOK
  <2>3. ref[e] > 0
    BY <1>4, <2>1 DEF idup, TableOK
  <2> QED
    BY Zenon, <1>1, <2>1, <2>2, <2>3
<1>5. ASSUME NEW p \in Proc, PutAt(p) \/ IputDone(p)
      PROVE  \E r \in Proc : ip'[r] = e /\ pc'[r] \in Window
  <2>1. fstype' = fstype /\ pc[p] \notin Window /\ ip[p] \in Entry /\ ref' = [ref EXCEPT ![ip[p]] = @ - 1]
    BY Zenon, <1>5 DEF PutAt, IputDone, Window, HolderFacts, PlaceInv
  <2>2. \A r \in Proc \ {p} : pc'[r] = pc[r] /\ ip'[r] = ip[r]
    BY Zenon, <1>5 DEF PutAt, IputDone, Goto, TableOK
  <2>3. ref[e] > 0
    BY <2>1 DEF TableOK
  <2> QED
    BY Zenon, <1>1, <2>1, <2>2, <2>3
<1>6. ASSUME NEW p \in Proc, inode_init(p)
      PROVE  \E r \in Proc : ip'[r] = e /\ pc'[r] \in Window
  <2>1. ip[p] \in Entry /\ ref' = ref /\ ip' = ip
    BY Zenon, <1>6 DEF inode_init, HolderFacts, PlaceInv
  <2>2. fstype'[ip[p]] = SFS_INODE /\ \A f \in Entry \ {ip[p]} : fstype'[f] = fstype[f]
    BY Zenon, <1>6, <2>1 DEF inode_init, TableOK
  <2>3. e # ip[p] /\ fstype[e] # SFS_INODE
    BY Zenon, <2>2
  <2>4. \A r \in Proc \ {p} : pc'[r] = pc[r]
    BY Zenon, <1>6 DEF inode_init, Goto, TableOK
  <2> QED
    BY Zenon, <2>1, <2>3, <2>4 DEF ColdInv
<1>7. ASSUME NEW p \in Proc, FillLock(p) \/ FilledAt(p)
      PROVE  \E r \in Proc : ip'[r] = e /\ pc'[r] \in Window
  <2>1. fstype' = fstype /\ ref' = ref /\ ip' = ip
    BY Zenon, <1>7 DEF FillLock, FilledAt, Fetched
  <2>2. pc'[p] \in Window /\ \A r \in Proc \ {p} : pc'[r] = pc[r]
    BY Zenon, <1>7 DEF FillLock, FilledAt, Goto, TableOK, Window
  <2> QED
    BY Zenon, <1>1, <2>1, <2>2
<1>8. ASSUME NEW p \in Proc, \/ FullAt(p) \/ LockAt(p) \/ iunlock(p) \/ LastAt(p) \/ IputFree(p)
      PROVE  \E r \in Proc : ip'[r] = e /\ pc'[r] \in Window
  <2>1. fstype' = fstype /\ ref' = ref /\ ip' = ip
    BY Zenon, <1>8 DEF FullAt, LockAt, Fetched, iunlock, LastAt, IputFree
  <2>2. pc[p] \notin Window /\ \A r \in Proc \ {p} : pc'[r] = pc[r]
    BY Zenon, <1>8 DEF FullAt, LockAt, iunlock, LastAt, IputFree, Goto, TableOK, Window
  <2> QED
    BY Zenon, <1>1, <2>1, <2>2
<1>9. ASSUME NEW p \in Proc, link(p) \/ unlink(p)
      PROVE  \E r \in Proc : ip'[r] = e /\ pc'[r] \in Window
  <2>1. fstype' = fstype /\ ref' = ref /\ ip' = ip /\ pc' = pc
    BY Zenon, <1>9 DEF link, unlink
  <2> QED
    BY Zenon, <1>1, <2>1
<1>10. ASSUME NEW p \in Proc, NEW i \in Inode, NEW t \in Type, ialloc(p, i, t)
       PROVE  \E r \in Proc : ip'[r] = e /\ pc'[r] \in Window
  <2>1. fstype' = fstype /\ ref' = ref /\ ip' = ip
    BY Zenon, <1>10 DEF ialloc, entries
  <2>2. pc[p] \notin Window /\ \A r \in Proc \ {p} : pc'[r] = pc[r]
    BY Zenon, <1>10 DEF ialloc, Goto, TableOK, Window
  <2> QED
    BY Zenon, <1>1, <2>1, <2>2
<1>11. ASSUME UNCHANGED vars
       PROVE  \E r \in Proc : ip'[r] = e /\ pc'[r] \in Window
  <2>1. fstype' = fstype /\ ref' = ref /\ ip' = ip /\ pc' = pc
    BY Zenon, <1>11 DEF vars, entries
  <2> QED
    BY Zenon, <1>1, <2>1
<1> QED
  BY Zenon, <1>2, <1>3, <1>4, <1>5, <1>6, <1>7, <1>8, <1>9, <1>10, <1>11 DEF CacheStep

(* What FAT does to entries that nobody in SFS uses does not concern SFS.  *)
LEMMA FatStep ==
  ASSUME TableOK, HolderFacts, PlaceInv, RefInv, ColdInv, BusyInv, ValidInv, PutInv, MakeInv,
         NameInv, Freed, NEW e \in Entry, fat_iget(e) \/ fat_iput(e)
  PROVE  /\ TableOK' /\ PlaceInv' /\ RefInv' /\ ColdInv' /\ BusyInv' /\ ValidInv' /\ PutInv'
         /\ MakeInv' /\ NameInv' /\ Freed'
<1>1. CASE fat_iput(e)
  <2>1. /\ UNCHANGED <<inum, ref, busy, valid, type, nlink, fstype, in_ops, dtype, dlink, names>>
        /\ UNCHANGED <<pc, ip, want, making>>
    BY Zenon, <1>1 DEF fat_iput, entries, disk
  <2>2. TableOK' /\ PlaceInv' /\ ColdInv'
    BY Zenon, <2>1 DEF TableOK, PlaceInv, ColdInv
  <2>3. RefInv' /\ BusyInv'
    <3>1. RefInv'
      BY Zenon, <2>1 DEF RefInv, Holders
    <3>2. BusyInv'
      BY SMT, <2>1 DEF BusyInv, Locks
    <3> QED
      BY Zenon, <3>1, <3>2
  <2>4. ValidInv' /\ PutInv'
    <3>1. ValidInv'
      BY Zenon, <2>1 DEF ValidInv
    <3>2. PutInv'
      <4> SUFFICES ASSUME NEW p \in Proc
                 PROVE  /\ pc'[p] = "locked" => valid'[ip'[p]] = 1
                        /\ pc'[p] \in {"trunc", "freed"} =>
                             /\ valid'[ip'[p]] = 1 /\ nlink'[ip'[p]] = 0 /\ names'[inum'[ip'[p]]] = 0
                             /\ \A q \in Proc \ {p} :
                                  ip'[q] = ip'[p] => pc'[p] = "freed" /\ q \in making' /\ pc'[q] = "held"
        BY Zenon DEF PutInv
      <4> QED
        BY Zenon, <2>1 DEF PutInv
    <3> QED
      BY Zenon, <3>1, <3>2
  <2>5. MakeInv' /\ NameInv' /\ Freed'
    <3>1. \A p \in Proc, i \in Inode : Uses(p, i)' <=> Uses(p, i)
      BY Zenon, <2>1 DEF Uses
    <3>2. MakeInv' /\ Freed'
      BY Zenon, <2>1, <3>1 DEF MakeInv, Freed, TableOK
    <3>3. NameInv'
      BY Zenon, <2>1 DEF NameInv, Found
    <3> QED
      BY Zenon, <3>2, <3>3
  <2> QED
    BY Zenon, <2>2, <2>3, <2>4, <2>5
<1>2. CASE fat_iget(e)
  <2>1. /\ UNCHANGED <<ref, busy, valid, type, nlink, in_ops, dtype, dlink, names>>
        /\ UNCHANGED <<pc, ip, want, making>>
    BY Zenon, <1>2 DEF fat_iget, disk
  <2>2. ref[e] = 0 /\ ~(ref[e] > 0) /\ \A p \in Proc : ip[p] # e
    BY <1>2 DEF fat_iget, Empty, HolderFacts
  <2>3. \A f \in Entry \ {e} : inum'[f] = inum[f] /\ fstype'[f] = fstype[f]
    BY Zenon, <1>2 DEF fat_iget, TableOK
  <2>4. \A p \in Proc : ip[p] # 0 => inum'[ip[p]] = inum[ip[p]]
    BY Zenon, <2>2, <2>3 DEF HolderFacts
  <2>5. TableOK'
    <3>1. inum' \in [Entry -> Inode \cup {NoInode}] /\ fstype' \in [Entry -> {0, SFS_INODE, FAT_INODE}]
      BY Zenon, <1>2 DEF fat_iget, TableOK
    <3> QED
      BY Zenon, <2>1, <3>1 DEF TableOK
  <2>6. PlaceInv'
    <3>1. \A p \in Proc : pc[p] \in {"fill", "filled", "init", "typed"} => ip[p] # 0
      BY Zenon DEF PlaceInv
    <3> QED
      BY Zenon, <2>1, <2>4, <3>1 DEF PlaceInv
  <2>7. RefInv'
    BY Zenon, <2>1, <2>2, <2>3 DEF RefInv, Holders
  <2>8. ColdInv' /\ BusyInv'
    <3>1. ColdInv'
      BY Zenon, <2>1, <2>2, <2>3 DEF ColdInv
    <3>2. BusyInv'
      BY SMT, <2>1 DEF BusyInv, Locks
    <3> QED
      BY Zenon, <3>1, <3>2
  <2>9. ValidInv'
    BY Zenon, <2>1, <2>2, <2>3 DEF ValidInv
  <2>10. PutInv'
    <3>1. \A p \in Proc : pc[p] \in {"trunc", "freed"} => ip[p] # 0
      BY Zenon DEF PlaceInv
    <3> SUFFICES ASSUME NEW p \in Proc
               PROVE  /\ pc'[p] = "locked" => valid'[ip'[p]] = 1
                      /\ pc'[p] \in {"trunc", "freed"} =>
                           /\ valid'[ip'[p]] = 1 /\ nlink'[ip'[p]] = 0 /\ names'[inum'[ip'[p]]] = 0
                           /\ \A q \in Proc \ {p} :
                                ip'[q] = ip'[p] => pc'[p] = "freed" /\ q \in making' /\ pc'[q] = "held"
      BY Zenon DEF PutInv
    <3>2. /\ pc[p] = "locked" => valid[ip[p]] = 1
          /\ pc[p] \in {"trunc", "freed"} =>
               /\ valid[ip[p]] = 1 /\ nlink[ip[p]] = 0 /\ names[inum[ip[p]]] = 0
               /\ \A q \in Proc \ {p} : ip[q] = ip[p] => pc[p] = "freed" /\ q \in making /\ pc[q] = "held"
      BY Zenon DEF PutInv
    <3>3. pc[p] \in {"trunc", "freed"} => inum'[ip[p]] = inum[ip[p]]
      BY Zenon, <2>4, <3>1
    <3> QED
      BY SMT, Zenon, <2>1, <3>2, <3>3
  <2>11. \A p \in Proc, i \in Inode : Uses(p, i)' <=> Uses(p, i)
    BY SMT, Zenon, <2>1, <2>4 DEF Uses
  <2>12. MakeInv' /\ Freed'
    BY Zenon, <2>1, <2>11 DEF MakeInv, Freed, TableOK
  <2>13. NameInv'
    BY Zenon, <2>1 DEF NameInv, Found
  <2> QED
    BY Zenon, <2>5, <2>6, <2>7, <2>8, <2>9, <2>10, <2>12, <2>13
<1> QED
  BY Zenon, <1>1, <1>2

(* fat stays a set of entries, and the race is not forgotten.              *)
LEMMA HistoryStep ==
  ASSUME fat \in SUBSET Entry, raced \in BOOLEAN, [Next]_vars
  PROVE  fat' \in SUBSET Entry /\ raced' \in BOOLEAN /\ (raced => raced')
<1>1. ASSUME NEW p \in Proc, NEW i \in Inode, dirlookup(p, i)
      PROVE  fat' = fat /\ raced' \in BOOLEAN /\ (raced => raced')
  <2>1. fat' = fat /\ iget(p, i, "fill", NoType)
    BY Zenon, <1>1 DEF dirlookup
  <2>2. raced' = raced \/ raced' = (raced \/ Opening(i) # {})
    BY Zenon, <2>1 DEF iget
  <2> QED
    BY <2>1, <2>2
<1>2. ASSUME NEW p \in Proc, NEW i, NEW t, igetTyped(p, i, t)
      PROVE  fat' = fat /\ raced' \in BOOLEAN /\ (raced => raced')
  <2>1. fat' = fat /\ iget(p, i, "typed", t)
    BY Zenon, <1>2 DEF igetTyped
  <2>2. raced' = raced \/ raced' = (raced \/ Opening(i) # {})
    BY Zenon, <2>1 DEF iget
  <2> QED
    BY <2>1, <2>2
<1>3. ASSUME NEW p \in Proc,
             \/ \E i \in Inode, t \in Type : ialloc(p, i, t)
             \/ FillLock(p) \/ FillUnlock(p) \/ inode_init(p)
             \/ \E q \in Proc : idup(p, q)
             \/ ilock(p) \/ iunlock(p)
      PROVE  fat' = fat /\ raced' = raced
  BY Zenon, <1>3 DEF ialloc, FillLock, FillUnlock, inode_init, idup, ilock, iunlock, others
<1>4. ASSUME NEW p \in Proc,
             link(p) \/ unlink(p) \/ iput(p) \/ IputFree(p) \/ IputDone(p)
      PROVE  fat' = fat /\ raced' = raced
  BY Zenon, <1>4 DEF link, unlink, iput, IputFree, IputDone, others
<1>5. ASSUME NEW e \in Entry, fat_iget(e) \/ fat_iput(e)
      PROVE  fat' \in SUBSET Entry /\ raced' = raced
  BY <1>5 DEF fat_iget, fat_iput
<1>6. ASSUME UNCHANGED vars PROVE fat' = fat /\ raced' = raced
  BY Zenon, <1>6 DEF vars, others
<1> QED
  BY Zenon, <1>1, <1>2, <1>3, <1>4, <1>5, <1>6 DEF Next, sfs_get_root, iallocGet

(* Every step keeps it.                                                    *)
LEMMA StepInv ==
  ASSUME EntryInv, [Next]_vars
  PROVE  EntryInv'
<1>1. fat \in SUBSET Entry /\ raced \in BOOLEAN
  BY Zenon DEF EntryInv
<1>2. fat' \in SUBSET Entry /\ raced' \in BOOLEAN /\ (raced => raced')
  BY Zenon, <1>1, HistoryStep
<1>3. ASSUME ~raced'
      PROVE  /\ TableOK' /\ PlaceInv' /\ RefInv' /\ ColdInv' /\ BusyInv' /\ ValidInv' /\ PutInv'
             /\ MakeInv' /\ NameInv' /\ Freed'
  <2>1. /\ TableOK /\ PlaceInv /\ RefInv /\ ColdInv /\ BusyInv /\ ValidInv /\ PutInv /\ MakeInv
        /\ NameInv /\ Freed
    BY Zenon, <1>2, <1>3 DEF EntryInv
  <2>2. HolderFacts
    BY Zenon, <2>1, RefFacts
  <2>3. CASE CacheStep \/ UNCHANGED vars
    BY Zenon, <2>1, <2>2, <2>3, TypeStep, PlaceStep, RefStep, ColdStep, BusyStep, ValidStep, PutStep,
       MakeStep, NameStep, FreedStep
  <2>4. CASE \E e \in Entry : fat_iget(e) \/ fat_iput(e)
    BY Zenon, <2>1, <2>2, <2>4, FatStep
  <2> QED
    BY Zenon, <1>3, <2>1, <2>2, <2>3, <2>4, NextCases
<1> QED
  BY Zenon, <1>2, <1>3 DEF EntryInv

(* The inductive invariant of sfs_iget, sfs_ilock and sfs_iput, for every  *)
(* number of processes, inodes, entries and names, from a cold table on    *)
(* and with entries that FAT recycles, up to the race of the window.       *)
THEOREM EntryInvariant == Spec => []EntryInv
<1>1. Init => EntryInv
  BY InitInv
<1>2. EntryInv /\ [Next]_vars => EntryInv'
  BY StepInv
<1> QED
  BY <1>1, <1>2, PTL DEF Spec

(* One entry for an inode, true counts, contents that agree with the disk, *)
(* no panic, and a lock that excludes: sfs_iget may search the table,      *)
(* recycle entries and fill them while others lock, link and put theirs,   *)
(* unless it misses an entry that another sfs_iget is setting up.          *)
THEOREM EntriesAreExact == Spec => []EntriesExact
<1>1. EntryInv => EntriesExact
  <2> SUFFICES ASSUME EntryInv, ~raced PROVE CacheInv /\ LockExcludes
    BY Zenon DEF EntriesExact
  <2>1. TypeOK /\ TableOK /\ PlaceInv /\ RefInv /\ BusyInv /\ ValidInv /\ NameInv
    BY Zenon DEF EntryInv, TypeOK
  <2>2. LockExcludes
    <3>1. HolderFacts
      BY Zenon, <2>1, RefFacts
    <3>2. ASSUME NEW p \in Proc, NEW q \in Proc, Locks(p), Locks(q), inum[ip[p]] = inum[ip[q]]
          PROVE  p = q
      <4>1. ip[p] # 0 /\ ip[q] # 0
        BY <2>1, <3>2 DEF Locks, PlaceInv
      <4>2. ip[p] = ip[q]
        BY Zenon, <3>1, <3>2, <4>1 DEF HolderFacts
      <4> QED
        BY Zenon, <2>1, <3>2, <4>2 DEF BusyInv
    <3> QED
      BY Zenon, <3>2 DEF LockExcludes
  <2>3. ASSUME NEW e \in Entry, ref[e] > 0, busy[e] = 0, valid[e] = 1
        PROVE  type[e] = dtype[inum[e]] /\ nlink[e] = dlink[inum[e]]
    <3>1. ~\E p \in Proc : ip[p] = e /\ pc[p] = "freed"
      <4>1. 0 # 1 /\ \A p \in Proc : pc[p] = "freed" => Locks(p)
        BY Zenon, SmallNumbers DEF Locks
      <4> QED
        BY Zenon, <2>1, <2>3, <4>1 DEF BusyInv
    <3> QED
      BY Zenon, <2>1, <2>3, <3>1 DEF ValidInv
  <2>4. CacheInv
    BY <2>1, <2>3 DEF CacheInv, RefInv, NameInv, PlaceInv
  <2> QED
    BY Zenon, <2>2, <2>4
<1> QED
  BY <1>1, EntryInvariant, PTL

(* sfs_iput frees an inode with its last name and its last reference,      *)
(* though it gives up icache.lock in between: never while a process has    *)
(* it, and never not at all, unless the race has given it two entries.     *)
THEOREM InodesFreed == Spec => []FreedAtLastUse
<1>1. EntryInv => FreedAtLastUse
  BY Zenon DEF EntryInv, FreedAtLastUse
<1> QED
  BY <1>1, EntryInvariant, PTL
=============================================================================
