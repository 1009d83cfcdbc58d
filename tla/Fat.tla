-------------------------------- MODULE Fat --------------------------------
(***************************************************************************)
(* The FAT32 file system of fs/fat32/fat_inode.c on a volume with a root   *)
(* directory and one level of subdirectories.  Nothing is logged: every    *)
(* bwrite reaches the disk at once, in the order of the code, so a crash   *)
(* leaves any prefix of the writes of the call in progress.  The calls     *)
(* that change the volume run inside begin_trans and commit_trans, which   *)
(* exclude each other; each is one action here.                            *)
(*                                                                         *)
(* A volume is the record                                                  *)
(*   fat, fat2   the FAT that is read and its copy                         *)
(*   dir, data   per cluster, its directory entries or its data            *)
(*   nxt, free   Nxt_Free and Free_Count of the FSInfo sector              *)
(* A cluster is one sector (SecPerClus = 1).  mem is what bread returns,   *)
(* disk what the disk holds: they differ where a buffer was changed and    *)
(* released without bwrite.                                                *)
(*                                                                         *)
(* harm records what the code does to a volume that it may not survive:    *)
(*   stale      a deleted entry is taken for the entry of an inode         *)
(*   collision  entries are erased because of an equal byte 13             *)
(*   overlap    new entries are written over entries in use                *)
(*   prefix     a name finds a file whose short name it begins             *)
(*   beyond     a cluster is taken that is not on the disk                 *)
(*   nonempty   a directory is removed that has entries                    *)
(***************************************************************************)
EXTENDS Integers, Sequences, FiniteSets, SequencesExt

CONSTANTS
  NClus,        \* TotSec32 / SecPerClus, the bound of fat_calloc
  DataEnd,      \* one more than the last cluster of the data area
  Hint,         \* Nxt_Free of a new volume
  EPS,          \* entries in a FAT sector
  DPS,          \* directory entries, and units of data, in a cluster
  FileNames, DirNames,
  Paths,        \* the files in use, as <<directory or Nil, name>>
  Slots,        \* long-name entries of a name (dbnum)
  Base,         \* short-name stem of a name
  Prefix,       \* the stems that begin with a name
  ChkSum,       \* check sum of a short name
  Foreign,      \* an empty file another system left in the root, or Nil
  Handle,       \* open files
  Sizes,        \* where writes may end
  MaxCrash,     \* bound on crashes
  MaxNew,       \* bound on files and directories created and on copies
  Width,        \* sizes wrap at Width
  Nil

Cluster == 2..NClus - 1
Root == 2
EOF == NClus                            \* LAST_FAT_ENTRY
isEOF(n) == n >= EOF
Names == FileNames \cup DirNames
Tag0x5A == 1                            \* the CrtTimeTenth of a new empty file

ASSUME FatAssumption ==
  /\ DataEnd \in 4..NClus /\ EPS > 0 /\ DPS > 2
  /\ \A n \in Names : Slots[n] \in 1..DPS - 1
  /\ Paths \subseteq (DirNames \cup {Nil}) \X FileNames
  /\ Foreign \in FileNames \cup {Nil}

VARIABLES mem, disk,
  inode,        \* icache, by first cluster: ref = 0 means no entry
  open,         \* per handle: the inode and the path it was opened by, or Nil
  fault,        \* the panic, hang or stray pointer that stopped the kernel
  harm,
  crashes, made

vars == <<mem, disk, inode, open, fault, harm, crashes, made>>

(***************************************************************************)
(* Directory entries.  live is Name[0] \notin {0xE5, 0}.                   *)
(***************************************************************************)
Empty == [live |-> FALSE, long |-> FALSE, name |-> Nil, ord |-> 0, sum |-> 0, clus |-> 0,
          size |-> 0, tenth |-> 0, type |-> Nil]
Long(n, i, s) ==
  [Empty EXCEPT !.live = TRUE, !.long = TRUE, !.name = n, !.ord = i, !.sum = s]
Short(alias, c, size, type) ==
  [Empty EXCEPT !.live = TRUE, !.name = alias, !.clus = c, !.size = size, !.type = type]

\* The check sum of a short name; with 0xE5 for its first byte it is another.
fat_getChkSum(e) == IF e.live THEN ChkSum[e.name] ELSE -1
\* The byte that fat_itrunc reads as LDIR.ChkSum is CrtTimeTenth in a DIR.
Byte13(e) == IF e.long THEN e.sum ELSE e.tenth

(***************************************************************************)
(* An operation takes and yields a state v of the whole file system: m and *)
(* d are mem and disk, seen the disks and harm along the way, ino the      *)
(* inodes, ret the value returned.  After a fault nothing more is done.    *)
(***************************************************************************)
Now == [m |-> mem, d |-> disk, harm |-> harm, seen |-> {<<disk, harm>>}, ino |-> inode,
        fault |-> Nil, ret |-> 0, done |-> 0, made |-> made]
With(x, Op(_)) == Op(x)
Then(v, Op(_)) == IF v.fault # Nil THEN v ELSE Op(v)
Stop(v, why) == [v EXCEPT !.fault = why]
Return(v, r) == [v EXCEPT !.ret = r]
Harm(v, what, bad) == IF bad THEN [v EXCEPT !.harm = @ \cup {what}] ELSE v
bwrite(v, d) == [v EXCEPT !.d = d, !.seen = @ \cup {<<d, v.harm>>}]

fat_getFATEntry(c) == 1 + c \div EPS
Overlay(old, new, s) == [c \in DOMAIN old |-> IF fat_getFATEntry(c) = s THEN new[c] ELSE old[c]]
CopyFat(v, s) == [v EXCEPT !.m.fat2 = Overlay(@, v.m.fat, s)]
\* Mutant: the second FAT is not kept.
fat_updateFATs_Not(v, s) == v
fat_updateFATs(v, s) ==
  With(CopyFat(v, s), LAMBDA w : bwrite(w, [w.d EXCEPT !.fat2 = Overlay(@, w.m.fat2, s)]))
SyncFat(v, s) ==
  With(fat_updateFATs(v, s),
       LAMBDA w : bwrite(w, [w.d EXCEPT !.fat = Overlay(@, w.m.fat, s)]))
SyncFSI(v) == bwrite(v, [v.d EXCEPT !.nxt = v.m.nxt, !.free = v.m.free])
SyncClus(v, c) == bwrite(v, [v.d EXCEPT !.dir[c] = v.m.dir[c], !.data[c] = v.m.data[c]])

(***************************************************************************)
(* Clusters.  A call that holds the FAT sectors held sleeps for ever when  *)
(* fat_calloc reads one of them.                                           *)
(***************************************************************************)
FreeFrom(v) == {c \in v.m.nxt..NClus - 1 : v.m.fat[c] = 0}
FreeBelow(v) == {c \in 2..v.m.nxt - 1 : v.m.fat[c] = 0}

\* Mutant: the FAT sector is not written.
Take_Unwritten(v, c, nxt) ==
  SyncFSI([Harm(v, "beyond", c >= DataEnd)
             EXCEPT !.m.fat[c] = EOF, !.m.nxt = nxt, !.m.free = (@ - 1) % Width, !.ret = c])
\* Cluster c is taken, after reading the FAT entries up to it.
Take(v, c, nxt) ==
  SyncFSI([SyncFat([Harm(v, "beyond", c >= DataEnd) EXCEPT !.m.fat[c] = EOF], fat_getFATEntry(c))
             EXCEPT !.m.nxt = nxt, !.m.free = (@ - 1) % Width, !.ret = c])
Reads(held, S) == held \cap {fat_getFATEntry(x) : x \in S} # {}
CallocFrom(v, held, c) ==
  IF Reads(held, v.m.nxt..c) THEN Stop(v, "hang") ELSE Take(v, c, v.m.nxt + 1)
CallocBelow(v, held, c) ==
  IF Reads(held, (v.m.nxt..NClus - 1) \cup (2..c)) THEN Stop(v, "hang") ELSE Take(v, c, c + 1)
fat_calloc(v, held) ==
  IF FreeFrom(v) # {} THEN CallocFrom(v, held, Min(FreeFrom(v)))
  ELSE IF FreeBelow(v) # {} THEN CallocBelow(v, held, Min(FreeBelow(v)))
  ELSE Stop(v, IF Reads(held, Cluster) THEN "hang" ELSE "full")

ZeroDir == [i \in 1..DPS |-> Empty]
ZeroData == [i \in 1..DPS |-> Nil]
\* Mutant: the cluster keeps its contents.
fat_cclear_Not(v, c) == v
fat_cclear(v, c) == SyncClus([v EXCEPT !.m.dir[c] = ZeroDir, !.m.data[c] = ZeroData], c)

\* The clusters of a file or directory in order.
Chain(fat, c) ==
  LET RECURSIVE Walk(_)
      Walk(s) == IF fat[Last(s)] \notin Cluster \/ fat[Last(s)] \in ToSet(s) THEN s
                 ELSE Walk(Append(s, fat[Last(s)]))
  IN  Walk(<<c>>)

\* The slots of a directory in the order in which every search reads them.
Places(v, dp) ==
  With(Chain(v.m.fat, dp),
       LAMBDA ch : [k \in 1..Len(ch) * DPS |-> <<ch[1 + (k - 1) \div DPS], 1 + ((k - 1) % DPS)>>])
At(v, p) == v.m.dir[p[1]][p[2]]
SetAt(v, p, e) == [v EXCEPT !.m.dir[p[1]][p[2]] = e]

\* The first entry with this first cluster, deleted entries included: how
\* fat_ilock, fat_iupdate and fat_itrunc find the entry of an inode.  Found is
\* given the slots of the directory and the index of the entry.
ByCluster(v, dp, c, Found(_, _, _), none) ==
  With(Places(v, dp),
       LAMBDA P : With(SelectInSeq(P, LAMBDA p : At(v, p).clus = c),
                       LAMBDA k : IF k = 0 THEN none
                                  ELSE Found(Harm(v, "stale", ~At(v, P[k]).live), P, k)))

IsShort(v, p) == At(v, p).live /\ ~At(v, p).long
IsLong(v, p) == At(v, p).live /\ At(v, p).long
\* The last entry with a part of a long name before slot k.
PartBefore(v, P, k) == SelectLastInSubSeq(P, 1, k - 1, LAMBDA p : IsLong(v, p))
\* The long name that fat_dirlookup has collected when it reaches slot k; a name
\* that lacks its first part is nobody's.
LongName(v, P, k) ==
  With(PartBefore(v, P, k),
       LAMBDA j : IF j = 0 \/ At(v, P[j]).ord # 1 THEN Nil ELSE At(v, P[j]).name)
\* panic("dirlookup long filename wrong"): not the last part of a name, and not
\* the one that goes before the part read last.
PartWrong(v, P, k) ==
  /\ IsLong(v, P[k]) /\ At(v, P[k]).ord # Slots[At(v, P[k]).name]
  /\ With(PartBefore(v, P, k),
          LAMBDA j : \/ j = 0
                     \/ At(v, P[j]).sum # At(v, P[k]).sum
                     \/ At(v, P[j]).ord # At(v, P[k]).ord + 1)
\* n is a name, or the short name that fat_dirlink tries.
Matches(v, P, k, n) ==
  /\ IsShort(v, P[k])
  /\ \/ LongName(v, P, k) = n
     \/ At(v, P[k]).name = n
     \/ n \in Names /\ At(v, P[k]).name[1] \in Prefix[n]
FirstOf(K) == IF K = {} THEN 0 ELSE Min(K)
ByName(v, P, n) == FirstOf({k \in DOMAIN P : Matches(v, P, k, n) \/ PartWrong(v, P, k)})

(***************************************************************************)
(* Inodes.                                                                 *)
(***************************************************************************)
NoInode == [ref |-> 0, valid |-> FALSE, type |-> Nil, nlink |-> 0, size |-> 0, dirc |-> 0]

\* FileSize 1 with the tenth 0x5A stands for an empty file.
SizeOf(e) == IF e.size = 1 /\ e.tenth = Tag0x5A THEN 0 ELSE e.size

\* Mutant: the size is not loaded.
Load_NoSize(v, c, e) ==
  [v EXCEPT !.ino[c] = [@ EXCEPT !.valid = TRUE, !.type = e.type, !.nlink = 1]]
\* fat_ilock, as far as it loads the inode; the root is never loaded, and an
\* inode whose entry is not found is taken as it is.
Load(v, c, e) ==
  [v EXCEPT !.ino[c] = [@ EXCEPT !.valid = TRUE, !.type = e.type, !.size = SizeOf(e), !.nlink = 1]]
fat_ilock(v, c) ==
  IF c = Root THEN [v EXCEPT !.ino[c].valid = TRUE, !.ino[c].type = "dir", !.ino[c].nlink = 1]
  ELSE IF v.ino[c].valid THEN v
  ELSE ByCluster(v, v.ino[c].dirc, c, LAMBDA w, P, k : Load(w, c, At(w, P[k])),
                 [v EXCEPT !.ino[c].valid = TRUE])

fat_iget(v, c, type, dirc) ==
  IF v.ino[c].ref > 0 THEN [v EXCEPT !.ino[c].ref = @ + 1, !.ret = c]
  ELSE With([v EXCEPT !.ino[c] = [@ EXCEPT !.ref = 1, !.valid = FALSE, !.dirc = dirc], !.ret = c],
            LAMBDA w : IF type # Nil THEN [w EXCEPT !.ino[c].type = type] ELSE fat_ilock(w, c))

Updated(e, i) ==
  IF i.size = 0 /\ i.type # "dir" THEN [e EXCEPT !.type = i.type, !.size = 1, !.tenth = Tag0x5A]
  ELSE [e EXCEPT !.type = i.type, !.size = i.size]
fat_iupdate(v, c) ==
  ByCluster(v, v.ino[c].dirc, c,
            LAMBDA w, P, k : SyncClus(SetAt(w, P[k], Updated(At(w, P[k]), w.ino[c])), P[k][1]),
            Stop(v, "iupdate"))

\* The passes of fat_itrunc: the name, the long-name entries before it, the FAT.
\* Only the last sector of the second pass is written.
Erase(v, p) == SetAt(v, p, [At(v, p) EXCEPT !.live = FALSE])
EraseName(v, p) == SyncClus(Erase(v, p), p[1])
\* Slot i before slot k is not of the name that ends there.
Another(v, P, i, k) ==
  i # k /\ At(v, P[i]).live /\ (At(v, P[i]).long => At(v, P[i]).name # LongName(v, P, k))
EraseLong(v, P, k, sum) ==
  With({i \in 1..k : Byte13(At(v, P[i])) = sum},
       LAMBDA K : SyncClus(FoldSet(LAMBDA i, w : Erase(w, P[i]),
                                   Harm(v, "collision", \E i \in K : Another(v, P, i, k)), K),
                           P[k][1]))
FreeOne(v, ch, i) ==
  [fat_cclear(IF i > 1 /\ fat_getFATEntry(ch[i - 1]) # fat_getFATEntry(ch[i])
              THEN SyncFat(v, fat_getFATEntry(ch[i - 1])) ELSE v, ch[i])
     EXCEPT !.m.fat[ch[i]] = 0, !.m.free = @ + 1]
FreeChain(v, c) ==
  With(Chain(v.m.fat, c),
       LAMBDA ch : SyncFSI(SyncFat(FoldLeftDomain(LAMBDA w, i : FreeOne(w, ch, i), v, ch),
                                   fat_getFATEntry(Last(ch)))))

\* lastFatsect survives from one pass to the next while fp is cleared, so an
\* entry beyond the first cluster of its directory makes a pass use a null fp.
NullFp(P, k, c) ==
  /\ k > DPS
  /\ fat_getFATEntry(P[k - DPS][1]) \in {fat_getFATEntry(P[1][1]), fat_getFATEntry(c)}
fat_itrunc(v, c) ==
  ByCluster(v, v.ino[c].dirc, c,
    LAMBDA w, P, k :
      IF NullFp(P, k, c) THEN Stop(EraseName(w, P[k]), "null fp")
      ELSE [FreeChain(EraseLong(EraseName(w, P[k]), P, k, fat_getChkSum(At(w, P[k]))), c)
              EXCEPT !.ino[c].size = 0],
    Stop(v, "iupdate"))

Unused(i) == i.ref = 1 /\ i.valid /\ i.nlink = 0
fat_iput(v, c) ==
  Then(IF Unused(v.ino[c]) THEN fat_itrunc(v, c) ELSE v,
       LAMBDA w : [w EXCEPT !.ino[c] = IF @.ref = 1 THEN NoInode ELSE [@ EXCEPT !.ref = @ - 1]])

(***************************************************************************)
(* Contents.  A unit of data is the path it was written by.                *)
(***************************************************************************)
\* fat_readi of one unit; past the end of the chain it returns nothing.
fat_readi(v, c, off) ==
  With(Chain(v.m.fat, c),
       LAMBDA ch : IF off \div DPS < Len(ch)
                   THEN v.m.data[ch[1 + off \div DPS]][1 + (off % DPS)] ELSE Nil)

\* One round of the loop of fat_writei fills the cluster cno as far as the call
\* goes, then takes or makes the link to the next one.  A new link is written
\* when another FAT sector is needed or at the end.
WriteClus(v, c, lo, hi, x) ==
  SyncClus([v EXCEPT !.m.data[c] = [j \in 1..DPS |-> IF j - 1 \in lo..hi - 1 THEN x ELSE @[j]]], c)
LinkNext(v, cno) ==
  IF v.m.fat[cno] # EOF THEN Return(v, v.m.fat[cno])
  ELSE Then(fat_calloc(v, {}), LAMBDA w : [w EXCEPT !.m.fat[cno] = w.ret])
SyncLast(v, last, s) == IF last \notin {0, s} THEN SyncFat(v, last) ELSE v
WriteLoop(v, c, off, n, x) ==
  LET RECURSIVE Round(_, _, _, _)
      Round(w, cno, lo, last) ==      \* lo: where to write, from the start of cno
        IF w.fault # Nil THEN w
        ELSE IF lo < DPS /\ lo + (n - w.done) <= DPS
        THEN SyncLast(WriteClus(w, cno, lo, lo + (n - w.done), x), last, 0)
        ELSE Then(LinkNext(SyncLast(
                     IF lo < DPS
                     THEN [WriteClus(w, cno, lo, DPS, x) EXCEPT !.done = @ + DPS - lo] ELSE w,
                     last, fat_getFATEntry(cno)), cno),
                  LAMBDA u : Round(u, u.ret, IF lo < DPS THEN 0 ELSE lo - DPS, fat_getFATEntry(cno)))
  IN  Round(v, c, off, 0)
\* Mutant: the size is written before the data.
fat_writei_SizeFirst(v, c, off, n, x) ==
  Then(IF off + n > v.ino[c].size
       THEN fat_iupdate([v EXCEPT !.ino[c].size = off + n], c) ELSE v,
       LAMBDA w : WriteLoop(w, c, off, n, x))
fat_writei(v, c, off, n, x) ==
  Then(WriteLoop(v, c, off, n, x),
       LAMBDA w : IF off + n > w.ino[c].size
                  THEN fat_iupdate([w EXCEPT !.ino[c].size = off + n], c) ELSE w)

(***************************************************************************)
(* Directories.                                                            *)
(***************************************************************************)
\* fat_dirlookup.  An empty file of another system gets its first cluster here;
\* fp holds the FAT sector read to reach the entry's cluster.
FirstCluster(v, P, k) ==
  IF At(v, P[k]).clus # 0 THEN v
  ELSE Then(fat_calloc(v, IF k > DPS THEN {fat_getFATEntry(P[k - DPS][1])} ELSE {}),
            LAMBDA w : SyncClus(SetAt(w, P[k], [At(w, P[k]) EXCEPT
                                  !.clus = w.ret, !.size = 1, !.tenth = Tag0x5A]), P[k][1]))
Lookup(v, P, k, dp, n) ==
  IF k = 0 THEN Return(v, 0)
  ELSE IF PartWrong(v, P, k) THEN Stop(v, "long filename")
  ELSE Then(FirstCluster(Harm(v, "prefix", n \in Names /\ LongName(v, P, k) # n), P, k),
            LAMBDA w : fat_iget(w, At(w, P[k]).clus, Nil, dp))
fat_dirlookup(v, dp, n) ==
  With(Places(v, dp), LAMBDA P : Lookup(v, P, ByName(v, P, n), dp, n))

\* fat_getshortname, then fat_updatename until no entry has the short name: its
\* number is returned.  An entry that has it is looked up as by any caller.
ShortName(v, dp, n) ==
  LET RECURSIVE Try(_, _)
      Try(w, i) ==
        Then(fat_dirlookup(w, dp, <<Base[n], i>>),
             LAMBDA u : IF u.ret = 0 THEN Return(u, i)
                        ELSE Then(fat_iput(u, u.ret), LAMBDA t : Try(t, i + 1)))
  IN  Try(v, 1)

\* The first run of num + 1 empty slots, 0 if there is none.  Then the directory
\* grows, while the FAT sector of its last cluster is held.
FirstRun(v, P, num) ==
  FirstOf({k \in 1..Len(P) - num : \A i \in k..k + num : ~At(v, P[i]).live})
SyncDir(v, P, k) == FoldSet(LAMBDA c, w : SyncClus(w, c), v, {P[i][1] : i \in 1..k})
GrowDir(v, last) ==
  Then(fat_calloc(v, {fat_getFATEntry(last)}),
       LAMBDA w : SyncFat([w EXCEPT !.m.fat[last] = w.ret], fat_getFATEntry(last)))
MakeRoom(v, P, num) ==
  With(FirstRun(v, P, num),
       LAMBDA k : IF k # 0 THEN SyncDir(v, P, k + num)
                  ELSE GrowDir(SyncDir(v, P, Len(P)), Last(P)[1]))

\* What the search adds to the size of the directory: one entry for every gap it
\* meets, one for the run it takes, and one for the new entry.  The size of the
\* root is kept in memory only, and nothing reads it.
Gaps(v, P, k) == {i \in 1..k : ~At(v, P[i]).live /\ (i = 1 \/ At(v, P[i - 1]).live)}
Resize(v, dp, n) == IF dp = Root THEN v ELSE [v EXCEPT !.ino[dp].size = (@ + n) % Width]

\* The new entries E.  In every sector the copy starts again with the first one.
PutEntries(v, c, lo, n, E) ==
  SyncClus([Harm(v, "overlap", \E i \in lo..lo + n - 1 : v.m.dir[c][i].live) EXCEPT !.m.dir[c] =
              [i \in 1..DPS |-> IF i \in lo..lo + n - 1 THEN E[1 + i - lo] ELSE @[i]]], c)
WriteEntries(v, P, k, E) ==
  IF P[k][2] + Len(E) - 1 <= DPS THEN PutEntries(v, P[k][1], P[k][2], Len(E), E)
  ELSE PutEntries(PutEntries(v, P[k][1], P[k][2], DPS - P[k][2] + 1, E),
                  P[k + DPS][1], 1, Len(E), E)

\* fat_dirlink of a name that fat_dirlookup has not found.
Link(v, P, dp, E) ==
  With(FirstRun(v, P, Len(E) - 1),
       LAMBDA k : WriteEntries(
         Resize(v, dp, IF Len(E) = 1 THEN 1 ELSE Cardinality(Gaps(v, P, k)) + 2), P, k, E))
AddEntries(v, dp, E) ==
  Then(MakeRoom(v, Places(v, dp), Len(E) - 1), LAMBDA w : Link(w, Places(w, dp), dp, E))
WithLong(n, last) ==
  [i \in 1..Slots[n] |-> Long(n, 1 + Slots[n] - i, fat_getChkSum(last))] \o <<last>>
fat_dirlink(v, dp, n, c) ==
  Then(ShortName(v, dp, n),
       LAMBDA w : AddEntries(w, dp, WithLong(n, Short(<<Base[n], w.ret>>, c,
                                                      w.ino[c].size, w.ino[c].type))))
Dots == <<<<Nil, 1>>, <<Nil, 2>>>>
DotLink(v, dp, dot, c) ==
  AddEntries(v, dp, <<Short(dot, IF c = Root THEN 0 ELSE c, v.ino[c].size, v.ino[c].type)>>)

CreateDots(v, c, dp) ==
  Then(DotLink(v, c, Dots[1], c), LAMBDA w : DotLink(w, c, Dots[2], dp))
UpdateDir(v, dp) == IF dp = Root THEN v ELSE fat_iupdate(v, dp)
Fill(v, c, dp, type, n) ==
  Then(Then(IF type = "dir" THEN CreateDots(v, c, dp) ELSE v,
            LAMBDA w : fat_dirlink(w, dp, n, c)),
       LAMBDA w : Then(fat_iupdate(fat_ilock(w, c), c), LAMBDA u : UpdateDir(u, dp)))
fat_create_inode(v, dp, type, n) ==
  Then(fat_calloc(v, {}),
       LAMBDA w : Return(Fill([fat_iget(w, w.ret, type, dp)
                                 EXCEPT !.made = @ + 1, !.ino[w.ret].size = 0, !.ino[w.ret].nlink = 1],
                              w.ret, dp, type, n), w.ret))

\* fat_isdirempty reads the entries that the size of the directory counts.
fat_isdirempty(v, P, size) ==
  IF \E k \in 3..size : k <= Len(P) /\ At(v, P[k]).live THEN "no"
  ELSE IF size > Len(P) THEN "panic" ELSE "yes"
MayRemove(v, c) ==
  IF v.ino[c].type = "dir" THEN fat_isdirempty(v, Places(v, c), v.ino[c].size) ELSE "yes"

HasEntries(v, c) ==
  v.ino[c].type = "dir" /\ \E k \in 3..Len(Places(v, c)) : At(v, Places(v, c)[k]).live
\* dp is put before the updates in the code; its entry stays as it is.
RemoveFile(v, dp, c) ==
  Then(Then(fat_iupdate([Harm(v, "nonempty", HasEntries(v, c)) EXCEPT !.ino[c].nlink = @ - 1], c),
            LAMBDA w : UpdateDir(w, dp)),
       LAMBDA w : fat_iput(w, c))
Unlink(v, dp, c) ==
  IF c = 0 THEN v
  ELSE IF v.ino[c].nlink < 1 THEN Stop(v, "nlink")
  ELSE With(Resize(v, dp, -(v.ino[c].size + 1)),
            LAMBDA w : With(MayRemove(w, c),
              LAMBDA may : CASE may = "yes"   -> RemoveFile(w, dp, c)
                             [] may = "no"    -> fat_iput(w, c)
                             [] may = "panic" -> Stop(w, "isdirempty")))
fat_unlink(v, dp, n) ==
  Then(Then(fat_dirlookup(v, dp, n), LAMBDA w : Unlink(w, dp, w.ret)),
       LAMBDA w : fat_iput(w, dp))

(***************************************************************************)
(* System calls.  pd names the directory of the path, Nil for the root.    *)
(***************************************************************************)
vfs_lookup_parent(v, pd) ==
  IF pd = Nil THEN fat_iget(v, Root, "dir", Root)
  ELSE Then(fat_dirlookup(v, Root, pd),
            LAMBDA w : IF w.ret = 0 \/ w.ino[w.ret].type = "dir" THEN w
                       ELSE Return(fat_iput(w, w.ret), 0))

\* Of the entry that create found, only a file is opened.
CreateOld(v, dp, c, type) ==
  Then(fat_iput(v, dp),
       LAMBDA w : IF type = "file" /\ w.ino[c].type = "file" THEN Return(w, c)
                  ELSE Return(fat_iput(w, c), 0))
CreateNew(v, dp, type, n) ==
  Then(fat_create_inode(v, dp, type, n), LAMBDA w : Return(fat_iput(w, dp), w.ret))
CreateIn(v, dp, n, type) ==
  IF dp = 0 THEN v
  ELSE Then(fat_dirlookup(v, dp, n),
            LAMBDA w : IF w.ret = 0 THEN CreateNew(w, dp, type, n) ELSE CreateOld(w, dp, w.ret, type))
create(v, pd, n, type) ==
  Then(vfs_lookup_parent(v, pd), LAMBDA w : CreateIn(w, w.ret, n, type))

LookupIn(v, dp, n) ==
  IF dp = 0 THEN v ELSE Then(fat_dirlookup(v, dp, n), LAMBDA w : Return(fat_iput(w, dp), w.ret))
namei(v, pd, n) == Then(vfs_lookup_parent(v, pd), LAMBDA w : LookupIn(w, w.ret, n))

Finish(v) == mem' = v.m /\ disk' = v.d /\ inode' = v.ino /\ fault' = v.fault /\ harm' = v.harm

\* Power fails after any of the writes of the call.
CrashIn(v) ==
  /\ crashes < MaxCrash
  /\ crashes' = crashes + 1
  /\ \E s \in v.seen : disk' = s[1] /\ mem' = s[1] /\ harm' = s[2]
  /\ inode' = [c \in Cluster |-> IF c = Root THEN [NoInode EXCEPT !.ref = 1, !.type = "dir"]
                                 ELSE NoInode]
  /\ open' = [h \in Handle |-> Nil]
  /\ fault' = Nil

Do(v, o) ==
  /\ fault = Nil
  /\ made' = v.made
  /\ \/ Finish(v) /\ open' = o /\ UNCHANGED crashes
     \/ CrashIn(v)

Opened(v, h, pd, n) ==
  IF v.fault # Nil \/ v.ret = 0 THEN open
  ELSE [open EXCEPT ![h] = [c |-> v.ret, path |-> <<pd, n>>]]

sys_open(h, pd, n) ==
  /\ open[h] = Nil
  /\ \E v \in {namei(Now, pd, n)} : Do(v, Opened(v, h, pd, n))

sys_open_create(h, pd, n) ==
  /\ open[h] = Nil /\ made < MaxNew
  /\ \E v \in {create(Now, pd, n, "file")} : Do(v, Opened(v, h, pd, n))

sys_mkdir(n) ==
  /\ made < MaxNew
  /\ Do(Then(create(Now, Nil, n, "dir"),
             LAMBDA v : IF v.ret = 0 THEN v ELSE fat_iput(v, v.ret)), open)

sys_touch(pd, n) ==
  /\ made < MaxNew
  /\ Do(Then(create(Now, pd, n, "file"),
             LAMBDA v : IF v.ret = 0 THEN v ELSE fat_iput(v, v.ret)), open)

sys_write(h, end) ==
  /\ open[h] # Nil
  /\ inode[open[h].c].type = "file"
  /\ \E off \in {0, inode[open[h].c].size} :
       /\ off < end
       /\ Do(fat_writei(Now, open[h].c, off, end - off, open[h].path), open)

sys_close(h) ==
  /\ open[h] # Nil
  /\ Do(fat_iput(Now, open[h].c), [open EXCEPT ![h] = Nil])

sys_unlink(pd, n) ==
  Do(Then(vfs_lookup_parent(Now, pd),
          LAMBDA v : IF v.ret = 0 THEN v ELSE fat_unlink(v, v.ret, n)), open)

\* sys_copy from file c to a new or old file at <<pd, n>>, one sector at a time; a
\* longer old file keeps its end.  The code puts the new file before it writes to
\* it, which no other call of this module can notice.
CopyLoop(v, c, to, x) ==
  LET RECURSIVE Sector(_, _)
      Sector(w, off) ==
        IF off >= w.ino[c].size THEN w
        ELSE Then(fat_writei(w, to, off, Min({DPS, w.ino[c].size - off}), x),
                  LAMBDA u : Sector([u EXCEPT !.done = 0], off + DPS))
  IN  Sector(v, 0)
Copy(v, c, pd, n) ==
  Then(create([v EXCEPT !.made = @ + 1], pd, n, "file"),
       LAMBDA w : IF w.ret = 0 THEN w
                  ELSE Then(CopyLoop(w, c, w.ret, <<pd, n>>),
                            LAMBDA u : Then(fat_iput(u, w.ret), LAMBDA t : fat_iput(t, c))))
\* A destination that is a directory stands for the file of the same name in it.
\* The lookup that finds this out leaves a reference behind.
CopyTo(v, c, from, to) ==
  Then(namei(v, to[1], to[2]),
       LAMBDA w : IF w.ret # 0 /\ w.ino[w.ret].type = "dir" THEN Copy(w, c, to[2], from[2])
                  ELSE Copy(w, c, to[1], to[2]))
sys_copy(from, to) ==
  /\ made < MaxNew
  /\ Do(Then(namei(Now, from[1], from[2]),
             LAMBDA v : IF v.ret = 0 THEN v ELSE CopyTo(v, v.ret, from, to)), open)

\* sys_move unlinks the whole source path as one name in its directory, which
\* only finds a file given by its bare name.
UnlinkSource(v, from) ==
  Then(vfs_lookup_parent(v, from[1]),
       LAMBDA w : IF from[1] = Nil THEN fat_unlink(w, w.ret, from[2]) ELSE fat_iput(w, w.ret))
sys_move(from, to) ==
  /\ made < MaxNew
  /\ Do(Then(namei(Now, from[1], from[2]),
             LAMBDA v : IF v.ret = 0 THEN v
                        ELSE Then(CopyTo(v, v.ret, from, to),
                                  LAMBDA w : IF w.ret = 0 THEN w ELSE UnlinkSource(w, from))), open)

\* sys_remove.  The name is unlinked from the current directory, here the root.
\* Three of its returns keep what the call holds for ever: the log after a file,
\* the lock of dp or of ip on the way to bad.
sb_unlink(v, n) ==
  Then(vfs_lookup_parent(v, Nil), LAMBDA w : fat_unlink(w, w.ret, n))
RemoveFound(v, dp, c, n) ==
  Then(fat_iput(v, dp),
       LAMBDA w :
         IF w.ino[c].nlink < 1 THEN Stop(w, "ip locked")
         ELSE IF w.ino[c].type = "file"
         THEN Then(Then(fat_iput(w, c), LAMBDA u : sb_unlink(u, n)), LAMBDA u : Stop(u, "log busy"))
         ELSE With(MayRemove(w, c),
                LAMBDA may : CASE may = "yes"   -> Then(fat_iput(w, c), LAMBDA u : sb_unlink(u, n))
                               [] may = "no"    -> fat_iput(w, c)
                               [] may = "panic" -> Stop(w, "isdirempty")))
sys_remove(pd, n) ==
  Do(Then(vfs_lookup_parent(Now, pd),
          LAMBDA v : IF v.ret = 0 THEN v
                     ELSE Then(fat_dirlookup(v, v.ret, n),
                               LAMBDA w : IF w.ret = 0 THEN Stop(w, "dp locked")
                                          ELSE RemoveFound(w, v.ret, w.ret, n))), open)

\* The machine that panicked or hangs is started again.
Reboot == fault # Nil /\ CrashIn(Now) /\ UNCHANGED made

Init ==
  LET Clean == [fat  |-> [c \in Cluster |-> IF c = Root THEN EOF ELSE 0],
                fat2 |-> [c \in Cluster |-> IF c = Root THEN EOF ELSE 0],
                dir  |-> [c \in Cluster |-> ZeroDir],
                data |-> [c \in Cluster |-> ZeroData],
                nxt  |-> Hint, free |-> DataEnd - 3]
      last  == Short(<<Base[Foreign], 1>>, 0, 0, "file")
  IN  /\ mem = IF Foreign = Nil THEN Clean
               ELSE [Clean EXCEPT !.dir[Root][1] = Long(Foreign, 1, fat_getChkSum(last)),
                                  !.dir[Root][2] = last]
      /\ disk = mem
      /\ inode = [c \in Cluster |-> IF c = Root THEN [NoInode EXCEPT !.ref = 1, !.type = "dir"]
                                    ELSE NoInode]
      /\ open = [h \in Handle |-> Nil]
      /\ fault = Nil /\ harm = {}
      /\ crashes = 0 /\ made = 0

Next ==
  \/ \E h \in Handle : \/ sys_close(h)
                       \/ \E end \in Sizes : sys_write(h, end)
                       \/ \E n \in DirNames : sys_open(h, Nil, n)
                       \/ \E p \in Paths : sys_open(h, p[1], p[2]) \/ sys_open_create(h, p[1], p[2])
  \/ \E n \in DirNames : sys_mkdir(n) \/ sys_unlink(Nil, n)
  \/ \E p \in Paths : sys_unlink(p[1], p[2]) \/ sys_touch(p[1], p[2]) \/ sys_remove(p[1], p[2])
  \/ \E n \in DirNames : sys_remove(Nil, n)
  \/ \E p \in Paths, q \in Paths \cup ({Nil} \X DirNames) : sys_copy(p, q) \/ sys_move(p, q)
  \/ Reboot

Spec == Init /\ [][Next]_vars

(***************************************************************************)
(* Properties.                                                             *)
(***************************************************************************)
\* The entries that a walk from the root finds in volume m.
Entries(m) ==
  LET V == [m |-> m]
      In(dp, pd) ==
        LET P == Places(V, dp)
            K == {k \in DOMAIN P : At(V, P[k]).live /\ ~At(V, P[k]).long
                                   /\ At(V, P[k]).name \notin ToSet(Dots)}
        IN  {[pd |-> pd, n |-> LongName(V, P, k), e |-> At(V, P[k])] : k \in K}
      top == In(Root, Nil)
  IN  top \cup UNION {In(t.e.clus, t.n) : t \in {u \in top : u.e.type = "dir"}}

\* No deleted entry has been taken for a live one, and every cluster in use is on
\* the disk.
Sane == harm \cap {"stale", "beyond"} = {}

\* As long as the volume is sane, every entry leads to a chain of used clusters
\* that ends, and no two chains meet, in memory and, since the disk is what a
\* crash leaves, on the disk after each single write.  fat_calloc marks a cluster
\* before anything points to it, fat_writei links it after it is marked, and
\* fat_itrunc erases the name before it frees the chain.
ChainsSound ==
  Sane =>
    \A m \in {mem, disk} :
      LET H == {<<x.pd, x.n, x.e.clus>> : x \in {y \in Entries(m) : y.e.clus # 0}}
                 \cup {<<Nil, Nil, Root>>}
          Of(x) == Chain(m.fat, x[3])
      IN  /\ \A x \in H : isEOF(m.fat[Last(Of(x))])
          /\ \A x, y \in H : x # y => ToSet(Of(x)) \cap ToSet(Of(y)) = {}

\* Until one of the harms, a file reads as what was written through its own name,
\* for all of its size: no cluster is missing and none holds the data of another
\* file, also after a crash in the middle of fat_writei, fat_itrunc or
\* fat_create_inode.
FilesOwn ==
  harm = {} =>
    \A m \in {mem, disk} : \A x \in Entries(m) : x.e.type = "file" =>
      \A i \in 1..SizeOf(x.e) : fat_readi([m |-> m], x.e.clus, i - 1) = <<x.pd, x.n>>

\* On a sane volume free clusters hold zeros.  fat_calloc hands a cluster out as
\* it is, and the searches of a new directory read it at once: it is fat_itrunc
\* that must clear.
FreeIsZero ==
  Sane => \A c \in Cluster :
            disk.fat[c] = 0 => disk.dir[c] = ZeroDir /\ disk.data[c] = ZeroData

\* On a sane volume fat_calloc panics only when no cluster is free, and until the
\* first crash the FATs agree and Free_Count is exact.
Accounting ==
  Sane =>
    /\ fault = "full" => \A c \in Cluster : mem.fat[c] # 0
    /\ crashes = 0 /\ fault = Nil =>
         /\ disk.fat2 = disk.fat
         /\ disk.free = Cardinality({c \in 2..DataEnd - 1 : disk.fat[c] = 0})

\* Until one of the harms, a file in use has its directory entry on the disk with
\* the size of its inode, so that dropping the inode and loading it again, or a
\* crash between calls, loses nothing.  The exception is in the code: an empty
\* file is stored with size 1 and CrtTimeTenth 0x5A, and so is a file of one byte
\* that was created empty, which is empty when it is loaded again.
EntryCurrent ==
  harm = {} /\ fault = Nil =>
    \A c \in Cluster :
      inode[c].ref > 0 /\ inode[c].valid /\ inode[c].type = "file" =>
        \E x \in Entries(disk) :
          /\ x.e.clus = c
          /\ \/ inode[c].size = SizeOf(x.e)
             \/ inode[c].size = 1 /\ x.e.size = 1 /\ x.e.tenth = Tag0x5A

=============================================================================
