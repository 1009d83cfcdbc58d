--------------------------- MODULE FileTreeProofs ---------------------------
(***************************************************************************)
(* Proofs about the file system calls, for any number of processes,        *)
(* inodes, names and open files.                                           *)
(***************************************************************************)
EXTENDS FileTree, FiniteSetTheorems, TLAPS

\* A step is proved by Zenon unless it names another prover.
USE Zenon

(***************************************************************************)
(* The operations on inodes: what they do to the counts, and that an inode *)
(* without pointers and names stays free.                                  *)
(***************************************************************************)
(* The parts of a cached tree.                                             *)
LEMMA CacheParts ==
  ASSUME NEW f \in Caches
  PROVE  /\ f.type \in [Inode -> {Free, Dir, File}] /\ f.nlink \in [Inode -> Int]
         /\ f.ents \in [Inode -> [Entries -> MaybeInode]] /\ f.ref \in [Inode -> Nat]
BY DEF Caches

(* sfs_idup and sfs_iget add one reference.                                *)
LEMMA IdupFacts ==
  ASSUME NEW f \in Caches, NEW i \in Inode, NEW g, g = idup(f, i)
  PROVE  /\ g \in Caches /\ g.type = f.type /\ g.nlink = f.nlink /\ g.ents = f.ents
         /\ g.ref = [f.ref EXCEPT ![i] = @ + 1]
         /\ \A gone : Reclaimed(f, gone) => Reclaimed(g, gone)
<1>1. PICK r : r = [f.ref EXCEPT ![i] = @ + 1]
  OBVIOUS
<1>2. g = [type |-> f.type, nlink |-> f.nlink, ents |-> f.ents, ref |-> r]
  BY <1>1 DEF idup, Caches
<1>3. f.ref \in [Inode -> Nat]
  BY CacheParts
<1>4. r \in [Inode -> Nat]
  BY SMTT(30), <1>1, <1>3
<1>5. g \in Caches /\ g.type = f.type /\ g.nlink = f.nlink /\ g.ents = f.ents /\ g.ref = r
  BY SMTT(30), <1>2, <1>4 DEF Caches
<1> QED
  BY SMTT(30), <1>1, <1>3, <1>5 DEF Reclaimed

(* sfs_iput takes one reference away, also when it frees the inode, which  *)
(* it does when the last one goes and no name is left.                     *)
LEMMA IputFacts ==
  ASSUME NEW f \in Caches, NEW i \in Inode, f.ref[i] > 0, NEW g, g = iput(f, i)
  PROVE  /\ g \in Caches /\ g.nlink = f.nlink
         /\ g.ref = [f.ref EXCEPT ![i] = @ - 1]
         /\ \A gone : Reclaimed(f, gone) => Reclaimed(g, gone)
<1>1. PICK r : r = [f.ref EXCEPT ![i] = @ - 1]
  OBVIOUS
<1>2. /\ f.ref \in [Inode -> Nat] /\ f.nlink \in [Inode -> Int]
      /\ f.type \in [Inode -> {Free, Dir, File}] /\ f.ents \in [Inode -> [Entries -> MaybeInode]]
  BY CacheParts
<1>3. r \in [Inode -> Nat]
  BY SMTT(30), <1>1, <1>2
<1>4. CASE Frees(f, i)
  <2>1. PICK t, e : t = [f.type EXCEPT ![i] = Free] /\ e = [f.ents EXCEPT ![i] = NoEntries]
    OBVIOUS
  <2>2. r = [f.ref EXCEPT ![i] = 0]
    BY SMTT(30), <1>1, <1>2, <1>4 DEF Frees
  <2>3. t \in [Inode -> {Free, Dir, File}] /\ e \in [Inode -> [Entries -> MaybeInode]]
    BY <1>2, <2>1 DEF NoEntries, MaybeInode
  <2>4. g = [type |-> t, nlink |-> f.nlink, ents |-> e, ref |-> r]
    BY <1>4, <2>1, <2>2 DEF iput, Caches
  <2>5. g \in Caches /\ g.nlink = f.nlink /\ g.type = t /\ g.ref = r
    BY SMTT(30), <1>2, <1>3, <2>3, <2>4 DEF Caches
  <2> QED
    BY SMTT(30), <1>1, <1>2, <2>1, <2>5 DEF Reclaimed
<1>5. CASE ~Frees(f, i)
  <2>1. g = [type |-> f.type, nlink |-> f.nlink, ents |-> f.ents, ref |-> r]
    BY <1>1, <1>5 DEF iput, Caches
  <2>2. g \in Caches /\ g.nlink = f.nlink /\ g.type = f.type /\ g.ref = r
    BY SMTT(30), <1>2, <1>3, <2>1 DEF Caches
  <2> QED
    BY SMTT(30), <1>1, <1>2, <1>5, <2>2 DEF Reclaimed, Frees
<1> QED
  BY <1>4, <1>5

(* A link count changes while the inode is in use.                         *)
LEMMA LinkFacts ==
  ASSUME NEW f \in Caches, NEW i \in Inode, f.ref[i] > 0,
         NEW g, g = link_inc(f, i) \/ g = link_dec(f, i)
  PROVE  /\ g \in Caches /\ g.ref = f.ref /\ g.type = f.type /\ g.ents = f.ents
         /\ \A gone : Reclaimed(f, gone) => Reclaimed(g, gone)
<1>1. f.nlink \in [Inode -> Int] /\ f.ref \in [Inode -> Nat]
  BY CacheParts
<1>2. PICK n : /\ n = [f.nlink EXCEPT ![i] = @ + 1] \/ n = [f.nlink EXCEPT ![i] = @ - 1]
               /\ g = [type |-> f.type, nlink |-> n, ents |-> f.ents, ref |-> f.ref]
  BY DEF link_inc, link_dec, Caches
<1>3. n \in [Inode -> Int] /\ \A j \in Inode \ {i} : n[j] = f.nlink[j]
  BY SMTT(30), <1>1, <1>2
<1>4. g \in Caches /\ g.ref = f.ref /\ g.type = f.type /\ g.nlink = n /\ g.ents = f.ents
  BY <1>2, <1>3 DEF Caches
<1> QED
  BY SMTT(30), <1>1, <1>3, <1>4 DEF Reclaimed

(* A directory entry changes nothing else.                                 *)
LEMMA EntryFacts ==
  ASSUME NEW f \in Caches, NEW d \in Inode, NEW n \in Entries, NEW i \in MaybeInode,
         NEW g, g = dirlink(f, d, n, i)
  PROVE  /\ g \in Caches /\ g.ref = f.ref /\ g.type = f.type /\ g.nlink = f.nlink
         /\ \A gone : Reclaimed(f, gone) => Reclaimed(g, gone)
<1>1. PICK e : e = [f.ents EXCEPT ![d] = [f.ents[d] EXCEPT ![n] = i]]
  OBVIOUS
<1>2. g = [type |-> f.type, nlink |-> f.nlink, ents |-> e, ref |-> f.ref]
  BY <1>1 DEF dirlink, Caches
<1>3. f.ents \in [Inode -> [Entries -> MaybeInode]]
  BY CacheParts
<1>4. e \in [Inode -> [Entries -> MaybeInode]]
  BY <1>1, <1>3
<1>5. g \in Caches /\ g.ref = f.ref /\ g.type = f.type /\ g.nlink = f.nlink
  BY SMTT(30), <1>2, <1>4 DEF Caches
<1> QED
  BY <1>5 DEF Reclaimed

(***************************************************************************)
(* Counting pointers: those of one process apart from those of the others. *)
(***************************************************************************)
One(x, i) == IF x = i THEN 1 ELSE 0
Total(w, h, c, i) == One(w, i) + One(h, i) + One(c.node, i) + One(c.next, i) + One(c.old, i)
Own(p, i) == Total(cwd[p], file[p], call[p], i)
Others(p, i) == {e \in (Proc \ {p}) \X Slots : <<e[2], i>> \in Pointers(e[1])}

\* S, and x if the slot that x stands for points to i.
With(S, x, v, i) == IF v = i THEN S \cup {x} ELSE S

(* One slot more.                                                          *)
LEMMA WithCount ==
  ASSUME NEW S, IsFiniteSet(S), NEW x, x \notin S, NEW v, NEW i
  PROVE  /\ IsFiniteSet(With(S, x, v, i))
         /\ Cardinality(With(S, x, v, i)) = Cardinality(S) + One(v, i)
BY SMTT(30), FS_AddElement, FS_CardinalityType DEF With, One

\* The same for any directories w, files h and locals c of the processes.
Among(S, w, h, c, i) ==
  {e \in S \X Slots : <<e[2], i>> \in {<<"cwd", w[e[1]]>>, <<"file", h[e[1]]>>,
                                        <<"node", c[e[1]].node>>,
                                       <<"next", c[e[1]].next>>, <<"old", c[e[1]].old>>}}

(* The pointers to i are those of p and those of the others.               *)
LEMMA SplitCount ==
  ASSUME NEW p \in Proc, NEW i, NEW w, NEW h, NEW c
  PROVE  /\ Cardinality(Among(Proc, w, h, c, i)) =
              Cardinality(Among(Proc \ {p}, w, h, c, i)) + Total(w[p], h[p], c[p], i)
         /\ Cardinality(Among(Proc \ {p}, w, h, c, i)) \in Nat
<1> DEFINE S0 == Among(Proc \ {p}, w, h, c, i)
           S1 == With(S0, <<p, "cwd">>, w[p], i)
           S2 == With(S1, <<p, "file">>, h[p], i)
           S3 == With(S2, <<p, "node">>, c[p].node, i)
           S4 == With(S3, <<p, "next">>, c[p].next, i)
           S5 == With(S4, <<p, "old">>, c[p].old, i)
<1>1. S0 \subseteq (Proc \ {p}) \X Slots
  BY DEF Among
<1>2. IsFiniteSet(S0) /\ \A s : <<p, s>> \notin S0
  <2> HIDE DEF S0
  <2>1. IsFiniteSet(Slots)
    <3>1. Slots = (((({} \cup {"cwd"}) \cup {"file"}) \cup {"node"}) \cup {"next"}) \cup {"old"}
      BY DEF Slots
    <3> QED
      BY <3>1, FS_EmptySet, FS_AddElement
  <2>2. IsFiniteSet(Proc \ {p})
    BY FS_RemoveElement, TreeAssumption
  <2>3. PICK T : T = (Proc \ {p}) \X Slots
    OBVIOUS
  <2>4. IsFiniteSet(T)
    BY <2>1, <2>2, <2>3, FS_Product
  <2>5. S0 \in SUBSET T
    BY <1>1, <2>3
  <2>6. IsFiniteSet(S0)
    BY ZenonT(30), <2>4, <2>5, FS_Subset
  <2> QED
    BY <1>1, <2>6
<1>3. Among(Proc, w, h, c, i) = S5
  BY SMTT(30) DEF Among, With, Slots
<1> HIDE DEF S0
<1>4. /\ <<p, "file">> \notin S1 /\ <<p, "node">> \notin S2 /\ <<p, "next">> \notin S3
      /\ <<p, "old">> \notin S4
  BY <1>2 DEF With
<1> HIDE DEF S1, S2, S3, S4, S5
<1>5. IsFiniteSet(S1) /\ Cardinality(S1) = Cardinality(S0) + One(w[p], i)
  BY <1>2, WithCount DEF S1
<1>6. IsFiniteSet(S2) /\ Cardinality(S2) = Cardinality(S1) + One(h[p], i)
  BY SMTT(30), <1>4, <1>5, WithCount DEF S2
<1>7. IsFiniteSet(S3) /\ Cardinality(S3) = Cardinality(S2) + One(c[p].node, i)
  BY SMTT(30), <1>4, <1>6, WithCount DEF S3
<1>8. IsFiniteSet(S4) /\ Cardinality(S4) = Cardinality(S3) + One(c[p].next, i)
  BY SMTT(30), <1>4, <1>7, WithCount DEF S4
<1>9. IsFiniteSet(S5) /\ Cardinality(S5) = Cardinality(S4) + One(c[p].old, i)
  BY SMTT(30), <1>4, <1>8, WithCount DEF S5
<1>10. Cardinality(S0) \in Nat
  BY <1>2, FS_CardinalityType
<1>11. Cardinality(Among(Proc, w, h, c, i)) = Cardinality(S0) + Total(w[p], h[p], c[p], i)
  BY SMTT(30), <1>3, <1>5, <1>6, <1>7, <1>8, <1>9, <1>10 DEF Total, One
<1> QED
  BY <1>10, <1>11 DEF S0

(* Now and after a step.                                                   *)
LEMMA HolderCount ==
  ASSUME NEW p \in Proc, NEW i
  PROVE  /\ Cardinality(Holders(i)) = Cardinality(Others(p, i)) + Own(p, i)
         /\ Cardinality(Others(p, i)) \in Nat
         /\ Cardinality(Holders(i)') = Cardinality(Others(p, i)') + Own(p, i)'
         /\ Own(p, i) \in Nat
<1>1. /\ Holders(i) = Among(Proc, cwd, file, call, i)
      /\ Others(p, i) = Among(Proc \ {p}, cwd, file, call, i)
  BY DEF Holders, Others, Among, Pointers
<1>2. /\ Holders(i)' = Among(Proc, cwd', file', call', i)
      /\ Others(p, i)' = Among(Proc \ {p}, cwd', file', call', i)
  BY DEF Holders, Others, Among, Pointers
<1>3. Own(p, i) \in Nat
  BY SMTT(30) DEF Own, Total, One
<1>4. /\ Cardinality(Holders(i)) = Cardinality(Others(p, i)) + Own(p, i)
      /\ Cardinality(Others(p, i)) \in Nat
  BY <1>1, SplitCount DEF Own
<1>5. Cardinality(Holders(i)') = Cardinality(Others(p, i)') + Own(p, i)'
  BY <1>2, SplitCount DEF Own
<1> QED
  BY <1>3, <1>4, <1>5

(* p's pointers are counted.                                               *)
LEMMA Held ==
  ASSUME Sound, NEW p \in Proc, NEW i \in Inode
  PROVE  fs.ref[i] \in Nat /\ fs.ref[i] >= Own(p, i)
<1>1. fs.ref[i] = (IF i = Root THEN 1 ELSE 0) + Cardinality(Holders(i))
  BY DEF Sound, Counted
<1>2. fs.ref \in [Inode -> Nat]
  BY CacheParts DEF Sound
<1>3. /\ Cardinality(Holders(i)) = Cardinality(Others(p, i)) + Own(p, i)
      /\ Cardinality(Others(p, i)) \in Nat /\ Own(p, i) \in Nat
  BY HolderCount
<1> QED
  BY SMTT(30), <1>1, <1>2, <1>3

(***************************************************************************)
(* A step of p: p goes to l with the locals c, the directory w and the     *)
(* file h, and the counts follow its pointers.                             *)
(***************************************************************************)
Moved(p, l, c, w, h) ==
  /\ pc' = [pc EXCEPT ![p] = l] /\ call' = [call EXCEPT ![p] = c]
  /\ cwd' = [cwd EXCEPT ![p] = w] /\ file' = [file EXCEPT ![p] = h]

Follows(p, r, c, w, h) ==
  \A i \in Inode : r[i] = (fs.ref[i] - Own(p, i)) + Total(w, h, c, i)

(* Such a step keeps the counts exact.                                     *)
LEMMA StepSound ==
  ASSUME Sound, NEW p \in Proc, NEW l \in Places, NEW c \in Calls, Placed(l, c),
         NEW w \in Inode, NEW h \in MaybeInode, Moved(p, l, c, w, h),
         log' = log \/ log \in {p, NoProc}, InTrans(l, c) => log' = p,
         fs' \in Caches, Reclaimed(fs', lost'), Follows(p, fs'.ref, c, w, h)
  PROVE  Sound'
<1>1. /\ pc' \in [Proc -> Places] /\ call' \in [Proc -> Calls]
      /\ cwd' \in [Proc -> Inode] /\ file' \in [Proc -> MaybeInode]
  BY DEF Sound, Moved
<1>2. ASSUME NEW q \in Proc
      PROVE  Placed(pc'[q], call'[q]) /\ (InTrans(pc'[q], call'[q]) => log' = q)
  <2>1. CASE q = p
    BY <2>1 DEF Sound, Moved
  <2>2. CASE q # p
    BY <2>2, TreeAssumption DEF Sound, Moved
  <2> QED
    BY <2>1, <2>2
<1>3. Counted'
  <2> SUFFICES ASSUME NEW i \in Inode
               PROVE  fs'.ref[i] = (IF i = Root THEN 1 ELSE 0) + Cardinality(Holders(i)')
    BY DEF Counted
  <2>1. fs.ref[i] = (IF i = Root THEN 1 ELSE 0) + Cardinality(Holders(i))
    BY DEF Sound, Counted
  <2>2. /\ Cardinality(Holders(i)) = Cardinality(Others(p, i)) + Own(p, i)
        /\ Cardinality(Others(p, i)) \in Nat
    BY HolderCount
  <2>3. Cardinality(Holders(i)') = Cardinality(Others(p, i)') + Own(p, i)'
    BY HolderCount
  <2>4. Others(p, i)' = Others(p, i)
    <3>1. \A q \in Proc \ {p} : Pointers(q)' = Pointers(q)
      BY DEF Pointers, Moved, Sound
    <3> QED
      BY <3>1 DEF Others
  <2>5. Own(p, i)' = Total(w, h, c, i)
    <3>1. cwd'[p] = w /\ file'[p] = h /\ call'[p] = c
      BY DEF Moved, Sound
    <3> QED
      BY <3>1 DEF Own
  <2>6. /\ Own(p, i) \in Nat
        /\ Total(w, h, c, i) \in Nat
    BY SMTT(30) DEF Own, Total, One
  <2>7. fs'.ref[i] = (fs.ref[i] - Own(p, i)) + Total(w, h, c, i)
    BY DEF Follows
  <2>8. Cardinality(Holders(i)') = Cardinality(Others(p, i)) + Total(w, h, c, i)
    BY <2>3, <2>4, <2>5
  <2> QED
    BY SMTT(30), <2>1, <2>2, <2>6, <2>7, <2>8
<1> QED
  BY <1>1, <1>2, <1>3 DEF Sound

(* Where p is and what it has.                                             *)
LEMMA Locals ==
  ASSUME Sound, NEW p \in Proc
  PROVE  /\ pc[p] \in Places /\ call[p] \in Calls /\ Placed(pc[p], call[p])
         /\ InTrans(pc[p], call[p]) => log = p
         /\ cwd[p] \in Inode /\ file[p] \in MaybeInode
         /\ call[p].node \in MaybeInode /\ call[p].next \in MaybeInode
         /\ call[p].old \in MaybeInode /\ call[p].name \in Entries \cup {NoName}
         /\ call[p].left \in 0..MaxPath
         /\ call[p].op \in {"none", "namei", "unlink", "create", "link", "link2"}
<1>1. /\ pc[p] \in Places /\ call[p] \in Calls /\ Placed(pc[p], call[p])
      /\ InTrans(pc[p], call[p]) => log = p
      /\ cwd[p] \in Inode /\ file[p] \in MaybeInode
  BY DEF Sound
<1> QED
  BY <1>1 DEF Calls

(* A step that leaves cwd and file alone.                                  *)
LEMMA GoSound ==
  ASSUME Sound, NEW p \in Proc, NEW l \in Places, NEW c \in Calls, Placed(l, c), NEW c0,
         Go(p, l, c0), l = "idle" => c = NoCall, l # "idle" => c = c0, UNCHANGED <<cwd, file>>,
         log' = log \/ log \in {p, NoProc}, InTrans(l, c) => log' = p,
         fs' \in Caches, Reclaimed(fs', lost'), Follows(p, fs'.ref, c, cwd[p], file[p])
  PROVE  Sound'
<1>1. cwd \in [Proc -> Inode] /\ file \in [Proc -> MaybeInode]
  BY DEF Sound
<1>2. cwd' = [cwd EXCEPT ![p] = cwd[p]] /\ file' = [file EXCEPT ![p] = file[p]]
  BY <1>1
<1>3. Moved(p, l, c, cwd[p], file[p])
  BY <1>2 DEF Moved, Go, Set
<1>4. cwd[p] \in Inode /\ file[p] \in MaybeInode
  BY Locals
<1> QED
  BY <1>3, <1>4, StepSound

(* A pointer of p is counted, and two pointers to one inode twice.         *)
LEMMA Refs ==
  ASSUME Sound, NEW p \in Proc, NEW i \in Inode
  PROVE  /\ i \in {cwd[p], file[p], call[p].node, call[p].next, call[p].old} => fs.ref[i] > 0
         /\ call[p].node = i /\ call[p].next = i => fs.ref[i] > 1
         /\ call[p].node = i /\ call[p].old = i => fs.ref[i] > 1
         /\ fs.ref[i] \in Nat
<1>1. fs.ref[i] \in Nat /\ fs.ref[i] >= Own(p, i)
  BY Held
<1> QED
  BY SMTT(30), <1>1 DEF Own, Total, One

(* What is on the disk is a tree, before and after a commit.               *)
LEMMA DiskTree ==
  ASSUME disk \in Disks, fs' \in Caches, disk' = disk \/ disk' = Image(fs')
  PROVE  disk' \in Disks
<1>1. CASE disk' = disk
  BY <1>1
<1>2. CASE disk' = Image(fs')
  BY <1>2 DEF Image, Disks, Caches
<1> QED
  BY <1>1, <1>2

(* PutThen takes the reference, or panics.                                 *)
LEMMA PutThenFacts ==
  ASSUME Sound, NEW p \in Proc, NEW i \in Inode, fs.ref[i] > 0, NEW l, NEW c, PutThen(p, i, l, c)
  PROVE  /\ fs' \in Caches
         /\ \/ Panic
            \/ /\ Go(p, l, c) /\ fs'.ref = [fs.ref EXCEPT ![i] = @ - 1]
               /\ Reclaimed(fs', lost)
<1>1. fs \in Caches /\ Reclaimed(fs, lost)
  BY DEF Sound
<1>2. CASE fs' = fs /\ Panic
  BY <1>1, <1>2 DEF Panic
<1>3. CASE fs' = iput(fs, i) /\ Go(p, l, c)
  BY <1>1, <1>3, IputFacts
<1> QED
  BY <1>2, <1>3 DEF PutThen

(* The call ends, and its only pointer has been put.                       *)
LEMMA EndSound ==
  ASSUME Sound, NEW p \in Proc, NEW c0, Go(p, "idle", c0), UNCHANGED <<cwd, file>>,
         log' = log \/ log \in {p, NoProc},
         call[p].next = NoInode, call[p].old = NoInode,
         fs' \in Caches, fs'.ref = [fs.ref EXCEPT ![call[p].node] = @ - 1], Reclaimed(fs', lost')
  PROVE  Sound'
<1>1. NoCall \in Calls /\ Placed("idle", NoCall) /\ "idle" \in Places /\ ~InTrans("idle", NoCall)
  BY SMTT(30), TreeAssumption DEF NoCall, Calls, Placed, Places, MaybeInode, InTrans
<1>2. Follows(p, fs'.ref, NoCall, cwd[p], file[p])
  <2>1. fs.ref \in [Inode -> Nat]
    BY CacheParts DEF Sound
  <2> QED
    BY SMTT(30), <2>1, TreeAssumption DEF Follows, Own, Total, One, NoCall
<1> QED
  BY <1>1, <1>2, GoSound

(* A lookup that fails puts the inode that it has reached.                 *)
LEMMA FailsSound ==
  ASSUME Sound, NEW p \in Proc, pc[p] = "walk", Fails(p), UNCHANGED <<cwd, file, lost>>
  PROVE  fs' \in Caches /\ (disk' = disk \/ disk' = Image(fs')) /\ (Panic \/ Sound')
<1>1. /\ call[p] \in Calls /\ call[p].node \in Inode /\ call[p].next = NoInode
      /\ call[p].old \in MaybeInode /\ call[p].op \in {"namei", "unlink", "create", "link2"}
      /\ call[p].old # NoInode <=> call[p].op = "link2"
      /\ call[p].op = "link2" => log = p
  BY Locals DEF Placed, MaybeInode, InTrans
<1>2. fs.ref[call[p].node] > 0
  BY <1>1, Refs
<1>3. (disk' = disk \/ disk' = Image(fs')) /\ (log' = log \/ log = p)
  BY DEF Fails, Uncommitted, Commit
<1>4. CASE PutThen(p, call[p].node, "idle", NoCall) /\ call[p].op # "link2"
  BY <1>1, <1>2, <1>3, <1>4, PutThenFacts, EndSound
<1>5. ASSUME NEW c, PutThen(p, call[p].node, "undo", c), call[p].op = "link2", log' = log,
             c = [call[p] EXCEPT !.node = NoInode, !.left = 0]
      PROVE  fs' \in Caches /\ (Panic \/ Sound')
  <2>1. /\ fs' \in Caches
        /\ \/ Panic
           \/ /\ Go(p, "undo", c) /\ fs'.ref = [fs.ref EXCEPT ![call[p].node] = @ - 1]
              /\ Reclaimed(fs', lost)
    BY <1>1, <1>2, <1>5, PutThenFacts
  <2>2. /\ c.node = NoInode /\ c.next = NoInode /\ c.old = call[p].old /\ c.op = "link2"
        /\ c.left = 0 /\ c \in Calls /\ c.name = call[p].name
    <3>1. c = [op |-> call[p].op, node |-> NoInode, next |-> call[p].next, old |-> call[p].old,
               name |-> call[p].name, left |-> 0]
      BY <1>1, <1>5 DEF Calls
    <3>2. 0 \in 0..MaxPath /\ NoInode \in MaybeInode
      BY SMTT(30), TreeAssumption DEF MaybeInode
    <3>3. /\ call[p].op = "link2" /\ call[p].next = NoInode /\ call[p].old \in MaybeInode
          /\ call[p].name \in Entries \cup {NoName}
      BY <1>1, <1>5, Locals
    <3> QED
      BY <3>1, <3>2, <3>3 DEF Calls
  <2>3. Placed("undo", c) /\ "undo" \in Places
    BY <1>1, <1>5, <2>2 DEF Placed, Places
  <2>4. ASSUME fs'.ref = [fs.ref EXCEPT ![call[p].node] = @ - 1]
        PROVE  Follows(p, fs'.ref, c, cwd[p], file[p])
    <3>1. fs.ref \in [Inode -> Nat]
      BY CacheParts DEF Sound
    <3> QED
      BY SMTT(30), <1>1, <2>2, <2>4, <3>1, TreeAssumption DEF Follows, Own, Total, One
  <2> QED
    BY <1>1, <1>5, <2>1, <2>2, <2>3, <2>4, GoSound
<1>6. \/ PutThen(p, call[p].node, "idle", NoCall) /\ call[p].op # "link2"
      \/ /\ PutThen(p, call[p].node, "undo", [call[p] EXCEPT !.node = NoInode, !.left = 0])
         /\ call[p].op = "link2" /\ log' = log
  BY <1>1 DEF Fails, Uncommitted
<1> QED
  BY <1>3, <1>4, <1>5, <1>6
(* What every step keeps.                                                  *)
Fine ==
  fs' \in Caches /\ (disk' = disk \/ disk' = Image(fs')) /\ (Panic \/ Sound')

(* namex goes one directory down: f counts the next inode already.         *)
LEMMA NextIpSound ==
  ASSUME Sound, NEW p \in Proc, pc[p] \in {"walk", "fill"}, call[p].left > 0,
         NEW f \in Caches, Reclaimed(f, lost), NEW j \in Inode,
         \A i \in Inode : f.ref[i] = fs.ref[i] + One(j, i) - One(call[p].next, i),
         Next_ip(p, f, j), UNCHANGED <<cwd, file, lost, log>>
  PROVE  fs' \in Caches /\ (Panic \/ Sound')
<1>1. /\ call[p] \in Calls /\ call[p].node \in Inode /\ call[p].next \in MaybeInode
      /\ pc[p] = "walk" => call[p].next = NoInode
      /\ call[p].op \in {"namei", "unlink", "create", "link2"}
      /\ call[p].old # NoInode <=> call[p].op = "link2"
      /\ call[p].op \in {"create", "link2"} => log = p
  BY Locals DEF Placed, MaybeInode, InTrans
<1>2. f.ref \in [Inode -> Nat] /\ fs.ref \in [Inode -> Nat]
  BY CacheParts DEF Sound
<1>3. f.ref[call[p].node] > 0
  <2>1. /\ fs.ref[call[p].node] > 0
        /\ call[p].next = call[p].node => fs.ref[call[p].node] > 1
    BY <1>1, Refs
  <2> QED
    BY SMTT(30), <1>1, <1>2, <2>1 DEF One
<1>4. CASE fs' = f /\ Panic
  BY <1>4 DEF Panic
<1>5. ASSUME NEW c, c = [call[p] EXCEPT !.node = j, !.next = NoInode, !.left = @ - 1],
             fs' = iput(f, call[p].node), Go(p, "walk", c)
      PROVE  fs' \in Caches /\ Sound'
  <2>1. /\ fs' \in Caches /\ fs'.ref = [f.ref EXCEPT ![call[p].node] = @ - 1]
        /\ Reclaimed(fs', lost)
    <3>1. fs' = iput(f, call[p].node) /\ call[p].node \in Inode
      BY <1>1, <1>5
    <3> QED
      BY SMTT(30), <1>3, <3>1, IputFacts
  <2>2. c = [op |-> call[p].op, node |-> j, next |-> NoInode, old |-> call[p].old,
             name |-> call[p].name, left |-> call[p].left - 1]
    BY <1>1, <1>5 DEF Calls
  <2>3. /\ call[p].old \in MaybeInode /\ call[p].left - 1 \in 0..MaxPath
        /\ call[p].name \in Entries \cup {NoName} /\ {j, NoInode} \subseteq MaybeInode
    BY SMTT(30), Locals, TreeAssumption DEF MaybeInode
  <2>4. /\ c \in Calls /\ c.op = call[p].op /\ c.node = j /\ c.next = NoInode
        /\ c.old = call[p].old
    BY <1>1, <2>2, <2>3 DEF Calls
  <2>5. Placed("walk", c) /\ "walk" \in Places /\ (InTrans("walk", c) => log' = p)
    BY <1>1, <2>4, TreeAssumption DEF Placed, Places, InTrans
  <2>6. Follows(p, fs'.ref, c, cwd[p], file[p])
    BY SMTT(30), <1>1, <1>2, <2>1, <2>4, TreeAssumption DEF Follows, Own, Total, One
  <2> QED
    BY <1>5, <2>1, <2>4, <2>5, <2>6, GoSound
<1> QED
  BY <1>4, <1>5 DEF Next_ip


(* sfs_iput and sfs_iget by the counts of each inode.                      *)
LEMMA PutOne ==
  ASSUME NEW f \in Caches, NEW i \in Inode, f.ref[i] > 0, NEW g, g = iput(f, i)
  PROVE  /\ g \in Caches /\ \A k \in Inode : g.ref[k] = f.ref[k] - One(i, k)
         /\ \A gone : Reclaimed(f, gone) => Reclaimed(g, gone)
<1>1. /\ g \in Caches /\ g.ref = [f.ref EXCEPT ![i] = @ - 1]
      /\ \A gone : Reclaimed(f, gone) => Reclaimed(g, gone)
  BY IputFacts
<1>2. f.ref \in [Inode -> Nat]
  BY CacheParts
<1>3. \A k \in Inode : g.ref[k] = f.ref[k] - One(i, k)
  BY SMTT(30), <1>1, <1>2 DEF One
<1> QED
  BY <1>1, <1>3

(* sfs_idup adds the one pointer to the count of its inode alone.          *)
LEMMA DupOne ==
  ASSUME NEW f \in Caches, NEW i \in Inode, NEW g, g = idup(f, i)
  PROVE  /\ g \in Caches /\ \A k \in Inode : g.ref[k] = f.ref[k] + One(i, k)
         /\ \A gone : Reclaimed(f, gone) => Reclaimed(g, gone)
<1>1. /\ g \in Caches /\ g.ref = [f.ref EXCEPT ![i] = @ + 1]
      /\ \A gone : Reclaimed(f, gone) => Reclaimed(g, gone)
  BY IdupFacts
<1>2. f.ref \in [Inode -> Nat]
  BY CacheParts
<1>3. \A k \in Inode : g.ref[k] = f.ref[k] + One(i, k)
  BY SMTT(30), <1>1, <1>2 DEF One
<1> QED
  BY <1>1, <1>3

(* Two inodes are put, which may be the same one.                          *)
LEMMA PutTwo ==
  ASSUME NEW f \in Caches, NEW d \in Inode, NEW i \in Inode, f.ref[d] > 0, f.ref[i] > 0,
         d = i => f.ref[i] > 1, NEW g, g = iput(iput(f, d), i)
  PROVE  /\ g \in Caches /\ \A k \in Inode : g.ref[k] = (f.ref[k] - One(d, k)) - One(i, k)
         /\ \A gone : Reclaimed(f, gone) => Reclaimed(g, gone)
<1>1. PICK e : e = iput(f, d)
  OBVIOUS
<1>2. /\ e \in Caches /\ \A k \in Inode : e.ref[k] = f.ref[k] - One(d, k)
      /\ \A gone : Reclaimed(f, gone) => Reclaimed(e, gone)
  BY SMTT(30), <1>1, PutOne
<1>3. f.ref \in [Inode -> Nat]
  BY CacheParts
<1>4. e.ref[i] > 0
  BY SMTT(30), <1>2, <1>3 DEF One
<1>5. /\ g \in Caches /\ \A k \in Inode : g.ref[k] = e.ref[k] - One(i, k)
      /\ \A gone : Reclaimed(e, gone) => Reclaimed(g, gone)
  BY SMTT(30), <1>1, <1>2, <1>4, PutOne
<1>6. \A k \in Inode : g.ref[k] = (f.ref[k] - One(d, k)) - One(i, k)
  BY <1>2, <1>5
<1> QED
  BY <1>2, <1>5, <1>6

(* A process between two calls has no locals.                              *)
LEMMA IdlePlaced ==
  /\ NoCall \in Calls /\ Placed("idle", NoCall) /\ "idle" \in Places /\ ~InTrans("idle", NoCall)
  /\ NoCall.op = "none" /\ NoCall.node = NoInode /\ NoCall.next = NoInode /\ NoCall.old = NoInode
BY SMTT(30), TreeAssumption DEF NoCall, Calls, Placed, Places, MaybeInode, InTrans

(* A call returns, with the directory w and the file h.                    *)
LEMMA IdleSound ==
  ASSUME Sound, NEW p \in Proc, NEW w \in Inode, NEW h \in MaybeInode, NEW c0,
         Go(p, "idle", c0), cwd' = [cwd EXCEPT ![p] = w], file' = [file EXCEPT ![p] = h],
         log' = log \/ log \in {p, NoProc}, fs' \in Caches, Reclaimed(fs', lost'),
         \A k \in Inode : fs'.ref[k] = (fs.ref[k] - Own(p, k)) + (One(w, k) + One(h, k))
  PROVE  Sound'
<1>1. \A k \in Inode : Total(w, h, NoCall, k) = One(w, k) + One(h, k)
  BY SMTT(30), IdlePlaced, TreeAssumption DEF Total, One
<1>2. Follows(p, fs'.ref, NoCall, w, h)
  BY <1>1 DEF Follows
<1>3. Moved(p, "idle", NoCall, w, h)
  BY DEF Moved, Go, Set
<1> QED
  BY <1>2, <1>3, IdlePlaced, StepSound

(* The same when it has kept cwd and file.                                 *)
LEMMA ReturnSound ==
  ASSUME Sound, NEW p \in Proc, NEW c0, Go(p, "idle", c0), UNCHANGED <<cwd, file>>,
         log' = log \/ log \in {p, NoProc}, fs' \in Caches, Reclaimed(fs', lost'),
         \A k \in Inode :
           fs'.ref[k] = (fs.ref[k] - Own(p, k)) + (One(cwd[p], k) + One(file[p], k))
  PROVE  Sound'
<1>1. cwd \in [Proc -> Inode] /\ file \in [Proc -> MaybeInode]
  BY DEF Sound
<1>2. cwd' = [cwd EXCEPT ![p] = cwd[p]] /\ file' = [file EXCEPT ![p] = file[p]]
  BY <1>1
<1>3. cwd[p] \in Inode /\ file[p] \in MaybeInode
  BY <1>1
<1> QED
  BY ZenonT(30), <1>2, <1>3, IdleSound


(***************************************************************************)
(* One lemma per action.                                                   *)
(***************************************************************************)
(* A lookup starts, with the counts that f has: it counts its directory.   *)
LEMMA LookupSound ==
  ASSUME Sound, NEW p \in Proc, NEW f \in Caches, Reclaimed(f, lost), f.ref = fs.ref,
         NEW c \in Calls, c.op \in {"namei", "unlink", "create", "link2"},
         c.node = NoInode, c.next = NoInode, c.old = call[p].old,
         c.old # NoInode <=> c.op = "link2",
         call[p].node = NoInode, call[p].next = NoInode,
         Lookup(p, f, c), UNCHANGED <<cwd, file, lost>>,
         log' = log \/ log \in {p, NoProc}, c.op \in {"create", "link2"} => log' = p
  PROVE  fs' \in Caches /\ Sound'
<1>1. PICK s \in {Root, cwd[p]} :
        fs' = idup(f, s) /\ Go(p, "walk", [c EXCEPT !.node = s, !.left = MaxPath])
  BY DEF Lookup
<1>2. s \in Inode /\ s # NoInode
  BY Locals, TreeAssumption
<1>3. /\ fs' \in Caches /\ Reclaimed(fs', lost')
      /\ \A k \in Inode : fs'.ref[k] = fs.ref[k] + One(s, k)
  BY SMTT(30), <1>1, <1>2, DupOne
<1>4. PICK e : e = [c EXCEPT !.node = s, !.left = MaxPath]
  OBVIOUS
<1>5. e = [op |-> c.op, node |-> s, next |-> c.next, old |-> c.old, name |-> c.name,
           left |-> MaxPath]
  BY <1>4 DEF Calls
<1>6. /\ c.name \in Entries \cup {NoName} /\ c.old \in MaybeInode
      /\ s \in MaybeInode /\ NoInode \in MaybeInode /\ MaxPath \in 0..MaxPath
  BY SMTT(30), <1>2, Locals, TreeAssumption DEF Calls, MaybeInode
<1>7. /\ e \in Calls /\ e.op = c.op /\ e.node = s /\ e.next = NoInode /\ e.old = call[p].old
  BY <1>5, <1>6 DEF Calls
<1>8. Placed("walk", e) /\ "walk" \in Places /\ (InTrans("walk", e) => log' = p)
  BY <1>2, <1>7 DEF Placed, Places, InTrans
<1>9. Follows(p, fs'.ref, e, cwd[p], file[p])
  <2>1. fs.ref \in [Inode -> Nat]
    BY CacheParts DEF Sound
  <2> QED
    BY SMTT(30), <1>2, <1>3, <1>7, <2>1, TreeAssumption DEF Follows, Own, Total, One
<1> QED
  BY <1>1, <1>3, <1>4, <1>7, <1>8, <1>9, GoSound

(* A system call begins.                                                   *)
LEMMA CallFine ==
  ASSUME Sound, NEW p \in Proc, NEW o \in {"namei", "unlink", "create"}, Call(p, o)
  PROVE  Fine
<1>1. call[p] = NoCall /\ fs \in Caches /\ Reclaimed(fs, lost)
  BY Locals DEF Call, Placed, Sound
<1>2. PICK c : c = [NoCall EXCEPT !.op = o]
  OBVIOUS
<1>3. c = [op |-> o, node |-> NoInode, next |-> NoInode, old |-> NoInode, name |-> NoName,
           left |-> 0]
  BY <1>2 DEF NoCall
<1>4. /\ c \in Calls /\ c.op = o /\ c.node = NoInode /\ c.next = NoInode /\ c.old = NoInode
  BY SMTT(30), <1>3, TreeAssumption DEF Calls, MaybeInode
<1>5. /\ Lookup(p, fs, c) /\ UNCHANGED <<disk, cwd, file, lost>>
      /\ log' = log \/ log = NoProc
      /\ o = "create" => log' = p
  BY <1>2 DEF Call
<1>6. /\ call[p].node = NoInode /\ call[p].next = NoInode /\ c.old = call[p].old
      /\ c.op \in {"namei", "unlink", "create", "link2"}
      /\ c.old # NoInode <=> c.op = "link2"
      /\ c.op \in {"create", "link2"} => log' = p
  BY <1>1, <1>4, <1>5, IdlePlaced
<1>7. fs' \in Caches /\ Sound'
  BY <1>1, <1>4, <1>5, <1>6, LookupSound
<1> QED
  BY <1>5, <1>7 DEF Fine

(* The counts and the locals stay, and p goes on elsewhere.                *)
LEMMA StaySound ==
  ASSUME Sound, NEW p \in Proc, NEW l \in Places \ {"idle"}, NEW c \in Calls, Placed(l, c),
         Go(p, l, c), UNCHANGED <<fs, cwd, file, lost>>,
         log' = log \/ log \in {p, NoProc}, InTrans(l, c) => log' = p,
         \A k \in Inode : Total(cwd[p], file[p], c, k) = Own(p, k)
  PROVE  Sound'
<1>1. fs' \in Caches /\ Reclaimed(fs', lost') /\ fs.ref \in [Inode -> Nat]
  BY CacheParts DEF Sound
<1>2. \A k \in Inode : Own(p, k) \in Nat
  BY SMTT(30) DEF Own, Total, One
<1>3. Follows(p, fs'.ref, c, cwd[p], file[p])
  BY SMTT(30), <1>1, <1>2 DEF Follows
<1> QED
  BY <1>1, <1>3, GoSound

(* A transaction begins.                                                   *)
LEMMA BeginFine ==
  ASSUME Sound, NEW p \in Proc, begin_trans(p)
  PROVE  Fine
<1>1. /\ pc[p] = "begin" /\ log = NoProc /\ log' = p /\ Go(p, "got", call[p])
      /\ UNCHANGED <<fs, disk, cwd, file, lost>>
  BY DEF begin_trans, Goto
<1>2. call[p] \in Calls /\ Placed(pc[p], call[p])
  BY Locals
<1>3. Placed("got", call[p]) /\ "got" \in Places \ {"idle"}
  BY <1>1, <1>2 DEF Placed, Places
<1>4. \A k \in Inode : Total(cwd[p], file[p], call[p], k) = Own(p, k)
  BY DEF Own
<1>5. Sound'
  BY <1>1, <1>2, <1>3, <1>4, StaySound
<1> QED
  BY <1>1, <1>5 DEF Fine, Sound


(* sys_link keeps the inode that it has found.                             *)
LEMMA LinkOldFine ==
  ASSUME Sound, NEW p \in Proc, LinkOld(p)
  PROVE  Fine
<1>1. PICK c : c = [call[p] EXCEPT !.op = "link", !.old = call[p].node, !.node = NoInode,
                                   !.left = 0]
  OBVIOUS
<1>2. /\ pc[p] = "walk" /\ call[p].op = "namei" /\ Go(p, "begin", c)
      /\ UNCHANGED <<fs, disk, log, cwd, file, lost>>
  BY <1>1 DEF LinkOld
<1>3. /\ call[p] \in Calls /\ call[p].node \in Inode /\ call[p].next = NoInode
      /\ call[p].old = NoInode /\ call[p].name \in Entries \cup {NoName}
  BY <1>2, Locals DEF Placed, MaybeInode
<1>4. c = [op |-> "link", node |-> NoInode, next |-> call[p].next, old |-> call[p].node,
           name |-> call[p].name, left |-> 0]
  BY <1>1, <1>3 DEF Calls
<1>5. /\ c \in Calls /\ c.op = "link" /\ c.node = NoInode /\ c.next = NoInode
      /\ c.old = call[p].node
  BY SMTT(30), <1>3, <1>4, TreeAssumption DEF Calls, MaybeInode
<1>6. Placed("begin", c) /\ "begin" \in Places \ {"idle"} /\ ~InTrans("begin", c)
  BY <1>3, <1>5, TreeAssumption DEF Placed, Places, InTrans
<1>7. \A k \in Inode : Total(cwd[p], file[p], c, k) = Own(p, k)
  BY SMTT(30), <1>3, <1>5, TreeAssumption DEF Own, Total, One
<1>8. Sound'
  BY <1>2, <1>5, <1>6, <1>7, StaySound
<1> QED
  BY <1>2, <1>8 DEF Fine, Sound

(* nameiparent fails, or keeps the directory.                              *)
LEMMA NameiparentFine ==
  ASSUME Sound, NEW p \in Proc, nameiparent(p)
  PROVE  Fine
<1>1. pc[p] = "walk" /\ UNCHANGED <<cwd, file, lost>>
  BY DEF nameiparent
<1>2. CASE Fails(p)
  BY <1>1, <1>2, FailsSound DEF Fine
<1>3. ASSUME NEW c, c = [call[p] EXCEPT !.left = 0], call[p].op = "unlink",
             Go(p, "begin", c), UNCHANGED fs, Uncommitted
      PROVE  Fine
  <2>1. /\ call[p] \in Calls /\ call[p].node \in Inode /\ call[p].next = NoInode
        /\ call[p].old = NoInode /\ call[p].name \in Entries \cup {NoName}
    BY <1>1, <1>3, Locals DEF Placed, MaybeInode
  <2>2. c = [op |-> call[p].op, node |-> call[p].node, next |-> call[p].next,
             old |-> call[p].old, name |-> call[p].name, left |-> 0]
    BY <1>3, <2>1 DEF Calls
  <2>3. call[p].op = "unlink"
    BY <1>3
  <2>4. /\ c \in Calls /\ c.op = "unlink" /\ c.node = call[p].node /\ c.next = NoInode
        /\ c.old = NoInode
    BY SMTT(30), <2>1, <2>2, <2>3, TreeAssumption DEF Calls, MaybeInode
  <2>5. Placed("begin", c) /\ "begin" \in Places \ {"idle"} /\ ~InTrans("begin", c)
    BY <2>1, <2>4, TreeAssumption DEF Placed, Places, InTrans
  <2>6. \A k \in Inode : Total(cwd[p], file[p], c, k) = Own(p, k)
    BY <2>1, <2>4 DEF Own, Total
  <2>7. UNCHANGED <<disk, log>>
    BY <1>3 DEF Uncommitted
  <2>8. Sound'
    BY <1>1, <1>3, <2>4, <2>5, <2>6, <2>7, StaySound
  <2> QED
    BY <1>3, <2>7, <2>8 DEF Fine, Sound
<1> QED
  BY <1>2, <1>3 DEF nameiparent

(* The locals of p when it has looked the inode i up by the name n.        *)
LEMMA FoundSound ==
  ASSUME Sound, NEW p \in Proc, call[p].node \in Inode, call[p].next = NoInode,
         NEW i \in Inode, fs' = iget(i), NEW l \in Places \ {"idle"}, NEW c \in Calls,
         Go(p, l, c), Placed(l, c), c.node = call[p].node, c.next = i, c.old = call[p].old,
         InTrans(l, c) => log = p, UNCHANGED <<log, cwd, file, lost>>
  PROVE  fs' \in Caches /\ Sound'
<1>1. fs \in Caches /\ fs.ref \in [Inode -> Nat] /\ Reclaimed(fs, lost) /\ fs' = idup(fs, i)
  BY CacheParts DEF Sound, iget
<1>2. /\ fs' \in Caches /\ Reclaimed(fs', lost')
      /\ \A k \in Inode : fs'.ref[k] = fs.ref[k] + One(i, k)
  BY SMTT(30), <1>1, DupOne
<1>3. Follows(p, fs'.ref, c, cwd[p], file[p])
  BY SMTT(30), <1>1, <1>2, TreeAssumption DEF Follows, Own, Total, One
<1> QED
  BY <1>2, <1>3, GoSound

(* An element of the path is looked up.                                    *)
LEMMA DirlookupFine ==
  ASSUME Sound, NEW p \in Proc, NEW n \in Entries, dirlookup(p, n)
  PROVE  Fine
<1>1. /\ pc[p] = "walk" /\ call[p].left > 0 /\ UNCHANGED <<cwd, file, lost>>
  BY DEF dirlookup
<1>2. /\ call[p] \in Calls /\ call[p].node \in Inode /\ call[p].next = NoInode
      /\ call[p].old \in MaybeInode /\ call[p].name \in Entries \cup {NoName}
      /\ call[p].op \in {"namei", "unlink", "create", "link2"}
      /\ call[p].old # NoInode <=> call[p].op = "link2"
      /\ call[p].op \in {"create", "link2"} => log = p
      /\ call[p].left \in 0..MaxPath
  BY <1>1, Locals DEF Placed, MaybeInode, InTrans
<1>3. PICK i : i = fs.ents[call[p].node][n]
  OBVIOUS
<1>4. fs \in Caches /\ fs.ref \in [Inode -> Nat] /\ Reclaimed(fs, lost) /\ i \in MaybeInode
  BY <1>2, <1>3, CacheParts DEF Sound
<1>5. CASE Fails(p)
  BY <1>1, <1>5, FailsSound DEF Fine
<1>6. CASE i # NoInode /\ Next_ip(p, iget(i), i) /\ Uncommitted
  <2>1. i \in Inode
    BY <1>4, <1>6 DEF MaybeInode
  <2>2. PICK f : f = idup(fs, i)
    OBVIOUS
  <2>3. /\ f \in Caches /\ Reclaimed(f, lost)
        /\ \A k \in Inode : f.ref[k] = fs.ref[k] + One(i, k)
    BY SMTT(30), <1>4, <2>1, <2>2, DupOne
  <2>4. \A k \in Inode : f.ref[k] = fs.ref[k] + One(i, k) - One(call[p].next, k)
    BY SMTT(30), <1>2, <1>4, <2>3, TreeAssumption DEF One
  <2>5. Next_ip(p, f, i) /\ UNCHANGED <<disk, log>>
    BY <1>6, <2>2 DEF iget, Uncommitted
  <2>6. pc[p] \in {"walk", "fill"}
    BY <1>1
  <2>7. fs' \in Caches /\ (Panic \/ Sound')
    BY <1>1, <2>1, <2>3, <2>4, <2>5, <2>6, NextIpSound
  <2> QED
    BY <2>5, <2>7 DEF Fine
<1>7. ASSUME NEW c, c = [call[p] EXCEPT !.next = i], i # NoInode, fs' = iget(i),
             Go(p, "fill", c), Uncommitted
      PROVE  Fine
  <2>1. i \in Inode
    BY <1>4, <1>7 DEF MaybeInode
  <2>2. c = [op |-> call[p].op, node |-> call[p].node, next |-> i, old |-> call[p].old,
             name |-> call[p].name, left |-> call[p].left]
    BY <1>2, <1>7 DEF Calls
  <2>3. call[p].node \in MaybeInode /\ i \in MaybeInode
    BY <1>2, <2>1 DEF MaybeInode
  <2>4. /\ c \in Calls /\ c.op = call[p].op /\ c.node = call[p].node /\ c.next = i
        /\ c.old = call[p].old /\ c.left = call[p].left
    BY <1>2, <2>2, <2>3 DEF Calls
  <2>5. Placed("fill", c) /\ "fill" \in Places \ {"idle"} /\ (InTrans("fill", c) => log = p)
    BY <1>1, <1>2, <2>1, <2>4, TreeAssumption DEF Placed, Places, InTrans
  <2>6. UNCHANGED <<disk, log>>
    BY <1>7 DEF Uncommitted
  <2>7. fs' \in Caches /\ Sound'
    BY <1>1, <1>2, <1>7, <2>1, <2>4, <2>5, <2>6, FoundSound
  <2> QED
    BY <2>6, <2>7 DEF Fine
<1> QED
  BY <1>3, <1>5, <1>6, <1>7 DEF dirlookup


(* sfs_iget has read the inode that dirlookup has found.                   *)
LEMMA FillFine ==
  ASSUME Sound, NEW p \in Proc, Fill(p)
  PROVE  Fine
<1>1. pc[p] \in {"fill", "fillname"} /\ UNCHANGED <<disk, log, cwd, file, lost>>
  BY DEF Fill
<1>2. /\ call[p] \in Calls /\ Placed(pc[p], call[p]) /\ call[p].next \in Inode
      /\ fs \in Caches /\ Reclaimed(fs, lost) /\ fs.ref \in [Inode -> Nat]
  <2>1. /\ call[p] \in Calls /\ Placed(pc[p], call[p]) /\ call[p].next \in Inode
    BY <1>1, Locals DEF Placed, MaybeInode
  <2> QED
    BY <2>1, CacheParts DEF Sound
<1>4. CASE pc[p] = "fillname" /\ Goto(p, "found") /\ UNCHANGED fs
  <2>1. Placed("found", call[p]) /\ "found" \in Places \ {"idle"} /\ log = p
    BY <1>2, <1>4, Locals DEF Placed, Places, InTrans
  <2>2. \A k \in Inode : Total(cwd[p], file[p], call[p], k) = Own(p, k)
    BY DEF Own
  <2>3. Go(p, "found", call[p])
    BY <1>4 DEF Goto
  <2>4. Sound'
    BY <1>1, <1>2, <1>4, <2>1, <2>2, <2>3, StaySound
  <2> QED
    BY <1>1, <1>4, <2>4 DEF Fine, Sound
<1>5. CASE pc[p] = "fill" /\ Next_ip(p, fs, call[p].next)
  <2>1. call[p].left > 0 /\ pc[p] \in {"walk", "fill"}
    BY <1>2, <1>5 DEF Placed
  <2>2. \A k \in Inode : fs.ref[k] = fs.ref[k] + One(call[p].next, k) - One(call[p].next, k)
    BY SMTT(30), <1>2 DEF One
  <2>3. fs' \in Caches /\ (Panic \/ Sound')
    BY <1>1, <1>2, <1>5, <2>1, <2>2, NextIpSound
  <2> QED
    BY <1>1, <2>3 DEF Fine
<1> QED
  BY <1>1, <1>4, <1>5 DEF Fill

(* sfs_ilock has read a free inode.                                        *)
LEMMA IlockFine ==
  ASSUME Sound, NEW p \in Proc, sfs_ilock(p)
  PROVE  Fine
BY DEF sfs_ilock, Sound, Fine, Panic

(* Where the last element of a path is looked up, p has the directory and  *)
(* the transaction.                                                        *)
LEMMA ParentFacts ==
  ASSUME Sound, NEW p \in Proc, AtParent(p)
  PROVE  /\ call[p] \in Calls /\ call[p].node \in Inode /\ call[p].next = NoInode
         /\ call[p].old \in MaybeInode /\ call[p].op \in {"unlink", "create", "link2"}
         /\ call[p].old # NoInode <=> call[p].op = "link2"
         /\ log = p
         /\ fs.ref[call[p].node] > 0
         /\ fs \in Caches /\ fs.ref \in [Inode -> Nat] /\ Reclaimed(fs, lost)
<1>1. /\ call[p] \in Calls /\ call[p].node \in Inode /\ call[p].next = NoInode
      /\ call[p].old \in MaybeInode /\ call[p].op \in {"unlink", "create", "link2"}
      /\ call[p].old # NoInode <=> call[p].op = "link2"
      /\ log = p
  BY Locals DEF AtParent, Placed, InTrans, MaybeInode
<1>2. fs.ref[call[p].node] > 0
  BY <1>1, Refs
<1> QED
  BY <1>1, <1>2, CacheParts DEF Sound

(* The last element is there.                                              *)
LEMMA NameFoundFine ==
  ASSUME Sound, NEW p \in Proc, NEW n \in Entries, NameFound(p, n)
  PROVE  Fine
<1>1. AtParent(p) /\ UNCHANGED <<disk, log, cwd, file, lost>>
  BY DEF NameFound
<1>2. /\ call[p] \in Calls /\ call[p].node \in Inode /\ call[p].next = NoInode
      /\ call[p].old \in MaybeInode /\ call[p].op \in {"unlink", "create", "link2"}
      /\ call[p].old # NoInode <=> call[p].op = "link2"
      /\ log = p /\ fs \in Caches
  BY <1>1, ParentFacts
<1>3. PICK i : i = fs.ents[call[p].node][n]
  OBVIOUS
<1>4. PICK c : c = [call[p] EXCEPT !.next = i, !.name = n, !.left = 0]
  OBVIOUS
<1>5. PICK l : l = IF fs.ref[i] > 0 THEN "found" ELSE "fillname"
  OBVIOUS
<1>6. i # NoInode /\ fs' = iget(i) /\ Go(p, l, c) /\ l \in {"found", "fillname"}
  BY <1>3, <1>4, <1>5 DEF NameFound
<1>7. i \in Inode
  <2>1. i \in MaybeInode
    BY <1>2, <1>3, CacheParts
  <2> QED
    BY <1>6, <2>1 DEF MaybeInode
<1>8. c = [op |-> call[p].op, node |-> call[p].node, next |-> i, old |-> call[p].old,
           name |-> n, left |-> 0]
  BY <1>2, <1>4 DEF Calls
<1>9. call[p].node \in MaybeInode /\ i \in MaybeInode /\ 0 \in 0..MaxPath
  BY SMTT(30), <1>2, <1>7, TreeAssumption DEF MaybeInode
<1>10. /\ c \in Calls /\ c.op = call[p].op /\ c.node = call[p].node /\ c.next = i
       /\ c.old = call[p].old /\ c.name = n
  BY <1>2, <1>8, <1>9 DEF Calls
<1>11. Placed(l, c) /\ l \in Places \ {"idle"}
  BY <1>2, <1>6, <1>7, <1>10, TreeAssumption DEF Placed, Places
<1>12. fs' \in Caches /\ Sound'
  BY <1>1, <1>2, <1>6, <1>7, <1>10, <1>11, FoundSound
<1> QED
  BY <1>1, <1>12 DEF Fine

(* The pointers of a call are put, and it returns: dp alone, ...           *)
LEMMA PutNodeSound ==
  ASSUME Sound, NEW p \in Proc, call[p].node \in Inode, call[p].next = NoInode,
         call[p].old = NoInode, NEW c0, Go(p, "idle", c0), UNCHANGED <<cwd, file>>,
         log' = log \/ log \in {p, NoProc}, fs' \in Caches, Reclaimed(fs', lost'),
         \A k \in Inode : fs'.ref[k] = fs.ref[k] - One(call[p].node, k)
  PROVE  Sound'
<1>1. fs.ref \in [Inode -> Nat]
  BY CacheParts DEF Sound
<1>2. \A k \in Inode :
        fs'.ref[k] = (fs.ref[k] - Own(p, k)) + (One(cwd[p], k) + One(file[p], k))
  BY SMTT(30), <1>1, TreeAssumption DEF Own, Total, One
<1> QED
  BY <1>2, ReturnSound

(* ... or both inodes that it has, dp and ip in sys_unlink and sys_link.   *)
LEMMA PutBothSound ==
  ASSUME Sound, NEW p \in Proc, call[p].node \in Inode, NEW i \in Inode,
         \/ call[p].next = i /\ call[p].old = NoInode
         \/ call[p].next = NoInode /\ call[p].old = i,
         NEW c0, Go(p, "idle", c0), UNCHANGED <<cwd, file>>,
         log' = log \/ log \in {p, NoProc}, fs' \in Caches, Reclaimed(fs', lost'),
         \A k \in Inode : fs'.ref[k] = (fs.ref[k] - One(call[p].node, k)) - One(i, k)
  PROVE  Sound'
<1>1. fs.ref \in [Inode -> Nat]
  BY CacheParts DEF Sound
<1>2. \A k \in Inode :
        fs'.ref[k] = (fs.ref[k] - Own(p, k)) + (One(cwd[p], k) + One(file[p], k))
  BY SMTT(30), <1>1, TreeAssumption DEF Own, Total, One
<1> QED
  BY <1>2, ReturnSound


(* sys_unlink finds no such name.                                          *)
LEMMA UnlinkAbsentFine ==
  ASSUME Sound, NEW p \in Proc, NEW n \in Entries, UnlinkAbsent(p, n)
  PROVE  Fine
<1>1. /\ call[p].op = "unlink" /\ AtParent(p) /\ fs' = iput(fs, call[p].node)
      /\ log' = NoProc /\ disk' = Image(fs') /\ Go(p, "idle", call[p])
      /\ UNCHANGED <<cwd, file, lost>>
  BY DEF UnlinkAbsent, Commit, Goto
<1>2. /\ call[p].node \in Inode /\ call[p].next = NoInode /\ call[p].old = NoInode /\ log = p
      /\ fs.ref[call[p].node] > 0 /\ fs \in Caches /\ Reclaimed(fs, lost)
  BY <1>1, ParentFacts
<1>3. /\ fs' \in Caches /\ Reclaimed(fs', lost')
      /\ \A k \in Inode : fs'.ref[k] = fs.ref[k] - One(call[p].node, k)
  BY SMTT(30), <1>1, <1>2, PutOne
<1>4. Sound'
  BY <1>1, <1>2, <1>3, PutNodeSound
<1> QED
  BY <1>1, <1>3, <1>4 DEF Fine

(* Where p has found the last element, it has two inodes and the log.      *)
LEMMA FoundFacts ==
  ASSUME Sound, NEW p \in Proc, pc[p] = "found"
  PROVE  /\ call[p] \in Calls /\ call[p].node \in Inode /\ call[p].next \in Inode
         /\ call[p].old \in MaybeInode /\ call[p].name \in Entries
         /\ call[p].old # NoInode <=> call[p].op = "link2"
         /\ log = p
         /\ fs.ref[call[p].node] > 0 /\ fs.ref[call[p].next] > 0
         /\ call[p].node = call[p].next => fs.ref[call[p].next] > 1
         /\ fs \in Caches /\ fs.ref \in [Inode -> Nat] /\ Reclaimed(fs, lost)
<1>1. /\ call[p] \in Calls /\ call[p].node \in Inode /\ call[p].next \in Inode
      /\ call[p].old \in MaybeInode /\ call[p].name \in Entries
      /\ call[p].old # NoInode <=> call[p].op = "link2"
      /\ log = p
  BY Locals DEF Placed, InTrans, MaybeInode
<1>2. /\ fs.ref[call[p].node] > 0 /\ fs.ref[call[p].next] > 0
      /\ call[p].node = call[p].next => fs.ref[call[p].next] > 1
  BY <1>1, Refs
<1> QED
  BY <1>1, <1>2, CacheParts DEF Sound

(* Erasing a name changes no count of references.                          *)
LEMMA ErasedFacts ==
  ASSUME fs \in Caches, NEW d \in Inode, NEW n \in Entries, NEW i \in Inode,
         fs.ref[d] > 0, fs.ref[i] > 0, NEW g, g = Erased(d, n, i)
  PROVE  /\ g \in Caches /\ g.ref = fs.ref
         /\ \A gone : Reclaimed(fs, gone) => Reclaimed(g, gone)
<1>1. PICK f : f = dirlink(fs, d, n, NoInode)
  OBVIOUS
<1>2. /\ f \in Caches /\ f.ref = fs.ref
      /\ \A gone : Reclaimed(fs, gone) => Reclaimed(f, gone)
  <2>1. NoInode \in MaybeInode
    BY DEF MaybeInode
  <2> QED
    BY SMTT(30), <1>1, <2>1, EntryFacts
<1>3. PICK e : e = link_dec(f, i)
  OBVIOUS
<1>4. /\ e \in Caches /\ e.ref = fs.ref
      /\ \A gone : Reclaimed(fs, gone) => Reclaimed(e, gone)
  BY SMTT(30), <1>2, <1>3, LinkFacts
<1>5. g = e \/ g = link_dec(e, d)
  BY <1>1, <1>3 DEF Erased, dirlink
<1> QED
  BY SMTT(30), <1>4, <1>5, LinkFacts

(* sys_unlink erases the name, unless it is of a directory with entries.   *)
LEMMA UnlinkFoundFine ==
  ASSUME Sound, NEW p \in Proc, UnlinkFound(p)
  PROVE  Fine
<1>1. /\ pc[p] = "found" /\ call[p].op = "unlink" /\ log' = NoProc /\ disk' = Image(fs')
      /\ Go(p, "idle", call[p]) /\ UNCHANGED <<cwd, file, lost>>
  BY DEF UnlinkFound, Commit, Goto
<1>2. /\ call[p].node \in Inode /\ call[p].next \in Inode /\ call[p].old = NoInode
      /\ call[p].name \in Entries /\ log = p
      /\ fs.ref[call[p].node] > 0 /\ fs.ref[call[p].next] > 0
      /\ call[p].node = call[p].next => fs.ref[call[p].next] > 1
      /\ fs \in Caches /\ Reclaimed(fs, lost)
  BY <1>1, FoundFacts
<1>3. PICK f : /\ f = fs \/ f = Erased(call[p].node, call[p].name, call[p].next)
               /\ fs' = iput(iput(f, call[p].node), call[p].next)
  BY DEF UnlinkFound
<1>4. f \in Caches /\ f.ref = fs.ref /\ Reclaimed(f, lost)
  BY <1>2, <1>3, ErasedFacts
<1>5. /\ fs' \in Caches /\ Reclaimed(fs', lost')
      /\ \A k \in Inode :
           fs'.ref[k] = (fs.ref[k] - One(call[p].node, k)) - One(call[p].next, k)
  BY SMTT(30), <1>1, <1>2, <1>3, <1>4, PutTwo
<1>6. Sound'
  BY <1>1, <1>2, <1>5, PutBothSound
<1> QED
  BY <1>1, <1>5, <1>6 DEF Fine


(* The inode of sfs_create_inode has a reference, the caller's.            *)
LEMMA MadeFacts ==
  ASSUME fs \in Caches, NEW d \in Inode, NEW n \in Entries, NEW i \in Inode,
         NEW t \in {File, Dir}, fs.ref[d] > 0, NEW g, g = Made(d, n, i, t)
  PROVE  /\ g \in Caches /\ \A k \in Inode : g.ref[k] = fs.ref[k] + One(i, k)
         /\ \A gone : Reclaimed(fs, gone) => Reclaimed(g, gone)
<1>1. /\ fs.type \in [Inode -> {Free, Dir, File}] /\ fs.nlink \in [Inode -> Int]
      /\ fs.ents \in [Inode -> [Entries -> MaybeInode]] /\ fs.ref \in [Inode -> Nat]
  BY CacheParts
<1>2. PICK T : T = [fs.type EXCEPT ![i] = t]
  OBVIOUS
<1>3. PICK L : L = [fs.nlink EXCEPT ![i] = 1]
  OBVIOUS
<1>4. PICK R : R = [fs.ref EXCEPT ![i] = @ + 1]
  OBVIOUS
<1>5. PICK f : f = [fs EXCEPT !.type[i] = t, !.nlink[i] = 1, !.ref[i] = @ + 1]
  OBVIOUS
<1>6. f = [type |-> T, nlink |-> L, ents |-> fs.ents, ref |-> R]
  BY <1>2, <1>3, <1>4, <1>5 DEF Caches
<1>7. /\ T \in [Inode -> {Free, Dir, File}] /\ L \in [Inode -> Int] /\ R \in [Inode -> Nat]
      /\ \A k \in Inode : R[k] = fs.ref[k] + One(i, k)
      /\ \A k \in Inode : k # i => T[k] = fs.type[k] /\ L[k] = fs.nlink[k]
  BY SMTT(30), <1>1, <1>2, <1>3, <1>4 DEF One
<1>8. f \in Caches /\ f.type = T /\ f.nlink = L /\ f.ref = R
  BY <1>1, <1>6, <1>7 DEF Caches
<1>9. ASSUME NEW gone, Reclaimed(fs, gone)
      PROVE  Reclaimed(f, gone)
  BY SMTT(30), <1>1, <1>7, <1>8, <1>9 DEF Reclaimed, One
<1>10. PICK e : e = dirlink(f, d, n, i)
  OBVIOUS
<1>11. /\ e \in Caches /\ e.ref = R /\ \A gone : Reclaimed(f, gone) => Reclaimed(e, gone)
  <2>1. i \in MaybeInode
    BY DEF MaybeInode
  <2> QED
    BY SMTT(30), <1>8, <1>10, <2>1, EntryFacts
<1>12. PICK h : h = dirlink(e, i, "..", d)
  OBVIOUS
<1>13. /\ h \in Caches /\ h.ref = R /\ \A gone : Reclaimed(e, gone) => Reclaimed(h, gone)
  <2>1. d \in MaybeInode /\ ".." \in Entries
    BY DEF MaybeInode, Entries
  <2> QED
    BY SMTT(30), <1>11, <1>12, <2>1, EntryFacts
<1>14. R[d] > 0
  BY SMTT(30), <1>1, <1>7 DEF One
<1>15. g = e \/ g = link_inc(h, d)
  BY <1>5, <1>10, <1>12 DEF Made
<1>16. /\ g \in Caches /\ g.ref = R
       /\ \A gone : Reclaimed(e, gone) => Reclaimed(g, gone)
  BY SMTT(30), <1>11, <1>13, <1>14, <1>15, LinkFacts
<1> QED
  BY <1>7, <1>9, <1>11, <1>16

(* A record of what has been given up may grow.                            *)
LEMMA GivenUpGrows ==
  ASSUME NEW f, NEW d, NEW i, Reclaimed(f, lost), lost' = GivenUp(d, i)
  PROVE  Reclaimed(f, lost')
BY DEF Reclaimed, GivenUp

(* sys_open gets a descriptor, or puts the inode: f counts it, and has put *)
(* dp.                                                                     *)
LEMMA OpenedSound ==
  ASSUME Sound, NEW p \in Proc, call[p].node \in Inode, call[p].next = NoInode,
         call[p].old = NoInode, NEW f \in Caches, NEW i \in Inode, f.ref[i] > 0,
         Reclaimed(f, lost'), Opened(p, f, i), NEW c0, Go(p, "idle", c0), UNCHANGED cwd,
         log' = log \/ log \in {p, NoProc},
         \A k \in Inode : f.ref[k] = (fs.ref[k] - One(call[p].node, k)) + One(i, k)
  PROVE  fs' \in Caches /\ Sound'
<1>1. cwd \in [Proc -> Inode] /\ file \in [Proc -> MaybeInode] /\ fs.ref \in [Inode -> Nat]
  BY CacheParts DEF Sound
<1>2. CASE CanOpen(p)
  <2>1. fs' = f /\ file' = [file EXCEPT ![p] = i] /\ file[p] = NoInode
    BY <1>2 DEF Opened, CanOpen, Set
  <2>2. cwd' = [cwd EXCEPT ![p] = cwd[p]] /\ cwd[p] \in Inode /\ i \in MaybeInode
    BY <1>1 DEF MaybeInode
  <2>3. \A k \in Inode : f.ref[k] = (fs.ref[k] - Own(p, k)) + (One(cwd[p], k) + One(i, k))
    BY SMTT(30), <1>1, <2>1, TreeAssumption DEF Own, Total, One
  <2> QED
    BY <2>1, <2>2, <2>3, IdleSound
<1>3. CASE ~CanOpen(p)
  <2>1. fs' = iput(f, i) /\ UNCHANGED file
    BY <1>3 DEF Opened
  <2>2. /\ fs' \in Caches /\ Reclaimed(fs', lost')
        /\ \A k \in Inode : fs'.ref[k] = f.ref[k] - One(i, k)
    BY SMTT(30), <2>1, PutOne
  <2>3. \A k \in Inode : fs'.ref[k] = fs.ref[k] - One(call[p].node, k)
    BY SMTT(30), <1>1, <2>2 DEF One
  <2> QED
    BY <2>1, <2>2, <2>3, PutNodeSound
<1> QED
  BY <1>2, <1>3


(* create makes a new inode.                                               *)
LEMMA CreateAbsentFine ==
  ASSUME Sound, NEW p \in Proc, NEW n \in Name, NEW t \in {File, Dir}, CreateAbsent(p, n, t)
  PROVE  Fine
<1>1. AtParent(p) /\ call[p].op = "create" /\ UNCHANGED cwd
  BY DEF CreateAbsent, NameAbsent
<1>2. /\ call[p].node \in Inode /\ call[p].next = NoInode /\ call[p].old = NoInode /\ log = p
      /\ fs.ref[call[p].node] > 0 /\ fs \in Caches /\ fs.ref \in [Inode -> Nat]
      /\ Reclaimed(fs, lost) /\ n \in Entries
  BY <1>1, ParentFacts DEF Entries
<1>3. CASE Panic /\ UNCHANGED fs /\ Uncommitted
  BY <1>2, <1>3 DEF Fine, Panic, Uncommitted
<1>4. ASSUME NEW i \in Inode, lost' = GivenUp(call[p].node, i), Goto(p, "idle"), Commit,
             IF t = File
             THEN Opened(p, iput(Made(call[p].node, n, i, File), call[p].node), i)
             ELSE /\ fs' = iput(iput(Made(call[p].node, n, i, Dir), call[p].node), i)
                  /\ UNCHANGED file
      PROVE  Fine
  <2>1. Go(p, "idle", call[p]) /\ log' = NoProc /\ disk' = Image(fs')
    BY <1>4 DEF Goto, Commit
  <2>2. PICK f : f = Made(call[p].node, n, i, t)
    OBVIOUS
  <2>3. /\ f \in Caches /\ \A k \in Inode : f.ref[k] = fs.ref[k] + One(i, k)
        /\ Reclaimed(f, lost)
    BY SMTT(30), <1>2, <2>2, MadeFacts
  <2>4. Reclaimed(f, lost')
    BY <1>4, <2>3, GivenUpGrows
  <2>5. /\ f.ref[call[p].node] > 0 /\ f.ref[i] > 0
        /\ call[p].node = i => f.ref[i] > 1
    BY SMTT(30), <1>2, <2>3 DEF One
  <2>6. CASE t = File
    <3>1. PICK e : e = iput(f, call[p].node)
      OBVIOUS
    <3>2. /\ e \in Caches /\ Reclaimed(e, lost')
          /\ \A k \in Inode : e.ref[k] = f.ref[k] - One(call[p].node, k)
      BY SMTT(30), <1>2, <2>3, <2>4, <2>5, <3>1, PutOne
    <3>3. /\ e.ref[i] > 0
          /\ \A k \in Inode : e.ref[k] = (fs.ref[k] - One(call[p].node, k)) + One(i, k)
      BY SMTT(30), <1>2, <2>3, <2>5, <3>2 DEF One
    <3>4. Opened(p, e, i)
      BY <1>4, <2>2, <2>6, <3>1
    <3>5. fs' \in Caches /\ Sound'
      BY <1>1, <1>2, <2>1, <3>2, <3>3, <3>4, OpenedSound
    <3> QED
      BY <2>1, <3>5 DEF Fine
  <2>7. CASE t # File
    <3>1. fs' = iput(iput(f, call[p].node), i) /\ UNCHANGED file
      BY <1>4, <2>2, <2>7
    <3>2. /\ fs' \in Caches /\ Reclaimed(fs', lost')
          /\ \A k \in Inode : fs'.ref[k] = (f.ref[k] - One(call[p].node, k)) - One(i, k)
      BY SMTT(30), <1>2, <2>3, <2>4, <2>5, <3>1, PutTwo
    <3>3. \A k \in Inode : fs'.ref[k] = fs.ref[k] - One(call[p].node, k)
      BY SMTT(30), <1>2, <2>3, <3>2 DEF One
    <3>4. Sound'
      BY <1>1, <1>2, <2>1, <3>1, <3>2, <3>3, PutNodeSound
    <3> QED
      BY <2>1, <3>2, <3>4 DEF Fine
  <2> QED
    BY <2>6, <2>7
<1> QED
  BY <1>3, <1>4 DEF CreateAbsent

(* create puts dp and keeps the inode that exists.                         *)
LEMMA CreateFoundFine ==
  ASSUME Sound, NEW p \in Proc, CreateFound(p)
  PROVE  Fine
<1>1. PICK c : c = [call[p] EXCEPT !.node = call[p].next, !.next = NoInode, !.name = NoName]
  OBVIOUS
<1>2. /\ pc[p] = "found" /\ call[p].op = "create" /\ fs' = iput(fs, call[p].node)
      /\ Go(p, "exists", c) /\ UNCHANGED <<disk, log, cwd, file, lost>>
  BY <1>1 DEF CreateFound
<1>3. /\ call[p] \in Calls /\ call[p].node \in Inode /\ call[p].next \in Inode
      /\ call[p].old = NoInode /\ log = p /\ fs.ref[call[p].node] > 0
      /\ fs \in Caches /\ fs.ref \in [Inode -> Nat] /\ Reclaimed(fs, lost)
  BY <1>2, FoundFacts
<1>4. /\ fs' \in Caches /\ Reclaimed(fs', lost')
      /\ \A k \in Inode : fs'.ref[k] = fs.ref[k] - One(call[p].node, k)
  BY SMTT(30), <1>2, <1>3, PutOne
<1>5. c = [op |-> call[p].op, node |-> call[p].next, next |-> NoInode, old |-> call[p].old,
           name |-> NoName, left |-> call[p].left]
  BY <1>1, <1>3 DEF Calls
<1>6. call[p].left \in 0..MaxPath /\ call[p].next \in MaybeInode /\ NoInode \in MaybeInode
  BY Locals DEF MaybeInode
<1>7. /\ c \in Calls /\ c.op = "create" /\ c.node = call[p].next /\ c.next = NoInode
      /\ c.old = NoInode
  BY <1>2, <1>3, <1>5, <1>6 DEF Calls
<1>8. Placed("exists", c) /\ "exists" \in Places
  BY <1>3, <1>7, TreeAssumption DEF Placed, Places
<1>9. Follows(p, fs'.ref, c, cwd[p], file[p])
  BY SMTT(30), <1>3, <1>4, <1>7, TreeAssumption DEF Follows, Own, Total, One
<1>10. Sound'
  BY <1>2, <1>3, <1>4, <1>7, <1>8, <1>9, GoSound
<1> QED
  BY <1>2, <1>4, <1>10 DEF Fine

(* The inode that exists is opened, or put.                                *)
LEMMA CreateExistsFine ==
  ASSUME Sound, NEW p \in Proc, NEW t \in {File, Dir}, CreateExists(p, t)
  PROVE  Fine
<1>1. /\ pc[p] = "exists" /\ Go(p, "idle", call[p]) /\ log' = NoProc /\ disk' = Image(fs')
      /\ UNCHANGED <<cwd, lost>>
  BY DEF CreateExists, Goto, Commit
<1>2. /\ call[p].node \in Inode /\ call[p].next = NoInode /\ call[p].old = NoInode
      /\ log = p
  BY <1>1, Locals DEF Placed, InTrans, MaybeInode
<1>3. /\ fs.ref[call[p].node] > 0 /\ fs \in Caches /\ fs.ref \in [Inode -> Nat]
      /\ Reclaimed(fs, lost')
  BY <1>1, <1>2, Refs, CacheParts DEF Sound
<1>4. CASE Opened(p, fs, call[p].node)
  <2>1. \A k \in Inode :
          fs.ref[k] = (fs.ref[k] - One(call[p].node, k)) + One(call[p].node, k)
    BY SMTT(30), <1>3 DEF One
  <2>2. fs' \in Caches /\ Sound'
    BY <1>1, <1>2, <1>3, <1>4, <2>1, OpenedSound
  <2> QED
    BY <1>1, <2>2 DEF Fine
<1>5. CASE fs' = iput(fs, call[p].node) /\ UNCHANGED file
  <2>1. /\ fs' \in Caches /\ Reclaimed(fs', lost')
        /\ \A k \in Inode : fs'.ref[k] = fs.ref[k] - One(call[p].node, k)
    BY SMTT(30), <1>2, <1>3, <1>5, PutOne
  <2>2. Sound'
    BY <1>1, <1>2, <1>5, <2>1, PutNodeSound
  <2> QED
    BY <1>1, <2>1, <2>2 DEF Fine
<1> QED
  BY <1>4, <1>5 DEF CreateExists


(* sys_link counts the new name, and looks the other path up.              *)
LEMMA LinkIncFine ==
  ASSUME Sound, NEW p \in Proc, LinkInc(p)
  PROVE  Fine
<1>1. pc[p] = "got" /\ call[p].op = "link" /\ UNCHANGED <<cwd, file, lost>>
  BY DEF LinkInc
<1>2. /\ call[p] \in Calls /\ call[p].old \in Inode /\ call[p].node = NoInode
      /\ call[p].next = NoInode /\ log = p /\ call[p].name \in Entries \cup {NoName}
      /\ call[p].left \in 0..MaxPath
  BY <1>1, Locals DEF Placed, InTrans, MaybeInode
<1>3. /\ fs.ref[call[p].old] > 0 /\ fs \in Caches /\ fs.ref \in [Inode -> Nat]
      /\ Reclaimed(fs, lost)
  BY <1>2, Refs, CacheParts DEF Sound
<1>4. CASE fs' = iput(fs, call[p].old) /\ Goto(p, "idle") /\ Commit
  <2>1. Go(p, "idle", call[p]) /\ log' = NoProc /\ disk' = Image(fs')
    BY <1>4 DEF Goto, Commit
  <2>2. /\ fs' \in Caches /\ Reclaimed(fs', lost')
        /\ \A k \in Inode : fs'.ref[k] = fs.ref[k] - One(call[p].old, k)
    BY SMTT(30), <1>1, <1>2, <1>3, <1>4, PutOne
  <2>3. \A k \in Inode :
          fs'.ref[k] = (fs.ref[k] - Own(p, k)) + (One(cwd[p], k) + One(file[p], k))
    BY SMTT(30), <1>2, <1>3, <2>2, TreeAssumption DEF Own, Total, One
  <2>4. Sound'
    BY <1>1, <1>2, <2>1, <2>2, <2>3, ReturnSound
  <2> QED
    BY <2>1, <2>2, <2>4 DEF Fine
<1>5. CASE Uncommitted /\ Lookup(p, link_inc(fs, call[p].old), [call[p] EXCEPT !.op = "link2"])
  <2>1. PICK f : f = link_inc(fs, call[p].old)
    OBVIOUS
  <2>2. f \in Caches /\ f.ref = fs.ref /\ Reclaimed(f, lost)
    BY SMTT(30), <1>2, <1>3, <2>1, LinkFacts
  <2>3. PICK c : c = [call[p] EXCEPT !.op = "link2"]
    OBVIOUS
  <2>4. c = [op |-> "link2", node |-> call[p].node, next |-> call[p].next,
             old |-> call[p].old, name |-> call[p].name, left |-> call[p].left]
    BY <1>2, <2>3 DEF Calls
  <2>5. /\ c \in Calls /\ c.op = "link2" /\ c.node = NoInode /\ c.next = NoInode
        /\ c.old = call[p].old
    BY <1>2, <2>4 DEF Calls, MaybeInode
  <2>6. c.old # NoInode
    BY <1>2, <2>5, TreeAssumption
  <2>7. Lookup(p, f, c) /\ UNCHANGED <<disk, log>>
    BY <1>5, <2>1, <2>3 DEF Uncommitted
  <2>8. fs' \in Caches /\ Sound'
    BY <1>1, <1>2, <2>2, <2>5, <2>6, <2>7, LookupSound
  <2> QED
    BY <2>7, <2>8 DEF Fine
<1> QED
  BY <1>4, <1>5 DEF LinkInc

(* sys_link enters the new name.                                           *)
LEMMA LinkAbsentFine ==
  ASSUME Sound, NEW p \in Proc, NEW n \in Name, LinkAbsent(p, n)
  PROVE  Fine
<1>1. /\ call[p].op = "link2" /\ AtParent(p) /\ Go(p, "idle", call[p])
      /\ log' = NoProc /\ disk' = Image(fs') /\ UNCHANGED <<cwd, file>>
      /\ fs' = iput(iput(dirlink(fs, call[p].node, n, call[p].old), call[p].node), call[p].old)
      /\ lost' = GivenUp(call[p].node, call[p].old)
  BY DEF LinkAbsent, NameAbsent, Commit, Goto
<1>2. /\ call[p].node \in Inode /\ call[p].next = NoInode /\ call[p].old \in Inode /\ log = p
      /\ fs.ref[call[p].node] > 0 /\ fs \in Caches /\ Reclaimed(fs, lost)
      /\ call[p].old \in MaybeInode /\ n \in Entries
  BY <1>1, ParentFacts DEF MaybeInode, Entries
<1>3. /\ fs.ref[call[p].old] > 0
      /\ call[p].node = call[p].old => fs.ref[call[p].old] > 1
  BY <1>2, Refs
<1>4. PICK f : f = dirlink(fs, call[p].node, n, call[p].old)
  OBVIOUS
<1>5. f \in Caches /\ f.ref = fs.ref /\ Reclaimed(f, lost)
  BY SMTT(30), <1>2, <1>4, EntryFacts
<1>6. Reclaimed(f, lost')
  BY <1>1, <1>5, GivenUpGrows
<1>7. /\ fs' \in Caches /\ Reclaimed(fs', lost')
      /\ \A k \in Inode :
           fs'.ref[k] = (fs.ref[k] - One(call[p].node, k)) - One(call[p].old, k)
  BY SMTT(30), <1>1, <1>2, <1>3, <1>4, <1>5, <1>6, PutTwo
<1>8. Sound'
  BY <1>1, <1>2, <1>7, PutBothSound
<1> QED
  BY <1>1, <1>7, <1>8 DEF Fine

(* The new name exists: sys_link puts it and dp.                           *)
LEMMA LinkFoundFine ==
  ASSUME Sound, NEW p \in Proc, LinkFound(p)
  PROVE  Fine
<1>1. PICK c : c = [call[p] EXCEPT !.node = NoInode, !.next = NoInode, !.name = NoName]
  OBVIOUS
<1>2. /\ pc[p] = "found" /\ call[p].op = "link2"
      /\ fs' = iput(iput(fs, call[p].next), call[p].node)
      /\ Go(p, "undo", c) /\ UNCHANGED <<disk, log, cwd, file, lost>>
  BY <1>1 DEF LinkFound
<1>3. /\ call[p] \in Calls /\ call[p].node \in Inode /\ call[p].next \in Inode
      /\ call[p].old \in MaybeInode /\ call[p].old # NoInode /\ log = p
      /\ fs.ref[call[p].node] > 0 /\ fs.ref[call[p].next] > 0
      /\ call[p].next = call[p].node => fs.ref[call[p].node] > 1
      /\ fs \in Caches /\ fs.ref \in [Inode -> Nat] /\ Reclaimed(fs, lost)
  BY <1>2, FoundFacts
<1>4. /\ fs' \in Caches /\ Reclaimed(fs', lost')
      /\ \A k \in Inode :
           fs'.ref[k] = (fs.ref[k] - One(call[p].next, k)) - One(call[p].node, k)
  BY SMTT(30), <1>2, <1>3, PutTwo
<1>5. c = [op |-> call[p].op, node |-> NoInode, next |-> NoInode, old |-> call[p].old,
           name |-> NoName, left |-> call[p].left]
  BY <1>1, <1>3 DEF Calls
<1>6. call[p].left \in 0..MaxPath /\ NoInode \in MaybeInode
  BY Locals DEF MaybeInode
<1>7. /\ c \in Calls /\ c.op = "link2" /\ c.node = NoInode /\ c.next = NoInode
      /\ c.old = call[p].old
  BY <1>2, <1>3, <1>5, <1>6 DEF Calls
<1>8. Placed("undo", c) /\ "undo" \in Places
  BY <1>3, <1>7, TreeAssumption DEF Placed, Places
<1>9. Follows(p, fs'.ref, c, cwd[p], file[p])
  BY SMTT(30), <1>3, <1>4, <1>7, TreeAssumption DEF Follows, Own, Total, One
<1>10. Sound'
  BY <1>2, <1>3, <1>4, <1>7, <1>8, <1>9, GoSound
<1> QED
  BY <1>2, <1>4, <1>10 DEF Fine

(* sys_link at bad: the count is taken back, and the inode put.            *)
LEMMA LinkUndoFine ==
  ASSUME Sound, NEW p \in Proc, LinkUndo(p)
  PROVE  Fine
<1>1. /\ pc[p] = "undo" /\ fs' = iput(link_dec(fs, call[p].old), call[p].old)
      /\ Go(p, "idle", call[p]) /\ log' = NoProc /\ disk' = Image(fs')
      /\ UNCHANGED <<cwd, file, lost>>
  BY DEF LinkUndo, Undone, Goto, Commit
<1>2. /\ call[p].old \in Inode /\ call[p].node = NoInode /\ call[p].next = NoInode /\ log = p
  BY <1>1, Locals DEF Placed, InTrans, MaybeInode
<1>3. /\ fs.ref[call[p].old] > 0 /\ fs \in Caches /\ fs.ref \in [Inode -> Nat]
      /\ Reclaimed(fs, lost)
  BY <1>2, Refs, CacheParts DEF Sound
<1>4. PICK f : f = link_dec(fs, call[p].old)
  OBVIOUS
<1>5. f \in Caches /\ f.ref = fs.ref /\ Reclaimed(f, lost)
  BY SMTT(30), <1>2, <1>3, <1>4, LinkFacts
<1>6. /\ fs' \in Caches /\ Reclaimed(fs', lost')
      /\ \A k \in Inode : fs'.ref[k] = fs.ref[k] - One(call[p].old, k)
  BY SMTT(30), <1>1, <1>2, <1>3, <1>4, <1>5, PutOne
<1>7. \A k \in Inode :
        fs'.ref[k] = (fs.ref[k] - Own(p, k)) + (One(cwd[p], k) + One(file[p], k))
  BY SMTT(30), <1>2, <1>3, <1>6, TreeAssumption DEF Own, Total, One
<1>8. Sound'
  BY <1>1, <1>2, <1>6, <1>7, ReturnSound
<1> QED
  BY <1>1, <1>6, <1>8 DEF Fine


(* Where namei has returned, p has the inode that it has reached.          *)
LEMMA NamedFacts ==
  ASSUME Sound, NEW p \in Proc, pc[p] = "walk", call[p].op = "namei"
  PROVE  /\ call[p].node \in Inode /\ call[p].next = NoInode /\ call[p].old = NoInode
         /\ fs.ref[call[p].node] > 0 /\ fs \in Caches /\ fs.ref \in [Inode -> Nat]
         /\ Reclaimed(fs, lost)
<1>1. call[p].node \in Inode /\ call[p].next = NoInode /\ call[p].old = NoInode
  BY Locals DEF Placed, MaybeInode
<1> QED
  BY <1>1, Refs, CacheParts DEF Sound

(* A call that ends with the put of the inode that it has looked up.       *)
LEMMA PutNamedFine ==
  ASSUME Sound, NEW p \in Proc, pc[p] = "walk", call[p].op = "namei",
         PutThen(p, call[p].node, "idle", NoCall), UNCHANGED <<disk, log, cwd, file, lost>>
  PROVE  Fine
<1>1. /\ call[p].node \in Inode /\ call[p].next = NoInode /\ call[p].old = NoInode
      /\ fs.ref[call[p].node] > 0
  BY NamedFacts
<1>2. fs' \in Caches /\ (Panic \/ Sound')
  BY <1>1, PutThenFacts, EndSound
<1> QED
  BY <1>2 DEF Fine

(* sys_open of an inode that exists.                                       *)
LEMMA OpenNodeFine ==
  ASSUME Sound, NEW p \in Proc, OpenNode(p)
  PROVE  Fine
<1>1. pc[p] = "walk" /\ call[p].op = "namei" /\ UNCHANGED <<disk, log, cwd, lost>>
  BY DEF OpenNode
<1>2. /\ call[p].node \in Inode /\ call[p].next = NoInode /\ call[p].old = NoInode
      /\ fs.ref[call[p].node] > 0 /\ fs \in Caches /\ fs.ref \in [Inode -> Nat]
      /\ Reclaimed(fs, lost)
  BY <1>1, NamedFacts
<1>3. CASE PutThen(p, call[p].node, "idle", NoCall) /\ UNCHANGED file
  BY <1>1, <1>3, PutNamedFine
<1>4. CASE CanOpen(p) /\ file' = Set(file, p, call[p].node) /\ Goto(p, "idle") /\ UNCHANGED fs
  <2>1. Opened(p, fs, call[p].node) /\ Go(p, "idle", call[p])
    BY <1>4 DEF Opened, Goto
  <2>2. \A k \in Inode :
          fs.ref[k] = (fs.ref[k] - One(call[p].node, k)) + One(call[p].node, k)
    BY SMTT(30), <1>2 DEF One
  <2>3. Reclaimed(fs, lost')
    BY <1>1, <1>2
  <2>4. fs' \in Caches /\ Sound'
    BY <1>1, <1>2, <2>1, <2>2, <2>3, OpenedSound
  <2> QED
    BY <1>1, <2>4 DEF Fine
<1> QED
  BY <1>3, <1>4 DEF OpenNode

(* sys_chdir puts the old directory and keeps the new one.                 *)
LEMMA ChdirFine ==
  ASSUME Sound, NEW p \in Proc, chdir(p)
  PROVE  Fine
<1>1. pc[p] = "walk" /\ call[p].op = "namei" /\ UNCHANGED <<disk, log, file, lost>>
  BY DEF chdir
<1>2. /\ call[p].node \in Inode /\ call[p].next = NoInode /\ call[p].old = NoInode
      /\ fs.ref \in [Inode -> Nat]
  BY <1>1, NamedFacts
<1>3. cwd[p] \in Inode /\ file[p] \in MaybeInode /\ fs.ref[cwd[p]] > 0
  BY Locals, Refs
<1>4. CASE PutThen(p, call[p].node, "idle", NoCall) /\ UNCHANGED cwd
  BY <1>1, <1>4, PutNamedFine
<1>5. CASE PutThen(p, cwd[p], "idle", NoCall) /\ cwd' = Set(cwd, p, call[p].node)
  <2>1. /\ fs' \in Caches
        /\ \/ Panic
           \/ /\ Go(p, "idle", NoCall) /\ fs'.ref = [fs.ref EXCEPT ![cwd[p]] = @ - 1]
              /\ Reclaimed(fs', lost)
    BY <1>3, <1>5, PutThenFacts
  <2>2. ASSUME Go(p, "idle", NoCall), fs'.ref = [fs.ref EXCEPT ![cwd[p]] = @ - 1],
               Reclaimed(fs', lost)
        PROVE  Sound'
    <3>1. \A k \in Inode : fs'.ref[k] = fs.ref[k] - One(cwd[p], k)
      BY SMTT(30), <1>2, <1>3, <2>2 DEF One
    <3>2. \A k \in Inode : fs'.ref[k] = (fs.ref[k] - Own(p, k))
                                        + (One(call[p].node, k) + One(file[p], k))
      BY SMTT(30), <1>2, <3>1, TreeAssumption DEF Own, Total, One
    <3>3. file \in [Proc -> MaybeInode]
      BY DEF Sound
    <3>4. file' = [file EXCEPT ![p] = file[p]]
      BY <1>1, <3>3
    <3>5. cwd' = [cwd EXCEPT ![p] = call[p].node] /\ Reclaimed(fs', lost')
      BY <1>1, <1>5, <2>2 DEF Set
    <3> QED
      <4>1. \A k \in Inode : fs'.ref[k] = (fs.ref[k] - Own(p, k))
                                          + (One(call[p].node, k) + One(file[p], k))
        BY <3>2
      <4>2. Go(p, "idle", NoCall) /\ log' = log /\ fs' \in Caches
        BY <1>1, <2>1, <2>2
      <4> QED
        BY <1>2, <1>3, <3>4, <3>5, <4>1, <4>2, IdleSound
  <2> QED
    BY <1>1, <2>1, <2>2 DEF Fine
<1> QED
  BY <1>4, <1>5 DEF chdir

(* A descriptor is closed.                                                 *)
LEMMA FilecloseFine ==
  ASSUME Sound, NEW p \in Proc, fileclose(p)
  PROVE  Fine
<1>1. /\ pc[p] = "idle" /\ file[p] # NoInode /\ fs' = iput(fs, file[p]) /\ disk' = Image(fs')
      /\ file' = [file EXCEPT ![p] = NoInode] /\ UNCHANGED <<log, pc, call, cwd, lost>>
  BY DEF fileclose, Set
<1>2. file[p] \in Inode /\ call[p] = NoCall /\ cwd[p] \in Inode
  BY <1>1, Locals DEF Placed, MaybeInode
<1>3. /\ fs.ref[file[p]] > 0 /\ fs \in Caches /\ fs.ref \in [Inode -> Nat]
      /\ Reclaimed(fs, lost)
  BY <1>2, Refs, CacheParts DEF Sound
<1>4. /\ fs' \in Caches /\ Reclaimed(fs', lost')
      /\ \A k \in Inode : fs'.ref[k] = fs.ref[k] - One(file[p], k)
  BY SMTT(30), <1>1, <1>2, <1>3, PutOne
<1>5. /\ cwd \in [Proc -> Inode] /\ pc \in [Proc -> Places] /\ call \in [Proc -> Calls]
  BY DEF Sound
<1>6. /\ cwd' = [cwd EXCEPT ![p] = cwd[p]] /\ pc' = [pc EXCEPT ![p] = "idle"]
      /\ call' = [call EXCEPT ![p] = NoCall]
  BY <1>1, <1>2, <1>5
<1>7. Go(p, "idle", NoCall) /\ NoInode \in MaybeInode
  BY <1>6 DEF Go, Set, MaybeInode
<1>8. \A k \in Inode :
        fs'.ref[k] = (fs.ref[k] - Own(p, k)) + (One(cwd[p], k) + One(NoInode, k))
  BY SMTT(30), <1>2, <1>3, <1>4, IdlePlaced, TreeAssumption DEF Own, Total, One
<1>9. log' = log /\ file' = [file EXCEPT ![p] = NoInode]
  BY <1>1
<1>10. Sound'
  BY <1>2, <1>4, <1>6, <1>7, <1>8, <1>9, IdleSound
<1> QED
  BY <1>1, <1>4, <1>10 DEF Fine

(* exit puts the directory, and the next program starts in the root.       *)
LEMMA ExitFine ==
  ASSUME Sound, NEW p \in Proc, exit(p)
  PROVE  Fine
<1>1. pc[p] = "idle" /\ file[p] = NoInode /\ UNCHANGED <<disk, log, file, lost>>
  BY DEF exit
<1>2. call[p] = NoCall /\ cwd[p] \in Inode /\ file[p] \in MaybeInode
  BY <1>1, Locals DEF Placed
<1>3. /\ fs.ref[cwd[p]] > 0 /\ fs \in Caches /\ fs.ref \in [Inode -> Nat]
      /\ Reclaimed(fs, lost)
  BY <1>2, Refs, CacheParts DEF Sound
<1>4. CASE Panic /\ UNCHANGED fs
  BY <1>1, <1>3, <1>4 DEF Fine, Panic
<1>5. CASE fs' = idup(iput(fs, cwd[p]), Root) /\ cwd' = Set(cwd, p, Root) /\ Goto(p, "idle")
  <2>1. PICK f : f = iput(fs, cwd[p])
    OBVIOUS
  <2>2. /\ f \in Caches /\ Reclaimed(f, lost)
        /\ \A k \in Inode : f.ref[k] = fs.ref[k] - One(cwd[p], k)
    BY SMTT(30), <1>2, <1>3, <2>1, PutOne
  <2>3. /\ fs' \in Caches /\ Reclaimed(fs', lost')
        /\ \A k \in Inode : fs'.ref[k] = f.ref[k] + One(Root, k)
    BY SMTT(30), <1>1, <1>5, <2>1, <2>2, DupOne, TreeAssumption
  <2>4. \A k \in Inode :
          fs'.ref[k] = (fs.ref[k] - Own(p, k)) + (One(Root, k) + One(file[p], k))
    BY SMTT(30), <1>2, <1>3, <2>2, <2>3, IdlePlaced, TreeAssumption DEF Own, Total, One
  <2>5. file \in [Proc -> MaybeInode]
    BY DEF Sound
  <2>6. file' = [file EXCEPT ![p] = file[p]]
    BY <1>1, <2>5
  <2>7. cwd' = [cwd EXCEPT ![p] = Root] /\ Go(p, "idle", call[p]) /\ Root \in Inode
    BY <1>5, TreeAssumption DEF Set, Goto
  <2>8. Sound'
    BY <1>1, <1>2, <2>3, <2>4, <2>6, <2>7, IdleSound
  <2> QED
    BY <1>1, <2>3, <2>8 DEF Fine
<1> QED
  BY <1>4, <1>5 DEF exit


(***************************************************************************)
(* Boot: every process is in the root and has nothing else.                *)
(***************************************************************************)
Idle == {<<"cwd", Root>>, <<"file", NoInode>>, <<"node", NoInode>>, <<"next", NoInode>>,
         <<"old", NoInode>>}

(* The counts of userinit are those of the pointers.                       *)
LEMMA BootCount ==
  ASSUME NEW i \in Inode
  PROVE  /\ Booted \in [Inode -> Nat]
         /\ Booted[i] = (IF i = Root THEN 1 ELSE 0)
                        + Cardinality({e \in Proc \X Slots : <<e[2], i>> \in Idle})
<1>1. PICK H : H = {e \in Proc \X Slots : <<e[2], i>> \in Idle}
  OBVIOUS
<1>2. Cardinality(Proc) \in Nat
  BY FS_CardinalityType, TreeAssumption
<1>3. CASE i = Root
  <2>1. H = Proc \X {"cwd"}
    BY <1>1, <1>3, TreeAssumption DEF Idle, Slots
  <2>2. IsFiniteSet({"cwd"}) /\ Cardinality({"cwd"}) = 1
    BY FS_Singleton
  <2>3. Cardinality(H) = Cardinality(Proc) * Cardinality({"cwd"})
    BY <2>1, <2>2, FS_Product, TreeAssumption
  <2> QED
    BY SMTT(30), <1>1, <1>2, <1>3, <2>2, <2>3 DEF Booted
<1>4. CASE i # Root
  <2>1. H = {}
    BY <1>1, <1>4, TreeAssumption DEF Idle, Slots
  <2>2. Cardinality(H) = 0
    BY <2>1, FS_EmptySet
  <2> QED
    BY SMTT(30), <1>1, <1>2, <1>4, <2>2 DEF Booted
<1> QED
  BY <1>3, <1>4

(* What is on a disk, with the counts of userinit, is a cache.             *)
LEMMA BootCache ==
  ASSUME NEW t \in Disks, NEW f,
         f = [type |-> t.type, nlink |-> t.nlink, ents |-> t.ents, ref |-> Booted]
  PROVE  f \in Caches /\ f.ref = Booted /\ f.type = t.type /\ f.nlink = t.nlink
<1>1. Booted \in [Inode -> Nat]
  BY BootCount, TreeAssumption
<1> QED
  BY <1>1 DEF Disks, Caches

(* mkfs and the first boot.                                                *)
LEMMA InitSound ==
  ASSUME Init
  PROVE  PointerInv
<1>1. disk \in Disks
  <2>1. NoEntries \in [Entries -> MaybeInode] /\ Root \in MaybeInode
    BY TreeAssumption DEF NoEntries, MaybeInode
  <2>2. [NoEntries EXCEPT ![".."] = Root] \in [Entries -> MaybeInode]
    BY <2>1
  <2>3. PICK e : e = [i \in Inode |-> IF i = Root THEN [NoEntries EXCEPT ![".."] = Root]
                                                  ELSE NoEntries]
    OBVIOUS
  <2>4. e \in [Inode -> [Entries -> MaybeInode]]
    BY <2>1, <2>2, <2>3
  <2>5. disk = [type |-> [i \in Inode |-> IF i = Root THEN Dir ELSE Free],
                nlink |-> [i \in Inode |-> IF i = Root THEN 1 ELSE 0], ents |-> e]
    BY <2>3 DEF Init
  <2> QED
    BY SMTT(30), <2>4, <2>5 DEF Disks
<1>2. fs \in Caches /\ fs.ref = Booted /\ fs.type = disk.type /\ fs.nlink = disk.nlink
  BY <1>1, BootCache DEF Init
<1>3. /\ pc = [p \in Proc |-> "idle"] /\ call = [p \in Proc |-> NoCall]
      /\ cwd = [p \in Proc |-> Root] /\ file = [p \in Proc |-> NoInode]
  BY DEF Init
<1>4. /\ pc \in [Proc -> Places] /\ call \in [Proc -> Calls]
      /\ cwd \in [Proc -> Inode] /\ file \in [Proc -> MaybeInode]
      /\ \A p \in Proc : Placed(pc[p], call[p]) /\ (InTrans(pc[p], call[p]) => log = p)
  <2>1. NoInode \in MaybeInode
    BY DEF MaybeInode
  <2> QED
    BY <1>3, <2>1, IdlePlaced, TreeAssumption
<1>5. ASSUME NEW i \in Inode
      PROVE  fs.ref[i] = (IF i = Root THEN 1 ELSE 0) + Cardinality(Holders(i))
  <2>1. \A p \in Proc : Pointers(p) = Idle
    BY <1>3, IdlePlaced DEF Pointers, Idle
  <2>2. Holders(i) = {e \in Proc \X Slots : <<e[2], i>> \in Idle}
    BY <2>1 DEF Holders
  <2> QED
    BY <1>2, <2>2, BootCount
<1>6. Reclaimed(fs, lost)
  <2>1. /\ disk.nlink = [i \in Inode |-> IF i = Root THEN 1 ELSE 0]
        /\ disk.type = [i \in Inode |-> IF i = Root THEN Dir ELSE Free]
    BY DEF Init
  <2> QED
    BY SMTT(30), <1>2, <2>1 DEF Reclaimed
<1> QED
  BY <1>1, <1>2, <1>4, <1>5, <1>6 DEF PointerInv, Sound, Counted

(* A crash, in any state with a tree on the disk.                          *)
LEMMA CrashSound ==
  ASSUME disk \in Disks, Crash
  PROVE  PointerInv'
<1>1. disk' = disk
  BY DEF Crash
<1>2. fs' \in Caches /\ fs'.ref = Booted /\ fs'.type = disk.type /\ fs'.nlink = disk.nlink
  BY BootCache DEF Crash
<1>3. /\ pc' = [p \in Proc |-> "idle"] /\ call' = [p \in Proc |-> NoCall]
      /\ cwd' = [p \in Proc |-> Root] /\ file' = [p \in Proc |-> NoInode]
  BY DEF Crash
<1>4. /\ pc' \in [Proc -> Places] /\ call' \in [Proc -> Calls]
      /\ cwd' \in [Proc -> Inode] /\ file' \in [Proc -> MaybeInode]
      /\ \A p \in Proc : Placed(pc'[p], call'[p]) /\ (InTrans(pc'[p], call'[p]) => log' = p)
  <2>1. NoInode \in MaybeInode
    BY DEF MaybeInode
  <2> QED
    BY <1>3, <2>1, IdlePlaced, TreeAssumption
<1>5. ASSUME NEW i \in Inode
      PROVE  fs'.ref[i] = (IF i = Root THEN 1 ELSE 0) + Cardinality(Holders(i)')
  <2>1. \A p \in Proc : Pointers(p)' = Idle
    BY <1>3, IdlePlaced DEF Pointers, Idle
  <2>2. Holders(i)' = {e \in Proc \X Slots : <<e[2], i>> \in Idle}
    BY <2>1 DEF Holders
  <2> QED
    BY <1>2, <2>2, BootCount
<1>6. Reclaimed(fs', lost')
  <2>1. \A i \in Inode : disk.type[i] # Free /\ disk.nlink[i] = 0 => i \in lost'
    BY DEF Crash
  <2> QED
    BY <1>2, <2>1 DEF Reclaimed
<1> QED
  BY <1>1, <1>2, <1>4, <1>5, <1>6 DEF PointerInv, Sound, Counted


(***************************************************************************)
(* The invariant.                                                          *)
(***************************************************************************)
\* Next, as a list of the actions of a process.
ProcStep(p) ==
  \/ \E o \in {"namei", "unlink", "create"} : Call(p, o)
  \/ \E n \in Entries : dirlookup(p, n) \/ NameFound(p, n) \/ UnlinkAbsent(p, n)
  \/ \E n \in Name : LinkAbsent(p, n)
  \/ \E t \in {File, Dir} : CreateExists(p, t) \/ \E n \in Name : CreateAbsent(p, n, t)
  \/ nameiparent(p) \/ begin_trans(p) \/ sfs_ilock(p) \/ Fill(p) \/ LinkOld(p)
  \/ UnlinkFound(p) \/ CreateFound(p)
  \/ LinkInc(p) \/ LinkFound(p) \/ LinkUndo(p)
  \/ OpenNode(p) \/ chdir(p) \/ fileclose(p) \/ exit(p)

(* No process takes a step after a panic.                                  *)
LEMMA PanicStops ==
  ASSUME NEW p \in Proc, pc[p] = "panic", ProcStep(p)
  PROVE  FALSE
<1>1. \A n : ~dirlookup(p, n) /\ ~NameFound(p, n) /\ ~UnlinkAbsent(p, n) /\ ~LinkAbsent(p, n)
  BY DEF dirlookup, NameFound, UnlinkAbsent, LinkAbsent, NameAbsent, AtParent
<1>2. \A t : ~CreateExists(p, t) /\ \A n : ~CreateAbsent(p, n, t)
  BY DEF CreateExists, CreateAbsent, NameAbsent, AtParent
<1>3. /\ \A o : ~Call(p, o)
      /\ ~nameiparent(p) /\ ~begin_trans(p) /\ ~Fill(p) /\ ~LinkOld(p)
      /\ ~UnlinkFound(p) /\ ~CreateFound(p)
  BY DEF Call, nameiparent, begin_trans, Fill, LinkOld, UnlinkFound, CreateFound
<1>5. ~sfs_ilock(p)
  BY SMTT(30) DEF sfs_ilock, ToLock
<1>4. /\ ~LinkInc(p) /\ ~LinkFound(p) /\ ~LinkUndo(p)
      /\ ~OpenNode(p) /\ ~chdir(p) /\ ~fileclose(p) /\ ~exit(p)
  BY DEF LinkInc, LinkFound, LinkUndo, OpenNode, chdir, fileclose, exit
<1> QED
  BY <1>1, <1>2, <1>3, <1>4, <1>5 DEF ProcStep

(* Every step of a process is one of the lemmas above.                     *)
LEMMA ProcFine ==
  ASSUME Sound, NEW p \in Proc, ProcStep(p)
  PROVE  Fine
<1>1. ASSUME NEW o \in {"namei", "unlink", "create"}, Call(p, o)
      PROVE  Fine
  BY <1>1, CallFine
<1>2. ASSUME NEW n \in Entries, dirlookup(p, n) \/ NameFound(p, n) \/ UnlinkAbsent(p, n)
      PROVE  Fine
  BY <1>2, DirlookupFine, NameFoundFine, UnlinkAbsentFine
<1>3. ASSUME NEW n \in Name, LinkAbsent(p, n)
      PROVE  Fine
  BY <1>3, LinkAbsentFine
<1>4. ASSUME NEW t \in {File, Dir}, CreateExists(p, t) \/ \E n \in Name : CreateAbsent(p, n, t)
      PROVE  Fine
  BY <1>4, CreateExistsFine, CreateAbsentFine
<1>5. CASE nameiparent(p) \/ begin_trans(p) \/ sfs_ilock(p) \/ Fill(p) \/ LinkOld(p)
  BY <1>5, NameiparentFine, BeginFine, IlockFine, FillFine, LinkOldFine
<1>6. CASE UnlinkFound(p) \/ CreateFound(p)
  BY <1>6, UnlinkFoundFine, CreateFoundFine
<1>7. CASE LinkInc(p) \/ LinkFound(p) \/ LinkUndo(p)
  BY <1>7, LinkIncFine, LinkFoundFine, LinkUndoFine
<1>8. CASE OpenNode(p) \/ chdir(p) \/ fileclose(p) \/ exit(p)
  BY <1>8, OpenNodeFine, ChdirFine, FilecloseFine, ExitFine
<1> QED
  BY <1>1, <1>2, <1>3, <1>4, <1>5, <1>6, <1>7, <1>8 DEF ProcStep

(* PointerInv is inductive.                                                *)
LEMMA PointerStep ==
  ASSUME PointerInv, [Next]_vars
  PROVE  PointerInv'
<1>1. disk \in Disks /\ (pc = [q \in Proc |-> "panic"] \/ Sound)
  BY DEF PointerInv
<1>2. ASSUME NEW p \in Proc, ProcStep(p)
      PROVE  PointerInv'
  <2>1. Sound
    BY <1>1, <1>2, PanicStops
  <2>2. fs' \in Caches /\ (disk' = disk \/ disk' = Image(fs')) /\ (Panic \/ Sound')
    BY <1>2, <2>1, ProcFine DEF Fine
  <2> QED
    BY <1>1, <2>2, DiskTree DEF PointerInv, Panic
<1>3. CASE Crash
  BY <1>1, <1>3, CrashSound
<1>4. CASE UNCHANGED vars
  <2>1. \A i : Holders(i)' = Holders(i)
    BY <1>4 DEF vars, Holders, Pointers
  <2>2. Sound => Sound'
    BY <1>4, <2>1 DEF vars, Sound, Counted
  <2> QED
    BY <1>1, <1>4, <2>2 DEF vars, PointerInv
<1> QED
  BY <1>2, <1>3, <1>4 DEF Next, ProcStep

(* In every behaviour, with any number of processes, inodes and names, a   *)
(* process has at each place of a call of sysfile.c the pointers that      *)
(* Placed says, and the counts of the inode cache are those pointers.      *)
THEOREM PointerInvariant == Spec => []PointerInv
<1>1. Init => PointerInv
  BY InitSound
<1>2. PointerInv /\ [Next]_vars => PointerInv'
  BY PointerStep
<1> QED
  BY <1>1, <1>2, PTL DEF Spec

(* Every path through the calls of sysfile.c pairs iget, idup and iput:    *)
(* an inode is counted once for each pointer to it, and freed with the     *)
(* last one if it has no name.                                             *)
THEOREM RefsArePaired == Spec => []RefsPaired
<1>1. PointerInv => RefsPaired
  BY TreeAssumption DEF PointerInv, RefsPaired, Running, Sound
<1> QED
  BY <1>1, PointerInvariant, PTL

=============================================================================
