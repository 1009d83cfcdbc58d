-------------------------- MODULE LinkCountProofs --------------------------
(***************************************************************************)
(* Proofs about the directory tree, for any number of processes, inodes,   *)
(* names and open files: link counts are exact in the cache and, after     *)
(* every commit and every crash, on the disk.                              *)
(***************************************************************************)
EXTENDS FileTreeProofs

\* A step is proved by Zenon unless it names another prover.
USE Zenon

(***************************************************************************)
(* The names of an inode, entry by entry.                                  *)
(***************************************************************************)
IsTree(t) ==
  /\ t.type \in [Inode -> {Free, Dir, File}] /\ t.nlink \in [Inode -> Int]
  /\ t.ents \in [Inode -> [Entries -> MaybeInode]]

\* Some directory has an entry of i, and the entry n of x counts as a name of i.
Named(t, i) == \E x \in Inode : \E n \in Name : t.ents[x][n] = i
Counts(t, x, n, i) == t.ents[x][n] = i /\ (n \in Name \/ x = Root \/ Named(t, x))
EntriesOf(t, i, E) == {e \in Inode \X E : t.ents[e[1]][e[2]] = i}
Counting(t, i) == {e \in Inode \X Entries : Counts(t, e[1], e[2], i)}

(* In a tree where only directories have entries, an entry needs no look   *)
(* at the type of the inode it is in.                                      *)
LEMMA EnteredIs ==
  ASSUME NEW t, IsTree(t), OnlyDirs(t), NEW i \in Inode, NEW E \in SUBSET Entries
  PROVE  Entered(t, i, E) = EntriesOf(t, i, E)
<1>1. ASSUME NEW e \in Inode \X E, t.ents[e[1]][e[2]] = i
      PROVE  t.type[e[1]] = Dir
  <2>1. e[1] \in Inode /\ e[2] \in Entries
    BY SMTT(30), <1>1
  <2>2. CASE t.type[e[1]] # Dir
    <3>1. t.ents[e[1]][e[2]] = NoInode
      BY <2>1, <2>2 DEF OnlyDirs, NoEntries
    <3> QED
      BY <1>1, <3>1, TreeAssumption
  <2> QED
    BY <2>2
<1> QED
  BY <1>1 DEF Entered, EntriesOf

(* A directory has been removed if it is not the root and has no name.     *)
LEMMA RemovedIs ==
  ASSUME NEW t, IsTree(t), OnlyDirs(t), NEW d \in Inode
  PROVE  Removed(t, d) <=> d # Root /\ ~Named(t, d)
<1>1. Entered(t, d, Name) = EntriesOf(t, d, Name)
  <2>1. Name \in SUBSET Entries
    BY DEF Entries
  <2> QED
    BY <2>1, EnteredIs
<1>2. Entered(t, d, Name) = {} <=> ~Named(t, d)
  <2>1. ASSUME NEW x \in Inode, NEW n \in Name, t.ents[x][n] = d
        PROVE  <<x, n>> \in Entered(t, d, Name)
    BY SMTT(30), <1>1, <2>1 DEF EntriesOf
  <2>2. ASSUME NEW e \in Entered(t, d, Name)
        PROVE  e[1] \in Inode /\ e[2] \in Name /\ t.ents[e[1]][e[2]] = d
    BY SMTT(30), <1>1, <2>2 DEF EntriesOf
  <2> QED
    BY <2>1, <2>2 DEF Named
<1> QED
  BY <1>2 DEF Removed

(* The names of an inode are the entries that count.                       *)
LEMMA NamesAre ==
  ASSUME NEW t, IsTree(t), OnlyDirs(t), NEW i \in Inode
  PROVE  Names(t, i) = Counting(t, i)
<1>1. /\ Entered(t, i, Name) = EntriesOf(t, i, Name)
      /\ Entered(t, i, {".."}) = EntriesOf(t, i, {".."})
  <2>1. Name \in SUBSET Entries /\ {".."} \in SUBSET Entries
    BY DEF Entries
  <2> QED
    BY <2>1, EnteredIs
<1>2. ASSUME NEW e
      PROVE  e \in Names(t, i) <=> e \in Inode \X Entries /\ Counts(t, e[1], e[2], i)
  <2>1. e \in Inode \X Entries <=> e \in Inode \X Name \/ e \in Inode \X {".."}
    BY SMTT(30) DEF Entries
  <2>2. ASSUME e \in Inode \X Entries
        PROVE  e[1] \in Inode /\ (Removed(t, e[1]) <=> e[1] # Root /\ ~Named(t, e[1]))
    <3>1. e[1] \in Inode
      BY SMTT(30), <2>2
    <3> QED
      BY <3>1, RemovedIs
  <2>3. e \in Inode \X Entries => (e[2] \in Name <=> e \in Inode \X Name)
    BY SMTT(30) DEF Entries
  <2> QED
    BY <1>1, <2>1, <2>2, <2>3 DEF Names, Counts, EntriesOf
<1> QED
  BY <1>2 DEF Counting

(* There are finitely many of them.                                        *)
LEMMA NamesFinite ==
  ASSUME NEW t, NEW i
  PROVE  IsFiniteSet(Names(t, i)) /\ Cardinality(Names(t, i)) \in Nat
<1>1. IsFiniteSet(Inode) /\ IsFiniteSet(Entries)
  <2>1. IsFiniteSet({".."}) /\ IsFiniteSet(Name)
    BY FS_Singleton, TreeAssumption
  <2> QED
    BY <2>1, FS_Union, TreeAssumption DEF Entries
<1>2. IsFiniteSet(Inode \X Entries)
  BY <1>1, FS_Product
<1>3. Names(t, i) \in SUBSET (Inode \X Entries)
  <2>1. Entered(t, i, Name) \subseteq Inode \X Entries
    BY SMTT(30) DEF Entered, Entries
  <2>2. Entered(t, i, {".."}) \subseteq Inode \X Entries
    BY SMTT(30) DEF Entered, Entries
  <2> QED
    BY <2>1, <2>2 DEF Names
<1>4. IsFiniteSet(Names(t, i))
  BY <1>2, <1>3, FS_Subset
<1> QED
  BY <1>4, FS_CardinalityType

(***************************************************************************)
(* How the names of i in the tree u follow from those in t.                *)
(***************************************************************************)
BothTrees(t, u) == IsTree(t) /\ OnlyDirs(t) /\ IsTree(u) /\ OnlyDirs(u)
NoMore(t, u, i) == \A x \in Inode, n \in Entries : Counts(u, x, n, i) => Counts(t, x, n, i)
OneMore(t, u, i, d, m) ==
  /\ ~Counts(t, d, m, i)
  /\ \A x \in Inode, n \in Entries :
       Counts(u, x, n, i) <=> Counts(t, x, n, i) \/ (x = d /\ n = m)

(* The same entries count.                                                 *)
LEMMA SameNames ==
  ASSUME NEW t, NEW u, BothTrees(t, u), NEW i \in Inode,
         NoMore(t, u, i), NoMore(u, t, i)
  PROVE  Cardinality(Names(u, i)) = Cardinality(Names(t, i))
<1>1. /\ Names(t, i) = Counting(t, i)
      /\ Names(u, i) = Counting(u, i)
  BY NamesAre DEF BothTrees
<1>2. \A e \in Inode \X Entries : e[1] \in Inode /\ e[2] \in Entries
  BY SMTT(30)
<1>3. Names(u, i) = Names(t, i)
  BY <1>1, <1>2 DEF Counting, NoMore
<1> QED
  BY <1>3

(* One entry more counts.                                                  *)
LEMMA OneName ==
  ASSUME NEW t, NEW u, BothTrees(t, u), NEW i \in Inode, NEW d \in Inode, NEW m \in Entries,
         OneMore(t, u, i, d, m)
  PROVE  Cardinality(Names(u, i)) = Cardinality(Names(t, i)) + 1
<1>1. /\ Names(t, i) = Counting(t, i)
      /\ Names(u, i) = Counting(u, i)
  BY NamesAre DEF BothTrees
<1>2. PICK a : a = <<d, m>>
  OBVIOUS
<1>3. a \in Inode \X Entries /\ a[1] = d /\ a[2] = m
  BY SMTT(30), <1>2
<1>4. \A e \in Inode \X Entries : /\ e[1] \in Inode /\ e[2] \in Entries
                                  /\ e[1] = d /\ e[2] = m => e = a
  BY SMTT(30), <1>2
<1>5. a \notin Names(t, i) /\ Names(u, i) = Names(t, i) \cup {a}
  BY <1>1, <1>3, <1>4 DEF Counting, OneMore
<1>6. IsFiniteSet(Names(t, i))
  BY NamesFinite
<1> QED
  BY <1>5, <1>6, FS_AddElement

(* No entry more counts.                                                   *)
LEMMA FewerNames ==
  ASSUME NEW t, NEW u, BothTrees(t, u), NEW i \in Inode, NoMore(t, u, i)
  PROVE  Cardinality(Names(u, i)) <= Cardinality(Names(t, i))
<1>1. /\ Names(t, i) = Counting(t, i)
      /\ Names(u, i) = Counting(u, i)
  BY NamesAre DEF BothTrees
<1>2. \A e \in Inode \X Entries : e[1] \in Inode /\ e[2] \in Entries
  BY SMTT(30)
<1>3. Names(u, i) \in SUBSET Names(t, i)
  BY <1>1, <1>2 DEF Counting, NoMore
<1>4. IsFiniteSet(Names(t, i))
  BY NamesFinite
<1> QED
  BY <1>3, <1>4, FS_Subset

(* An inode with a name has at least one, one without has none.            *)
LEMMA HasName ==
  ASSUME NEW t, IsTree(t), OnlyDirs(t), NEW i \in Inode
  PROVE  /\ \A x \in Inode, n \in Entries : Counts(t, x, n, i) => Cardinality(Names(t, i)) >= 1
         /\ (\A x \in Inode, n \in Entries : ~Counts(t, x, n, i)) => Cardinality(Names(t, i)) = 0
<1>1. Names(t, i) = Counting(t, i)
  BY NamesAre
<1>2. IsFiniteSet(Names(t, i)) /\ Cardinality(Names(t, i)) \in Nat
  BY NamesFinite
<1>3. ASSUME NEW x \in Inode, NEW n \in Entries, Counts(t, x, n, i)
      PROVE  Cardinality(Names(t, i)) >= 1
  <2>1. <<x, n>> \in Names(t, i)
    BY SMTT(30), <1>1, <1>3 DEF Counting
  <2>2. Cardinality(Names(t, i)) # 0
    BY <1>2, <2>1, FS_EmptySet
  <2> QED
    BY SMTT(30), <1>2, <2>2
<1>4. ASSUME \A x \in Inode, n \in Entries : ~Counts(t, x, n, i)
      PROVE  Cardinality(Names(t, i)) = 0
  <2>1. \A e \in Inode \X Entries : e[1] \in Inode /\ e[2] \in Entries
    BY SMTT(30)
  <2>2. Names(t, i) = {}
    BY <1>1, <1>4, <2>1 DEF Counting
  <2> QED
    BY <2>2, FS_EmptySet
<1> QED
  BY <1>3, <1>4

(* An inode that has an entry is a directory.                              *)
LEMMA DirOf ==
  ASSUME NEW t, OnlyDirs(t), NEW x \in Inode, NEW n \in Entries, t.ents[x][n] # NoInode
  PROVE  t.type[x] = Dir
BY DEF OnlyDirs, NoEntries

(* The entries of a removed directory, and what its count says.            *)
LEMMA TreeFacts ==
  ASSUME NEW t, IsTree(t), NEW gone, NEW due, TreeOK(t, gone, due), NEW i \in Inode
  PROVE  /\ OnlyDirs(t) /\ EnteredOnce(t) /\ Forsaken(t, gone)
         /\ t.nlink[i] \in Int /\ Cardinality(Names(t, i)) \in Nat
         /\ Cardinality(Names(t, i)) + Extra(i, due) <= t.nlink[i]
         /\ i \notin gone =>
              Cardinality(Names(t, i)) + Extra(i, due) = t.nlink[i]
         /\ t.type[i] = Free => t.nlink[i] = 0
<1>1. Linked(t, gone, i, Extra(i, due))
  BY DEF TreeOK
<1>2. Cardinality(Names(t, i)) \in Nat
  BY NamesFinite
<1>3. t.nlink[i] \in Int
  BY DEF IsTree
<1>4. OnlyDirs(t) /\ EnteredOnce(t) /\ Forsaken(t, gone)
  BY DEF TreeOK
<1> QED
  BY <1>1, <1>2, <1>3, <1>4 DEF Linked

(* The root has a name, itself; an inode whose count is zero has none.     *)
LEMMA NoCount ==
  ASSUME NEW t, IsTree(t), NEW gone, NEW due, TreeOK(t, gone, due), NEW i \in Inode,
         t.nlink[i] <= 0
  PROVE  /\ i # Root /\ i # due /\ t.nlink[i] = 0 /\ ~Named(t, i)
         /\ \A x \in Inode, n \in Entries : ~Counts(t, x, n, i)
<1>1. OnlyDirs(t)
  BY DEF TreeOK
<1>2. Cardinality(Names(t, i)) = 0 /\ i # due /\ t.nlink[i] = 0
  BY SMTT(30), TreeFacts DEF Extra
<1>3. \A x \in Inode, n \in Entries : Counts(t, x, n, i) => Cardinality(Names(t, i)) >= 1
  BY <1>1, HasName
<1>4. \A x \in Inode, n \in Entries : ~Counts(t, x, n, i)
  BY SMTT(30), <1>2, <1>3
<1>5. i # Root
  BY <1>1, <1>4 DEF OnlyDirs, Counts, Entries
<1>6. ~Named(t, i)
  BY <1>4 DEF Named, Counts, Entries
<1> QED
  BY <1>2, <1>4, <1>5, <1>6

\* The tree u is t without the inode i.
Freed(t, u, i) ==
  /\ u.type = [t.type EXCEPT ![i] = Free] /\ u.ents = [t.ents EXCEPT ![i] = NoEntries]
  /\ u.nlink = t.nlink

(* sfs_iput frees an inode without a name: what was entered in it is given *)
(* up, and was no directory.                                               *)
LEMMA FreedTree ==
  ASSUME NEW t, NEW u, NEW gone, NEW due, IsTree(t), IsTree(u), TreeOK(t, gone, due),
         NEW i \in Inode, t.nlink[i] <= 0, Freed(t, u, i)
  PROVE  TreeOK(u, gone, due)
<1>1. /\ i # Root /\ i # due /\ t.nlink[i] = 0 /\ ~Named(t, i)
      /\ \A x \in Inode, n \in Entries : ~Counts(t, x, n, i)
  BY NoCount
<1>2. OnlyDirs(t) /\ EnteredOnce(t) /\ Forsaken(t, gone)
  BY DEF TreeOK
<1>3. /\ \A x \in Inode : x # i => u.ents[x] = t.ents[x] /\ u.type[x] = t.type[x]
      /\ u.ents[i] = NoEntries /\ u.type[i] = Free /\ u.nlink = t.nlink
  BY DEF IsTree, Freed
<1>4. \A n \in Entries : u.ents[i][n] = NoInode
  BY <1>3 DEF NoEntries
<1>5. NoInode \notin Inode /\ Root \in Inode /\ \A n \in Name : n \in Entries
  BY TreeAssumption DEF Entries
<1>6. OnlyDirs(u)
  BY <1>1, <1>2, <1>3, <1>5 DEF OnlyDirs
<1>7. \A x, j \in Inode : \A n \in Entries : u.ents[x][n] = j => x # i /\ t.ents[x][n] = j
  BY <1>3, <1>4, <1>5
<1>8. EnteredOnce(u)
  <2> SUFFICES ASSUME NEW k \in Inode, NEW d \in Inode, NEW n \in Name,
                      u.type[k] = Dir, u.ents[d][n] = k
               PROVE  Once(u, k, d, n)
    BY DEF EnteredOnce
  <2>1. k # i /\ d # i /\ t.type[k] = Dir /\ t.ents[d][n] = k
    <3>1. k # i
      BY <1>3 DEF Free, Dir
    <3> QED
      BY <1>3, <1>5, <1>7, <3>1
  <2>2. Once(t, k, d, n)
    BY <1>2, <2>1 DEF EnteredOnce
  <2>3. u.ents[k] = t.ents[k] /\ u.ents[d] = t.ents[d]
    BY <1>3, <2>1
  <2> QED
    BY <2>2, <2>3 DEF Once
<1>9. \A x \in Inode : Named(u, x) => Named(t, x)
  BY <1>5, <1>7 DEF Named
<1>10. ASSUME NEW x \in Inode, t.type[x] = Dir, Named(t, x)
       PROVE  Named(u, x)
  <2>1. PICK y \in Inode, n \in Name : t.ents[y][n] = x
    BY <1>10 DEF Named
  <2>2. y # i
    <3>1. ASSUME y = i
          PROVE  Counts(t, x, "..", i)
      BY <1>2, <1>10, <2>1, <3>1 DEF EnteredOnce, Once, Counts
    <3> QED
      BY <1>1, <3>1 DEF Entries
  <2> QED
    BY <1>3, <2>1, <2>2 DEF Named
<1>11. \A j \in Inode : NoMore(t, u, j)
  BY <1>7, <1>9 DEF Counts, NoMore
<1>12. ASSUME NEW j \in Inode, j \notin gone, NEW x \in Inode, NEW n \in Entries, Counts(t, x, n, j)
       PROVE  Counts(u, x, n, j)
  <2>1. x # i
    <3>1. Removed(t, i)
      BY <1>1, <1>2, RemovedIs
    <3>2. n \in Name => t.ents[i][n] # j
      BY <1>2, <1>5, <1>12, <3>1 DEF Forsaken
    <3> QED
      BY <1>1, <1>12, <3>2 DEF Counts
  <2>2. t.type[x] = Dir
    BY <1>2, <1>5, <1>12, DirOf DEF Counts
  <2> QED
    BY <1>3, <1>10, <1>12, <2>1, <2>2 DEF Counts
<1>13. Forsaken(u, gone)
  <2> SUFFICES ASSUME NEW d \in Inode, NEW n \in Name, Removed(u, d), u.ents[d][n] # NoInode
               PROVE  u.ents[d][n] \in gone
    BY DEF Forsaken
  <2>1. d # i /\ u.ents[d] = t.ents[d]
    BY <1>3, <1>4, <1>5
  <2>2. t.type[d] = Dir
    BY <1>2, <1>5, <2>1, DirOf
  <2>3. Removed(t, d)
    BY <1>2, <1>6, <1>10, <2>2, RemovedIs
  <2> QED
    BY <1>2, <2>1, <2>3 DEF Forsaken
<1>14. BothTrees(t, u)
  BY <1>2, <1>6 DEF BothTrees
<1>15. ASSUME NEW j \in Inode
       PROVE  Linked(u, gone, j, Extra(j, due))
  <2>1. Cardinality(Names(u, j)) <= Cardinality(Names(t, j))
    BY <1>11, <1>14, FewerNames
  <2>2. j \notin gone => Cardinality(Names(u, j)) = Cardinality(Names(t, j))
    <3>1. j \notin gone => NoMore(u, t, j)
      BY <1>12 DEF NoMore
    <3> QED
      BY <1>11, <1>14, <3>1, SameNames
  <2>3. u.type[j] = Free => u.nlink[j] = 0
    <3>1. t.type[j] = Free => t.nlink[j] = 0
      BY TreeFacts
    <3> QED
      BY <1>1, <1>3, <3>1
  <2>4. /\ Cardinality(Names(t, j)) + Extra(j, due) <= t.nlink[j]
        /\ j \notin gone => Cardinality(Names(t, j)) + Extra(j, due) = t.nlink[j]
        /\ t.nlink[j] \in Int
    BY TreeFacts
  <2>5. Cardinality(Names(u, j)) \in Nat /\ Cardinality(Names(t, j)) \in Nat
    BY NamesFinite
  <2>6. Cardinality(Names(u, j)) + Extra(j, due) <= u.nlink[j]
    BY SMTT(30), <1>3, <2>1, <2>4, <2>5 DEF Extra
  <2>7. u.nlink[j] = t.nlink[j]
    BY <1>3
  <2> QED
    BY <2>2, <2>3, <2>4, <2>6, <2>7 DEF Linked
<1> QED
  BY <1>6, <1>8, <1>13, <1>15 DEF TreeOK

\* By how much a count is too high.
Slack(t, i, due) == t.nlink[i] - Cardinality(Names(t, i)) - Extra(i, due)

(* The count of j follows its names.                                       *)
LEMMA LinkedNow ==
  ASSUME NEW t, NEW u, NEW gone, NEW due, IsTree(t), IsTree(u), TreeOK(t, gone, due),
         NEW j \in Inode, NEW now, NEW later, gone \subseteq now,
         Slack(u, j, later) = Slack(t, j, due),
         u.type[j] = Free => u.nlink[j] = 0
  PROVE  Linked(u, now, j, Extra(j, later))
<1>1. Cardinality(Names(u, j)) \in Nat /\ u.nlink[j] \in Int
  BY NamesFinite DEF IsTree
<1>2. /\ t.nlink[j] \in Int /\ Cardinality(Names(t, j)) \in Nat
      /\ Cardinality(Names(t, j)) + Extra(j, due) <= t.nlink[j]
      /\ j \notin gone => Cardinality(Names(t, j)) + Extra(j, due) = t.nlink[j]
  BY TreeFacts
<1>3. Cardinality(Names(u, j)) + Extra(j, later) <= u.nlink[j]
  BY SMTT(30), <1>1, <1>2 DEF Slack, Extra
<1>4. j \notin gone => Cardinality(Names(u, j)) + Extra(j, later) = u.nlink[j]
  BY SMTT(30), <1>1, <1>2 DEF Slack, Extra
<1> QED
  BY <1>3, <1>4 DEF Linked

\* u has the types and entries of t.
SameEntries(t, u) == u.type = t.type /\ u.ents = t.ents

(* Trees with the same entries, where sys_link has counted a name or taken *)
(* the count back.                                                         *)
LEMMA CountedTree ==
  ASSUME NEW t, NEW u, NEW gone, NEW now, NEW due, NEW later, IsTree(t), IsTree(u),
         TreeOK(t, gone, due), SameEntries(t, u), gone \subseteq now,
         \A j \in Inode : u.nlink[j] - Extra(j, later) = t.nlink[j] - Extra(j, due),
         \A j \in Inode : t.type[j] = Free => u.nlink[j] = 0
  PROVE  TreeOK(u, now, later)
<1>1. \A j, E : Entered(u, j, E) = Entered(t, j, E)
  BY DEF SameEntries, Entered
<1>2. \A d : Removed(u, d) <=> Removed(t, d)
  BY <1>1 DEF Removed
<1>3. \A j : Names(u, j) = Names(t, j)
  BY <1>1, <1>2 DEF Names
<1>4. OnlyDirs(t) /\ EnteredOnce(t) /\ Forsaken(t, gone)
  BY DEF TreeOK
<1>5. OnlyDirs(u)
  BY <1>4 DEF OnlyDirs, SameEntries
<1>6. EnteredOnce(u)
  <2>1. \A i, d, n : Once(t, i, d, n) => Once(u, i, d, n)
    BY DEF Once, SameEntries
  <2> QED
    BY <1>4, <2>1 DEF EnteredOnce, SameEntries
<1>7. Forsaken(u, now)
  BY <1>2, <1>4 DEF Forsaken, SameEntries
<1>8. ASSUME NEW j \in Inode
      PROVE  Linked(u, now, j, Extra(j, later))
  <2>1. Cardinality(Names(t, j)) \in Nat /\ u.nlink[j] \in Int /\ t.nlink[j] \in Int
    BY NamesFinite DEF IsTree
  <2>2. u.nlink[j] - Extra(j, later) = t.nlink[j] - Extra(j, due)
    OBVIOUS
  <2>3. Slack(u, j, later) = Slack(t, j, due)
    BY SMTT(30), <1>3, <2>1, <2>2 DEF Slack, Extra
  <2>4. u.type[j] = Free => u.nlink[j] = 0
    BY DEF SameEntries
  <2> QED
    BY <2>3, <2>4, LinkedNow
<1> QED
  BY <1>5, <1>6, <1>7, <1>8 DEF TreeOK

\* The entry n of d is i in u; the others are those of t.
EntrySet(t, u, d, n, i) ==
  \A x \in Inode : \A m \in Entries :
    u.ents[x][m] = IF x = d /\ m = n THEN i ELSE t.ents[x][m]

(* sfs_dirlink gives a file a name that has been counted.                  *)
LEMMA EnterTree ==
  ASSUME NEW t, NEW u, NEW gone, NEW now, IsTree(t), IsTree(u), NEW d \in Inode, NEW n \in Name,
         NEW i \in Inode, TreeOK(t, gone, i), EntrySet(t, u, d, n, i),
         u.type = t.type, u.nlink = t.nlink, t.type[d] = Dir, t.type[i] # Dir,
         t.ents[d][n] = NoInode, gone \subseteq now, Removed(t, d) => i \in now
  PROVE  TreeOK(u, now, NoInode)
<1>1. OnlyDirs(t) /\ EnteredOnce(t) /\ Forsaken(t, gone)
  BY DEF TreeOK
<1>2. /\ NoInode \notin Inode /\ Root \in Inode /\ n \in Entries /\ ".." \in Entries
      /\ n # ".." /\ i # Root /\ d # i /\ \A m \in Name : m \in Entries /\ m # ".."
  BY <1>1, TreeAssumption DEF Entries, OnlyDirs
<1>3. /\ u.ents[d][n] = i
      /\ \A x \in Inode : \A m \in Entries :
           ~(x = d /\ m = n) => u.ents[x][m] = t.ents[x][m]
  BY <1>2 DEF EntrySet
<1>4. \A x \in Inode : u.ents[x][".."] = t.ents[x][".."]
  BY <1>2, <1>3
<1>5. OnlyDirs(u)
  <2>1. u.ents[Root][".."] = Root /\ u.type[Root] = Dir
    BY <1>1, <1>2, <1>4 DEF OnlyDirs
  <2>2. ASSUME NEW x \in Inode, u.type[x] # Dir
        PROVE  u.ents[x] = NoEntries
    <3>1. x # d /\ t.ents[x] = NoEntries
      BY <1>1, <2>2 DEF OnlyDirs
    <3>2. \A m \in Entries : u.ents[x][m] = t.ents[x][m]
      BY <1>3, <3>1
    <3>3. u.ents[x] \in [Entries -> MaybeInode] /\ t.ents[x] \in [Entries -> MaybeInode]
      BY DEF IsTree
    <3> QED
      BY SMTT(30), <3>1, <3>2, <3>3
  <2> QED
    BY <2>1, <2>2 DEF OnlyDirs
<1>6. \A x \in Inode : x # i => (Named(u, x) <=> Named(t, x))
  <2>1. \A x, y \in Inode : \A m \in Name : x # i => (u.ents[y][m] = x <=> t.ents[y][m] = x)
    BY <1>2, <1>3
  <2> QED
    BY SMTT(30), <2>1 DEF Named
<1>7. \A x \in Inode : \A m \in Entries : t.ents[x][m] # NoInode => x # i
  BY <1>1, DirOf
<1>8. ASSUME NEW j \in Inode, j # i, NEW x \in Inode, NEW m \in Entries
      PROVE  Counts(u, x, m, j) <=> Counts(t, x, m, j)
  <2>1. u.ents[x][m] = j <=> t.ents[x][m] = j
    BY <1>2, <1>3, <1>8
  <2>2. t.ents[x][m] = j => x # i
    BY <1>2, <1>7
  <2> QED
    BY <1>6, <2>1, <2>2 DEF Counts
<1>9. ASSUME NEW x \in Inode, NEW m \in Entries
      PROVE  Counts(u, x, m, i) <=> Counts(t, x, m, i) \/ (x = d /\ m = n)
  <2>1. u.ents[x][m] = i <=> t.ents[x][m] = i \/ (x = d /\ m = n)
    BY <1>2, <1>3
  <2>2. t.ents[x][m] = i => x # i
    BY <1>2, <1>7
  <2> QED
    BY <1>2, <1>6, <2>1, <2>2 DEF Counts
<1>10. /\ OneMore(t, u, i, d, n)
       /\ \A j \in Inode : j # i => NoMore(t, u, j) /\ NoMore(u, t, j)
  <2>1. ~Counts(t, d, n, i)
    BY <1>2 DEF Counts
  <2> QED
    BY <1>8, <1>9, <2>1 DEF OneMore, NoMore
<1>11. EnteredOnce(u)
  <2> SUFFICES ASSUME NEW k \in Inode, NEW x \in Inode, NEW m \in Name,
                      u.type[k] = Dir, u.ents[x][m] = k
               PROVE  Once(u, k, x, m)
    BY DEF EnteredOnce
  <2>1. k # i /\ t.type[k] = Dir
    OBVIOUS
  <2>2. \A l \in Name : u.ents[x][l] = k => t.ents[x][l] = k
    BY <1>2, <1>3, <2>1
  <2>3. Once(t, k, x, m)
    BY <1>1, <2>1, <2>2 DEF EnteredOnce
  <2> QED
    BY <1>4, <2>2, <2>3 DEF Once
<1>12. Forsaken(u, now)
  <2> SUFFICES ASSUME NEW x \in Inode, NEW m \in Name, Removed(u, x), u.ents[x][m] # NoInode
               PROVE  u.ents[x][m] \in now
    BY DEF Forsaken
  <2>1. x # i
    <3>1. u.type[x] = Dir
      BY <1>2, <1>5, DirOf
    <3> QED
      BY <3>1
  <2>2. Removed(t, x)
    BY <1>1, <1>5, <1>6, <2>1, RemovedIs
  <2>3. CASE x = d /\ m = n
    BY <1>3, <2>2, <2>3
  <2>4. CASE ~(x = d /\ m = n)
    <3>1. u.ents[x][m] = t.ents[x][m]
      BY <1>2, <1>3, <2>4
    <3>2. t.ents[x][m] \in gone \cup {NoInode}
      BY <1>1, <2>2 DEF Forsaken
    <3> QED
      BY <3>1, <3>2
  <2> QED
    BY <2>3, <2>4
<1>13. BothTrees(t, u)
  BY <1>1, <1>5 DEF BothTrees
<1>14. ASSUME NEW j \in Inode
       PROVE  Linked(u, now, j, Extra(j, NoInode))
  <2>1. /\ Cardinality(Names(t, j)) \in Nat /\ u.nlink[j] = t.nlink[j] /\ t.nlink[j] \in Int
        /\ j # NoInode
    BY <1>2, NamesFinite DEF IsTree
  <2>2. j # i => Cardinality(Names(u, j)) = Cardinality(Names(t, j))
    BY <1>10, <1>13, SameNames
  <2>3. Cardinality(Names(u, i)) = Cardinality(Names(t, i)) + 1
    BY <1>2, <1>10, <1>13, OneName
  <2>4. Slack(u, j, NoInode) = Slack(t, j, i)
    BY SMTT(30), <2>1, <2>2, <2>3 DEF Slack, Extra
  <2>5. u.type[j] = Free => u.nlink[j] = 0
    <3>1. t.type[j] = Free => t.nlink[j] = 0
      BY TreeFacts
    <3> QED
      BY <3>1
  <2> QED
    BY <2>4, <2>5, LinkedNow
<1> QED
  BY <1>5, <1>11, <1>12, <1>14 DEF TreeOK

\* The entry n of d is the only one of i.
OnlyIn(t, d, n, i) == \A x \in Inode : \A m \in Name : t.ents[x][m] = i => x = d /\ m = n

(* sfs_create_inode makes a directory of the inode i that it has entered   *)
(* in d, and counts its ".." as a name of d.                               *)
LEMMA DirTree ==
  ASSUME NEW t, NEW u, NEW gone, IsTree(t), IsTree(u), TreeOK(t, gone, NoInode),
         NEW d \in Inode, NEW n \in Name, NEW i \in Inode, t.type[i] = File, t.ents[d][n] = i,
         OnlyIn(t, d, n, i),
         EntrySet(t, u, i, "..", d), u.type = [t.type EXCEPT ![i] = Dir],
         u.nlink = [t.nlink EXCEPT ![d] = @ + 1]
  PROVE  TreeOK(u, gone, NoInode)
<1>1. OnlyDirs(t) /\ EnteredOnce(t) /\ Forsaken(t, gone)
  BY DEF TreeOK
<1>2. /\ NoInode \notin Inode /\ Root \in Inode /\ n \in Entries /\ ".." \in Entries
      /\ \A m \in Name : m \in Entries /\ m # ".."
  BY TreeAssumption DEF Entries
<1>3. t.type[d] = Dir
  BY <1>1, <1>2, DirOf
<1>4. /\ i # Root /\ d # i /\ t.ents[i] = NoEntries
  BY SMTT(30), <1>1, <1>3 DEF OnlyDirs, Dir, File
<1>5. /\ u.ents[i][".."] = d
      /\ \A x \in Inode : \A m \in Entries :
           ~(x = i /\ m = "..") => u.ents[x][m] = t.ents[x][m]
  BY <1>2 DEF EntrySet
<1>6. \A x \in Inode : \A m \in Name : u.ents[x][m] = t.ents[x][m]
  BY <1>2, <1>5
<1>7. /\ \A x \in Inode : x # i => u.type[x] = t.type[x]
      /\ u.type[i] = Dir
  BY DEF IsTree
<1>8. OnlyDirs(u)
  <2>1. u.ents[Root][".."] = Root /\ u.type[Root] = Dir
    BY <1>1, <1>2, <1>4, <1>5, <1>7 DEF OnlyDirs
  <2>2. ASSUME NEW x \in Inode, u.type[x] # Dir
        PROVE  u.ents[x] = NoEntries
    <3>1. x # i /\ t.ents[x] = NoEntries
      BY <1>1, <1>7, <2>2 DEF OnlyDirs
    <3>2. \A m \in Entries : u.ents[x][m] = t.ents[x][m]
      BY <1>5, <3>1
    <3>3. u.ents[x] \in [Entries -> MaybeInode] /\ t.ents[x] \in [Entries -> MaybeInode]
      BY DEF IsTree
    <3> QED
      BY SMTT(30), <3>1, <3>2, <3>3
  <2> QED
    BY <2>1, <2>2 DEF OnlyDirs
<1>9. \A x : Named(u, x) <=> Named(t, x)
  BY SMTT(30), <1>6 DEF Named
<1>10. t.ents[i][".."] = NoInode
  BY <1>2, <1>4 DEF NoEntries
<1>11. ASSUME NEW j \in Inode, j # d, NEW x \in Inode, NEW m \in Entries
       PROVE  Counts(u, x, m, j) <=> Counts(t, x, m, j)
  <2>1. u.ents[x][m] = j <=> t.ents[x][m] = j
    BY <1>2, <1>5, <1>10, <1>11
  <2> QED
    BY <1>9, <2>1 DEF Counts
<1>12. ASSUME NEW x \in Inode, NEW m \in Entries
       PROVE  Counts(u, x, m, d) <=> Counts(t, x, m, d) \/ (x = i /\ m = "..")
  <2>1. u.ents[x][m] = d <=> t.ents[x][m] = d \/ (x = i /\ m = "..")
    BY <1>5
  <2>2. Named(t, i)
    BY DEF Named
  <2> QED
    BY <1>9, <2>1, <2>2 DEF Counts
<1>13. /\ OneMore(t, u, d, i, "..")
       /\ \A j \in Inode : j # d => NoMore(t, u, j) /\ NoMore(u, t, j)
  <2>1. ~Counts(t, i, "..", d)
    BY <1>2, <1>10 DEF Counts
  <2> QED
    BY <1>11, <1>12, <2>1 DEF OneMore, NoMore
<1>14. EnteredOnce(u)
  <2> SUFFICES ASSUME NEW k \in Inode, NEW x \in Inode, NEW m \in Name,
                      u.type[k] = Dir, u.ents[x][m] = k
               PROVE  Once(u, k, x, m)
    BY DEF EnteredOnce
  <2>1. t.ents[x][m] = k
    BY <1>6
  <2>2. CASE k = i
    <3>1. x = d /\ \A l \in Name : t.ents[x][l] = i => l = m
      BY SMTT(30), <2>1, <2>2 DEF OnlyIn
    <3>2. \A l \in Name : u.ents[x][l] = i => l = m
      BY <1>6, <3>1
    <3> QED
      BY <1>4, <1>5, <2>2, <3>1, <3>2 DEF Once
  <2>3. CASE k # i
    <3>1. Once(t, k, x, m)
      BY <1>1, <1>7, <2>1, <2>3 DEF EnteredOnce
    <3>2. u.ents[k][".."] = t.ents[k][".."]
      BY <1>2, <1>5, <2>3
    <3> QED
      BY <1>6, <3>1, <3>2 DEF Once
  <2> QED
    BY <2>2, <2>3
<1>15. Forsaken(u, gone)
  <2>1. \A x \in Inode : Removed(u, x) <=> Removed(t, x)
    BY <1>1, <1>8, <1>9, RemovedIs
  <2> SUFFICES ASSUME NEW x \in Inode, NEW m \in Name, Removed(u, x)
               PROVE  u.ents[x][m] \in gone \cup {NoInode}
    BY DEF Forsaken
  <2>2. t.ents[x][m] \in gone \cup {NoInode}
    BY <1>1, <2>1 DEF Forsaken
  <2> QED
    BY <1>6, <2>2
<1>16. BothTrees(t, u)
  BY <1>1, <1>8 DEF BothTrees
<1>17. ASSUME NEW j \in Inode
       PROVE  Linked(u, gone, j, Extra(j, NoInode))
  <2>1. /\ Cardinality(Names(t, j)) \in Nat /\ t.nlink \in [Inode -> Int]
    BY NamesFinite DEF IsTree
  <2>2. j # d => Cardinality(Names(u, j)) = Cardinality(Names(t, j))
    BY <1>13, <1>16, SameNames
  <2>3. Cardinality(Names(u, d)) = Cardinality(Names(t, d)) + 1
    BY <1>2, <1>13, <1>16, OneName
  <2>4. u.nlink[j] = IF j = d THEN t.nlink[j] + 1 ELSE t.nlink[j]
    BY <2>1
  <2>5. Slack(u, j, NoInode) = Slack(t, j, NoInode)
    BY SMTT(30), <2>1, <2>2, <2>3, <2>4 DEF Slack, Extra
  <2>6. u.type[j] = Free => u.nlink[j] = 0
    <3>1. t.type[j] = Free => t.nlink[j] = 0
      BY TreeFacts
    <3>2. u.type[j] = Free => j # i /\ j # d
      BY SMTT(30), <1>3, <1>4, <1>7 DEF Free, Dir
    <3> QED
      BY <1>7, <2>4, <3>1, <3>2
  <2> QED
    BY <2>5, <2>6, LinkedNow
<1> QED
  BY <1>8, <1>14, <1>15, <1>17 DEF TreeOK

\* The counts of u are those of t, less one for each member of S.
CountsLess(t, u, S) ==
  \A j \in Inode : u.nlink[j] = IF j \in S THEN t.nlink[j] - 1 ELSE t.nlink[j]

(* sfs_unlink erases a name of a file.                                     *)
LEMMA EraseFile ==
  ASSUME NEW t, NEW u, NEW gone, NEW due, IsTree(t), IsTree(u), TreeOK(t, gone, due),
         NEW d \in Inode, NEW n \in Name, NEW i \in Inode, t.type[i] # Dir, t.ents[d][n] = i,
         EntrySet(t, u, d, n, NoInode), u.type = t.type, CountsLess(t, u, {i})
  PROVE  TreeOK(u, gone, due)
<1>1. OnlyDirs(t) /\ EnteredOnce(t) /\ Forsaken(t, gone)
  BY DEF TreeOK
<1>2. /\ NoInode \notin Inode /\ Root \in Inode /\ n \in Entries /\ ".." \in Entries
      /\ n # ".." /\ \A m \in Name : m \in Entries /\ m # ".."
  BY TreeAssumption DEF Entries
<1>3. /\ u.ents[d][n] = NoInode
      /\ \A x \in Inode : \A m \in Entries :
           ~(x = d /\ m = n) => u.ents[x][m] = t.ents[x][m]
  BY <1>2 DEF EntrySet
<1>4. \A x \in Inode : u.ents[x][".."] = t.ents[x][".."]
  BY <1>2, <1>3
<1>5. \A x, j \in Inode : \A m \in Entries : u.ents[x][m] = j => t.ents[x][m] = j
  BY <1>2, <1>3
<1>6. \A x, j \in Inode : \A m \in Entries :
        t.ents[x][m] = j => u.ents[x][m] = j \/ (j = i /\ x = d /\ m = n)
  BY <1>2, <1>3
<1>7. OnlyDirs(u)
  <2>1. u.ents[Root][".."] = Root /\ u.type[Root] = Dir
    BY <1>1, <1>2, <1>4 DEF OnlyDirs
  <2>2. ASSUME NEW x \in Inode, u.type[x] # Dir
        PROVE  u.ents[x] = NoEntries
    <3>1. t.type[d] = Dir
      BY <1>1, <1>2, DirOf
    <3>2. x # d /\ t.ents[x] = NoEntries
      BY <1>1, <2>2, <3>1 DEF OnlyDirs
    <3>3. \A m \in Entries : u.ents[x][m] = t.ents[x][m]
      BY <1>3, <3>2
    <3>4. u.ents[x] \in [Entries -> MaybeInode] /\ t.ents[x] \in [Entries -> MaybeInode]
      BY DEF IsTree
    <3> QED
      BY SMTT(30), <3>2, <3>3, <3>4
  <2> QED
    BY <2>1, <2>2 DEF OnlyDirs
<1>8. \A x \in Inode : x # i => (Named(u, x) <=> Named(t, x))
  <2>1. \A x, y \in Inode : \A m \in Name : x # i => (u.ents[y][m] = x <=> t.ents[y][m] = x)
    BY SMTT(30), <1>2, <1>5, <1>6
  <2> QED
    BY SMTT(30), <2>1 DEF Named
<1>9. \A x \in Inode : \A m \in Entries : t.ents[x][m] # NoInode => x # i
  BY SMTT(30), <1>1, DirOf
<1>10. ASSUME NEW j \in Inode, NEW x \in Inode, NEW m \in Entries
       PROVE  Counts(t, x, m, j) <=> Counts(u, x, m, j) \/ (j = i /\ x = d /\ m = n)
  <2>1. t.ents[x][m] = j <=> u.ents[x][m] = j \/ (j = i /\ x = d /\ m = n)
    BY SMTT(30), <1>5, <1>6, <1>10
  <2>2. t.ents[x][m] = j => x # i
    BY <1>2, <1>9
  <2> QED
    BY <1>8, <2>1, <2>2 DEF Counts
<1>11. /\ OneMore(u, t, i, d, n)
       /\ \A j \in Inode : j # i => NoMore(t, u, j) /\ NoMore(u, t, j)
  <2>1. ~Counts(u, d, n, i)
    BY <1>2, <1>3 DEF Counts
  <2>2. \A j \in Inode : j # i => NoMore(t, u, j) /\ NoMore(u, t, j)
    BY <1>10 DEF NoMore
  <2> QED
    BY <1>10, <2>1, <2>2 DEF OneMore
<1>12. EnteredOnce(u)
  <2> SUFFICES ASSUME NEW k \in Inode, NEW x \in Inode, NEW m \in Name,
                      u.type[k] = Dir, u.ents[x][m] = k
               PROVE  Once(u, k, x, m)
    BY DEF EnteredOnce
  <2>1. \A l \in Name : u.ents[x][l] = k => t.ents[x][l] = k
    BY SMTT(30), <1>2, <1>5
  <2>2. Once(t, k, x, m)
    BY <1>1, <2>1 DEF EnteredOnce
  <2> QED
    BY <1>4, <2>1, <2>2 DEF Once
<1>13. Forsaken(u, gone)
  <2> SUFFICES ASSUME NEW x \in Inode, NEW m \in Name, Removed(u, x), u.ents[x][m] # NoInode
               PROVE  u.ents[x][m] \in gone
    BY DEF Forsaken
  <2>1. x # i
    <3>1. u.type[x] = Dir
      BY <1>2, <1>7, DirOf
    <3> QED
      BY <3>1
  <2>2. Removed(t, x)
    BY <1>1, <1>7, <1>8, <2>1, RemovedIs
  <2>3. u.ents[x][m] = t.ents[x][m]
    BY <1>2, <1>3
  <2> QED
    BY <1>1, <2>2, <2>3 DEF Forsaken
<1>14. BothTrees(t, u) /\ BothTrees(u, t)
  BY <1>1, <1>7 DEF BothTrees
<1>15. ASSUME NEW j \in Inode
       PROVE  Linked(u, gone, j, Extra(j, due))
  <2>1. /\ Cardinality(Names(t, j)) \in Nat /\ t.nlink[j] \in Int
        /\ Cardinality(Names(u, j)) \in Nat
    BY NamesFinite DEF IsTree
  <2>2. j # i => Cardinality(Names(u, j)) = Cardinality(Names(t, j))
    BY <1>11, <1>14, SameNames
  <2>3. Cardinality(Names(t, i)) = Cardinality(Names(u, i)) + 1
    BY <1>2, <1>11, <1>14, OneName
  <2>4. u.nlink[j] = IF j = i THEN t.nlink[j] - 1 ELSE t.nlink[j]
    BY DEF CountsLess
  <2>5. Slack(u, j, due) = Slack(t, j, due)
    BY SMTT(30), <2>1, <2>2, <2>3, <2>4 DEF Slack, Extra
  <2>6. u.type[j] = Free => u.nlink[j] = 0
    <3>1. /\ Cardinality(Names(t, j)) + Extra(j, due) <= t.nlink[j]
          /\ t.type[j] = Free => t.nlink[j] = 0
      BY TreeFacts
    <3>2. Extra(j, due) \in Nat
      BY SMTT(30) DEF Extra
    <3> QED
      BY SMTT(30), <2>1, <2>3, <2>4, <3>1, <3>2
  <2> QED
    BY <2>5, <2>6, LinkedNow
<1> QED
  BY <1>7, <1>12, <1>13, <1>15 DEF TreeOK

(* sfs_unlink erases the name of an empty directory, and with it the name  *)
(* ".." of the directory it is in.                                         *)
LEMMA EraseDir ==
  ASSUME NEW t, NEW u, NEW gone, NEW due, IsTree(t), IsTree(u), TreeOK(t, gone, due),
         NEW d \in Inode, NEW n \in Name, NEW i \in Inode, t.type[i] = Dir, t.ents[d][n] = i,
         \A m \in Name : t.ents[i][m] = NoInode,
         EntrySet(t, u, d, n, NoInode), u.type = t.type, CountsLess(t, u, {d, i})
  PROVE  TreeOK(u, gone, due)
<1>1. OnlyDirs(t) /\ EnteredOnce(t) /\ Forsaken(t, gone)
  BY DEF TreeOK
<1>2. /\ NoInode \notin Inode /\ Root \in Inode /\ n \in Entries /\ ".." \in Entries
      /\ n # ".." /\ \A m \in Name : m \in Entries /\ m # ".."
  BY TreeAssumption DEF Entries
<1>3. /\ u.ents[d][n] = NoInode
      /\ \A x \in Inode : \A m \in Entries :
           ~(x = d /\ m = n) => u.ents[x][m] = t.ents[x][m]
  BY <1>2 DEF EntrySet
<1>4. i # Root /\ t.ents[i][".."] = d /\ d # i /\ OnlyIn(t, d, n, i)
  <2>1. Once(t, i, d, n) /\ \A x \in Inode : \A m \in Name : t.ents[x][m] = i => Once(t, i, x, m)
    BY SMTT(30), <1>1 DEF EnteredOnce
  <2>2. d # i
    BY SMTT(30), <1>2
  <2> QED
    BY SMTT(30), <2>1, <2>2 DEF Once, OnlyIn
<1>5. \A x \in Inode : u.ents[x][".."] = t.ents[x][".."]
  BY SMTT(30), <1>2, <1>3
<1>6. \A x, j \in Inode : \A m \in Entries : u.ents[x][m] = j => t.ents[x][m] = j
  BY SMTT(30), <1>2, <1>3
<1>7. \A x, j \in Inode : \A m \in Entries :
        t.ents[x][m] = j => u.ents[x][m] = j \/ (j = i /\ x = d /\ m = n)
  BY SMTT(30), <1>2, <1>3
<1>8. OnlyDirs(u)
  <2>1. u.ents[Root][".."] = Root /\ u.type[Root] = Dir
    BY <1>1, <1>2, <1>5 DEF OnlyDirs
  <2>2. ASSUME NEW x \in Inode, u.type[x] # Dir
        PROVE  u.ents[x] = NoEntries
    <3>1. t.type[d] = Dir
      BY <1>1, <1>2, DirOf
    <3>2. x # d /\ t.ents[x] = NoEntries
      BY <1>1, <2>2, <3>1 DEF OnlyDirs
    <3>3. \A m \in Entries : u.ents[x][m] = t.ents[x][m]
      BY <1>3, <3>2
    <3>4. u.ents[x] \in [Entries -> MaybeInode] /\ t.ents[x] \in [Entries -> MaybeInode]
      BY DEF IsTree
    <3> QED
      BY SMTT(30), <3>2, <3>3, <3>4
  <2> QED
    BY <2>1, <2>2 DEF OnlyDirs
<1>9. ~Named(u, i) /\ Named(t, i) /\ \A x \in Inode : x # i => (Named(u, x) <=> Named(t, x))
  <2>1. \A x, y \in Inode : \A m \in Name : x # i => (u.ents[y][m] = x <=> t.ents[y][m] = x)
    BY SMTT(30), <1>2, <1>6, <1>7
  <2>2. \A y \in Inode : \A m \in Name : u.ents[y][m] # i
    <3>1. \A y \in Inode : \A m \in Name : u.ents[y][m] = i => y = d /\ m = n
      BY SMTT(30), <1>2, <1>4, <1>6 DEF OnlyIn
    <3> QED
      BY SMTT(30), <1>2, <1>3, <3>1
  <2> QED
    BY SMTT(30), <2>1, <2>2 DEF Named
<1>10. ASSUME NEW j \in Inode, NEW x \in Inode, NEW m \in Entries
       PROVE  Counts(t, x, m, j) <=> \/ Counts(u, x, m, j)
                                     \/ j = i /\ x = d /\ m = n
                                     \/ j = d /\ x = i /\ m = ".."
  <2>1. t.ents[x][m] = j <=> u.ents[x][m] = j \/ (j = i /\ x = d /\ m = n)
    BY SMTT(30), <1>6, <1>7, <1>10
  <2>2. CASE m \in Name
    BY SMTT(30), <1>2, <2>1, <2>2 DEF Counts
  <2>3. CASE m = ".."
    <3>1. t.ents[x][m] = j <=> u.ents[x][m] = j
      BY SMTT(30), <1>5, <2>3
    <3>2. CASE x = i
      BY SMTT(30), <1>2, <1>4, <1>9, <2>3, <3>1, <3>2 DEF Counts
    <3>3. CASE x # i
      BY SMTT(30), <1>2, <1>9, <2>3, <3>1, <3>3 DEF Counts
    <3> QED
      BY SMTT(30), <3>2, <3>3
  <2> QED
    BY <1>10, <2>2, <2>3 DEF Entries
<1>11. /\ OneMore(u, t, i, d, n) /\ OneMore(u, t, d, i, "..")
       /\ \A j \in Inode : j \notin {d, i} => NoMore(t, u, j) /\ NoMore(u, t, j)
  <2>1. ~Counts(u, d, n, i) /\ ~Counts(u, i, "..", d)
    BY SMTT(30), <1>2, <1>3, <1>4, <1>9 DEF Counts
  <2>2. \A j \in Inode : j \notin {d, i} => NoMore(t, u, j) /\ NoMore(u, t, j)
    BY <1>10 DEF NoMore
  <2>3. OneMore(u, t, i, d, n)
    BY <1>4, <1>10, <2>1 DEF OneMore
  <2>4. OneMore(u, t, d, i, "..")
    BY <1>4, <1>10, <2>1 DEF OneMore
  <2> QED
    BY <2>2, <2>3, <2>4
<1>12. EnteredOnce(u)
  <2> SUFFICES ASSUME NEW k \in Inode, NEW x \in Inode, NEW m \in Name,
                      u.type[k] = Dir, u.ents[x][m] = k
               PROVE  Once(u, k, x, m)
    BY DEF EnteredOnce
  <2>1. \A l \in Name : u.ents[x][l] = k => t.ents[x][l] = k
    BY SMTT(30), <1>2, <1>6
  <2>2. Once(t, k, x, m)
    BY <1>1, <2>1 DEF EnteredOnce
  <2> QED
    BY <1>5, <2>1, <2>2 DEF Once
<1>13. Forsaken(u, gone)
  <2> SUFFICES ASSUME NEW x \in Inode, NEW m \in Name, Removed(u, x), u.ents[x][m] # NoInode
               PROVE  u.ents[x][m] \in gone
    BY DEF Forsaken
  <2>1. u.ents[x][m] = t.ents[x][m]
    BY <1>2, <1>3
  <2>2. x # i
    BY <2>1
  <2>3. Removed(t, x)
    BY <1>1, <1>8, <1>9, <2>2, RemovedIs
  <2> QED
    BY <1>1, <2>1, <2>3 DEF Forsaken
<1>14. BothTrees(t, u) /\ BothTrees(u, t)
  BY <1>1, <1>8 DEF BothTrees
<1>15. ASSUME NEW j \in Inode
       PROVE  Linked(u, gone, j, Extra(j, due))
  <2>1. /\ Cardinality(Names(t, j)) \in Nat /\ t.nlink[j] \in Int
        /\ Cardinality(Names(u, j)) \in Nat
    BY NamesFinite DEF IsTree
  <2>2. j \notin {d, i} => Cardinality(Names(u, j)) = Cardinality(Names(t, j))
    BY <1>11, <1>14, SameNames
  <2>3. Cardinality(Names(t, i)) = Cardinality(Names(u, i)) + 1
    BY <1>2, <1>11, <1>14, OneName
  <2>4. Cardinality(Names(t, d)) = Cardinality(Names(u, d)) + 1
    BY <1>2, <1>11, <1>14, OneName
  <2>5. u.nlink[j] = IF j \in {d, i} THEN t.nlink[j] - 1 ELSE t.nlink[j]
    BY DEF CountsLess
  <2>6. Slack(u, j, due) = Slack(t, j, due)
    BY SMTT(30), <2>1, <2>2, <2>3, <2>4, <2>5 DEF Slack, Extra
  <2>7. u.type[j] = Free => u.nlink[j] = 0
    <3>1. /\ Cardinality(Names(t, j)) + Extra(j, due) <= t.nlink[j]
          /\ t.type[j] = Free => t.nlink[j] = 0
      BY TreeFacts
    <3>2. Extra(j, due) \in Nat
      BY SMTT(30) DEF Extra
    <3> QED
      BY SMTT(30), <2>1, <2>3, <2>4, <2>5, <3>1, <3>2
  <2> QED
    BY <2>6, <2>7, LinkedNow
<1> QED
  BY <1>8, <1>12, <1>13, <1>15 DEF TreeOK

(***************************************************************************)
(* The operations of the cache keep the tree sound.                        *)
(***************************************************************************)
\* An inode that is still referred to in g is as in f.
Kept(f, g) ==
  \A x \in Inode : g.ref[x] = 0 \/ (g.type[x] = f.type[x] /\ g.ents[x] = f.ents[x])

(* A cached tree is a tree.                                                *)
LEMMA CacheTree ==
  ASSUME NEW f \in Caches
  PROVE  IsTree(f)
BY CacheParts DEF IsTree

(* What has the same inodes is as sound.                                   *)
LEMMA SameTree ==
  ASSUME NEW t, NEW u, IsTree(t), u.type = t.type, u.nlink = t.nlink, u.ents = t.ents,
         NEW gone, NEW now, gone \subseteq now, NEW due, TreeOK(t, gone, due)
  PROVE  TreeOK(u, now, due)
<1>1. IsTree(u) /\ SameEntries(t, u)
  BY DEF IsTree, SameEntries
<1>2. \A j \in Inode : u.nlink[j] - Extra(j, due) = t.nlink[j] - Extra(j, due)
  OBVIOUS
<1>3. \A j \in Inode : t.type[j] = Free => u.nlink[j] = 0
  BY TreeFacts
<1> QED
  BY <1>1, <1>2, <1>3, CountedTree

(* sfs_idup and sfs_iget.                                                  *)
LEMMA IdupTree ==
  ASSUME NEW f \in Caches, NEW i \in Inode, NEW g, g = idup(f, i),
         NEW gone, NEW due, TreeOK(f, gone, due)
  PROVE  TreeOK(g, gone, due) /\ Kept(f, g)
<1>1. g.type = f.type /\ g.nlink = f.nlink /\ g.ents = f.ents
  BY ZenonT(30), IdupFacts
<1>2. TreeOK(g, gone, due)
  BY <1>1, CacheTree, SameTree
<1> QED
  BY <1>1, <1>2 DEF Kept

(* sfs_iput, which frees the inode with its last reference if it has no    *)
(* name.                                                                   *)
LEMMA IputTree ==
  ASSUME NEW f \in Caches, NEW i \in Inode, f.ref[i] > 0, NEW g, g = iput(f, i),
         NEW gone, NEW due, TreeOK(f, gone, due)
  PROVE  TreeOK(g, gone, due) /\ Kept(f, g)
<1>1. g \in Caches /\ IsTree(f) /\ IsTree(g)
  BY IputFacts, CacheTree
<1>2. /\ f.ref \in [Inode -> Nat] /\ f.nlink \in [Inode -> Int]
      /\ f.type \in [Inode -> {Free, Dir, File}] /\ f.ents \in [Inode -> [Entries -> MaybeInode]]
  BY CacheParts
<1>3. CASE Frees(f, i)
  <2>1. PICK t, e, r : /\ t = [f.type EXCEPT ![i] = Free] /\ e = [f.ents EXCEPT ![i] = NoEntries]
                       /\ r = [f.ref EXCEPT ![i] = 0]
    OBVIOUS
  <2>2. g = [type |-> t, nlink |-> f.nlink, ents |-> e, ref |-> r]
    BY <1>3, <2>1 DEF iput, Caches
  <2>3. g.type = t /\ g.nlink = f.nlink /\ g.ents = e /\ g.ref = r
    BY SMTT(30), <2>2
  <2>4. Freed(f, g, i)
    BY <2>1, <2>3 DEF Freed
  <2>5. f.nlink[i] <= 0
    BY SMTT(30), <1>2, <1>3 DEF Frees
  <2>6. TreeOK(g, gone, due)
    BY <1>1, <2>4, <2>5, FreedTree
  <2>7. g.ref[i] = 0
    BY SMTT(30), <1>2, <2>1, <2>3
  <2>8. \A x \in Inode : x # i => g.type[x] = f.type[x] /\ g.ents[x] = f.ents[x]
    BY <1>2, <2>1, <2>3
  <2> QED
    BY <2>6, <2>7, <2>8 DEF Kept
<1>4. CASE ~Frees(f, i)
  <2>1. g = [type |-> f.type, nlink |-> f.nlink, ents |-> f.ents, ref |-> [f.ref EXCEPT ![i] = @ - 1]]
    BY <1>4 DEF iput, Caches
  <2>2. g.type = f.type /\ g.nlink = f.nlink /\ g.ents = f.ents
    BY SMTT(30), <2>1
  <2>3. TreeOK(g, gone, due)
    BY <1>1, <2>2, SameTree
  <2> QED
    BY <2>2, <2>3 DEF Kept
<1> QED
  BY <1>3, <1>4

(* Two references put.                                                     *)
LEMMA IputTwice ==
  ASSUME NEW f \in Caches, NEW i \in Inode, NEW k \in Inode, f.ref[i] > 0, f.ref[k] > 0,
         i = k => f.ref[i] > 1, NEW g, g = iput(iput(f, i), k),
         NEW gone, NEW due, TreeOK(f, gone, due)
  PROVE  TreeOK(g, gone, due) /\ Kept(f, g)
<1>1. PICK h : h = iput(f, i)
  OBVIOUS
<1>2. f.ref \in [Inode -> Nat]
  BY CacheParts
<1>3. h \in Caches /\ h.ref = [f.ref EXCEPT ![i] = @ - 1] /\ TreeOK(h, gone, due) /\ Kept(f, h)
  BY <1>1, IputFacts, IputTree
<1>4. h.ref[k] > 0
  BY SMTT(30), <1>2, <1>3
<1>5. g \in Caches /\ g.ref = [h.ref EXCEPT ![k] = @ - 1] /\ TreeOK(g, gone, due) /\ Kept(h, g)
  <2>1. g = iput(h, k) /\ h \in Caches /\ h.ref[k] > 0 /\ TreeOK(h, gone, due)
    BY <1>1, <1>3, <1>4
  <2>2. g \in Caches /\ g.ref = [h.ref EXCEPT ![k] = @ - 1]
    BY <2>1, IputFacts
  <2>3. TreeOK(g, gone, due) /\ Kept(h, g)
    BY <2>1, IputTree
  <2> QED
    BY <2>2, <2>3
<1>6. \A x \in Inode : h.ref[x] = 0 => g.ref[x] = 0
  <2>1. h.ref \in [Inode -> Nat]
    BY <1>3, CacheParts
  <2> QED
    BY SMTT(30), <1>4, <1>5, <2>1
<1> QED
  BY <1>3, <1>5, <1>6 DEF Kept

(* sys_link counts a name before it enters it.                             *)
LEMMA LinkIncTree ==
  ASSUME NEW f \in Caches, NEW i \in Inode, f.ref[i] > 0, NEW g, g = link_inc(f, i),
         f.type[i] # Free, NEW gone, TreeOK(f, gone, NoInode)
  PROVE  TreeOK(g, gone, i) /\ g.type = f.type /\ g.ents = f.ents
<1>1. /\ IsTree(f) /\ g \in Caches /\ IsTree(g) /\ g.type = f.type /\ g.ents = f.ents
  BY CacheTree, LinkFacts
<1>2. f.nlink \in [Inode -> Int] /\ NoInode \notin Inode
  BY CacheParts, TreeAssumption
<1>3. g.nlink = [f.nlink EXCEPT ![i] = @ + 1]
  BY DEF link_inc, Caches
<1>4. \A j \in Inode : g.nlink[j] - Extra(j, i) = f.nlink[j] - Extra(j, NoInode)
  BY SMTT(30), <1>2, <1>3 DEF Extra
<1>5. \A j \in Inode : f.type[j] = Free => g.nlink[j] = 0
  <2>1. \A j \in Inode : f.type[j] = Free => f.nlink[j] = 0
    BY <1>1, TreeFacts
  <2> QED
    BY <1>2, <1>3, <2>1
<1>6. SameEntries(f, g)
  BY <1>1 DEF SameEntries
<1> QED
  BY <1>1, <1>4, <1>5, <1>6, CountedTree

(* It takes the count back if it cannot.                                   *)
LEMMA LinkDecTree ==
  ASSUME NEW f \in Caches, NEW i \in Inode, f.ref[i] > 0, NEW g, g = link_dec(f, i),
         f.type[i] # Free, NEW gone, TreeOK(f, gone, i)
  PROVE  TreeOK(g, gone, NoInode)
<1>1. /\ IsTree(f) /\ g \in Caches /\ IsTree(g) /\ g.type = f.type /\ g.ents = f.ents
  BY CacheTree, LinkFacts
<1>2. f.nlink \in [Inode -> Int] /\ NoInode \notin Inode
  BY CacheParts, TreeAssumption
<1>3. g.nlink = [f.nlink EXCEPT ![i] = @ - 1]
  BY DEF link_dec, Caches
<1>4. \A j \in Inode : g.nlink[j] - Extra(j, NoInode) = f.nlink[j] - Extra(j, i)
  BY SMTT(30), <1>2, <1>3 DEF Extra
<1>5. \A j \in Inode : f.type[j] = Free => g.nlink[j] = 0
  <2>1. \A j \in Inode : f.type[j] = Free => f.nlink[j] = 0
    BY <1>1, TreeFacts
  <2> QED
    BY <1>2, <1>3, <2>1
<1>6. SameEntries(f, g)
  BY <1>1 DEF SameEntries
<1> QED
  BY <1>1, <1>4, <1>5, <1>6, CountedTree

(* sfs_dirlink sets one entry.                                             *)
LEMMA DirlinkSets ==
  ASSUME NEW f \in Caches, NEW d \in Inode, NEW n \in Entries, NEW i \in MaybeInode,
         NEW g, g = dirlink(f, d, n, i)
  PROVE  EntrySet(f, g, d, n, i)
<1>1. f.ents \in [Inode -> [Entries -> MaybeInode]]
  BY CacheParts
<1>2. g.ents = [f.ents EXCEPT ![d] = [f.ents[d] EXCEPT ![n] = i]]
  BY DEF dirlink, Caches
<1> QED
  BY SMTT(30), <1>1, <1>2 DEF EntrySet

(* sys_link enters the name that it has counted.                           *)
LEMMA DirlinkTree ==
  ASSUME NEW f \in Caches, NEW d \in Inode, NEW n \in Name, NEW i \in Inode,
         NEW g, g = dirlink(f, d, n, i), NEW gone, NEW now, TreeOK(f, gone, i),
         f.type[d] = Dir, f.type[i] # Dir, f.ents[d][n] = NoInode,
         gone \subseteq now, Removed(f, d) => i \in now
  PROVE  g \in Caches /\ g.ref = f.ref /\ g.type = f.type /\ TreeOK(g, now, NoInode)
<1>1. n \in Entries /\ i \in MaybeInode
  BY DEF Entries, MaybeInode
<1>2. g \in Caches /\ g.ref = f.ref /\ g.type = f.type /\ g.nlink = f.nlink
  BY SMTT(30), <1>1, EntryFacts
<1>3. IsTree(f) /\ IsTree(g) /\ EntrySet(f, g, d, n, i)
  BY <1>1, <1>2, CacheTree, DirlinkSets
<1> QED
  BY <1>2, <1>3, EnterTree

(* A count goes down by one.                                               *)
LEMMA DecOne ==
  ASSUME NEW f \in Caches, NEW i \in Inode, NEW g, g = link_dec(f, i)
  PROVE  \A j \in Inode : g.nlink[j] = IF j = i THEN f.nlink[j] - 1 ELSE f.nlink[j]
<1>1. f.nlink \in [Inode -> Int]
  BY CacheParts
<1>2. g.nlink = [f.nlink EXCEPT ![i] = @ - 1]
  BY DEF link_dec, Caches
<1> QED
  BY <1>1, <1>2

(* sfs_unlink erases the name of a file or of an empty directory.          *)
LEMMA ErasedTree ==
  ASSUME fs \in Caches, NEW d \in Inode, NEW n \in Name, NEW i \in Inode,
         fs.ref[d] > 0, fs.ref[i] > 0, NEW g, g = Erased(d, n, i),
         fs.ents[d][n] = i, fs.type[i] = Dir => isdirempty(i),
         NEW gone, NEW due, TreeOK(fs, gone, due)
  PROVE  TreeOK(g, gone, due)
<1>1. PICK f : f = dirlink(fs, d, n, NoInode)
  OBVIOUS
<1>2. n \in Entries /\ NoInode \in MaybeInode
  BY DEF Entries, MaybeInode
<1>3. /\ f \in Caches /\ f.ref = fs.ref /\ f.type = fs.type /\ f.nlink = fs.nlink
      /\ EntrySet(fs, f, d, n, NoInode)
  <2>1. f \in Caches /\ f.ref = fs.ref /\ f.type = fs.type /\ f.nlink = fs.nlink
    BY SMTT(30), <1>1, <1>2, EntryFacts
  <2> QED
    BY <1>1, <1>2, <2>1, DirlinkSets
<1>4. PICK e : e = link_dec(f, i)
  OBVIOUS
<1>5. e \in Caches /\ e.ref = fs.ref /\ e.type = fs.type /\ e.ents = f.ents
  BY SMTT(30), <1>3, <1>4, LinkFacts
<1>6. \A j \in Inode : e.nlink[j] = IF j = i THEN fs.nlink[j] - 1 ELSE fs.nlink[j]
  BY SMTT(30), <1>3, <1>4, DecOne
<1>7. IsTree(fs) /\ IsTree(e)
  BY <1>5, CacheTree
<1>8. CASE fs.type[i] # Dir
  <2>1. g = e
    BY <1>1, <1>4, <1>8 DEF Erased, dirlink
  <2>2. EntrySet(fs, e, d, n, NoInode)
    BY <1>3, <1>5 DEF EntrySet
  <2>3. CountsLess(fs, e, {i})
    BY SMTT(30), <1>6 DEF CountsLess
  <2> QED
    BY <1>5, <1>7, <1>8, <2>1, <2>2, <2>3, EraseFile
<1>9. CASE fs.type[i] = Dir
  <2>1. g = link_dec(e, d)
    BY <1>1, <1>4, <1>9 DEF Erased, dirlink
  <2>2. g \in Caches /\ g.type = fs.type /\ g.ents = f.ents /\ IsTree(g)
    <3>1. g \in Caches /\ g.type = fs.type /\ g.ents = f.ents
      BY SMTT(30), <1>5, <2>1, LinkFacts
    <3> QED
      BY <3>1, CacheTree
  <2>3. EntrySet(fs, g, d, n, NoInode)
    BY <1>3, <2>2 DEF EntrySet
  <2>4. \A m \in Name : fs.ents[i][m] = NoInode
    BY <1>9 DEF isdirempty
  <2>5. d # i
    BY <2>4, TreeAssumption
  <2>6. \A j \in Inode : g.nlink[j] = IF j = d THEN e.nlink[j] - 1 ELSE e.nlink[j]
    BY SMTT(30), <1>5, <2>1, DecOne
  <2>7. CountsLess(fs, g, {d, i})
    BY SMTT(30), <1>6, <2>5, <2>6 DEF CountsLess
  <2> QED
    BY <1>7, <1>9, <2>2, <2>3, <2>4, <2>7, EraseDir
<1> QED
  BY <1>8, <1>9

(* sfs_ialloc takes a free inode: a file, whose first name is to come.     *)
LEMMA NewTree ==
  ASSUME NEW t, NEW u, NEW gone, IsTree(t), IsTree(u), TreeOK(t, gone, NoInode),
         NEW i \in Inode, t.type[i] = Free, u.type = [t.type EXCEPT ![i] = File],
         u.ents = t.ents, u.nlink = [t.nlink EXCEPT ![i] = 1]
  PROVE  TreeOK(u, gone, i) /\ \A d : Removed(u, d) <=> Removed(t, d)
<1>1. OnlyDirs(t) /\ EnteredOnce(t) /\ Forsaken(t, gone)
  BY DEF TreeOK
<1>2. /\ \A x \in Inode : u.type[x] = Dir <=> t.type[x] = Dir
      /\ \A x \in Inode : u.type[x] = Free <=> t.type[x] = Free /\ x # i
  BY SMTT(30) DEF IsTree, Free, Dir, File
<1>3. \A e : \A E : e \in Inode \X E => e[1] \in Inode
  BY SMTT(30)
<1>4. \A j, E : Entered(u, j, E) = Entered(t, j, E)
  BY <1>2, <1>3 DEF Entered
<1>5. \A d : Removed(u, d) <=> Removed(t, d)
  BY <1>4 DEF Removed
<1>6. \A j : Names(u, j) = Names(t, j)
  BY <1>4, <1>5 DEF Names
<1>7. OnlyDirs(u)
  BY <1>1, <1>2, TreeAssumption DEF OnlyDirs
<1>8. EnteredOnce(u)
  <2>1. \A k, d, n : Once(t, k, d, n) => Once(u, k, d, n)
    BY DEF Once
  <2> QED
    BY <1>1, <1>2, <2>1 DEF EnteredOnce
<1>9. Forsaken(u, gone)
  BY <1>1, <1>5 DEF Forsaken
<1>10. ASSUME NEW j \in Inode
       PROVE  Linked(u, gone, j, Extra(j, i))
  <2>1. /\ Cardinality(Names(t, j)) \in Nat /\ t.nlink \in [Inode -> Int]
        /\ Cardinality(Names(u, j)) = Cardinality(Names(t, j)) /\ j # NoInode
    BY <1>6, NamesFinite, TreeAssumption DEF IsTree
  <2>2. /\ t.type[j] = Free => t.nlink[j] = 0
        /\ Cardinality(Names(t, j)) + Extra(j, NoInode) <= t.nlink[j]
    BY TreeFacts
  <2>3. u.nlink[j] = IF j = i THEN 1 ELSE t.nlink[j]
    BY <2>1
  <2>4. Slack(u, j, i) = Slack(t, j, NoInode)
    BY SMTT(30), <2>1, <2>2, <2>3 DEF Slack, Extra
  <2>5. u.type[j] = Free => u.nlink[j] = 0
    BY <1>2, <2>2, <2>3
  <2> QED
    BY <2>4, <2>5, LinkedNow
<1> QED
  BY <1>5, <1>7, <1>8, <1>9, <1>10 DEF TreeOK

(* sfs_create_inode makes an inode and enters it in d.                     *)
LEMMA MadeTree ==
  ASSUME fs \in Caches, NEW d \in Inode, NEW n \in Name, NEW i \in Inode,
         NEW y \in {File, Dir}, fs.ref[d] > 0, NEW g, g = Made(d, n, i, y),
         fs.type[i] = Free, fs.type[d] = Dir, fs.ents[d][n] = NoInode,
         NEW gone, NEW now, TreeOK(fs, gone, NoInode),
         gone \subseteq now, Removed(fs, d) => i \in now
  PROVE  TreeOK(g, now, NoInode)
<1>1. /\ fs.type \in [Inode -> {Free, Dir, File}] /\ fs.nlink \in [Inode -> Int]
      /\ fs.ents \in [Inode -> [Entries -> MaybeInode]] /\ fs.ref \in [Inode -> Nat]
  BY CacheParts
<1>2. PICK L : L = [fs.nlink EXCEPT ![i] = 1]
  OBVIOUS
<1>3. PICK R : R = [fs.ref EXCEPT ![i] = @ + 1]
  OBVIOUS
<1>4. PICK F, T : F = [fs.type EXCEPT ![i] = File] /\ T = [fs.type EXCEPT ![i] = y]
  OBVIOUS
<1>5. PICK a : a = [type |-> F, nlink |-> L, ents |-> fs.ents, ref |-> R]
  OBVIOUS
<1>6. /\ F \in [Inode -> {Free, Dir, File}] /\ T \in [Inode -> {Free, Dir, File}]
      /\ L \in [Inode -> Int] /\ R \in [Inode -> Nat]
  BY SMTT(30), <1>1, <1>2, <1>3, <1>4
<1>7. /\ a \in Caches /\ a.type = F /\ a.nlink = L /\ a.ents = fs.ents /\ a.ref = R
  BY SMTT(30), <1>1, <1>5, <1>6 DEF Caches
<1>8. IsTree(fs) /\ IsTree(a)
  BY <1>7, CacheTree
<1>9. TreeOK(a, gone, i) /\ (Removed(a, d) <=> Removed(fs, d))
  BY <1>2, <1>4, <1>7, <1>8, NewTree
<1>10. i # d /\ a.type[d] = Dir /\ a.type[i] = File /\ a.ents[d][n] = NoInode
  BY SMTT(30), <1>1, <1>4, <1>7 DEF Free, Dir, File
<1>11. PICK b : b = dirlink(a, d, n, i)
  OBVIOUS
<1>12. b \in Caches /\ b.type = F /\ TreeOK(b, now, NoInode)
  <2>1. a.type[i] # Dir
    BY SMTT(30), <1>10 DEF Dir, File
  <2>2. Removed(a, d) => i \in now
    BY <1>9
  <2>3. b.type = a.type /\ b \in Caches /\ TreeOK(b, now, NoInode)
    BY SMTT(30), <1>7, <1>9, <1>10, <1>11, <2>1, <2>2, DirlinkTree
  <2> QED
    BY <1>7, <2>3
<1>13. n \in Entries /\ i \in MaybeInode /\ d \in MaybeInode /\ ".." \in Entries
  BY DEF Entries, MaybeInode
<1>14. PICK f : f = [fs EXCEPT !.type[i] = y, !.nlink[i] = 1, !.ref[i] = @ + 1]
  OBVIOUS
<1>15. f = [type |-> T, nlink |-> L, ents |-> fs.ents, ref |-> R]
  BY <1>2, <1>3, <1>4, <1>14 DEF Caches
<1>16. f \in Caches /\ f.type = T /\ f.nlink = L /\ f.ents = fs.ents
  BY SMTT(30), <1>1, <1>6, <1>15 DEF Caches
<1>17. CASE y = File
  <2>1. f = a
    BY <1>4, <1>5, <1>15, <1>17
  <2>2. g = b
    BY SMTT(30), <1>11, <1>14, <1>17, <2>1 DEF Made, Dir, File
  <2> QED
    BY <1>12, <2>2
<1>18. CASE y = Dir
  <2>1. PICK e : e = dirlink(f, d, n, i)
    OBVIOUS
  <2>2. PICK h : h = dirlink(e, i, "..", d)
    OBVIOUS
  <2>3. g = link_inc(h, d)
    BY <1>14, <1>18, <2>1, <2>2 DEF Made
  <2>4. /\ e \in Caches /\ e.type = T /\ e.nlink = L
    BY SMTT(30), <1>13, <1>16, <2>1, EntryFacts
  <2>5. /\ h \in Caches /\ h.type = T /\ h.nlink = L
    BY SMTT(30), <1>13, <2>2, <2>4, EntryFacts
  <2>6. /\ g.type = T /\ g.ents = h.ents /\ g.nlink = [L EXCEPT ![d] = @ + 1]
    <3>1. g = [type |-> h.type, nlink |-> [h.nlink EXCEPT ![d] = @ + 1], ents |-> h.ents,
               ref |-> h.ref]
      BY <2>3, <2>5 DEF link_inc, Caches
    <3> QED
      BY SMTT(30), <2>5, <3>1
  <2>7. /\ EntrySet(f, e, d, n, i) /\ EntrySet(e, h, i, "..", d) /\ EntrySet(a, b, d, n, i)
    BY <1>7, <1>11, <1>13, <1>16, <2>1, <2>2, <2>4, DirlinkSets
  <2>8. EntrySet(b, g, i, "..", d)
    BY SMTT(30), <1>7, <1>16, <2>6, <2>7 DEF EntrySet
  <2>9. IsTree(b) /\ IsTree(g)
    <3>1. [L EXCEPT ![d] = @ + 1] \in [Inode -> Int]
      BY SMTT(30), <1>6
    <3>2. h.ents \in [Inode -> [Entries -> MaybeInode]]
      BY <2>5, CacheParts
    <3> QED
      BY <1>6, <1>12, <2>6, <3>1, <3>2, CacheTree DEF IsTree
  <2>10. b.nlink = L
    BY SMTT(30), <1>7, <1>11, <1>13, EntryFacts
  <2>11. b.type[i] = File /\ b.ents[d][n] = i
    BY <1>7, <1>10, <1>12, <1>13, <2>7 DEF EntrySet
  <2>12. OnlyIn(b, d, n, i)
    <3>1. fs.nlink[i] <= 0
      <4>1. fs.nlink[i] = 0
        BY <1>8, TreeFacts
      <4> QED
        BY SMTT(30), <4>1
    <3>2. ~Named(fs, i)
      BY <1>8, <3>1, NoCount
    <3>3. \A m \in Name : m \in Entries
      BY DEF Entries
    <3> QED
      BY SMTT(30), <1>7, <2>7, <3>2, <3>3 DEF OnlyIn, Named, EntrySet
  <2>13. g.type = [b.type EXCEPT ![i] = Dir]
    BY SMTT(30), <1>1, <1>4, <1>12, <1>18, <2>6
  <2>14. g.nlink = [b.nlink EXCEPT ![d] = @ + 1]
    BY <2>6, <2>10
  <2> QED
    BY <1>12, <2>8, <2>9, <2>11, <2>12, <2>13, <2>14, DirTree
<1> QED
  BY <1>17, <1>18

(***************************************************************************)
(* What a step of p has to keep for the trees to stay sound.               *)
(***************************************************************************)
\* What the call of p relies on in the tree.
Mind(p) == (call[p].op = "link2" => log = p) /\ Changing(p)

Whole == TreeOK(fs, lost, Due) /\ TreeOK(disk, lost, NoInode) /\ \A p \in Proc : Mind(p)

\* A panic: the tree and the calls stay.
Frozen ==
  /\ fs'.type = fs.type /\ fs'.nlink = fs.nlink /\ fs'.ents = fs.ents
  /\ Panic /\ UNCHANGED <<log, disk, lost>>

\* p goes to l with the locals c, and does not change the tree itself.
Tame(p, l, c) ==
  /\ pc' = [pc EXCEPT ![p] = l] /\ call' = [call EXCEPT ![p] = c]
  /\ log' = log \/ (log \in {p, NoProc} /\ log' \in {p, NoProc})
  /\ c.op = "link2" <=> call[p].op = "link2"
  /\ c.op = "link2" => c.old = call[p].old /\ log' = log
  /\ l \in {"fillname", "found"} /\ c.op = "unlink" =>
       c.name \in Name /\ fs.ents[c.node][c.name] = c.next
  /\ disk' = disk \/ (disk' = Image(fs') /\ log' = NoProc)

(* After a step the pointers of every process are counted.                 *)
LEMMA RefsNow ==
  ASSUME Sound', NEW p \in Proc, NEW i \in Inode,
         i \in {call'[p].node, call'[p].next, call'[p].old}
  PROVE  fs'.ref[i] # 0
<1>1. fs'.ref[i] = (IF i = Root THEN 1 ELSE 0) + Cardinality(Holders(i)')
  BY DEF Sound, Counted
<1>2. Holders(i)' = Among(Proc, cwd', file', call', i)
  BY DEF Holders, Among, Pointers
<1>3. /\ Cardinality(Holders(i)') = Cardinality(Among(Proc \ {p}, cwd', file', call', i))
                                    + Total(cwd'[p], file'[p], call'[p], i)
      /\ Cardinality(Among(Proc \ {p}, cwd', file', call', i)) \in Nat
  BY <1>2, SplitCount
<1>4. Total(cwd'[p], file'[p], call'[p], i) \in Nat \ {0}
  BY SMTT(30) DEF Total, One
<1> QED
  BY SMTT(30), <1>1, <1>3, <1>4

(* The locals of the other processes stay.                                 *)
LEMMA OthersStay ==
  ASSUME Sound, NEW p \in Proc, NEW q \in Proc, q # p, NEW l, NEW c,
         pc' = [pc EXCEPT ![p] = l], call' = [call EXCEPT ![p] = c]
  PROVE  pc'[q] = pc[q] /\ call'[q] = call[q]
BY DEF Sound

(* What the other processes rely on is kept by a step that keeps the       *)
(* inodes that are referred to, ...                                        *)
LEMMA OthersMind ==
  ASSUME Sound, Sound', Kept(fs, fs'), NEW p \in Proc, NEW q \in Proc, q # p, NEW l, NEW c,
         pc' = [pc EXCEPT ![p] = l], call' = [call EXCEPT ![p] = c],
         log' = log \/ log \in {p, NoProc}, Mind(q)
  PROVE  Mind(q)'
<1>1. pc'[q] = pc[q] /\ call'[q] = call[q]
  BY OthersStay
<1>2. call[q].op = "link2" => log' = q
  BY TreeAssumption DEF Mind
<1>3. /\ call[q].op = "link2" => call[q].old \in Inode
      /\ pc[q] = "fillname" \/ pc[q] = "found" => call[q].node \in Inode
  BY Locals DEF MaybeInode, Placed
<1>4. call[q].op = "link2" => fs'.type[call[q].old] = File
  <2>1. call[q].op = "link2" => fs'.ref[call[q].old] # 0
    BY <1>1, <1>3, RefsNow
  <2> QED
    BY <1>3, <2>1 DEF Mind, Changing, Kept
<1>5. pc[q] \in {"fillname", "found"} /\ call[q].op = "unlink" =>
        call[q].name \in Name /\ fs'.ents[call[q].node][call[q].name] = call[q].next
  <2>1. pc[q] \in {"fillname", "found"} => fs'.ref[call[q].node] # 0
    BY <1>1, <1>3, RefsNow
  <2> QED
    BY <1>3, <2>1 DEF Mind, Changing, Kept
<1> QED
  BY <1>1, <1>2, <1>4, <1>5 DEF Mind, Changing

(* ... and by any step of the process that has the log.                    *)
LEMMA OthersIdle ==
  ASSUME Sound, NEW p \in Proc, NEW q \in Proc, q # p, NEW l, NEW c,
         pc' = [pc EXCEPT ![p] = l], call' = [call EXCEPT ![p] = c],
         log = p, Mind(q)
  PROVE  Mind(q)'
<1>1. pc'[q] = pc[q] /\ call'[q] = call[q]
  BY OthersStay
<1>2. call[q].op # "link2" /\ pc[q] # "fillname" /\ pc[q] # "found"
  BY Locals DEF InTrans
<1> QED
  BY <1>1, <1>2 DEF Mind, Changing

(* A sys_link that has counted a name has the log.                         *)
LEMMA DueFacts ==
  ASSUME NEW p \in Proc
  PROVE  /\ log \in {p, NoProc} /\ call[p].op # "link2" => Due = NoInode
         /\ log = p /\ call[p].op = "link2" => Due = call[p].old
         /\ log' = NoProc => Due' = NoInode
         /\ log' = p => Due' = IF call'[p].op = "link2" THEN call'[p].old ELSE NoInode
<1>1. NoProc \notin Proc
  BY TreeAssumption
<1> QED
  BY <1>1 DEF Due

(* A tame step leaves the count that is due alone.                         *)
LEMMA TameDue ==
  ASSUME Sound, NEW p \in Proc, Mind(p), NEW l, NEW c, Tame(p, l, c)
  PROVE  Due' = Due
<1>1. call'[p] = c /\ \A q \in Proc : q # p => call'[q] = call[q]
  BY DEF Sound, Tame
<1>2. CASE log' = log
  <2>1. CASE log = p
    <3>1. c.op = "link2" <=> call[p].op = "link2"
      BY DEF Tame
    <3>2. c.op = "link2" => c.old = call[p].old
      BY DEF Tame
    <3> QED
      BY <1>1, <1>2, <2>1, <3>1, <3>2, DueFacts
  <2>2. CASE log # p
    BY <1>1, <1>2, <2>2 DEF Due
  <2> QED
    BY <2>1, <2>2
<1>3. CASE log' # log
  <2>1. c.op # "link2" /\ call[p].op # "link2" /\ log \in {p, NoProc} /\ log' \in {p, NoProc}
    BY <1>3 DEF Tame
  <2> QED
    BY <1>1, <2>1, DueFacts
<1> QED
  BY <1>2, <1>3

(* What is committed is as sound as the cached tree.                       *)
LEMMA CommitTree ==
  ASSUME NEW f \in Caches, NEW gone, NEW due, TreeOK(f, gone, due)
  PROVE  TreeOK(Image(f), gone, due)
<1>1. /\ IsTree(f) /\ gone \subseteq gone
      /\ Image(f).type = f.type /\ Image(f).nlink = f.nlink /\ Image(f).ents = f.ents
  BY SMTT(30), CacheTree DEF Image
<1> QED
  BY <1>1, SameTree

(* A panic keeps everything.                                               *)
LEMMA FrozenWhole ==
  ASSUME Whole, fs \in Caches, Frozen
  PROVE  Whole'
<1>1. Due' = Due
  BY DEF Due, Frozen, Panic
<1>2. IsTree(fs) /\ lost \subseteq lost
  BY CacheTree
<1>3. TreeOK(fs', lost, Due)
  BY <1>2, SameTree DEF Whole, Frozen
<1>4. \A q \in Proc : pc'[q] = "panic"
  BY DEF Frozen, Panic
<1>5. \A q \in Proc : Mind(q)'
  BY <1>4 DEF Whole, Frozen, Panic, Mind, Changing
<1> QED
  BY <1>1, <1>3, <1>5 DEF Whole, Frozen

(* A step of p that only takes and puts references.                        *)
LEMMA TameWhole ==
  ASSUME Sound, Sound', Whole, NEW p \in Proc, NEW l, NEW c, Tame(p, l, c), lost' = lost,
         TreeOK(fs', lost, Due), Kept(fs, fs')
  PROVE  Whole'
<1>1. Due' = Due
  BY TameDue DEF Whole
<1>2. TreeOK(disk', lost', NoInode)
  <2>1. CASE disk' = disk
    BY <2>1 DEF Whole
  <2>2. CASE disk' = Image(fs') /\ log' = NoProc
    <3>1. Due = NoInode
      BY <1>1, <2>2, DueFacts
    <3>2. fs' \in Caches
      BY DEF Sound
    <3> QED
      BY <2>2, <3>1, <3>2, CommitTree
  <2> QED
    BY <2>1, <2>2 DEF Tame
<1>3. Mind(p)'
  <2>1. pc'[p] = l /\ call'[p] = c
    BY DEF Sound, Tame
  <2>2. Mind(p)
    BY DEF Whole
  <2>3. /\ c.op = "link2" => c.old \in Inode
        /\ l = "fillname" \/ l = "found" => c.node \in Inode
    BY <2>1 DEF Sound, MaybeInode, Placed, Calls
  <2>4. c.op = "link2" => fs'.type[c.old] = File /\ log' = p
    <3>1. c.op = "link2" => fs'.ref[c.old] # 0
      BY <2>1, <2>3, RefsNow
    <3> QED
      BY <2>2, <2>3, <3>1 DEF Tame, Mind, Changing, Kept
  <2>5. l \in {"fillname", "found"} /\ c.op = "unlink" =>
          c.name \in Name /\ fs'.ents[c.node][c.name] = c.next
    <3>1. l \in {"fillname", "found"} => fs'.ref[c.node] # 0
      BY <2>1, <2>3, RefsNow
    <3> QED
      BY <2>3, <3>1 DEF Tame, Kept
  <2> QED
    BY <2>1, <2>4, <2>5 DEF Mind, Changing
<1>4. ASSUME NEW q \in Proc, q # p
      PROVE  Mind(q)'
  BY <1>4, OthersMind DEF Whole, Tame
<1> QED
  BY <1>1, <1>2, <1>3, <1>4 DEF Whole

(* The last step of a call of the process that has the log.                *)
LEMMA LastWhole ==
  ASSUME Sound, Whole, NEW p \in Proc, log = p, NEW c, Go(p, "idle", c), Commit,
         fs' \in Caches, TreeOK(fs', lost', NoInode)
  PROVE  Whole'
<1>1. /\ pc' = [pc EXCEPT ![p] = "idle"] /\ call' = [call EXCEPT ![p] = NoCall]
      /\ log' = NoProc /\ disk' = Image(fs')
  BY DEF Go, Set, Commit
<1>2. Due' = NoInode
  BY <1>1, DueFacts
<1>3. TreeOK(disk', lost', NoInode)
  BY <1>1, CommitTree
<1>4. Mind(p)'
  <2>1. pc'[p] = "idle" /\ call'[p].op = "none"
    BY <1>1, IdlePlaced DEF Sound
  <2> QED
    BY <2>1 DEF Mind, Changing
<1>5. ASSUME NEW q \in Proc, q # p
      PROVE  Mind(q)'
  BY <1>1, <1>5, OthersIdle DEF Whole
<1> QED
  BY <1>2, <1>3, <1>4, <1>5 DEF Whole

(* The same, where p goes on.                                              *)
LEMMA TameFine ==
  ASSUME Sound, Fine, Whole, NEW p \in Proc, NEW l, l # "panic", NEW c, Tame(p, l, c),
         lost' = lost, TreeOK(fs', lost, Due), Kept(fs, fs')
  PROVE  Whole'
<1>1. pc'[p] = l
  BY DEF Sound, Tame
<1>2. Sound'
  BY <1>1 DEF Fine, Panic
<1> QED
  BY <1>2, TameWhole

(* A call that is not a sys_link returns.                                  *)
LEMMA IdleTame ==
  ASSUME NEW p \in Proc, NEW c, Go(p, "idle", c), call[p].op # "link2",
         \/ log' = log /\ disk' = disk
         \/ log = p /\ Commit
  PROVE  Tame(p, "idle", NoCall)
<1>1. pc' = [pc EXCEPT ![p] = "idle"] /\ call' = [call EXCEPT ![p] = NoCall]
  BY DEF Go, Set
<1>2. NoCall.op = "none"
  BY IdlePlaced
<1> QED
  BY <1>1, <1>2 DEF Tame, Commit

(* p goes on, and commits nothing.                                         *)
LEMMA GoTame ==
  ASSUME NEW p \in Proc, NEW l, l # "idle", l # "fillname", l # "found", NEW c, Go(p, l, c),
         log' = log, disk' = disk,
         \/ c.op = call[p].op /\ c.old = call[p].old
         \/ c.op # "link2" /\ call[p].op # "link2"
  PROVE  Tame(p, l, c)
<1>1. pc' = [pc EXCEPT ![p] = l] /\ call' = [call EXCEPT ![p] = c]
  BY DEF Go, Set
<1> QED
  BY <1>1 DEF Tame

(* Nothing has changed, or only counts, before a reference is put.         *)
LEMMA KeptSame ==
  ASSUME NEW e, NEW f, NEW g, f.type = e.type, f.ents = e.ents, Kept(f, g)
  PROVE  Kept(e, g)
BY DEF Kept

(* The tree stays.                                                         *)
LEMMA KeptAll ==
  ASSUME NEW e
  PROVE  Kept(e, e)
BY DEF Kept

(* PutThen puts the reference, or panics with the tree as it is.           *)
LEMMA PutThenTree ==
  ASSUME Sound, Whole, NEW p \in Proc, NEW i \in Inode, fs.ref[i] > 0, NEW l, NEW c,
         PutThen(p, i, l, c)
  PROVE  \/ fs' = fs /\ Panic /\ log = NoProc
         \/ Go(p, l, c) /\ TreeOK(fs', lost, Due) /\ Kept(fs, fs')
<1>1. CASE Frees(fs, i) /\ log = NoProc
  BY <1>1 DEF PutThen
<1>2. CASE ~(Frees(fs, i) /\ log = NoProc)
  <2>1. fs' = iput(fs, i) /\ Go(p, l, c)
    BY <1>2 DEF PutThen
  <2>2. fs \in Caches /\ TreeOK(fs, lost, Due)
    BY DEF Sound, Whole
  <2>3. TreeOK(fs', lost, Due) /\ Kept(fs, fs')
    BY <2>1, <2>2, IputTree
  <2> QED
    BY <2>1, <2>3
<1> QED
  BY <1>1, <1>2

(* Where PutThen panics.                                                   *)
LEMMA PanicWhole ==
  ASSUME Sound, Whole, Panic, UNCHANGED <<fs, log, disk, lost>>
  PROVE  Whole'
<1>1. fs \in Caches /\ Frozen
  BY DEF Sound, Panic, Frozen
<1> QED
  BY <1>1, FrozenWhole

(* A lookup that fails.                                                    *)
LEMMA FailsWhole ==
  ASSUME Sound, Fine, Whole, NEW p \in Proc, pc[p] = "walk", Fails(p), lost' = lost
  PROVE  Whole'
<1>1. call[p].node \in Inode /\ fs.ref[call[p].node] > 0
  <2>1. call[p].node \in Inode
    BY Locals DEF MaybeInode, Placed
  <2> QED
    BY <2>1, Refs
<1>2. CASE log # p
  <2>1. call[p].op # "link2"
    BY <1>2 DEF Whole, Mind
  <2>2. PutThen(p, call[p].node, "idle", NoCall) /\ log' = log /\ disk' = disk
    BY <1>2 DEF Fails, Uncommitted
  <2>3. CASE fs' = fs /\ Panic
    BY <2>2, <2>3, PanicWhole
  <2>4. CASE Go(p, "idle", NoCall) /\ TreeOK(fs', lost, Due) /\ Kept(fs, fs')
    <3>1. Tame(p, "idle", NoCall)
      BY <2>1, <2>2, <2>4, IdleTame
    <3> QED
      BY <2>4, <3>1, TameFine
  <2> QED
    BY <1>1, <2>2, <2>3, <2>4, PutThenTree
<1>3. CASE log = p /\ call[p].op = "link2"
  <2>1. PICK c : c = [call[p] EXCEPT !.node = NoInode, !.left = 0]
    OBVIOUS
  <2>2. PutThen(p, call[p].node, "undo", c) /\ log' = log /\ disk' = disk
    BY <1>3, <2>1 DEF Fails, Uncommitted
  <2>3. c.op = call[p].op /\ c.old = call[p].old
    BY <2>1, Locals DEF Calls
  <2>4. log # NoProc
    BY <1>3, TreeAssumption
  <2>5. Go(p, "undo", c) /\ TreeOK(fs', lost, Due) /\ Kept(fs, fs')
    BY <1>1, <2>2, <2>4, PutThenTree
  <2>6. Tame(p, "undo", c)
    BY <2>2, <2>3, <2>5, GoTame
  <2> QED
    BY <2>5, <2>6, TameFine
<1>4. CASE log = p /\ call[p].op # "link2"
  <2>1. PutThen(p, call[p].node, "idle", NoCall) /\ Commit
    BY <1>4 DEF Fails
  <2>2. log # NoProc
    BY <1>4, TreeAssumption
  <2>3. Go(p, "idle", NoCall) /\ TreeOK(fs', lost, Due) /\ Kept(fs, fs')
    BY <1>1, <2>1, <2>2, PutThenTree
  <2>4. Tame(p, "idle", NoCall)
    BY <1>4, <2>1, <2>3, IdleTame
  <2> QED
    BY <2>3, <2>4, TameFine
<1> QED
  BY <1>2, <1>3, <1>4

(* A process that starts a lookup has no name due.                         *)
LEMMA CallWhole ==
  ASSUME Sound, Fine, Whole, NEW p \in Proc, NEW o \in {"namei", "unlink", "create"}, Call(p, o)
  PROVE  Whole'
<1>1. PICK start \in {Root, cwd[p]} :
        /\ fs' = idup(fs, start)
        /\ Go(p, "walk", [[NoCall EXCEPT !.op = o] EXCEPT !.node = start, !.left = MaxPath])
  BY DEF Call, Lookup
<1>2. PICK c : c = [[NoCall EXCEPT !.op = o] EXCEPT !.node = start, !.left = MaxPath]
  OBVIOUS
<1>3. c.op = o
  BY SMTT(30), <1>2 DEF NoCall
<1>4. pc[p] = "idle" /\ call[p].op = "none" /\ start \in Inode
  BY Locals, IdlePlaced, TreeAssumption DEF Call, Placed
<1>5. /\ pc' = [pc EXCEPT ![p] = "walk"] /\ call' = [call EXCEPT ![p] = c]
      /\ disk' = disk /\ lost' = lost
      /\ log' = log \/ (log = NoProc /\ log' = p)
  BY <1>1, <1>2 DEF Go, Set, Call
<1>6. Tame(p, "walk", c)
  BY <1>3, <1>4, <1>5 DEF Tame
<1>7. TreeOK(fs', lost, Due) /\ Kept(fs, fs')
  BY <1>1, <1>4, IdupTree DEF Sound, Whole
<1> QED
  BY <1>5, <1>6, <1>7, TameFine

(* A transaction begins.                                                   *)
LEMMA BeginWhole ==
  ASSUME Sound, Fine, Whole, NEW p \in Proc, begin_trans(p)
  PROVE  Whole'
<1>1. /\ pc' = [pc EXCEPT ![p] = "got"] /\ call' = [call EXCEPT ![p] = call[p]]
      /\ disk' = disk /\ lost' = lost /\ fs' = fs
      /\ log = NoProc /\ log' = p
  BY DEF begin_trans, Goto, Go, Set
<1>2. call[p].op # "link2"
  BY <1>1, TreeAssumption DEF Whole, Mind
<1>3. Tame(p, "got", call[p])
  BY <1>1, <1>2 DEF Tame
<1> QED
  BY <1>1, <1>3, KeptAll, TameFine DEF Whole

(* sfs_ilock panics.                                                       *)
LEMMA IlockWhole ==
  ASSUME Sound, Whole, NEW p \in Proc, sfs_ilock(p)
  PROVE  Whole'
BY PanicWhole DEF sfs_ilock

(* sys_link has found the inode.                                           *)
LEMMA LinkOldWhole ==
  ASSUME Sound, Fine, Whole, NEW p \in Proc, LinkOld(p)
  PROVE  Whole'
<1>1. PICK c : c = [call[p] EXCEPT !.op = "link", !.old = call[p].node, !.node = NoInode,
                                   !.left = 0]
  OBVIOUS
<1>2. c.op = "link"
  BY <1>1, Locals DEF Calls
<1>3. /\ Go(p, "begin", c) /\ log' = log /\ disk' = disk /\ lost' = lost /\ fs' = fs
      /\ call[p].op = "namei"
  BY <1>1 DEF LinkOld
<1>4. Tame(p, "begin", c)
  BY <1>2, <1>3, GoTame
<1> QED
  BY <1>3, <1>4, KeptAll, TameFine DEF Whole

(* nameiparent.                                                            *)
LEMMA NameiparentWhole ==
  ASSUME Sound, Fine, Whole, NEW p \in Proc, nameiparent(p)
  PROVE  Whole'
<1>1. pc[p] = "walk" /\ lost' = lost
  BY DEF nameiparent
<1>2. CASE Fails(p)
  BY <1>1, <1>2, FailsWhole
<1>3. CASE /\ Go(p, "begin", [call[p] EXCEPT !.left = 0])
           /\ UNCHANGED fs /\ Uncommitted
  <2>1. PICK c : c = [call[p] EXCEPT !.left = 0]
    OBVIOUS
  <2>2. c.op = call[p].op /\ c.old = call[p].old
    BY <2>1, Locals DEF Calls
  <2>3. Go(p, "begin", c) /\ log' = log /\ disk' = disk /\ fs' = fs
    BY <1>3, <2>1 DEF Uncommitted
  <2>4. Tame(p, "begin", c)
    BY <2>2, <2>3, GoTame
  <2> QED
    BY <1>1, <2>3, <2>4, KeptAll, TameFine DEF Whole
<1> QED
  BY <1>2, <1>3 DEF nameiparent

(* namex goes one directory down.                                          *)
LEMMA NextIpWhole ==
  ASSUME Sound, Fine, Whole, NEW p \in Proc, NEW f \in Caches, NEW j,
         f.type = fs.type, f.nlink = fs.nlink, f.ents = fs.ents, TreeOK(f, lost, Due),
         call[p].node \in Inode, f.ref[call[p].node] > 0,
         Next_ip(p, f, j), UNCHANGED <<log, disk, lost>>
  PROVE  Whole'
<1>1. PICK c : c = [call[p] EXCEPT !.node = j, !.next = NoInode, !.left = @ - 1]
  OBVIOUS
<1>2. c.op = call[p].op /\ c.old = call[p].old
  BY <1>1, Locals DEF Calls
<1>3. CASE fs' = f /\ Panic
  <2>1. fs \in Caches /\ Frozen
    BY <1>3 DEF Sound, Panic, Frozen
  <2> QED
    BY <2>1, FrozenWhole
<1>4. CASE fs' = iput(f, call[p].node) /\ Go(p, "walk", c)
  <2>1. TreeOK(fs', lost, Due) /\ Kept(f, fs')
    BY ZenonT(30), <1>4, IputTree
  <2>2. Kept(fs, fs')
    BY <2>1, KeptSame
  <2>3. Tame(p, "walk", c)
    BY <1>2, <1>4, GoTame
  <2> QED
    BY <2>1, <2>2, <2>3, TameFine
<1> QED
  BY <1>1, <1>3, <1>4 DEF Next_ip

(* sfs_iget counts an inode.                                               *)
LEMMA IgetTree ==
  ASSUME Sound, Whole, NEW i \in Inode, NEW f, f = iget(i)
  PROVE  /\ f \in Caches /\ f.type = fs.type /\ f.nlink = fs.nlink /\ f.ents = fs.ents
         /\ TreeOK(f, lost, Due) /\ Kept(fs, f)
         /\ \A k \in Inode : fs.ref[k] > 0 => f.ref[k] > 0
<1>1. f = idup(fs, i) /\ fs \in Caches /\ TreeOK(fs, lost, Due)
  BY DEF iget, Sound, Whole
<1>2. /\ f \in Caches /\ f.type = fs.type /\ f.nlink = fs.nlink /\ f.ents = fs.ents
      /\ f.ref = [fs.ref EXCEPT ![i] = @ + 1]
  BY SMTT(30), <1>1, IdupFacts
<1>3. fs.ref \in [Inode -> Nat]
  BY <1>1, CacheParts
<1>4. \A k \in Inode : fs.ref[k] > 0 => f.ref[k] > 0
  BY SMTT(30), <1>2, <1>3
<1>5. TreeOK(f, lost, Due) /\ Kept(fs, f)
  BY <1>1, IdupTree
<1> QED
  BY <1>2, <1>4, <1>5

(* An element of the path is looked up.                                    *)
LEMMA DirlookupWhole ==
  ASSUME Sound, Fine, Whole, NEW p \in Proc, NEW n \in Entries, dirlookup(p, n)
  PROVE  Whole'
<1>1. PICK d, i : d = call[p].node /\ i = fs.ents[d][n]
  OBVIOUS
<1>2. pc[p] = "walk" /\ lost' = lost
  BY DEF dirlookup
<1>3. d \in Inode /\ fs.ref[d] > 0
  <2>1. d \in Inode
    BY <1>1, <1>2, Locals DEF MaybeInode, Placed
  <2> QED
    BY <1>1, <2>1, Refs
<1>4. CASE Fails(p)
  BY <1>2, <1>4, FailsWhole
<1>5. i # NoInode => i \in Inode
  <2>1. fs.ents \in [Inode -> [Entries -> MaybeInode]]
    BY CacheParts DEF Sound
  <2> QED
    BY <1>1, <1>3, <2>1 DEF MaybeInode
<1>6. CASE i # NoInode /\ Next_ip(p, iget(i), i) /\ Uncommitted
  <2>1. PICK f : f = iget(i)
    OBVIOUS
  <2>2. /\ f \in Caches /\ f.type = fs.type /\ f.nlink = fs.nlink /\ f.ents = fs.ents
        /\ TreeOK(f, lost, Due) /\ f.ref[d] > 0
    BY <1>3, <1>5, <1>6, <2>1, IgetTree
  <2> QED
    BY <1>1, <1>2, <1>3, <1>6, <2>1, <2>2, NextIpWhole DEF Uncommitted
<1>7. CASE /\ i # NoInode /\ fs' = iget(i)
           /\ Go(p, "fill", [call[p] EXCEPT !.next = i])
           /\ Uncommitted
  <2>1. PICK c : c = [call[p] EXCEPT !.next = i]
    OBVIOUS
  <2>2. c.op = call[p].op /\ c.old = call[p].old
    BY <2>1, Locals DEF Calls
  <2>3. Go(p, "fill", c) /\ log' = log /\ disk' = disk
    BY <1>7, <2>1 DEF Uncommitted
  <2>4. Tame(p, "fill", c)
    BY <2>2, <2>3, GoTame
  <2>5. TreeOK(fs', lost, Due) /\ Kept(fs, fs')
    BY <1>5, <1>7, IgetTree
  <2> QED
    BY <1>2, <2>4, <2>5, TameFine
<1> QED
  BY <1>1, <1>4, <1>6, <1>7 DEF dirlookup

(* sfs_iget has read the inode.                                            *)
LEMMA FillWhole ==
  ASSUME Sound, Fine, Whole, NEW p \in Proc, Fill(p)
  PROVE  Whole'
<1>1. pc[p] \in {"fill", "fillname"} /\ UNCHANGED <<log, disk, lost>>
  BY DEF Fill
<1>2. CASE pc[p] = "fillname"
  <2>1. /\ pc' = [pc EXCEPT ![p] = "found"] /\ call' = [call EXCEPT ![p] = call[p]] /\ fs' = fs
    BY <1>2 DEF Fill, Goto, Go, Set
  <2>2. Changing(p)
    BY DEF Whole, Mind
  <2>3. Tame(p, "found", call[p])
    BY <1>1, <1>2, <2>1, <2>2 DEF Tame, Changing
  <2> QED
    BY <1>1, <2>1, <2>3, KeptAll, TameFine DEF Whole
<1>3. CASE pc[p] = "fill"
  <2>1. Next_ip(p, fs, call[p].next)
    BY <1>3 DEF Fill
  <2>2. call[p].node \in Inode
    BY <1>3, Locals DEF MaybeInode, Placed
  <2>3. fs.ref[call[p].node] > 0
    BY <2>2, Refs
  <2>4. fs \in Caches /\ TreeOK(fs, lost, Due)
    BY DEF Sound, Whole
  <2> QED
    BY <1>1, <2>1, <2>2, <2>3, <2>4, NextIpWhole
<1> QED
  BY <1>1, <1>2, <1>3

(* The last element is there: sys_unlink remembers under which name.       *)
LEMMA NameFoundWhole ==
  ASSUME Sound, Fine, Whole, NEW p \in Proc, NEW n \in Entries, NameFound(p, n)
  PROVE  Whole'
<1>1. PICK d, i : d = call[p].node /\ i = fs.ents[d][n]
  OBVIOUS
<1>2. PICK c : c = [call[p] EXCEPT !.next = i, !.name = n, !.left = 0]
  OBVIOUS
<1>3. PICK l \in {"found", "fillname"} :
        /\ Go(p, l, c) /\ i # NoInode /\ ~(call[p].op = "unlink" /\ n = "..")
        /\ fs' = iget(i) /\ UNCHANGED <<log, disk, lost>> /\ AtParent(p)
  BY <1>1, <1>2 DEF NameFound
<1>4. call[p].node \in Inode /\ call[p] \in Calls /\ fs \in Caches
  BY <1>3, ParentFacts
<1>5. i \in Inode
  <2>1. fs.ents \in [Inode -> [Entries -> MaybeInode]]
    BY <1>4, CacheParts
  <2> QED
    BY <1>1, <1>3, <1>4, <2>1 DEF MaybeInode
<1>6. /\ c.op = call[p].op /\ c.old = call[p].old /\ c.node = d /\ c.next = i /\ c.name = n
  BY <1>1, <1>2, <1>4 DEF Calls
<1>7. pc' = [pc EXCEPT ![p] = l] /\ call' = [call EXCEPT ![p] = c]
  BY <1>3 DEF Go, Set
<1>8. c.op = "unlink" => c.name \in Name /\ fs.ents[c.node][c.name] = c.next
  BY <1>1, <1>3, <1>6 DEF Entries
<1>9. Tame(p, l, c)
  BY <1>3, <1>6, <1>7, <1>8 DEF Tame
<1>10. TreeOK(fs', lost, Due) /\ Kept(fs, fs')
  BY <1>3, <1>5, IgetTree
<1>11. l # "panic"
  OBVIOUS
<1> QED
  BY <1>3, <1>9, <1>10, <1>11, TameFine

(* A put before the last commit of a call that is not a sys_link.          *)
LEMMA PutLast ==
  ASSUME Sound, Fine, Whole, NEW p \in Proc, log = p, call[p].op # "link2", NEW i \in Inode,
         fs.ref[i] > 0, fs' = iput(fs, i), Commit, NEW c, Go(p, "idle", c), lost' = lost
  PROVE  Whole'
<1>1. TreeOK(fs', lost, Due) /\ Kept(fs, fs')
  BY IputTree DEF Sound, Whole
<1>2. Tame(p, "idle", NoCall)
  BY IdleTame
<1> QED
  BY <1>1, <1>2, TameFine

(* sys_unlink finds no such name.                                          *)
LEMMA UnlinkAbsentWhole ==
  ASSUME Sound, Fine, Whole, NEW p \in Proc, NEW n \in Entries, UnlinkAbsent(p, n)
  PROVE  Whole'
<1>1. /\ AtParent(p) /\ call[p].op = "unlink" /\ fs' = iput(fs, call[p].node) /\ Commit
      /\ Go(p, "idle", call[p]) /\ lost' = lost
  BY DEF UnlinkAbsent, Goto
<1>2. log = p /\ call[p].node \in Inode /\ fs.ref[call[p].node] > 0
  BY <1>1, ParentFacts
<1> QED
  BY <1>1, <1>2, PutLast

(* sys_unlink erases the name, unless it is of a directory with entries.   *)
LEMMA UnlinkFoundWhole ==
  ASSUME Sound, Fine, Whole, NEW p \in Proc, UnlinkFound(p)
  PROVE  Whole'
<1>1. PICK d, i, n : d = call[p].node /\ i = call[p].next /\ n = call[p].name
  OBVIOUS
<1>2. PICK f : f = IF fs.type[i] = Dir /\ ~isdirempty(i) THEN fs ELSE Erased(d, n, i)
  OBVIOUS
<1>3. /\ pc[p] = "found" /\ call[p].op = "unlink" /\ fs' = iput(iput(f, d), i)
      /\ Go(p, "idle", call[p]) /\ Commit /\ lost' = lost
  BY <1>1, <1>2 DEF UnlinkFound, Goto
<1>4. /\ d \in Inode /\ i \in Inode /\ log = p /\ fs.ref[d] > 0 /\ fs.ref[i] > 0
      /\ d = i => fs.ref[d] > 1
      /\ fs \in Caches
  BY <1>1, <1>3, FoundFacts
<1>5. n \in Name /\ n \in Entries /\ fs.ents[d][n] = i
  BY <1>1, <1>3 DEF Whole, Mind, Changing, Entries
<1>6. TreeOK(fs, lost, NoInode)
  <2>1. Due = NoInode
    BY <1>3, <1>4, DueFacts
  <2> QED
    BY <2>1 DEF Whole
<1>7. f \in Caches /\ f.ref = fs.ref /\ TreeOK(f, lost, NoInode)
  <2>1. CASE fs.type[i] = Dir /\ ~isdirempty(i)
    BY <1>2, <1>4, <1>6, <2>1
  <2>2. CASE ~(fs.type[i] = Dir /\ ~isdirempty(i))
    <3>1. f = Erased(d, n, i) /\ (fs.type[i] = Dir => isdirempty(i))
      BY <1>2, <2>2
    <3>2. f \in Caches /\ f.ref = fs.ref
      BY SMTT(30), <1>4, <1>5, <3>1, ErasedFacts
    <3>3. TreeOK(f, lost, NoInode)
      BY <1>4, <1>5, <1>6, <3>1, ErasedTree
    <3> QED
      BY <3>2, <3>3
  <2> QED
    BY <2>1, <2>2
<1>8. TreeOK(fs', lost', NoInode)
  <2>1. f.ref[d] > 0 /\ f.ref[i] > 0 /\ (d = i => f.ref[d] > 1)
    BY <1>4, <1>7
  <2> QED
    BY <1>3, <1>4, <1>7, <2>1, IputTwice
<1> QED
  BY <1>3, <1>4, <1>8, LastWhole DEF Fine

(* What is entered in a removed directory is given up.                     *)
LEMMA GivenUpTree ==
  ASSUME NEW d, NEW i, lost' = GivenUp(d, i)
  PROVE  lost \subseteq lost' /\ (Removed(fs, d) => i \in lost')
BY DEF GivenUp

(* create makes a new inode.                                               *)
LEMMA CreateAbsentWhole ==
  ASSUME Sound, Fine, Whole, NEW p \in Proc, NEW n \in Name, NEW t \in {File, Dir},
         CreateAbsent(p, n, t)
  PROVE  Whole'
<1>1. PICK d : d = call[p].node
  OBVIOUS
<1>2. /\ AtParent(p) /\ call[p].op = "create" /\ fs.ents[d][n] = NoInode
  BY <1>1 DEF CreateAbsent, NameAbsent
<1>3. /\ d \in Inode /\ log = p /\ fs.ref[d] > 0 /\ fs \in Caches /\ fs.type[d] = Dir
      /\ fs.ref \in [Inode -> Nat]
  <2>1. fs.type[d] = Dir
    BY <1>1, <1>2 DEF AtParent
  <2> QED
    BY <1>1, <1>2, <2>1, ParentFacts
<1>4. TreeOK(fs, lost, NoInode)
  <2>1. Due = NoInode
    BY <1>2, <1>3, DueFacts
  <2> QED
    BY <2>1 DEF Whole
<1>5. CASE Panic /\ UNCHANGED <<fs, file, lost>> /\ Uncommitted
  BY <1>5, PanicWhole DEF Uncommitted
<1>6. ASSUME NEW i \in Inode, fs.type[i] = Free, lost' = GivenUp(d, i),
             IF t = File
             THEN Opened(p, iput(Made(d, n, i, File), d), i)
             ELSE fs' = iput(iput(Made(d, n, i, Dir), d), i) /\ UNCHANGED file,
             Goto(p, "idle"), Commit
      PROVE  Whole'
  <2>1. PICK m : m = Made(d, n, i, t)
    OBVIOUS
  <2>2. lost \subseteq lost' /\ (Removed(fs, d) => i \in lost')
    BY <1>6, GivenUpTree
  <2>3. TreeOK(m, lost', NoInode)
    BY SMTT(30), <1>2, <1>3, <1>4, <1>6, <2>1, <2>2, MadeTree
  <2>4. m \in Caches /\ \A k \in Inode : m.ref[k] = fs.ref[k] + One(i, k)
    <3>1. n \in Entries
      BY DEF Entries
    <3> QED
      BY SMTT(30), <1>3, <2>1, <3>1, MadeFacts
  <2>5. PICK g : g = iput(m, d)
    OBVIOUS
  <2>6. d # i
    BY SMTT(30), <1>3, <1>6 DEF Free, Dir
  <2>7. m.ref[d] > 0
    BY SMTT(30), <1>3, <2>4 DEF One
  <2>8. TreeOK(g, lost', NoInode)
    BY <1>3, <2>3, <2>4, <2>5, <2>7, IputTree
  <2>9. g \in Caches /\ \A k \in Inode : g.ref[k] = m.ref[k] - One(d, k)
    BY SMTT(30), <1>3, <2>4, <2>5, <2>7, PutOne
  <2>10. g.ref[i] > 0
    BY SMTT(30), <1>3, <2>4, <2>6, <2>9 DEF One
  <2>11. fs' = g \/ fs' = iput(g, i)
    <3>1. t = File \/ t = Dir
      OBVIOUS
    <3> QED
      BY <1>6, <2>1, <2>5, <3>1 DEF Opened
  <2>12. TreeOK(fs', lost', NoInode)
    BY <2>8, <2>9, <2>10, <2>11, IputTree
  <2> QED
    BY <1>3, <1>6, <2>12, LastWhole DEF Fine, Goto
<1> QED
  BY <1>1, <1>5, <1>6 DEF CreateAbsent

(* create puts dp.                                                         *)
LEMMA CreateFoundWhole ==
  ASSUME Sound, Fine, Whole, NEW p \in Proc, CreateFound(p)
  PROVE  Whole'
<1>1. PICK c : c = [call[p] EXCEPT !.node = call[p].next, !.next = NoInode, !.name = NoName]
  OBVIOUS
<1>2. /\ pc[p] = "found" /\ fs' = iput(fs, call[p].node)
      /\ Go(p, "exists", c) /\ UNCHANGED <<disk, log, lost>>
  BY <1>1 DEF CreateFound
<1>3. call[p] \in Calls /\ call[p].node \in Inode /\ fs.ref[call[p].node] > 0 /\ fs \in Caches
  BY <1>2, FoundFacts
<1>4. c.op = call[p].op /\ c.old = call[p].old
  BY <1>1, <1>3 DEF Calls
<1>5. Tame(p, "exists", c)
  BY <1>2, <1>4, GoTame
<1>6. TreeOK(fs', lost, Due) /\ Kept(fs, fs')
  BY <1>2, <1>3, IputTree DEF Whole
<1> QED
  BY <1>2, <1>5, <1>6, TameFine

(* The inode that exists is opened, or put.                                *)
LEMMA CreateExistsWhole ==
  ASSUME Sound, Fine, Whole, NEW p \in Proc, NEW t \in {File, Dir}, CreateExists(p, t)
  PROVE  Whole'
<1>1. /\ pc[p] = "exists" /\ Go(p, "idle", call[p]) /\ Commit /\ lost' = lost
      /\ fs' = fs \/ fs' = iput(fs, call[p].node)
  BY DEF CreateExists, Goto, Opened
<1>2. call[p].op = "create" /\ log = p /\ call[p].node \in Inode
  BY <1>1, Locals DEF Placed, InTrans, MaybeInode
<1>3. fs.ref[call[p].node] > 0
  BY <1>2, Refs
<1>4. CASE fs' = fs
  <2>1. Tame(p, "idle", NoCall)
    BY <1>1, <1>2, IdleTame
  <2> QED
    BY <1>1, <1>4, <2>1, KeptAll, TameFine DEF Whole
<1>5. CASE fs' = iput(fs, call[p].node)
  BY <1>1, <1>2, <1>3, <1>5, PutLast
<1> QED
  BY <1>1, <1>4, <1>5

(* sys_link counts the new name of a file: it is due from now on.          *)
LEMMA LinkIncWhole ==
  ASSUME Sound, Fine, Whole, NEW p \in Proc, LinkInc(p)
  PROVE  Whole'
<1>1. PICK i : i = call[p].old
  OBVIOUS
<1>2. /\ pc[p] = "got" /\ call[p].op = "link" /\ fs.type[i] # Free /\ lost' = lost
  BY <1>1 DEF LinkInc, CanLock
<1>3. i \in Inode /\ log = p /\ call[p] \in Calls /\ fs \in Caches
  BY <1>1, <1>2, Locals DEF Placed, InTrans, MaybeInode, Sound
<1>4. fs.ref[i] > 0
  BY <1>1, <1>3, Refs
<1>5. CASE fs.type[i] = Dir
  <2>1. fs' = iput(fs, i) /\ Go(p, "idle", call[p]) /\ Commit
    BY <1>1, <1>5 DEF LinkInc, Goto
  <2> QED
    BY <1>2, <1>3, <1>4, <2>1, PutLast
<1>6. CASE fs.type[i] # Dir
  <2>1. PICK f, c : f = link_inc(fs, i) /\ c = [call[p] EXCEPT !.op = "link2"]
    OBVIOUS
  <2>2. Lookup(p, f, c) /\ UNCHANGED <<log, disk>>
    BY <1>1, <1>6, <2>1 DEF LinkInc, Uncommitted
  <2>3. PICK start \in {Root, cwd[p]} :
          fs' = idup(f, start) /\ Go(p, "walk", [c EXCEPT !.node = start, !.left = MaxPath])
    BY <2>2 DEF Lookup
  <2>4. PICK b : b = [c EXCEPT !.node = start, !.left = MaxPath]
    OBVIOUS
  <2>5. b.op = "link2" /\ b.old = i
    BY <1>1, <1>3, <2>1, <2>4 DEF Calls
  <2>6. pc' = [pc EXCEPT ![p] = "walk"] /\ call' = [call EXCEPT ![p] = b]
    BY <2>3, <2>4 DEF Go, Set
  <2>7. pc'[p] = "walk" /\ call'[p] = b
    BY <2>6 DEF Sound
  <2>8. TreeOK(fs, lost, NoInode)
    <3>1. Due = NoInode
      BY <1>2, <1>3, DueFacts
    <3> QED
      BY <3>1 DEF Whole
  <2>9. TreeOK(f, lost, i) /\ f.type = fs.type
    BY <1>2, <1>3, <1>4, <2>1, <2>8, LinkIncTree
  <2>10. f \in Caches
    BY SMTT(30), <1>3, <1>4, <2>1, LinkFacts
  <2>11. start \in Inode
    BY Locals, TreeAssumption
  <2>12. TreeOK(fs', lost, i)
    BY <2>3, <2>9, <2>10, <2>11, IdupTree
  <2>13. fs'.type = f.type
    BY ZenonT(30), <2>3, <2>10, <2>11, IdupFacts
  <2>14. Due' = i
    BY <1>3, <2>2, <2>5, <2>7, DueFacts
  <2>15. Mind(p)'
    <3>1. fs.type[i] = File
      <4>1. fs.type \in [Inode -> {Free, Dir, File}]
        BY <1>3, CacheParts
      <4> QED
        BY <1>2, <1>3, <1>6, <4>1
    <3>2. fs'.type[i] = File
      BY <2>9, <2>13, <3>1
    <3> QED
      BY <1>3, <2>2, <2>5, <2>7, <3>2 DEF Mind, Changing
  <2>16. ASSUME NEW q \in Proc, q # p
         PROVE  Mind(q)'
    BY <1>3, <2>6, <2>16, OthersIdle DEF Whole
  <2>17. TreeOK(disk', lost', NoInode)
    BY <1>2, <2>2 DEF Whole
  <2> QED
    BY <1>2, <2>12, <2>14, <2>15, <2>16, <2>17 DEF Whole
<1> QED
  BY <1>5, <1>6

(* sys_link enters the name that is due.                                   *)
LEMMA LinkAbsentWhole ==
  ASSUME Sound, Fine, Whole, NEW p \in Proc, NEW n \in Name, LinkAbsent(p, n)
  PROVE  Whole'
<1>1. PICK d, i : d = call[p].node /\ i = call[p].old
  OBVIOUS
<1>2. /\ AtParent(p) /\ call[p].op = "link2" /\ fs.ents[d][n] = NoInode
      /\ fs' = iput(iput(dirlink(fs, d, n, i), d), i) /\ lost' = GivenUp(d, i)
      /\ Go(p, "idle", call[p]) /\ Commit
  BY <1>1 DEF LinkAbsent, NameAbsent, Goto
<1>3. /\ d \in Inode /\ i \in Inode /\ log = p /\ fs.ref[d] > 0 /\ fs \in Caches
  BY <1>1, <1>2, ParentFacts DEF MaybeInode
<1>4. fs.ref[i] > 0 /\ (d = i => fs.ref[d] > 1)
  BY <1>1, <1>3, Refs
<1>5. fs.type[d] = Dir /\ fs.type[i] = File
  BY <1>1, <1>2 DEF AtParent, Whole, Mind, Changing
<1>6. TreeOK(fs, lost, i)
  <2>1. Due = i
    BY <1>1, <1>2, <1>3, DueFacts
  <2> QED
    BY <2>1 DEF Whole
<1>7. PICK g : g = dirlink(fs, d, n, i)
  OBVIOUS
<1>8. g \in Caches /\ g.ref = fs.ref /\ TreeOK(g, lost', NoInode)
  <2>1. lost \subseteq lost' /\ (Removed(fs, d) => i \in lost')
    BY <1>2, GivenUpTree
  <2>2. fs.type[i] # Dir
    BY SMTT(30), <1>5 DEF File, Dir
  <2>3. d \in Inode /\ i \in Inode /\ fs \in Caches /\ fs.ents[d][n] = NoInode
    BY <1>2, <1>3
  <2> QED
    BY SMTT(30), <1>5, <1>6, <1>7, <2>1, <2>2, <2>3, DirlinkTree
<1>9. TreeOK(fs', lost', NoInode)
  <2>1. g.ref[d] > 0 /\ g.ref[i] > 0 /\ (d = i => g.ref[d] > 1)
    BY <1>3, <1>4, <1>8
  <2>2. fs' = iput(iput(g, d), i)
    BY <1>2, <1>7
  <2>3. d \in Inode /\ i \in Inode
    BY <1>3
  <2> QED
    BY <1>8, <2>1, <2>2, <2>3, IputTwice
<1> QED
  BY <1>2, <1>3, <1>9, LastWhole DEF Fine

(* The new name exists.                                                    *)
LEMMA LinkFoundWhole ==
  ASSUME Sound, Fine, Whole, NEW p \in Proc, LinkFound(p)
  PROVE  Whole'
<1>1. PICK d, i : d = call[p].node /\ i = call[p].next
  OBVIOUS
<1>2. PICK c : c = [call[p] EXCEPT !.node = NoInode, !.next = NoInode, !.name = NoName]
  OBVIOUS
<1>3. /\ pc[p] = "found" /\ fs' = iput(iput(fs, i), d)
      /\ Go(p, "undo", c) /\ UNCHANGED <<disk, log, lost>>
  BY <1>1, <1>2 DEF LinkFound
<1>4. /\ call[p] \in Calls /\ d \in Inode /\ i \in Inode /\ fs.ref[d] > 0 /\ fs.ref[i] > 0
      /\ i = d => fs.ref[i] > 1
      /\ fs \in Caches
  BY <1>1, <1>3, FoundFacts
<1>5. c.op = call[p].op /\ c.old = call[p].old
  BY <1>2, <1>4 DEF Calls
<1>6. Tame(p, "undo", c)
  BY <1>3, <1>5, GoTame
<1>7. TreeOK(fs', lost, Due) /\ Kept(fs, fs')
  BY <1>3, <1>4, IputTwice DEF Whole
<1> QED
  BY <1>3, <1>6, <1>7, TameFine

(* sys_link at bad: nothing is due any more.                               *)
LEMMA LinkUndoWhole ==
  ASSUME Sound, Fine, Whole, NEW p \in Proc, LinkUndo(p)
  PROVE  Whole'
<1>1. PICK i : i = call[p].old
  OBVIOUS
<1>2. /\ pc[p] = "undo" /\ fs.type[i] # Free /\ lost' = lost
      /\ fs' = iput(link_dec(fs, i), i) /\ Go(p, "idle", call[p]) /\ Commit
  BY <1>1 DEF LinkUndo, Undone, CanLock, Goto
<1>3. call[p].op = "link2" /\ i \in Inode /\ log = p /\ fs \in Caches
  BY <1>1, <1>2, Locals DEF Placed, InTrans, MaybeInode, Sound
<1>4. fs.ref[i] > 0
  BY <1>1, <1>3, Refs
<1>5. TreeOK(fs, lost, i)
  <2>1. Due = i
    BY <1>1, <1>3, DueFacts
  <2> QED
    BY <2>1 DEF Whole
<1>6. PICK f : f = link_dec(fs, i)
  OBVIOUS
<1>7. TreeOK(f, lost, NoInode)
  BY <1>2, <1>3, <1>4, <1>5, <1>6, LinkDecTree
<1>8. f \in Caches /\ f.ref = fs.ref
  BY SMTT(30), <1>3, <1>4, <1>6, LinkFacts
<1>9. TreeOK(fs', lost', NoInode)
  <2>1. f.ref[i] > 0
    BY <1>4, <1>8
  <2>2. fs' = iput(f, i) /\ lost' = lost
    BY <1>2, <1>6
  <2> QED
    BY <1>3, <1>7, <1>8, <2>1, <2>2, IputTree
<1> QED
  BY <1>2, <1>3, <1>9, LastWhole DEF Fine

(* A lookup that returns, and whose inode or old directory is put.         *)
LEMMA PutThenWhole ==
  ASSUME Sound, Fine, Whole, NEW p \in Proc, call[p].op # "link2", NEW i \in Inode,
         fs.ref[i] > 0, PutThen(p, i, "idle", NoCall), UNCHANGED <<disk, log, lost>>
  PROVE  Whole'
<1>1. CASE fs' = fs /\ Panic
  BY <1>1, PanicWhole
<1>2. CASE Go(p, "idle", NoCall) /\ TreeOK(fs', lost, Due) /\ Kept(fs, fs')
  <2>1. Tame(p, "idle", NoCall)
    BY <1>2, IdleTame
  <2> QED
    BY <1>2, <2>1, TameFine
<1> QED
  BY <1>1, <1>2, PutThenTree

(* sys_open of an inode that exists.                                       *)
LEMMA OpenNodeWhole ==
  ASSUME Sound, Fine, Whole, NEW p \in Proc, OpenNode(p)
  PROVE  Whole'
<1>1. pc[p] = "walk" /\ call[p].op = "namei" /\ UNCHANGED <<disk, log, lost>>
  BY DEF OpenNode
<1>2. call[p].node \in Inode /\ fs.ref[call[p].node] > 0
  BY <1>1, NamedFacts
<1>3. CASE Goto(p, "idle") /\ UNCHANGED fs
  <2>1. Tame(p, "idle", NoCall)
    BY <1>1, <1>3, IdleTame DEF Goto
  <2> QED
    BY <1>1, <1>3, <2>1, KeptAll, TameFine DEF Whole
<1>4. CASE PutThen(p, call[p].node, "idle", NoCall)
  BY <1>1, <1>2, <1>4, PutThenWhole
<1> QED
  BY <1>3, <1>4 DEF OpenNode

(* sys_chdir puts the old directory.                                       *)
LEMMA ChdirWhole ==
  ASSUME Sound, Fine, Whole, NEW p \in Proc, chdir(p)
  PROVE  Whole'
<1>1. pc[p] = "walk" /\ call[p].op = "namei" /\ UNCHANGED <<disk, log, lost>>
  BY DEF chdir
<1>2. call[p].node \in Inode /\ fs.ref[call[p].node] > 0
  BY <1>1, NamedFacts
<1>3. cwd[p] \in Inode /\ fs.ref[cwd[p]] > 0
  BY Locals, Refs
<1>4. PutThen(p, call[p].node, "idle", NoCall) \/ PutThen(p, cwd[p], "idle", NoCall)
  BY DEF chdir
<1> QED
  BY <1>1, <1>2, <1>3, <1>4, PutThenWhole

(* A descriptor is closed, in a transaction of its own.                    *)
LEMMA FilecloseWhole ==
  ASSUME Sound, Fine, Whole, NEW p \in Proc, fileclose(p)
  PROVE  Whole'
<1>1. /\ pc[p] = "idle" /\ file[p] # NoInode /\ log = NoProc /\ fs' = iput(fs, file[p])
      /\ disk' = Image(fs') /\ UNCHANGED <<log, pc, call, lost>>
  BY DEF fileclose
<1>2. file[p] \in Inode /\ fs \in Caches
  BY <1>1, Locals DEF MaybeInode, Sound
<1>3. fs.ref[file[p]] > 0
  BY <1>2, Refs
<1>4. TreeOK(fs', lost, Due) /\ Kept(fs, fs')
  BY <1>1, <1>2, <1>3, IputTree DEF Whole
<1>5. pc' = [pc EXCEPT ![p] = "idle"] /\ call' = [call EXCEPT ![p] = call[p]]
  BY SMTT(30), <1>1 DEF Sound
<1>6. call[p].op # "link2"
  BY <1>1, TreeAssumption DEF Whole, Mind
<1>7. Tame(p, "idle", call[p])
  BY <1>1, <1>5, <1>6 DEF Tame
<1> QED
  BY <1>1, <1>4, <1>7, TameFine

(* exit puts the directory: the root is never freed.                       *)
LEMMA ExitWhole ==
  ASSUME Sound, Fine, Whole, NEW p \in Proc, exit(p)
  PROVE  Whole'
<1>1. pc[p] = "idle" /\ UNCHANGED <<disk, log, lost>>
  BY DEF exit
<1>2. CASE Panic /\ UNCHANGED <<fs, cwd>>
  BY <1>1, <1>2, PanicWhole
<1>3. CASE fs' = idup(iput(fs, cwd[p]), Root) /\ Goto(p, "idle")
  <2>1. PICK w, g : w = cwd[p] /\ g = iput(fs, w)
    OBVIOUS
  <2>2. w \in Inode /\ Root \in Inode /\ fs \in Caches /\ fs.ref[w] > 0
    BY <2>1, Locals, Refs, TreeAssumption DEF Sound
  <2>3. TreeOK(g, lost, Due) /\ Kept(fs, g)
    BY <2>1, <2>2, IputTree DEF Whole
  <2>4. g \in Caches
    BY <2>1, <2>2, IputFacts
  <2>5. TreeOK(fs', lost, Due)
    BY ZenonT(30), <1>3, <2>1, <2>2, <2>3, <2>4, IdupTree
  <2>6. /\ fs'.type = g.type /\ fs'.ents = g.ents
        /\ fs'.ref = [g.ref EXCEPT ![Root] = @ + 1]
    BY SMTT(30), <1>3, <2>1, <2>2, <2>4, IdupFacts
  <2>7. g.type[Root] = fs.type[Root] /\ g.ents[Root] = fs.ents[Root]
    <3>1. fs.nlink[Root] # 0
      <4>1. IsTree(fs)
        BY <2>2, CacheTree
      <4>2. fs.nlink[Root] = 0 => fs.nlink[Root] <= 0
        BY SMTT(30)
      <4> QED
        BY <2>2, <4>1, <4>2, NoCount DEF Whole
    <3>2. CASE Frees(fs, w)
      <4>1. w # Root
        BY <3>1, <3>2 DEF Frees
      <4>2. g.type = [fs.type EXCEPT ![w] = Free] /\ g.ents = [fs.ents EXCEPT ![w] = NoEntries]
        BY <2>1, <2>2, <3>2 DEF iput, Caches
      <4> QED
        BY <2>2, <4>1, <4>2, CacheParts
    <3>3. CASE ~Frees(fs, w)
      <4>1. g.type = fs.type /\ g.ents = fs.ents
        BY <2>1, <2>2, <3>3 DEF iput, Caches
      <4> QED
        BY <4>1
    <3> QED
      BY <3>2, <3>3
  <2>8. Kept(fs, fs')
    <3>1. g.ref \in [Inode -> Nat]
      BY <2>4, CacheParts
    <3>2. \A x \in Inode : x # Root => fs'.ref[x] = g.ref[x]
      BY <2>6, <3>1
    <3> QED
      BY <2>3, <2>6, <2>7, <3>2 DEF Kept
  <2>9. call[p].op # "link2"
    BY <1>1, Locals, IdlePlaced DEF Placed
  <2>10. Tame(p, "idle", NoCall)
    BY <1>1, <1>3, <2>9, IdleTame DEF Goto
  <2> QED
    BY <1>1, <2>5, <2>8, <2>10, TameFine
<1> QED
  BY <1>2, <1>3 DEF exit

(***************************************************************************)
(* The types of the other variables.                                       *)
(***************************************************************************)
Framed ==
  /\ busy' \in [Inode -> Proc \cup {NoProc}] /\ log' \in Proc \cup {NoProc}
  /\ cwd' \in [Proc -> MaybeInode] /\ file' \in [Proc -> MaybeInode] /\ lost' \subseteq Inode

(* Their types before a step.                                              *)
LEMMA Typed ==
  ASSUME TypeOK
  PROVE  /\ busy \in [Inode -> Proc \cup {NoProc}] /\ log \in Proc \cup {NoProc}
         /\ cwd \in [Proc -> MaybeInode] /\ file \in [Proc -> MaybeInode] /\ lost \subseteq Inode
BY DEF TypeOK

(* A lock is taken or released.                                            *)
LEMMA BusyTyped ==
  ASSUME TypeOK, NEW p \in Proc, NEW i,
         busy' = busy \/ busy' = Set(busy, i, p) \/ busy' = Set(busy, i, NoProc)
  PROVE  busy' \in [Inode -> Proc \cup {NoProc}]
<1>1. busy \in [Inode -> Proc \cup {NoProc}]
  BY Typed
<1> QED
  BY <1>1 DEF Set

(* A pointer of p is assigned.                                             *)
LEMMA CwdTyped ==
  ASSUME TypeOK, NEW p \in Proc, NEW i \in MaybeInode, cwd' = cwd \/ cwd' = Set(cwd, p, i)
  PROVE  cwd' \in [Proc -> MaybeInode]
<1>1. cwd \in [Proc -> MaybeInode]
  BY Typed
<1> QED
  BY <1>1 DEF Set

(* What a call makes of the open files has their type.                     *)
LEMMA FileTyped ==
  ASSUME TypeOK, NEW p \in Proc, NEW i \in MaybeInode, file' = file \/ file' = Set(file, p, i)
  PROVE  file' \in [Proc -> MaybeInode]
<1>1. file \in [Proc -> MaybeInode]
  BY Typed
<1> QED
  BY <1>1 DEF Set

(* Actions that change none of busy, cwd, file and lost.                   *)
LEMMA PlainFramed ==
  ASSUME TypeOK, NEW p \in Proc, log' \in {log, p, NoProc}, UNCHANGED <<busy, cwd, file, lost>>
  PROVE  Framed
BY Typed DEF Framed

(* A failed lookup commits, or not.                                        *)
LEMMA FailsLog ==
  ASSUME NEW p \in Proc, Fails(p)
  PROVE  log' \in {log, p, NoProc}
<1>1. Uncommitted \/ Commit
  BY DEF Fails
<1> QED
  BY <1>1 DEF Uncommitted, Commit

(* The types of the variables that only the actions themselves change.     *)
LEMMA ProcFramed ==
  ASSUME TypeOK, Sound, NEW p \in Proc, ProcStep(p)
  PROVE  Framed
<1>0. call[p].node \in MaybeInode /\ NoInode \in MaybeInode /\ Root \in MaybeInode
  BY Locals, TreeAssumption DEF MaybeInode
<1>1. CASE \E o \in {"namei", "unlink", "create"} : Call(p, o)
  BY <1>1, PlainFramed DEF Call
<1>2. ASSUME NEW n \in Entries, dirlookup(p, n)
      PROVE  Framed
  <2>1. UNCHANGED <<cwd, file, lost>> /\ (busy' = busy \/ busy' = Set(busy, call[p].node, p))
    BY <1>2 DEF dirlookup
  <2>2. log' \in {log, p, NoProc}
    BY <1>2, FailsLog DEF dirlookup, Uncommitted
  <2> QED
    BY <2>1, <2>2, Typed, BusyTyped DEF Framed
<1>3. ASSUME NEW n \in Entries, NameFound(p, n)
      PROVE  Framed
  <2>1. UNCHANGED <<log, cwd, file, lost>> /\ busy' = Set(busy, call[p].node, p)
    BY <1>3 DEF NameFound
  <2> QED
    BY <2>1, Typed, BusyTyped DEF Framed
<1>4. ASSUME NEW n \in Entries, UnlinkAbsent(p, n)
      PROVE  Framed
  BY <1>4, PlainFramed DEF UnlinkAbsent, Commit
<1>5. ASSUME NEW n \in Name, LinkAbsent(p, n)
      PROVE  Framed
  <2>1. UNCHANGED <<busy, cwd, file>> /\ log' = NoProc
    BY <1>5 DEF LinkAbsent, Commit
  <2>2. PICK i : i = call[p].old
    OBVIOUS
  <2>3. lost' = lost \/ lost' = lost \cup {i}
    BY <1>5, <2>2 DEF LinkAbsent, GivenUp
  <2>4. i \in Inode
    BY <1>5, <2>2, ParentFacts DEF LinkAbsent, NameAbsent, MaybeInode
  <2>5. lost' \subseteq Inode
    BY <2>3, <2>4 DEF TypeOK
  <2> QED
    BY <2>1, <2>5, Typed DEF Framed
<1>6. ASSUME NEW t \in {File, Dir}, CreateExists(p, t)
      PROVE  Framed
  <2>1. UNCHANGED <<busy, cwd, lost>> /\ log' = NoProc
    BY <1>6 DEF CreateExists, Commit
  <2>2. file' = file \/ file' = Set(file, p, call[p].node)
    BY <1>6 DEF CreateExists, Opened
  <2> QED
    BY <1>0, <2>1, <2>2, Typed, FileTyped DEF Framed
<1>7. ASSUME NEW t \in {File, Dir}, NEW n \in Name, CreateAbsent(p, n, t)
      PROVE  Framed
  <2>1. cwd' = cwd /\ log' \in {log, p, NoProc}
    BY <1>7 DEF CreateAbsent, Commit, Uncommitted
  <2>2. busy' = busy \/ busy' = Set(busy, call[p].node, p)
    BY <1>7 DEF CreateAbsent
  <2>3. file' = file \/ \E i \in Inode : file' = Set(file, p, i)
    BY <1>7 DEF CreateAbsent, Opened
  <2>4. lost' = lost \/ \E i \in Inode : lost' = lost \cup {i}
    BY <1>7 DEF CreateAbsent, GivenUp
  <2>5. lost' \subseteq Inode
    BY <2>4 DEF TypeOK
  <2>6. file' \in [Proc -> MaybeInode]
    BY <2>3, Typed, FileTyped DEF MaybeInode
  <2>7. busy' \in [Inode -> Proc \cup {NoProc}]
    BY <2>2, BusyTyped
  <2> QED
    BY <2>1, <2>5, <2>6, <2>7, Typed DEF Framed
<1>8. CASE nameiparent(p)
  <2>1. log' \in {log, p, NoProc}
    BY <1>8, FailsLog DEF nameiparent, Uncommitted
  <2> QED
    BY <1>8, <2>1, PlainFramed DEF nameiparent
<1>9. CASE begin_trans(p) \/ sfs_ilock(p) \/ LinkOld(p)
  BY <1>9, PlainFramed DEF begin_trans, sfs_ilock, LinkOld
<1>10. CASE LinkInc(p) \/ LinkUndo(p)
  BY <1>10, PlainFramed DEF LinkInc, LinkUndo, Commit, Uncommitted
<1>11. CASE Fill(p) \/ CreateFound(p) \/ LinkFound(p)
  <2>1. UNCHANGED <<log, cwd, file, lost>>
    BY <1>11 DEF Fill, CreateFound, LinkFound
  <2>2. busy' = busy \/ busy' = Set(busy, call[p].node, NoProc)
    BY <1>11 DEF Fill, CreateFound, LinkFound
  <2> QED
    BY <2>1, <2>2, Typed, BusyTyped DEF Framed
<1>12. CASE UnlinkFound(p)
  <2>1. UNCHANGED <<cwd, file, lost>> /\ log' = NoProc
    BY <1>12 DEF UnlinkFound, Commit
  <2>2. busy' = Set(busy, call[p].node, NoProc)
    BY <1>12 DEF UnlinkFound
  <2> QED
    BY <2>1, <2>2, Typed, BusyTyped DEF Framed
<1>13. CASE OpenNode(p)
  <2>1. UNCHANGED <<busy, log, cwd, lost>>
    BY <1>13 DEF OpenNode
  <2>2. file' = file \/ file' = Set(file, p, call[p].node)
    BY <1>13 DEF OpenNode
  <2> QED
    BY <1>0, <2>1, <2>2, Typed, FileTyped DEF Framed
<1>14. CASE chdir(p)
  <2>1. UNCHANGED <<busy, log, file, lost>>
    BY <1>14 DEF chdir
  <2>2. cwd' = cwd \/ cwd' = Set(cwd, p, call[p].node)
    BY <1>14 DEF chdir
  <2> QED
    BY <1>0, <2>1, <2>2, Typed, CwdTyped DEF Framed
<1>15. CASE fileclose(p)
  <2>1. UNCHANGED <<busy, log, cwd, lost>> /\ file' = Set(file, p, NoInode)
    BY <1>15 DEF fileclose
  <2> QED
    BY <1>0, <2>1, Typed, FileTyped DEF Framed
<1>16. CASE exit(p)
  <2>1. UNCHANGED <<busy, log, file, lost>> /\ (cwd' = cwd \/ cwd' = Set(cwd, p, Root))
    BY <1>16 DEF exit
  <2> QED
    BY <1>0, <2>1, Typed, CwdTyped DEF Framed
<1> QED
  BY <1>1, <1>2, <1>3, <1>4, <1>5, <1>6, <1>7, <1>8, <1>9, <1>10, <1>11, <1>12, <1>13,
     <1>14, <1>15, <1>16 DEF ProcStep

(***************************************************************************)
(* The invariant of the trees.                                             *)
(***************************************************************************)
(* Every step of a process is one of the lemmas above.                     *)
LEMMA ProcWhole ==
  ASSUME Sound, Whole, NEW p \in Proc, ProcStep(p)
  PROVE  Whole'
<1>0. Fine
  BY ProcFine
<1>1. CASE \E o \in {"namei", "unlink", "create"} : Call(p, o)
  BY <1>0, <1>1, CallWhole
<1>2. CASE \E n \in Entries : dirlookup(p, n) \/ NameFound(p, n) \/ UnlinkAbsent(p, n)
  BY <1>0, <1>2, DirlookupWhole, NameFoundWhole, UnlinkAbsentWhole
<1>3. CASE \E n \in Name : LinkAbsent(p, n)
  BY <1>0, <1>3, LinkAbsentWhole
<1>4. CASE \E t \in {File, Dir} : CreateExists(p, t) \/ \E n \in Name : CreateAbsent(p, n, t)
  BY <1>0, <1>4, CreateExistsWhole, CreateAbsentWhole
<1>5. CASE nameiparent(p) \/ begin_trans(p) \/ sfs_ilock(p) \/ Fill(p) \/ LinkOld(p)
  BY <1>0, <1>5, NameiparentWhole, BeginWhole, IlockWhole, FillWhole, LinkOldWhole
<1>6. CASE UnlinkFound(p) \/ CreateFound(p)
  BY <1>0, <1>6, UnlinkFoundWhole, CreateFoundWhole
<1>7. CASE LinkInc(p) \/ LinkFound(p) \/ LinkUndo(p)
  BY <1>0, <1>7, LinkIncWhole, LinkFoundWhole, LinkUndoWhole
<1>8. CASE OpenNode(p) \/ chdir(p) \/ fileclose(p) \/ exit(p)
  BY <1>0, <1>8, OpenNodeWhole, ChdirWhole, FilecloseWhole, ExitWhole
<1> QED
  BY <1>1, <1>2, <1>3, <1>4, <1>5, <1>6, <1>7, <1>8 DEF ProcStep

(* Exact counts are not negative.                                          *)
LEMMA CountsNat ==
  ASSUME NEW t, IsTree(t), NEW gone, NEW due, TreeOK(t, gone, due)
  PROVE  t.nlink \in [Inode -> Nat]
<1>1. ASSUME NEW i \in Inode
      PROVE  t.nlink[i] \in Nat
  <2>1. /\ t.nlink[i] \in Int /\ Cardinality(Names(t, i)) \in Nat
        /\ Cardinality(Names(t, i)) + Extra(i, due) <= t.nlink[i]
    BY TreeFacts
  <2> QED
    BY SMTT(30), <2>1 DEF Extra
<1>2. t.nlink \in [Inode -> Int]
  BY DEF IsTree
<1> QED
  BY SMTT(30), <1>1, <1>2

(* The types of the trees follow, ...                                      *)
LEMMA TreesTyped ==
  ASSUME NEW f \in Caches, NEW t \in Disks, NEW gone, NEW due, TreeOK(f, gone, due),
         TreeOK(t, gone, NoInode)
  PROVE  /\ [type |-> f.type, nlink |-> f.nlink, ents |-> f.ents] \in Trees
         /\ f.ref \in [Inode -> Nat] /\ t \in Trees
<1>1. IsTree(f) /\ IsTree(t)
  BY SMTT(30), CacheTree DEF Disks, IsTree
<1>2. f.nlink \in [Inode -> Nat] /\ t.nlink \in [Inode -> Nat]
  BY <1>1, CountsNat
<1>3. f.ref \in [Inode -> Nat]
  BY CacheParts
<1>4. [type |-> f.type, nlink |-> f.nlink, ents |-> f.ents] \in Trees
  BY <1>1, <1>2 DEF Trees, IsTree
<1>5. t \in Trees
  BY SMTT(30), <1>2 DEF Trees, Disks
<1> QED
  BY <1>3, <1>4, <1>5

(* ... and with them those of every variable.                              *)
LEMMA StepTyped ==
  ASSUME TypeOK, Fine, Whole', Framed, disk' \in Disks
  PROVE  TypeOK'
<1>1. /\ [type |-> fs'.type, nlink |-> fs'.nlink, ents |-> fs'.ents] \in Trees
      /\ fs'.ref \in [Inode -> Nat] /\ disk' \in Trees
  <2>1. fs' \in Caches
    BY DEF Fine
  <2>2. TreeOK(fs', lost', Due') /\ TreeOK(disk', lost', NoInode)
    BY DEF Whole
  <2> QED
    BY <2>1, <2>2, TreesTyped
<1>2. call' \in [Proc -> Calls]
  BY DEF TypeOK, Fine, Panic, Sound
<1>3. pc' \in [Proc -> {"idle", "begin", "walk", "fill", "got", "fillname", "found", "exists",
                        "undo", "panic"}]
  <2>1. CASE Panic
    BY SMTT(30), <2>1 DEF Panic
  <2>2. CASE Sound'
    BY SMTT(30), <2>2 DEF Sound, Places
  <2> QED
    BY <2>1, <2>2 DEF Fine
<1> QED
  BY <1>1, <1>2, <1>3 DEF TypeOK, Framed

(* A reboot has the tree of the disk.                                      *)
LEMMA CrashTree ==
  ASSUME TypeOK, Whole, PointerInv, Crash
  PROVE  TypeOK' /\ Whole'
<1>1. disk \in Disks
  BY DEF PointerInv
<1>2. /\ fs' \in Caches /\ fs'.type = disk.type /\ fs'.nlink = disk.nlink
      /\ fs'.ents = disk.ents
  <2>1. fs' = [type |-> disk.type, nlink |-> disk.nlink, ents |-> disk.ents, ref |-> Booted]
    BY DEF Crash
  <2>2. fs' \in Caches
    BY <1>1, <2>1, BootCache
  <2> QED
    BY SMTT(30), <2>1, <2>2
<1>3. lost \subseteq lost' /\ lost' \subseteq Inode /\ disk' = disk /\ log' = NoProc
  BY DEF Crash, TypeOK
<1>4. TreeOK(disk', lost', NoInode) /\ TreeOK(fs', lost', NoInode)
  <2>1. IsTree(disk) /\ TreeOK(disk, lost, NoInode)
    BY <1>1 DEF Whole, Disks, IsTree
  <2> QED
    BY <1>2, <1>3, <2>1, SameTree
<1>5. Due' = NoInode
  BY <1>3, TreeAssumption DEF Due
<1>6. \A p \in Proc : pc'[p] = "idle" /\ call'[p].op = "none"
  BY IdlePlaced DEF Crash
<1>7. \A p \in Proc : Mind(p)'
  BY <1>6 DEF Mind, Changing
<1>8. Whole'
  BY <1>4, <1>5, <1>7 DEF Whole
<1>9. /\ [type |-> fs'.type, nlink |-> fs'.nlink, ents |-> fs'.ents] \in Trees
      /\ fs'.ref \in [Inode -> Nat] /\ disk' \in Trees
  BY <1>1, <1>2, <1>3, <1>4, TreesTyped
<1>10. /\ busy' \in [Inode -> Proc \cup {NoProc}] /\ log' \in Proc \cup {NoProc}
       /\ pc' \in [Proc -> {"idle", "begin", "walk", "fill", "got", "fillname", "found", "exists",
                            "undo", "panic"}]
  BY SMTT(30) DEF Crash
<1>11. /\ call' \in [Proc -> Calls] /\ cwd' \in [Proc -> MaybeInode]
       /\ file' \in [Proc -> MaybeInode]
  BY SMTT(30), IdlePlaced, TreeAssumption DEF Crash, MaybeInode
<1> QED
  BY <1>3, <1>8, <1>9, <1>10, <1>11 DEF TypeOK

(* The root that mkfs makes names itself, and nothing else has a name.     *)
LEMMA MkfsTree ==
  ASSUME Init
  PROVE  disk \in Disks /\ TreeOK(disk, lost, NoInode)
<1>1. PICK t : t = disk
  OBVIOUS
<1>2. /\ t.type = [i \in Inode |-> IF i = Root THEN Dir ELSE Free]
      /\ t.nlink = [i \in Inode |-> IF i = Root THEN 1 ELSE 0]
      /\ t.ents = [i \in Inode |-> IF i = Root THEN [NoEntries EXCEPT ![".."] = Root]
                                               ELSE NoEntries]
      /\ t = [type |-> t.type, nlink |-> t.nlink, ents |-> t.ents]
  BY SMTT(30), <1>1 DEF Init
<1>3. /\ Root \in Inode /\ NoInode \notin Inode /\ ".." \in Entries
      /\ \A n \in Name : n \in Entries /\ n # ".."
  BY TreeAssumption DEF Entries
<1>4. NoEntries \in [Entries -> MaybeInode] /\ \A n \in Entries : NoEntries[n] = NoInode
  BY DEF NoEntries, MaybeInode
<1>5. IsTree(t)
  <2>1. [NoEntries EXCEPT ![".."] = Root] \in [Entries -> MaybeInode]
    BY SMTT(30), <1>3, <1>4 DEF MaybeInode
  <2>2. t.ents \in [Inode -> [Entries -> MaybeInode]]
    BY <1>2, <1>4, <2>1
  <2>3. t.type \in [Inode -> {Free, Dir, File}] /\ t.nlink \in [Inode -> Int]
    BY SMTT(30), <1>2
  <2> QED
    BY <2>2, <2>3 DEF IsTree
<1>6. /\ \A i \in Inode : i # Root => t.ents[i] = NoEntries
      /\ \A n \in Entries : t.ents[Root][n] = IF n = ".." THEN Root ELSE NoInode
  <2>1. t.ents[Root] = [NoEntries EXCEPT ![".."] = Root]
    BY <1>2, <1>3
  <2>2. \A i \in Inode : i # Root => t.ents[i] = NoEntries
    BY <1>2
  <2> QED
    BY <1>3, <1>4, <2>1, <2>2
<1>7. \A i \in Inode : \A n \in Name : t.ents[i][n] = NoInode
  BY <1>3, <1>4, <1>6
<1>8. OnlyDirs(t)
  <2>1. t.type[Root] = Dir
    BY <1>2, <1>3
  <2>2. t.ents[Root][".."] = Root
    BY <1>3, <1>6
  <2> QED
    BY <1>6, <2>1, <2>2 DEF OnlyDirs
<1>9. EnteredOnce(t) /\ Forsaken(t, lost)
  BY <1>3, <1>7 DEF EnteredOnce, Forsaken
<1>10. \A x \in Inode, n \in Entries : \A i \in Inode :
         Counts(t, x, n, i) <=> x = Root /\ n = ".." /\ i = Root
  <2>1. \A x \in Inode, n \in Entries : \A i \in Inode :
          t.ents[x][n] = i <=> x = Root /\ n = ".." /\ i = Root
    BY <1>3, <1>4, <1>6
  <2> QED
    BY <2>1 DEF Counts
<1>11. ASSUME NEW i \in Inode
       PROVE  Linked(t, lost, i, Extra(i, NoInode))
  <2>1. Extra(i, NoInode) = 0
    BY <1>3 DEF Extra
  <2>2. Names(t, i) = Counting(t, i)
    BY <1>5, <1>8, NamesAre
  <2>3. CASE i = Root
    <3>1. Counting(t, i) = {<<Root, "..">>}
      BY SMTT(30), <1>3, <1>10, <2>3 DEF Counting
    <3>2. Cardinality(Names(t, i)) = 1
      BY <2>2, <3>1, FS_Singleton
    <3>3. t.nlink[i] = 1 /\ t.type[i] = Dir
      BY <1>2, <2>3
    <3> QED
      BY SMTT(30), <2>1, <3>2, <3>3 DEF Linked, Dir, Free
  <2>4. CASE i # Root
    <3>1. Cardinality(Names(t, i)) = 0
      BY <1>5, <1>8, <1>10, <2>4, HasName
    <3>2. t.nlink[i] = 0
      BY <1>2, <2>4
    <3> QED
      BY SMTT(30), <2>1, <3>1, <3>2 DEF Linked
  <2> QED
    BY <2>3, <2>4
<1>12. TreeOK(t, lost, NoInode)
  BY <1>8, <1>9, <1>11 DEF TreeOK
<1>13. t \in Disks
  BY SMTT(30), <1>2, <1>5 DEF Disks, IsTree
<1> QED
  BY <1>1, <1>12, <1>13

(* The first boot.                                                         *)
LEMMA InitTree ==
  ASSUME Init
  PROVE  TypeOK /\ Whole
<1>1. disk \in Disks /\ TreeOK(disk, lost, NoInode) /\ IsTree(disk)
  BY SMTT(30), MkfsTree DEF Disks, IsTree
<1>2. /\ fs \in Caches /\ fs.type = disk.type /\ fs.nlink = disk.nlink
      /\ fs.ents = disk.ents
  <2>1. fs = [type |-> disk.type, nlink |-> disk.nlink, ents |-> disk.ents, ref |-> Booted]
    BY DEF Init
  <2>2. fs \in Caches
    BY <1>1, <2>1, BootCache
  <2> QED
    BY SMTT(30), <2>1, <2>2
<1>3. log = NoProc /\ lost = {}
  BY DEF Init
<1>4. TreeOK(fs, lost, NoInode)
  <2>1. lost \subseteq lost
    OBVIOUS
  <2> QED
    BY <1>1, <1>2, <2>1, SameTree
<1>5. Due = NoInode
  BY <1>3, TreeAssumption DEF Due
<1>6. \A p \in Proc : pc[p] = "idle" /\ call[p].op = "none"
  BY IdlePlaced DEF Init
<1>7. \A p \in Proc : Mind(p)
  BY <1>6 DEF Mind, Changing
<1>8. Whole
  BY <1>1, <1>4, <1>5, <1>7 DEF Whole
<1>9. /\ [type |-> fs.type, nlink |-> fs.nlink, ents |-> fs.ents] \in Trees
      /\ fs.ref \in [Inode -> Nat] /\ disk \in Trees
  BY <1>1, <1>2, <1>4, TreesTyped
<1>10. /\ busy \in [Inode -> Proc \cup {NoProc}] /\ log \in Proc \cup {NoProc}
       /\ pc \in [Proc -> {"idle", "begin", "walk", "fill", "got", "fillname", "found", "exists",
                           "undo", "panic"}]
  BY SMTT(30) DEF Init
<1>11. /\ call \in [Proc -> Calls] /\ cwd \in [Proc -> MaybeInode]
       /\ file \in [Proc -> MaybeInode]
  BY SMTT(30), IdlePlaced, TreeAssumption DEF Init, MaybeInode
<1> QED
  BY <1>3, <1>8, <1>9, <1>10, <1>11 DEF TypeOK

(* TreeInv is Whole and the types.                                         *)
LEMMA TreeInvIs ==
  TreeInv <=> TypeOK /\ Whole
BY DEF TreeInv, Whole, Mind

(* TreeInv is inductive, given PointerInv.                                 *)
LEMMA TreeStep ==
  ASSUME PointerInv, TypeOK, Whole, [Next]_vars
  PROVE  TypeOK' /\ Whole'
<1>1. ASSUME NEW p \in Proc, ProcStep(p)
      PROVE  TypeOK' /\ Whole'
  <2>1. Sound
    BY <1>1, PanicStops DEF PointerInv
  <2>2. Fine
    BY <1>1, <2>1, ProcFine
  <2>3. Whole'
    BY <1>1, <2>1, ProcWhole
  <2>4. Framed
    BY <1>1, <2>1, ProcFramed
  <2>5. disk' \in Disks
    BY PointerStep DEF PointerInv
  <2> QED
    BY <2>2, <2>3, <2>4, <2>5, StepTyped
<1>2. CASE Crash
  BY <1>2, CrashTree
<1>3. CASE UNCHANGED vars
  <2>1. TypeOK'
    BY <1>3 DEF vars, TypeOK
  <2>2. Due' = Due
    BY <1>3 DEF vars, Due
  <2>3. \A p \in Proc : Mind(p)'
    BY <1>3 DEF vars, Whole, Mind, Changing
  <2> QED
    BY <1>3, <2>1, <2>2, <2>3 DEF vars, Whole
<1> QED
  BY <1>1, <1>2, <1>3 DEF Next, ProcStep

(* In every behaviour, with any number of processes, inodes and names, the *)
(* cached tree and the one on the disk are sound, crashes included: only   *)
(* directories have entries, a directory is entered once, in the one that  *)
(* its ".." names, and a link count is the number of names.                *)
THEOREM TreeInvariant == Spec => []TreeInv
<1>1. Init => TypeOK /\ Whole
  BY InitTree
<1>2. PointerInv /\ TypeOK /\ Whole /\ [Next]_vars => TypeOK' /\ Whole'
  BY TreeStep
<1>3. TypeOK /\ Whole => TreeInv
  BY TreeInvIs
<1> QED
  BY <1>1, <1>2, <1>3, PointerInvariant, PTL DEF Spec

(* At most one sys_link has counted a name that it has not entered.        *)
LEMMA PendingIsDue ==
  ASSUME Whole, NEW i \in Inode
  PROVE  Cardinality(Pending(i)) = Extra(i, Due)
<1>1. \A p \in Proc : call[p].op = "link2" => log = p
  BY DEF Whole, Mind
<1>2. NoInode # i
  BY TreeAssumption
<1>3. CASE i = Due
  <2>1. log \in Proc /\ call[log].op = "link2" /\ call[log].old = i
    BY <1>2, <1>3 DEF Due
  <2>2. Pending(i) = {log}
    BY SMTT(30), <1>1, <2>1 DEF Pending
  <2>3. Cardinality(Pending(i)) = 1
    BY <2>2, FS_Singleton
  <2> QED
    BY <1>3, <2>3 DEF Extra
<1>4. CASE i # Due
  <2>1. Pending(i) = {}
    BY <1>1, <1>4 DEF Pending, Due
  <2>2. Cardinality(Pending(i)) = 0
    BY <2>1, FS_EmptySet
  <2> QED
    BY <1>4, <2>2 DEF Extra
<1> QED
  BY <1>3, <1>4

(* Whatever the calls of sysfile.c do between two locks, a link count is   *)
(* the number of names, with the one that a sys_link in progress has       *)
(* counted; that of an inode given up is never too low.                    *)
THEOREM LinksAreExact == Spec => []LinksExact
<1>1. TreeInv => LinksExact
  BY TreeInvIs, PendingIsDue DEF Whole, TreeOK, LinksExact
<1> QED
  BY <1>1, TreeInvariant, PTL

(* Every commit leaves a tree with exact link counts on the disk, and so   *)
(* does every crash.                                                       *)
THEOREM DiskIsExact == Spec => []DiskExact
<1>1. TreeInv => DiskExact
  <2>1. \A i \in Inode : Extra(i, NoInode) = 0
    BY TreeAssumption DEF Extra
  <2> QED
    BY <2>1 DEF TreeInv, TreeOK, DiskExact
<1> QED
  BY <1>1, TreeInvariant, PTL
=============================================================================
