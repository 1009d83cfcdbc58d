---------------------------- MODULE FilesProofs ----------------------------
(***************************************************************************)
(* Proof that f->ref and ip->ref are exact, that an open file stays, that  *)
(* the blocks of files and the bitmap are exact, and that no transaction   *)
(* outgrows the log.                                                       *)
(***************************************************************************)
EXTENDS Files, FiniteSetTheorems, WellFoundedInduction, TLAPS

\* A step is proved by Zenon unless it names another prover.
USE Zenon

(* The slots of the file table, and the descriptors, are finite sets.      *)
LEMMA Finite ==
  /\ IsFiniteSet(File) /\ IsFiniteSet(Fd) /\ IsFiniteSet(Proc) /\ IsFiniteSet(Proc \X Fd)
  /\ 0 \notin File /\ File \subseteq 0..NFILE /\ File \subseteq Nat \ {0}
<1>1. IsFiniteSet(File) /\ IsFiniteSet(Fd)
  BY SMT, FS_Interval, FilesAssumption DEF File, Fd
<1>2. IsFiniteSet(Proc)
  BY FilesAssumption
<1>3. IsFiniteSet(Proc \X Fd)
  BY <1>1, <1>2, FS_Product
<1>4. 0 \notin File /\ File \subseteq 0..NFILE /\ File \subseteq Nat \ {0}
  BY SMT, FilesAssumption DEF File
<1> QED
  BY <1>1, <1>2, <1>3, <1>4

(***************************************************************************)
(* Counting: two sets that differ in one element, and the sets that the    *)
(* counts of file.c and of the inode cache stand for.                      *)
(***************************************************************************)
Is(x, S) == IF x \in S THEN 1 ELSE 0

(* What one element contributes.                                           *)
LEMMA OneElement ==
  ASSUME NEW S, IsFiniteSet(S), NEW x
  PROVE  /\ Cardinality(S) \in Nat /\ Cardinality(S \ {x}) \in Nat
         /\ Cardinality(S) = Cardinality(S \ {x}) + Is(x, S)
<1>1. IsFiniteSet(S \ {x}) /\ Cardinality(S) \in Nat
  BY FS_CardinalityType, FS_RemoveElement
<1>2. Cardinality(S \ {x}) \in Nat
  BY <1>1, FS_CardinalityType
<1>3. Cardinality(S \ {x}) = IF x \in S THEN Cardinality(S) - 1 ELSE Cardinality(S)
  BY FS_RemoveElement
<1> QED
  BY SMT, <1>1, <1>2, <1>3 DEF Is

LEMMA DifferInOne ==
  ASSUME NEW S, NEW T, IsFiniteSet(S), IsFiniteSet(T), NEW x, S \ {x} = T \ {x}
  PROVE  /\ Cardinality(S) \in Nat /\ Cardinality(T) \in Nat
         /\ Cardinality(T) = (Cardinality(S) - Is(x, S)) + Is(x, T)
<1>1. /\ Cardinality(S) \in Nat /\ Cardinality(S \ {x}) \in Nat /\ Cardinality(T) \in Nat
      /\ Cardinality(S) = Cardinality(S \ {x}) + Is(x, S)
      /\ Cardinality(T) = Cardinality(S \ {x}) + Is(x, T)
  BY OneElement
<1> QED
  BY SMT, <1>1 DEF Is

(* An empty count, and a count of two different elements.                  *)
LEMMA FewElements ==
  ASSUME NEW S, IsFiniteSet(S), NEW x \in S
  PROVE  /\ Cardinality(S) \in Nat \ {0}
         /\ \A y \in S : x # y => Cardinality(S) > 1
<1>1. /\ Cardinality(S) \in Nat /\ Cardinality(S \ {x}) \in Nat /\ IsFiniteSet(S \ {x})
      /\ Cardinality(S) = Cardinality(S \ {x}) + Is(x, S)
  BY OneElement, FS_RemoveElement
<1>2. ASSUME NEW y \in S, x # y
      PROVE  Cardinality(S \ {x}) # 0
  <2>1. S \ {x} # {}
    BY <1>2
  <2> QED
    BY <1>1, <2>1, FS_EmptySet
<1> QED
  BY SMT, <1>1, <1>2 DEF Is

Described(o, f) == {x \in Proc \X Fd : o[x[1]][x[2]] = f}
Opens(t, i) == {f \in File : t[f].type = "inode" /\ t[f].i = i}
Puts(c, i) == {p \in Proc : c[p].at = "put" /\ c[p].i = i}

Tables == [Proc -> [Fd -> 0..NFILE]]

(* They are finite.                                                        *)
LEMMA CountsFinite ==
  ASSUME NEW o, NEW t, NEW c, NEW f, NEW i
  PROVE  IsFiniteSet(Described(o, f)) /\ IsFiniteSet(Opens(t, i)) /\ IsFiniteSet(Puts(c, i))
<1>1. /\ Described(o, f) \subseteq Proc \X Fd /\ Opens(t, i) \subseteq File
      /\ Puts(c, i) \subseteq Proc
  BY DEF Described, Opens, Puts
<1> QED
  BY <1>1, Finite, FS_Subset

DescriptorChanged(o, n, p, fd, v) ==
  /\ n \in Tables /\ n[p][fd] = v
  /\ \A q \in Proc, e \in Fd : q # p \/ e # fd => n[q][e] = o[q][e]
  /\ \A f \in File :
       /\ Cardinality(Described(o, f)) \in Nat /\ Cardinality(Described(n, f)) \in Nat
       /\ Cardinality(Described(n, f)) =
            (Cardinality(Described(o, f)) - (IF o[p][fd] = f THEN 1 ELSE 0))
            + (IF v = f THEN 1 ELSE 0)

(* A descriptor gets another value.                                        *)
LEMMA DescriptorSet ==
  ASSUME NEW o \in Tables, NEW p \in Proc, NEW fd \in Fd, NEW v \in 0..NFILE,
         NEW n, n = [o EXCEPT ![p] = [@ EXCEPT ![fd] = v]]
  PROVE  DescriptorChanged(o, n, p, fd, v)
<1>1. n \in Tables /\ n[p][fd] = v
  BY SMT DEF Tables
<1>2. \A q \in Proc, e \in Fd : q # p \/ e # fd => n[q][e] = o[q][e]
  BY SMT DEF Tables
<1>3. ASSUME NEW f \in File
      PROVE  /\ Cardinality(Described(o, f)) \in Nat /\ Cardinality(Described(n, f)) \in Nat
             /\ Cardinality(Described(n, f)) =
                  (Cardinality(Described(o, f)) - (IF o[p][fd] = f THEN 1 ELSE 0))
                  + (IF v = f THEN 1 ELSE 0)
  <2>1. Described(o, f) \ {<<p, fd>>} = Described(n, f) \ {<<p, fd>>}
    BY SMT, <1>2 DEF Described
  <2>2. /\ <<p, fd>> \in Described(o, f) <=> o[p][fd] = f
        /\ <<p, fd>> \in Described(n, f) <=> v = f
    BY SMT, <1>1 DEF Described
  <2>3. /\ Is(<<p, fd>>, Described(o, f)) = IF o[p][fd] = f THEN 1 ELSE 0
        /\ Is(<<p, fd>>, Described(n, f)) = IF v = f THEN 1 ELSE 0
    BY <2>2 DEF Is
  <2>4. /\ Cardinality(Described(o, f)) \in Nat /\ Cardinality(Described(n, f)) \in Nat
        /\ Cardinality(Described(n, f)) =
             (Cardinality(Described(o, f)) - Is(<<p, fd>>, Described(o, f)))
             + Is(<<p, fd>>, Described(n, f))
    BY <2>1, CountsFinite, DifferInOne
  <2> QED
    BY <2>3, <2>4
<1> QED
  BY <1>1, <1>2, <1>3 DEF DescriptorChanged

\* The slot r is open on the inode i.
OpenOn(r, i) == IF r.type = "inode" /\ r.i = i THEN 1 ELSE 0

SlotChanged(t, n, f, r) ==
  /\ n \in [File -> OpenFile] /\ n[f] = r /\ \A g \in File : g # f => n[g] = t[g]
  /\ \A i \in Inum :
       /\ Cardinality(Opens(t, i)) \in Nat /\ Cardinality(Opens(n, i)) \in Nat
       /\ Cardinality(Opens(n, i)) = (Cardinality(Opens(t, i)) - OpenOn(t[f], i)) + OpenOn(r, i)

(* A slot of the file table gets another value.                            *)
LEMMA SlotSet ==
  ASSUME NEW t \in [File -> OpenFile], NEW f \in File, NEW r \in OpenFile,
         NEW n, n = [t EXCEPT ![f] = r]
  PROVE  SlotChanged(t, n, f, r)
<1>1. n \in [File -> OpenFile] /\ n[f] = r /\ \A g \in File : g # f => n[g] = t[g]
  OBVIOUS
<1>2. ASSUME NEW i \in Inum
      PROVE  /\ Cardinality(Opens(t, i)) \in Nat /\ Cardinality(Opens(n, i)) \in Nat

             /\ Cardinality(Opens(n, i)) = (Cardinality(Opens(t, i)) - OpenOn(t[f], i)) + OpenOn(r, i)
  <2>1. Opens(t, i) \ {f} = Opens(n, i) \ {f}
    BY <1>1 DEF Opens
  <2>2. Is(f, Opens(t, i)) = OpenOn(t[f], i) /\ Is(f, Opens(n, i)) = OpenOn(r, i)
    BY <1>1 DEF Is, OpenOn, Opens
  <2>3. /\ Cardinality(Opens(t, i)) \in Nat /\ Cardinality(Opens(n, i)) \in Nat
        /\ Cardinality(Opens(n, i)) =
             (Cardinality(Opens(t, i)) - Is(f, Opens(t, i))) + Is(f, Opens(n, i))
    BY <2>1, CountsFinite, DifferInOne
  <2> QED
    BY <2>2, <2>3
<1> QED
  BY <1>1, <1>2 DEF SlotChanged

\* A process at the place c is about to put the inode i.
PutsOn(c, i) == IF c.at = "put" /\ c.i = i THEN 1 ELSE 0

PlaceChanged(c, n, p, l) ==
  /\ n \in [Proc -> Place] /\ n[p] = l /\ \A q \in Proc : q # p => n[q] = c[q]
  /\ \A i \in Inum :
       /\ Cardinality(Puts(c, i)) \in Nat /\ Cardinality(Puts(n, i)) \in Nat
       /\ Cardinality(Puts(n, i)) = (Cardinality(Puts(c, i)) - PutsOn(c[p], i)) + PutsOn(l, i)

(* A process goes to another place.                                        *)
LEMMA PlaceSet ==
  ASSUME NEW c \in [Proc -> Place], NEW p \in Proc, NEW l \in Place,
         NEW n, n = [c EXCEPT ![p] = l]
  PROVE  PlaceChanged(c, n, p, l)
<1>1. n \in [Proc -> Place] /\ n[p] = l /\ \A q \in Proc : q # p => n[q] = c[q]
  OBVIOUS
<1>2. ASSUME NEW i \in Inum
      PROVE  /\ Cardinality(Puts(c, i)) \in Nat /\ Cardinality(Puts(n, i)) \in Nat
             /\ Cardinality(Puts(n, i)) =
                  (Cardinality(Puts(c, i)) - PutsOn(c[p], i)) + PutsOn(l, i)
  <2>1. Puts(c, i) \ {p} = Puts(n, i) \ {p}
    BY <1>1 DEF Puts
  <2>2. Is(p, Puts(c, i)) = PutsOn(c[p], i) /\ Is(p, Puts(n, i)) = PutsOn(l, i)
    BY <1>1 DEF Is, PutsOn, Puts
  <2>3. /\ Cardinality(Puts(c, i)) \in Nat /\ Cardinality(Puts(n, i)) \in Nat
        /\ Cardinality(Puts(n, i)) =
             (Cardinality(Puts(c, i)) - Is(p, Puts(c, i))) + Is(p, Puts(n, i))
    BY <2>1, CountsFinite, DifferInOne
  <2> QED
    BY <2>2, <2>3
<1> QED
  BY <1>1, <1>2 DEF PlaceChanged

Copied(o, n, p, q) ==
  /\ n \in Tables /\ n[q] = o[p] /\ \A r \in Proc : r # q => n[r] = o[r]
  /\ \A f \in File :
       /\ Cardinality(Described(o, f)) \in Nat
       /\ Cardinality({fd \in Fd : o[p][fd] = f}) \in Nat
       /\ Cardinality(Described(n, f)) =
            Cardinality(Described(o, f)) + Cardinality({fd \in Fd : o[p][fd] = f})

(* fork: q, which had no descriptors, gets a copy of those of p.           *)
LEMMA TableCopied ==
  ASSUME NEW o \in Tables, NEW p \in Proc, NEW q \in Proc, \A fd \in Fd : o[q][fd] = 0,
         NEW n, n = [o EXCEPT ![q] = o[p]]
  PROVE  Copied(o, n, p, q)
<1>1. n \in Tables /\ n[q] = o[p] /\ \A r \in Proc : r # q => n[r] = o[r]
  BY SMT DEF Tables
<1>2. ASSUME NEW f \in File
      PROVE  /\ Cardinality(Described(o, f)) \in Nat
             /\ Cardinality({fd \in Fd : o[p][fd] = f}) \in Nat
             /\ Cardinality(Described(n, f)) =
                  Cardinality(Described(o, f)) + Cardinality({fd \in Fd : o[p][fd] = f})
  <2>1. PICK E : E = {fd \in Fd : o[p][fd] = f}
    OBVIOUS
  <2>2. IsFiniteSet(E) /\ Cardinality(E) \in Nat
    <3>1. E \in SUBSET Fd
      BY <2>1
    <3> QED
      BY <3>1, Finite, FS_Subset, FS_CardinalityType
  <2>3. /\ IsFiniteSet({q} \X E) /\ Cardinality({q} \X E) = Cardinality(E)
    <3>1. IsFiniteSet({q}) /\ Cardinality({q}) = 1
      BY FS_Singleton
    <3>2. IsFiniteSet({q} \X E) /\ Cardinality({q} \X E) = Cardinality({q}) * Cardinality(E)
      BY <2>2, <3>1, FS_Product
    <3> QED
      BY SMT, <2>2, <3>1, <3>2
  <2>4. q # p \/ E = {}
    BY SMT, <2>1, Finite
  <2>5. Described(n, f) = Described(o, f) \cup ({q} \X E)
    BY SMT, <1>1, <2>1, <2>4, Finite DEF Described
  <2>6. Described(o, f) \cap ({q} \X E) = {}
    BY SMT, Finite DEF Described
  <2>7. IsFiniteSet(Described(o, f)) /\ Cardinality(Described(o, f)) \in Nat
    BY CountsFinite, FS_CardinalityType
  <2>8. Cardinality(Described(n, f)) =
          Cardinality(Described(o, f)) + Cardinality({q} \X E) - Cardinality({})
    <3>1. Cardinality(Described(o, f) \cup ({q} \X E)) =
            Cardinality(Described(o, f)) + Cardinality({q} \X E)
              - Cardinality(Described(o, f) \cap ({q} \X E))
      BY <2>3, <2>7, FS_Union
    <3> QED
      BY <2>5, <2>6, <3>1
  <2>9. Cardinality({}) = 0
    BY FS_EmptySet
  <2> QED
    BY SMT, <2>1, <2>2, <2>3, <2>7, <2>8, <2>9
<1> QED
  BY <1>1, <1>2 DEF Copied

(***************************************************************************)
(* The invariant taken apart and put together again.                       *)
(***************************************************************************)
Good == Shapes /\ Placed /\ Coherent /\ OpenLive /\ FilesCounted /\ InodesCounted

\* The same counts, of a file table t, descriptors o, inode counts r, places c.
RefsOf(t, o) == \A f \in File : /\ t[f].ref = Cardinality(Described(o, f))
                                /\ t[f].ref = 0 <=> t[f].type = "none"
UsesOf(r, t, c) ==
  \A i \in Inum : r[i] = Cardinality(Opens(t, i)) + Cardinality(Puts(c, i))

(* What holds in a state of a kernel that has not panicked.                *)
LEMMA GoodFacts ==
  ASSUME Good
  PROVE  /\ ftable \in [File -> OpenFile] /\ ofile \in Tables
         /\ pc \in [Proc -> Place] /\ iref \in [Inum -> Nat] /\ ino = [i \in Inum |-> ino[i]]
         /\ RefsOf(ftable, ofile)
         /\ UsesOf(iref, ftable, pc)
BY DEF Good, Shapes, Tables, FilesCounted, InodesCounted, Descriptors, OpenFiles,
             Putters, Described, Opens, Puts, RefsOf, UsesOf

(* The same after a step.                                                  *)
LEMMA GoodNext ==
  ASSUME Shapes', RefsOf(ftable', ofile'), UsesOf(iref', ftable', pc'),
         Placed', Coherent', OpenLive'
  PROVE  Good'
<1>1. FilesCounted'
  BY DEF FilesCounted, Descriptors, Described, RefsOf
<1>2. InodesCounted'
  BY DEF InodesCounted, OpenFiles, Putters, Opens, Puts, UsesOf
<1> QED
  BY <1>1, <1>2 DEF Good

\* The size of an open file does not shrink.
Grow == \A i \in Inum : Opens(ftable, i) # {} => vol'.dino[i].size >= vol.dino[i].size

\* What every step keeps.
Fine ==
  /\ Volume' /\ Grow
  /\ Good' \/ (fault' # None /\ UNCHANGED <<vol, ftable>>)

(* A step that leaves the volume alone.                                    *)
LEMMA SameVolume ==
  ASSUME Volume, UNCHANGED vol
  PROVE  Volume' /\ Grow
<1>1. \A i \in Inum : vol.dino[i].size \in Nat
  BY DEF Volume
<1>2. Grow
  BY SMT, <1>1 DEF Grow
<1> QED
  BY <1>2 DEF Volume

(* What a process relies on stays, when another one takes a step that      *)
(* leaves the descriptors of the others, and the files they write, alone.  *)
LEMMA PlacedNext ==
  ASSUME Good, NEW p \in Proc,
         \A q \in Proc : q # p => pc'[q] = pc[q] /\ ofile'[q] = ofile[q],
         \A q \in Proc : q # p /\ pc[q].at = "write" /\ pc[q].f \in File
                         /\ ftable[pc[q].f].type = "inode" => ftable'[pc[q].f].type = "inode",
         pc'[p].at = "put" => pc'[p].i \in Inum,
         pc'[p].at = "dead" => \A fd \in Fd : ofile'[p][fd] = 0,
         pc'[p].at = "write" => /\ pc'[p].f \in File /\ ftable'[pc'[p].f].type = "inode"
                                /\ \E fd \in Fd : ofile'[p][fd] = pc'[p].f
  PROVE  Placed'
<1> SUFFICES ASSUME NEW q \in Proc, q # p
             PROVE  /\ pc'[q].at = "put" => pc'[q].i \in Inum
                    /\ pc'[q].at = "dead" => \A fd \in Fd : ofile'[q][fd] = 0
                    /\ pc'[q].at = "write" => /\ pc'[q].f \in File
                                              /\ ftable'[pc'[q].f].type = "inode"
                                              /\ \E fd \in Fd : ofile'[q][fd] = pc'[q].f
  BY DEF Placed
<1>1. pc'[q] = pc[q] /\ ofile'[q] = ofile[q]
  OBVIOUS
<1>2. /\ pc[q].at = "put" => pc[q].i \in Inum
      /\ pc[q].at = "dead" => \A fd \in Fd : ofile[q][fd] = 0
      /\ pc[q].at = "write" => /\ pc[q].f \in File /\ ftable[pc[q].f].type = "inode"
                               /\ \E fd \in Fd : ofile[q][fd] = pc[q].f
  BY DEF Good, Placed
<1> QED
  BY <1>1, <1>2

(* A slot with a descriptor is in use.                                     *)
LEMMA InUse ==
  ASSUME Good, NEW p \in Proc, NEW fd \in Fd, ofile[p][fd] # 0
  PROVE  /\ ofile[p][fd] \in File /\ ftable[ofile[p][fd]] \in OpenFile
         /\ ftable[ofile[p][fd]].ref \in Nat \ {0}
         /\ ftable[ofile[p][fd]].type \in {"inode", "pipe"}
         /\ \A q \in Proc, e \in Fd :
              ofile[q][e] = ofile[p][fd] /\ (q # p \/ e # fd) => ftable[ofile[p][fd]].ref > 1
<1>1. PICK f : f = ofile[p][fd]
  OBVIOUS
<1>2. f \in File
  <2>1. f \in 0..NFILE /\ f # 0
    BY <1>1, GoodFacts DEF Tables
  <2> QED
    BY SMT, <2>1, FilesAssumption DEF File
<1>3. ftable[f] \in OpenFile
  BY <1>2, GoodFacts
<1>4. /\ ftable[f].ref = Cardinality(Described(ofile, f))
      /\ ftable[f].ref = 0 <=> ftable[f].type = "none"
  BY <1>2, GoodFacts DEF RefsOf
<1>5. <<p, fd>> \in Described(ofile, f)
  BY SMT, <1>1 DEF Described
<1>6. ftable[f].ref \in Nat \ {0}
  BY <1>4, <1>5, CountsFinite, FewElements
<1>7. ASSUME NEW q \in Proc, NEW e \in Fd, ofile[q][e] = f, q # p \/ e # fd
      PROVE  ftable[f].ref > 1
  <2>1. <<q, e>> \in Described(ofile, f) /\ <<p, fd>> # <<q, e>>
    BY SMT, <1>7 DEF Described
  <2> QED
    BY <1>4, <1>5, <2>1, CountsFinite, FewElements
<1>8. ftable[f].type \in {"inode", "pipe"}
  BY SMT, <1>3, <1>4, <1>6 DEF OpenFile
<1> QED
  BY <1>1, <1>2, <1>3, <1>6, <1>7, <1>8

(***************************************************************************)
(* sys_open.                                                               *)
(***************************************************************************)
(* The slot and the descriptor that filealloc and fdalloc find become the  *)
(* new open file, the only one that changes.                               *)
LEMMA InstallSound ==
  ASSUME Good, NEW p \in Proc, pc[p].at = "user", NEW i \in Inum,
         NEW rd \in BOOLEAN, NEW wr \in BOOLEAN, ~Full(p), Install(p, i, rd, wr),
         iref' = [iref EXCEPT ![i] = @ + 1], UNCHANGED pc
  PROVE  /\ ftable' \in [File -> OpenFile] /\ ofile' \in Tables /\ iref' \in [Inum -> Nat]
         /\ RefsOf(ftable', ofile')
         /\ UsesOf(iref', ftable', pc')
         /\ Placed'
         /\ \A f \in File : \/ ftable'[f] = ftable[f]
                            \/ ftable'[f].type = "inode" /\ ftable'[f].i = i /\ ftable'[f].off = 0
<1>1. PICK f \in File, fd \in Fd :
        /\ filealloc(f) /\ fdalloc(p, fd)
        /\ ftable' = [ftable EXCEPT ![f] =
                        [ref |-> 1, type |-> "inode", i |-> i, off |-> 0, rd |-> rd, wr |-> wr]]
        /\ ofile' = [ofile EXCEPT ![p] = [@ EXCEPT ![fd] = f]]
  BY DEF Install
<1>2. ftable[f].ref = 0 /\ ftable[f].type = "none" /\ ofile[p][fd] = 0
  BY <1>1, GoodFacts DEF filealloc, fdalloc, IsFirst, FreeFiles, FreeFds, RefsOf
<1>3. PICK r : r = [ref |-> 1, type |-> "inode", i |-> i, off |-> 0, rd |-> rd, wr |-> wr]
  OBVIOUS
<1>4. r \in OpenFile /\ r.ref = 1 /\ r.type = "inode" /\ r.i = i /\ r.off = 0
  BY SMT, <1>3 DEF OpenFile
<1>5. ftable' = [ftable EXCEPT ![f] = r]
  BY <1>1, <1>3
<1>6. SlotChanged(ftable, ftable', f, r)
  <2>1. ftable \in [File -> OpenFile] /\ r \in OpenFile
    BY <1>4, GoodFacts
  <2> QED
    BY <1>5, <2>1, SlotSet
<1>7. f \in 0..NFILE /\ ofile \in Tables
  BY GoodFacts, Finite
<1>8. DescriptorChanged(ofile, ofile', p, fd, f)
  <2>1. ofile' = [ofile EXCEPT ![p] = [@ EXCEPT ![fd] = f]]
    BY <1>1
  <2> QED
    BY <1>7, <2>1, DescriptorSet
<1>9. ASSUME NEW g \in File
      PROVE  /\ ftable'[g].ref = Cardinality(Described(ofile', g))
             /\ ftable'[g].ref = 0 <=> ftable'[g].type = "none"
  <2>1. /\ ftable[g].ref = Cardinality(Described(ofile, g))
        /\ ftable[g].ref = 0 <=> ftable[g].type = "none"
    BY GoodFacts DEF RefsOf
  <2>2. ofile[p][fd] # g
    BY <1>2, Finite
  <2> QED
    BY SMT, <1>2, <1>4, <1>6, <1>8, <2>1, <2>2 DEF SlotChanged, DescriptorChanged
<1>10. \A j \in Inum : OpenOn(ftable[f], j) = 0 /\ OpenOn(r, j) = IF i = j THEN 1 ELSE 0
  BY <1>2, <1>4 DEF OpenOn
<1>11. \A j \in Inum : /\ Cardinality(Puts(pc', j)) = Cardinality(Puts(pc, j))
                       /\ Cardinality(Puts(pc, j)) \in Nat
  BY CountsFinite, FS_CardinalityType
<1>12. /\ iref' \in [Inum -> Nat]
       /\ \A j \in Inum : iref'[j] = iref[j] + (IF i = j THEN 1 ELSE 0)
  BY SMT, GoodFacts
<1>13. UsesOf(iref', ftable', pc')
  <2>1. UsesOf(iref, ftable, pc)
    BY GoodFacts
  <2> QED
    BY SMT, <1>6, <1>10, <1>11, <1>12, <2>1 DEF SlotChanged, UsesOf
<1>14. Placed'
  <2>1. \A q \in Proc : q # p => pc'[q] = pc[q] /\ ofile'[q] = ofile[q]
    BY SMT, <1>1, <1>7 DEF Tables
  <2>2. \A g \in File : ftable[g].type = "inode" => ftable'[g].type = "inode"
    BY SMT, <1>2, <1>6 DEF SlotChanged
  <2>3. pc'[p].at # "put" /\ pc'[p].at # "dead" /\ pc'[p].at # "write"
    BY SMT
  <2> QED
    BY <2>1, <2>2, <2>3, PlacedNext
<1> QED
  BY <1>4, <1>6, <1>8, <1>9, <1>12, <1>13, <1>14 DEF SlotChanged, DescriptorChanged, RefsOf

(* ilock finds, or makes, a copy of what is on the volume.                 *)
LEMMA Locked ==
  ASSUME Volume, Good, NEW i \in Inum
  PROVE  /\ ilock(i).valid
         /\ ilock(i).size = vol.dino[i].size /\ ilock(i).nlink = vol.dino[i].nlink
         /\ ilock(i).live = vol.dino[i].live
<1>1. CASE ino[i].valid
  BY <1>1 DEF Good, Coherent, ilock
<1>2. CASE ~ino[i].valid
  BY SMT, <1>2 DEF ilock, Inode
<1> QED
  BY <1>1, <1>2

(* An inode in memory changes together with the one on the volume.         *)
LEMMA CoherentKept ==
  ASSUME Volume, Good, NEW i \in Inum, NEW ip, ino' = [ino EXCEPT ![i] = ip],
         \A j \in Inum : j # i => vol'.dino[j] = vol.dino[j],
         ip.valid => /\ ip.size = vol'.dino[i].size /\ ip.nlink = vol'.dino[i].nlink
                     /\ ip.live = vol'.dino[i].live
  PROVE  Coherent' /\ ino' = [j \in Inum |-> ino'[j]] /\ \A j \in Inum : j # i => ino'[j] = ino[j]
<1>1. ino = [j \in Inum |-> ino[j]]
  BY GoodFacts
<1>2. /\ ino' = [j \in Inum |-> IF j = i THEN ip ELSE ino[j]]
  BY SMT, <1>1
<1>3. ino'[i] = ip /\ \A j \in Inum : j # i => ino'[j] = ino[j]
  BY <1>2
<1>4. ino' = [j \in Inum |-> ino'[j]]
  BY <1>2
<1>5. Coherent
  BY DEF Good
<1> QED
  <2> SUFFICES ASSUME NEW j \in Inum, ino'[j].valid
               PROVE  /\ ino'[j].size = vol'.dino[j].size /\ ino'[j].nlink = vol'.dino[j].nlink
                      /\ ino'[j].live = vol'.dino[j].live
    BY <1>3, <1>4 DEF Coherent
  <2>1. CASE j = i
    BY <1>3, <2>1
  <2>2. CASE j # i
    BY <1>3, <1>5, <2>2 DEF Coherent
  <2> QED
    BY <2>1, <2>2

(* The bookkeeping that both ways to open a file share: the inode ip in    *)
(* memory, and the slot and the descriptor, or nothing when one is missing.*)
LEMMA OpenedSound ==
  ASSUME Volume, Good, NEW p \in Proc, pc[p].at = "user", NEW i \in Inum, NEW ip,
         NEW rd \in BOOLEAN, NEW wr \in BOOLEAN, Opened(p, i, ip), Install(p, i, rd, wr),
         UNCHANGED pc,
         vol'.dino[i].live, vol'.dino[i].size \in Nat,
         \A j \in Inum : j # i => vol'.dino[j] = vol.dino[j],
         \A f \in File :
           ftable[f].type = "inode" /\ ftable[f].i = i => vol'.dino[i] = vol.dino[i],
         /\ ip.size = vol'.dino[i].size /\ ip.nlink = vol'.dino[i].nlink
         /\ ip.live = vol'.dino[i].live
  PROVE  Good'
<1>1. PICK x : x = IF Full(p) /\ iref[i] = 0 THEN NoInode ELSE ip
  OBVIOUS
<1>2. ~NoInode.valid
  BY SMT DEF NoInode
<1>3. x.valid => /\ x.size = vol'.dino[i].size /\ x.nlink = vol'.dino[i].nlink
                 /\ x.live = vol'.dino[i].live
  BY <1>1, <1>2
<1>4. ino' = [ino EXCEPT ![i] = x]
  BY <1>1 DEF Opened
<1>5. Coherent' /\ ino' = [j \in Inum |-> ino'[j]]
  BY <1>3, <1>4, CoherentKept
<1>6. OpenLive
  BY DEF Good
<1>7. \A f \in File : ftable[f].type = "inode" =>
        /\ ftable[f].i \in Inum /\ vol'.dino[ftable[f].i].live
        /\ ftable[f].off <= vol'.dino[ftable[f].i].size
  BY <1>6 DEF OpenLive
<1>8. CASE Full(p)
  <2>1. UNCHANGED <<ftable, ofile, iref>>
    BY <1>8 DEF Install, Opened
  <2>2. OpenLive'
    BY <1>7, <2>1 DEF OpenLive
  <2>3. Placed'
    BY <2>1 DEF Good, Placed
  <2>4. /\ ftable' \in [File -> OpenFile] /\ ofile' \in Tables /\ pc' \in [Proc -> Place]
        /\ iref' \in [Inum -> Nat]
        /\ RefsOf(ftable', ofile')
        /\ UsesOf(iref', ftable', pc')
    BY <2>1, GoodFacts
  <2>5. Shapes'
    BY <1>5, <2>2, <2>4 DEF Shapes, Tables
  <2> QED
    BY <1>5, <2>2, <2>3, <2>4, <2>5, GoodNext
<1>9. CASE ~Full(p)
  <2>1. iref' = [iref EXCEPT ![i] = @ + 1]
    BY <1>9 DEF Opened
  <2>2. /\ ftable' \in [File -> OpenFile] /\ ofile' \in Tables /\ iref' \in [Inum -> Nat]
        /\ RefsOf(ftable', ofile')
        /\ UsesOf(iref', ftable', pc')
        /\ Placed'
        /\ \A f \in File : \/ ftable'[f] = ftable[f]
                           \/ ftable'[f].type = "inode" /\ ftable'[f].i = i /\ ftable'[f].off = 0
    BY <1>9, <2>1, InstallSound
  <2>3. OpenLive'
    <3>1. 0 <= vol'.dino[i].size
      BY SMT
    <3> QED
      BY <1>7, <2>2, <3>1 DEF OpenLive
  <2>4. pc' \in [Proc -> Place]
    BY GoodFacts
  <2>5. Shapes'
    BY <1>5, <2>2, <2>4 DEF Shapes, Tables
  <2> QED
    BY <1>5, <2>2, <2>3, <2>4, <2>5, GoodNext
<1> QED
  BY <1>8, <1>9

(* One inode of the volume is written, and no open file gets shorter.      *)
LEMMA InodeWritten ==
  ASSUME Volume, NEW i \in Inum, NEW d, NEW b, NEW u,
         vol' = [dino |-> [vol.dino EXCEPT ![i] = d], blk |-> b, used |-> u],
         d.size \in Nat, d.nlink \in Nat, d.nlink > 0 => d.live,
         Opens(ftable, i) # {} => d.size >= vol.dino[i].size
  PROVE  /\ Volume' /\ Grow
         /\ vol'.dino[i] = d /\ \A j \in Inum : j # i => vol'.dino[j] = vol.dino[j]
<1>1. vol'.dino = [vol.dino EXCEPT ![i] = d]
  BY SMT
<1>2. vol.dino = [j \in Inum |-> vol.dino[j]]
  BY DEF Volume
<1>3. vol'.dino = [j \in Inum |-> IF j = i THEN d ELSE vol.dino[j]]
  BY SMT, <1>1, <1>2
<1>4. vol'.dino[i] = d /\ \A j \in Inum : j # i => vol'.dino[j] = vol.dino[j]
  BY <1>3
<1>5. vol'.dino = [j \in Inum |-> vol'.dino[j]]
  BY <1>3
<1>6. \A j \in Inum : /\ vol.dino[j].size \in Nat /\ vol.dino[j].nlink \in Nat
                      /\ vol.dino[j].nlink > 0 => vol.dino[j].live
  BY DEF Volume
<1>7. \A j \in Inum : /\ vol'.dino[j].size \in Nat /\ vol'.dino[j].nlink \in Nat
                      /\ vol'.dino[j].nlink > 0 => vol'.dino[j].live
  BY <1>4, <1>6
<1>8. Volume'
  BY <1>5, <1>7 DEF Volume
<1>9. Grow
  <2>1. ASSUME NEW j \in Inum, Opens(ftable, j) # {}
        PROVE  vol'.dino[j].size >= vol.dino[j].size
    <3>1. CASE j = i
      BY <1>4, <2>1, <3>1
    <3>2. CASE j # i
      <4>1. vol'.dino[j].size = vol.dino[j].size /\ vol.dino[j].size \in Nat
        BY <1>4, <1>6, <3>2
      <4> QED
        BY SMT, <4>1
    <3> QED
      BY <3>1, <3>2
  <2> QED
    BY <2>1 DEF Grow
<1> QED
  BY <1>4, <1>8, <1>9

(* ip->ref is not 0 while the file is open, and not 1 while another process*)
(* that has closed it has still to put it.                                 *)
LEMMA RefHeld ==
  ASSUME Good, NEW i \in Inum
  PROVE  /\ iref[i] \in Nat
         /\ Opens(ftable, i) # {} => iref[i] > 0
         /\ \A p \in Puts(pc, i) : iref[i] > 0 /\ (Opens(ftable, i) # {} => iref[i] > 1)
<1>1. iref[i] = Cardinality(Opens(ftable, i)) + Cardinality(Puts(pc, i))
  BY GoodFacts DEF UsesOf
<1>2. /\ IsFiniteSet(Opens(ftable, i)) /\ IsFiniteSet(Puts(pc, i))
      /\ Cardinality(Opens(ftable, i)) \in Nat /\ Cardinality(Puts(pc, i)) \in Nat
  BY CountsFinite, FS_CardinalityType
<1>3. Opens(ftable, i) # {} => Cardinality(Opens(ftable, i)) \in Nat \ {0}
  BY <1>2, FewElements
<1>4. \A p \in Puts(pc, i) : Cardinality(Puts(pc, i)) \in Nat \ {0}
  BY <1>2, FewElements
<1> QED
  BY SMT, <1>1, <1>2, <1>3, <1>4

(* A process opens a file that has a name.                                 *)
LEMMA OpenSound ==
  ASSUME Volume, Good, NEW p \in Proc, NEW i \in Inum, NEW rd \in BOOLEAN, NEW wr \in BOOLEAN,
         sys_open(p, i, rd, wr)
  PROVE  Fine
<1>1. /\ pc[p].at = "user" /\ vol.dino[i].nlink > 0 /\ Opened(p, i, ilock(i))
      /\ Install(p, i, rd, wr) /\ vol' = vol /\ pc' = pc
  BY DEF sys_open, At
<1>2. vol'.dino[i].live /\ vol'.dino[i].size \in Nat
  BY <1>1 DEF Volume
<1>3. /\ ilock(i).size = vol'.dino[i].size /\ ilock(i).nlink = vol'.dino[i].nlink
      /\ ilock(i).live = vol'.dino[i].live
  BY <1>1, Locked
<1>4. PICK ip : ip = ilock(i)
  OBVIOUS
<1>5. Good'
  BY <1>1, <1>2, <1>3, <1>4, OpenedSound
<1> QED
  BY <1>1, <1>5, SameVolume DEF Fine

(* A process creates a file: nobody had it open, because its inode was     *)
(* free.                                                                   *)
LEMMA CreateSound ==
  ASSUME Volume, Good, NEW p \in Proc, NEW i \in Inum, sys_open_create(p, i)
  PROVE  Fine
<1>1. /\ pc[p].at = "user" /\ ~vol.dino[i].live /\ Opened(p, i, New)
      /\ Install(p, i, TRUE, TRUE) /\ pc' = pc
      /\ vol' = [dino |-> [vol.dino EXCEPT ![i] = Dinode(New)], blk |-> vol.blk,
                 used |-> vol.used]
  BY DEF sys_open_create, At
<1>2. PICK d : d = Dinode(New)
  OBVIOUS
<1>3. /\ d.size = 0 /\ d.nlink = 1 /\ d.live
      /\ New.size = d.size /\ New.nlink = d.nlink /\ New.live = d.live
  BY SMT, <1>2 DEF Dinode, New
<1>4. OpenLive
  BY DEF Good
<1>5. \A f \in File : ~(ftable[f].type = "inode" /\ ftable[f].i = i)
  BY <1>1, <1>4 DEF OpenLive
<1>6. Opens(ftable, i) = {}
  BY <1>5 DEF Opens
<1>7. vol' = [dino |-> [vol.dino EXCEPT ![i] = d], blk |-> vol.blk, used |-> vol.used]
  BY <1>1, <1>2
<1>8. d.size \in Nat /\ d.nlink \in Nat
  BY SMT, <1>3
<1>9. /\ Volume' /\ Grow
      /\ vol'.dino[i] = d /\ \A j \in Inum : j # i => vol'.dino[j] = vol.dino[j]
  BY <1>3, <1>6, <1>7, <1>8, InodeWritten
<1>10. PICK ip : ip = New
  OBVIOUS
<1>11. Good'
  BY <1>1, <1>3, <1>5, <1>8, <1>9, <1>10, OpenedSound
<1> QED
  BY <1>9, <1>11 DEF Fine

(***************************************************************************)
(* The steps that are a transaction: unlink, the put of an inode, a chunk  *)
(* of a write.  What they do to blocks is left open.                       *)
(***************************************************************************)
(* A transaction that panics leaves the volume and the open files alone.   *)
LEMMA Panics ==
  ASSUME Volume, Good, NEW v, NEW i, NEW ip, NEW ref, NEW d, Apply(v, i, ip, ref, d),
         v.fault # None, UNCHANGED ftable
  PROVE  Fine
<1>1. fault' # None /\ UNCHANGED <<vol, ftable>>
  BY DEF Apply
<1> QED
  BY <1>1, SameVolume DEF Fine

Committed(i, ref, d) ==
  /\ Volume' /\ Grow /\ Coherent' /\ ino' = [j \in Inum |-> ino'[j]]
  /\ iref' = [iref EXCEPT ![i] = ref]
  /\ vol'.dino[i] = d /\ \A j \in Inum : j # i => vol'.dino[j] = vol.dino[j]
  /\ \A f \in File : ftable[f].type = "inode" =>
       /\ ftable[f].i \in Inum /\ vol'.dino[ftable[f].i].live
       /\ ftable[f].off <= vol'.dino[ftable[f].i].size

(* One that commits writes the inode in memory and on the volume.          *)
LEMMA Commits ==
  ASSUME Volume, Good, NEW v, NEW i \in Inum, NEW ip, NEW ref, NEW d, Apply(v, i, ip, ref, d),
         v.fault = None,
         d.size \in Nat, d.nlink \in Nat, d.nlink > 0 => d.live,
         ip.valid => ip.size = d.size /\ ip.nlink = d.nlink /\ ip.live = d.live,
         Opens(ftable, i) # {} => d.live /\ d.size >= vol.dino[i].size
  PROVE  Committed(i, ref, d)
<1>1. /\ vol' = [dino |-> [vol.dino EXCEPT ![i] = d], blk |-> v.blk, used |-> v.used]
      /\ ino' = [ino EXCEPT ![i] = ip] /\ iref' = [iref EXCEPT ![i] = ref]
  BY DEF Apply
<1>2. /\ Volume' /\ Grow
      /\ vol'.dino[i] = d /\ \A j \in Inum : j # i => vol'.dino[j] = vol.dino[j]
  BY <1>1, InodeWritten
<1>3. Coherent' /\ ino' = [j \in Inum |-> ino'[j]]
  BY <1>1, <1>2, CoherentKept
<1>4. ASSUME NEW f \in File, ftable[f].type = "inode"
      PROVE  /\ ftable[f].i \in Inum /\ vol'.dino[ftable[f].i].live
             /\ ftable[f].off <= vol'.dino[ftable[f].i].size
  <2>1. /\ ftable[f].i \in Inum /\ vol.dino[ftable[f].i].live
        /\ ftable[f].off <= vol.dino[ftable[f].i].size
    BY <1>4 DEF Good, OpenLive
  <2>2. CASE ftable[f].i # i
    BY <1>2, <2>1, <2>2
  <2>3. CASE ftable[f].i = i
    <3>1. f \in Opens(ftable, i)
      BY <1>4, <2>3 DEF Opens
    <3>2. d.live /\ d.size >= vol.dino[i].size
      BY <3>1
    <3>3. ftable[f].off \in Nat /\ vol.dino[i].size \in Nat
      <4>1. ftable[f] \in OpenFile
        BY GoodFacts
      <4>2. ftable[f].off \in Nat
        BY SMT, <4>1 DEF OpenFile
      <4> QED
        BY <4>2 DEF Volume
    <3>4. ftable[f].off <= d.size
      BY SMT, <2>1, <2>3, <3>2, <3>3
    <3> QED
      BY <1>2, <2>3, <3>2, <3>4
  <2> QED
    BY <2>2, <2>3
<1> QED
  BY <1>1, <1>2, <1>3, <1>4 DEF Committed

(* sys_unlink takes the name; the inode goes with it only when nobody has  *)
(* the file open.                                                          *)
LEMMA UnlinkSound ==
  ASSUME Volume, Good, NEW p \in Proc, NEW i \in Inum, sys_unlink(p, i)
  PROVE  Fine
<1>1. PICK ip : ip = Unlinked(ilock(i))
  OBVIOUS
<1>2. PICK d : d = IF LastUse(ip, iref[i] + 1) THEN Dinode(NoInode) ELSE Dinode(ip)
  OBVIOUS
<1>3. PICK x : x = IF iref[i] + 1 = 1 THEN NoInode ELSE ip
  OBVIOUS
<1>4. PICK v : Apply(v, i, IF iref[i] + 1 = 1 THEN NoInode ELSE Unlinked(ilock(i)), iref[i],
                     IF LastUse(Unlinked(ilock(i)), iref[i] + 1) THEN Dinode(NoInode)
                     ELSE Dinode(Unlinked(ilock(i))))
  BY DEF sys_unlink
<1>5. Apply(v, i, x, iref[i], d) /\ UNCHANGED <<ftable, ofile, pc>>
  BY <1>1, <1>2, <1>3, <1>4 DEF sys_unlink
<1>6. /\ ilock(i).size = vol.dino[i].size /\ ilock(i).nlink = vol.dino[i].nlink
      /\ ilock(i).live = vol.dino[i].live
  BY Locked
<1>7. ip.valid /\ ip.size = vol.dino[i].size /\ ip.nlink = 0 /\ ip.live = vol.dino[i].live
  BY SMT, <1>1, <1>6 DEF Unlinked
<1>8. /\ ~NoInode.valid /\ Dinode(NoInode).size = 0 /\ Dinode(NoInode).nlink = 0
      /\ Dinode(ip).size = ip.size /\ Dinode(ip).nlink = 0 /\ Dinode(ip).live = ip.live
  BY SMT, <1>7 DEF Dinode, NoInode
<1>9. iref[i] \in Nat /\ (Opens(ftable, i) # {} => iref[i] > 0)
  BY RefHeld
<1>10. iref[i] + 1 = 1 <=> iref[i] = 0
  BY SMT, <1>9
<1>11. vol.dino[i].size \in Nat /\ vol.dino[i].live
  BY DEF Volume, sys_unlink
<1>12. d.size \in Nat /\ d.nlink = 0
  <2>1. 0 \in Nat
    BY SMT
  <2> QED
    BY <1>2, <1>7, <1>8, <1>11, <2>1
<1>13. Opens(ftable, i) # {} => d.live /\ d.size >= vol.dino[i].size
  <2>1. ASSUME Opens(ftable, i) # {}
        PROVE  d = Dinode(ip)
    <3>1. iref[i] + 1 # 1
      BY SMT, <1>9, <2>1
    <3> QED
      BY <1>2, <3>1 DEF LastUse
  <2> QED
    <3>1. vol.dino[i].size >= vol.dino[i].size
      BY SMT, <1>11
    <3> QED
      BY <1>7, <1>8, <1>11, <2>1, <3>1
<1>14. x.valid => x.size = d.size /\ x.nlink = d.nlink /\ x.live = d.live
  BY <1>2, <1>3, <1>7, <1>8 DEF LastUse
<1>15. d.nlink \in Nat /\ (d.nlink > 0 => d.live)
  BY SMT, <1>12
<1>16. CASE v.fault # None
  BY <1>5, <1>16, Panics
<1>17. CASE v.fault = None
  <2>1. /\ Volume' /\ Grow /\ Coherent' /\ ino' = [j \in Inum |-> ino'[j]]
        /\ iref' = [iref EXCEPT ![i] = iref[i]]
        /\ \A f \in File : ftable[f].type = "inode" =>
             /\ ftable[f].i \in Inum /\ vol'.dino[ftable[f].i].live
             /\ ftable[f].off <= vol'.dino[ftable[f].i].size
    <3>1. Committed(i, iref[i], d)
      BY <1>5, <1>12, <1>13, <1>14, <1>15, <1>17, Commits
    <3> QED
      BY <3>1 DEF Committed
  <2>2. iref' = iref
    BY SMT, <2>1, GoodFacts
  <2>3. OpenLive'
    BY <1>5, <2>1 DEF OpenLive
  <2>4. Placed'
    BY <1>5 DEF Good, Placed
  <2>5. /\ ftable' \in [File -> OpenFile] /\ ofile' \in Tables /\ pc' \in [Proc -> Place]
        /\ iref' \in [Inum -> Nat] /\ RefsOf(ftable', ofile') /\ UsesOf(iref', ftable', pc')
    BY <1>5, <2>2, GoodFacts
  <2>6. Good'
    <3>1. Shapes'
      BY <2>1, <2>5 DEF Shapes, Tables
    <3> QED
      BY <2>1, <2>3, <2>4, <2>5, <3>1, GoodNext
  <2> QED
    BY <2>1, <2>6 DEF Fine
<1> QED
  BY <1>16, <1>17

(* The put that fileclose has left to do; the last one of a file without a *)
(* name frees it.                                                          *)
LEMMA PutSound ==
  ASSUME Volume, Good, NEW p \in Proc, Put(p)
  PROVE  Fine
<1>1. PICK i : i = pc[p].i
  OBVIOUS
<1>2. i \in Inum /\ pc[p].at = "put"
  BY <1>1 DEF Good, Placed, Put, At
<1>3. PICK d : d = IF LastUse(ino[i], iref[i]) THEN Dinode(NoInode) ELSE vol.dino[i]
  OBVIOUS
<1>4. PICK x : x = IF iref[i] = 1 THEN NoInode ELSE ino[i]
  OBVIOUS
<1>5. PICK v : Apply(v, i, x, iref[i] - 1, d)
  BY <1>1, <1>3, <1>4 DEF Put
<1>6. UNCHANGED <<ftable, ofile>> /\ pc' = [pc EXCEPT ![p] = In(pc[p].then)]
  BY DEF Put
<1>7. p \in Puts(pc, i)
  BY <1>1, <1>2 DEF Puts
<1>8. iref[i] \in Nat /\ iref[i] > 0 /\ (Opens(ftable, i) # {} => iref[i] > 1)
  BY <1>2, <1>7, RefHeld
<1>9. ~NoInode.valid /\ Dinode(NoInode).size = 0 /\ Dinode(NoInode).nlink = 0
  BY SMT DEF Dinode, NoInode
<1>10. /\ vol.dino[i].size \in Nat /\ vol.dino[i].nlink \in Nat
       /\ vol.dino[i].nlink > 0 => vol.dino[i].live
  BY <1>2 DEF Volume
<1>11. d.size \in Nat /\ d.nlink \in Nat /\ (d.nlink > 0 => d.live)
  <2>1. CASE d = Dinode(NoInode)
    BY SMT, <1>9, <2>1
  <2>2. CASE d = vol.dino[i]
    BY <1>10, <2>2
  <2> QED
    BY <1>3, <2>1, <2>2
<1>12. Opens(ftable, i) # {} => d.live /\ d.size >= vol.dino[i].size
  <2>1. ASSUME Opens(ftable, i) # {}
        PROVE  d.live /\ d.size >= vol.dino[i].size
    <3>1. iref[i] # 1
      BY SMT, <1>8, <2>1
    <3>2. d = vol.dino[i]
      BY <1>3, <3>1 DEF LastUse
    <3>3. vol.dino[i].live
      BY <2>1 DEF Opens, Good, OpenLive
    <3>4. vol.dino[i].size >= vol.dino[i].size
      BY SMT, <1>10
    <3> QED
      BY <3>2, <3>3, <3>4
  <2> QED
    BY <2>1
<1>13. x.valid => x.size = d.size /\ x.nlink = d.nlink /\ x.live = d.live
  BY <1>2, <1>3, <1>4, <1>9 DEF LastUse, Good, Coherent
<1>14. CASE v.fault # None
  BY <1>5, <1>6, <1>14, Panics
<1>15. CASE v.fault = None
  <2>1. Committed(i, iref[i] - 1, d)
    BY <1>2, <1>5, <1>11, <1>12, <1>13, <1>15, Commits
  <2>2. pc \in [Proc -> Place]
    BY GoodFacts
  <2>3. PICK l : l = In(pc[p].then)
    OBVIOUS
  <2>4. l \in Place /\ l.at \in {"user", "exit"}
    <3>1. pc[p] \in Place
      BY <2>2
    <3>2. pc[p].then \in {"user", "exit"} /\ 0 \in 0..NFILE
      BY SMT, <3>1, FilesAssumption DEF Place
    <3> QED
      BY SMT, <2>3, <3>2 DEF In, Place
  <2>5. PlaceChanged(pc, pc', p, l)
    BY <1>6, <2>2, <2>3, <2>4, PlaceSet
  <2>6. \A j \in Inum : PutsOn(pc[p], j) = (IF i = j THEN 1 ELSE 0) /\ PutsOn(l, j) = 0
    BY SMT, <1>1, <1>2, <2>4 DEF PutsOn
  <2>7. iref' \in [Inum -> Nat] /\ \A j \in Inum : iref'[j] = iref[j] - (IF i = j THEN 1 ELSE 0)
    <3>1. iref \in [Inum -> Nat] /\ iref' = [iref EXCEPT ![i] = iref[i] - 1]
      BY <2>1, GoodFacts DEF Committed
    <3> QED
      BY SMT, <1>2, <1>8, <3>1
  <2>8. UsesOf(iref', ftable', pc')
    <3>1. UsesOf(iref, ftable, pc) /\ ftable' = ftable
      BY <1>6, GoodFacts
    <3>2. \A j \in Inum : Cardinality(Opens(ftable, j)) \in Nat
      BY CountsFinite, FS_CardinalityType
    <3>3. \A j \in Inum :
            /\ Cardinality(Puts(pc, j)) \in Nat
            /\ Cardinality(Puts(pc', j)) = Cardinality(Puts(pc, j)) - (IF i = j THEN 1 ELSE 0)
      <4>1. \A j \in Inum :
              /\ Cardinality(Puts(pc, j)) \in Nat
              /\ Cardinality(Puts(pc', j)) =
                   (Cardinality(Puts(pc, j)) - PutsOn(pc[p], j)) + PutsOn(l, j)
        BY <2>5 DEF PlaceChanged
      <4> QED
        BY SMT, <2>6, <4>1
    <3>4. \A j \in Inum : iref[j] = Cardinality(Opens(ftable, j)) + Cardinality(Puts(pc, j))
      BY <3>1 DEF UsesOf
    <3>5. \A j \in Inum : iref'[j] = Cardinality(Opens(ftable, j)) + Cardinality(Puts(pc', j))
      BY SMT, <2>7, <3>2, <3>3, <3>4
    <3> QED
      BY <3>1, <3>5 DEF UsesOf
  <2>9. Placed'
    <3>1. \A q \in Proc : q # p => pc'[q] = pc[q]
      BY <2>5 DEF PlaceChanged
    <3>2. pc'[p].at \notin {"put", "dead", "write"}
      BY SMT, <2>4, <2>5 DEF PlaceChanged
    <3>3. pc'[p].at # "put" /\ pc'[p].at # "dead" /\ pc'[p].at # "write"
      BY <3>2
    <3> QED
      BY <1>6, <3>1, <3>3, PlacedNext
  <2>10. OpenLive'
    BY <1>6, <2>1 DEF OpenLive, Committed
  <2>11. /\ ftable' \in [File -> OpenFile] /\ ofile' \in Tables /\ RefsOf(ftable', ofile')
    BY <1>6, GoodFacts
  <2>12. Good'
    <3>1. Coherent' /\ ino' = [j \in Inum |-> ino'[j]] /\ pc' \in [Proc -> Place]
      BY <2>1, <2>5 DEF Committed, PlaceChanged
    <3>2. Shapes'
      BY <2>7, <2>11, <3>1 DEF Shapes, Tables
    <3> QED
      BY <2>8, <2>9, <2>10, <2>11, <3>1, <3>2, GoodNext
  <2> QED
    BY <2>1, <2>12 DEF Fine, Committed
<1> QED
  BY <1>14, <1>15

(* The end of exit, which has closed every descriptor.                     *)
LEMMA ExitEndSound ==
  ASSUME Volume, Good, NEW p \in Proc, ExitEnd(p)
  PROVE  Fine
<1>1. /\ pc[p].at \in {"user", "exit"} /\ FreeFds(p) = Fd /\ pc' = [pc EXCEPT ![p] = Dead]
      /\ UNCHANGED <<vol, ino, iref, ftable, ofile>>
  BY DEF ExitEnd, At
<1>2. PICK l : l = Dead
  OBVIOUS
<1>3. l \in Place /\ l.at = "dead"
  BY SMT, <1>2, FilesAssumption DEF Dead, In, Place
<1>4. pc \in [Proc -> Place]
  BY GoodFacts
<1>5. PlaceChanged(pc, pc', p, l)
  BY <1>1, <1>2, <1>3, <1>4, PlaceSet
<1>6. \A j \in Inum : PutsOn(pc[p], j) = 0 /\ PutsOn(l, j) = 0
  BY SMT, <1>1, <1>3 DEF PutsOn
<1>7. UsesOf(iref', ftable', pc')
  <2>1. UsesOf(iref, ftable, pc)
    BY GoodFacts
  <2>2. \A j \in Inum : Cardinality(Puts(pc', j)) = Cardinality(Puts(pc, j))
    BY SMT, <1>5, <1>6 DEF PlaceChanged
  <2> QED
    BY <1>1, <2>1, <2>2 DEF UsesOf
<1>8. Placed'
  <2>1. \A q \in Proc : q # p => pc'[q] = pc[q]
    BY <1>5 DEF PlaceChanged
  <2>2. pc'[p].at # "put" /\ pc'[p].at # "write"
    BY SMT, <1>3, <1>5 DEF PlaceChanged
  <2>3. \A fd \in Fd : ofile[p][fd] = 0
    BY <1>1 DEF FreeFds
  <2> QED
    BY <1>1, <2>1, <2>2, <2>3, PlacedNext
<1>9. Coherent' /\ OpenLive'
  BY <1>1 DEF Good, Coherent, OpenLive
<1>10. /\ ftable' \in [File -> OpenFile] /\ ofile' \in Tables /\ RefsOf(ftable', ofile')
       /\ iref' \in [Inum -> Nat] /\ ino' = [j \in Inum |-> ino'[j]]
  BY <1>1, GoodFacts
<1>11. Good'
  <2>1. pc' \in [Proc -> Place]
    BY <1>5 DEF PlaceChanged
  <2>2. Shapes'
    BY <1>10, <2>1 DEF Shapes, Tables
  <2> QED
    BY <1>7, <1>8, <1>9, <1>10, <2>2, GoodNext
<1> QED
  BY <1>1, <1>11, SameVolume DEF Fine

(***************************************************************************)
(* Descriptors.                                                            *)
(***************************************************************************)
(* Only f->ref is written.                                                 *)
LEMMA CountSet ==
  ASSUME NEW r \in OpenFile, NEW m \in Nat
  PROVE  /\ [r EXCEPT !.ref = m] \in OpenFile /\ [r EXCEPT !.ref = m].ref = m
         /\ [r EXCEPT !.ref = m].type = r.type /\ [r EXCEPT !.ref = m].i = r.i
         /\ [r EXCEPT !.ref = m].off = r.off
BY SMT DEF OpenFile

(* Only f->off is written.                                                 *)
LEMMA OffsetSet ==
  ASSUME NEW r \in OpenFile, NEW m \in Nat
  PROVE  /\ [r EXCEPT !.off = m] \in OpenFile /\ [r EXCEPT !.off = m].ref = r.ref
         /\ [r EXCEPT !.off = m].type = r.type /\ [r EXCEPT !.off = m].i = r.i
         /\ [r EXCEPT !.off = m].off = m
BY SMT DEF OpenFile

(* fileclose: the slot loses a reference, or is freed and the put of its   *)
(* inode is left to do.                                                    *)
LEMMA CloseSound ==
  ASSUME Volume, Good, NEW p \in Proc, pc[p].at \in {"user", "exit"}, NEW fd \in Fd,
         NEW then \in {"user", "exit"}, fileclose(p, fd, then)
  PROVE  Fine
<1>1. PICK f : f = ofile[p][fd]
  OBVIOUS
<1>2. /\ f # 0 /\ ofile' = [ofile EXCEPT ![p] = [@ EXCEPT ![fd] = 0]]

      /\ ftable' = [ftable EXCEPT ![f] = IF ftable[f].ref > 1 THEN Counted(f, ftable[f].ref - 1)
                                         ELSE NoFile]
      /\ pc' = [pc EXCEPT ![p] = IF ftable[f].ref = 1 /\ ftable[f].type = "inode"
                                 THEN Putting(ftable[f].i, then) ELSE In(then)]
      /\ UNCHANGED <<vol, ino, iref>>
  BY <1>1 DEF fileclose
<1>3. /\ f \in File /\ ftable[f] \in OpenFile /\ ftable[f].ref \in Nat \ {0}
      /\ \A q \in Proc, e \in Fd : ofile[q][e] = f /\ (q # p \/ e # fd) => ftable[f].ref > 1
  BY <1>1, <1>2, InUse
<1>4. PICK r : r = IF ftable[f].ref > 1 THEN Counted(f, ftable[f].ref - 1) ELSE NoFile
  OBVIOUS
<1>5. /\ r \in OpenFile /\ r.ref = ftable[f].ref - 1
      /\ \/ /\ ftable[f].ref > 1 /\ r.type = ftable[f].type /\ r.i = ftable[f].i
            /\ r.off = ftable[f].off
         \/ ftable[f].ref = 1 /\ r.type = "none"
  <2>1. CASE ftable[f].ref > 1
    <3>1. PICK m : m = ftable[f].ref - 1
      OBVIOUS
    <3>2. m \in Nat
      BY SMT, <1>3, <3>1
    <3>3. r = [ftable[f] EXCEPT !.ref = m]
      BY <1>4, <2>1, <3>1 DEF Counted
    <3> QED
      BY <1>3, <2>1, <3>1, <3>2, <3>3, CountSet
  <2>2. CASE ~(ftable[f].ref > 1)
    <3>1. r = NoFile
      BY <1>4, <2>2
    <3>2. NoFile \in OpenFile /\ NoFile.ref = 0 /\ NoFile.type = "none"
      BY SMT DEF NoFile, OpenFile
    <3>3. ftable[f].ref = 1
      BY SMT, <1>3, <2>2
    <3> QED
      BY SMT, <3>1, <3>2, <3>3
  <2> QED
    BY <2>1, <2>2
<1>6. PICK l : l = IF ftable[f].ref = 1 /\ ftable[f].type = "inode"
                   THEN Putting(ftable[f].i, then) ELSE In(then)
  OBVIOUS
<1>7. /\ ftable \in [File -> OpenFile] /\ ofile \in Tables /\ pc \in [Proc -> Place]
  BY GoodFacts
<1>8. SlotChanged(ftable, ftable', f, r)
  <2>1. ftable' = [ftable EXCEPT ![f] = r]
    BY <1>2, <1>4
  <2>2. ftable \in [File -> OpenFile] /\ f \in File /\ r \in OpenFile
    BY <1>3, <1>5, <1>7
  <2> QED
    BY <2>1, <2>2, SlotSet
<1>9. DescriptorChanged(ofile, ofile', p, fd, 0)
  <2>1. 0 \in 0..NFILE
    BY SMT, FilesAssumption
  <2>2. ofile' = [ofile EXCEPT ![p] = [@ EXCEPT ![fd] = 0]]
    BY <1>2
  <2> QED
    BY <1>7, <2>1, <2>2, DescriptorSet
<1>10. ftable[f].type = "inode" => ftable[f].i \in Inum
  BY <1>3 DEF Good, OpenLive
<1>11. /\ l \in Place
       /\ \/ ftable[f].ref = 1 /\ ftable[f].type = "inode" /\ l.at = "put" /\ l.i = ftable[f].i
          \/ ~(ftable[f].ref = 1 /\ ftable[f].type = "inode") /\ l.at = then
  <2>1. 0 \in 0..NFILE
    BY SMT, FilesAssumption
  <2>2. CASE ftable[f].ref = 1 /\ ftable[f].type = "inode"
    <3>1. l = Putting(ftable[f].i, then)
      BY <1>6, <2>2
    <3> QED
      BY SMT, <1>10, <2>1, <2>2, <3>1 DEF Putting, Place
  <2>3. CASE ~(ftable[f].ref = 1 /\ ftable[f].type = "inode")
    <3>1. l = In(then)
      BY <1>6, <2>3
    <3> QED
      BY SMT, <2>1, <2>3, <3>1 DEF In, Place
  <2> QED
    BY <2>2, <2>3
<1>12. PlaceChanged(pc, pc', p, l)
  <2>1. pc' = [pc EXCEPT ![p] = l] /\ l \in Place
    BY <1>2, <1>6, <1>11
  <2> QED
    BY <1>7, <2>1, PlaceSet
<1>13. RefsOf(ftable', ofile')
  <2>1. ASSUME NEW g \in File
        PROVE  /\ ftable'[g].ref = Cardinality(Described(ofile', g))
               /\ ftable'[g].ref = 0 <=> ftable'[g].type = "none"
    <3>1. /\ ftable[g].ref = Cardinality(Described(ofile, g))
          /\ ftable[g].ref = 0 <=> ftable[g].type = "none"
      BY GoodFacts DEF RefsOf
    <3>2. /\ Cardinality(Described(ofile, g)) \in Nat
          /\ Cardinality(Described(ofile', g)) =
               (Cardinality(Described(ofile, g)) - (IF f = g THEN 1 ELSE 0))
               + (IF 0 = g THEN 1 ELSE 0)
      BY <1>1, <1>9 DEF DescriptorChanged
    <3>3. 0 # g
      BY Finite
    <3>4. ftable'[g] = IF g = f THEN r ELSE ftable[g]
      BY <1>8 DEF SlotChanged
    <3> QED
      BY SMT, <1>3, <1>5, <3>1, <3>2, <3>3, <3>4
  <2> QED
    BY <2>1 DEF RefsOf
<1>14. UsesOf(iref', ftable', pc')
  <2>1. ASSUME NEW j \in Inum
        PROVE  iref'[j] = Cardinality(Opens(ftable', j)) + Cardinality(Puts(pc', j))
    <3>1. iref'[j] = Cardinality(Opens(ftable, j)) + Cardinality(Puts(pc, j))
      BY <1>2, GoodFacts DEF UsesOf
    <3>2. /\ Cardinality(Opens(ftable, j)) \in Nat
          /\ Cardinality(Opens(ftable', j)) =
               (Cardinality(Opens(ftable, j)) - OpenOn(ftable[f], j)) + OpenOn(r, j)
      BY <1>8 DEF SlotChanged
    <3>3. /\ Cardinality(Puts(pc, j)) \in Nat
          /\ Cardinality(Puts(pc', j)) =
               (Cardinality(Puts(pc, j)) - PutsOn(pc[p], j)) + PutsOn(l, j)
      BY <1>12 DEF PlaceChanged
    <3>4. PutsOn(pc[p], j) = 0
      BY SMT DEF PutsOn
    <3>5. \/ OpenOn(ftable[f], j) = OpenOn(r, j) /\ PutsOn(l, j) = 0
          \/ OpenOn(r, j) = 0 /\ OpenOn(ftable[f], j) = PutsOn(l, j)
      BY SMT, <1>5, <1>11 DEF OpenOn, PutsOn
    <3>6. {OpenOn(ftable[f], j), OpenOn(r, j), PutsOn(l, j)} \subseteq Nat
      BY SMT DEF OpenOn, PutsOn
    <3> QED
      BY SMT, <3>1, <3>2, <3>3, <3>4, <3>5, <3>6
  <2> QED
    BY <2>1 DEF UsesOf
<1>15. Placed'
  <2>1. \A q \in Proc : q # p => pc'[q] = pc[q] /\ ofile'[q] = ofile[q]
    BY SMT, <1>2, <1>7 DEF Tables
  <2>2. pc'[p] = l
    BY <1>12 DEF PlaceChanged
  <2>3. pc'[p].at # "dead" /\ pc'[p].at # "write"
    BY SMT, <1>11, <2>2
  <2>4. pc'[p].at = "put" => pc'[p].i \in Inum
    BY SMT, <1>10, <1>11, <2>2
  <2>5. ASSUME NEW q \in Proc, q # p, pc[q].at = "write", pc[q].f \in File,
               ftable[pc[q].f].type = "inode"
        PROVE  ftable'[pc[q].f].type = "inode"
    <3>1. PICK e \in Fd : ofile[q][e] = pc[q].f
      BY <2>5 DEF Good, Placed
    <3>2. CASE pc[q].f # f
      BY <1>8, <2>5, <3>2 DEF SlotChanged
    <3>3. CASE pc[q].f = f
      <4>1. ftable[f].ref > 1
        BY <1>3, <2>5, <3>1, <3>3
      <4>2. r.type = "inode"
        BY SMT, <1>5, <2>5, <3>3, <4>1
      <4> QED
        BY <1>8, <3>3, <4>2 DEF SlotChanged
    <3> QED
      BY <3>2, <3>3
  <2> QED
    BY <2>1, <2>3, <2>4, <2>5, PlacedNext
<1>16. Coherent'
  BY <1>2 DEF Good, Coherent
<1>17. OpenLive'
  <2> SUFFICES ASSUME NEW g \in File, ftable'[g].type = "inode"
               PROVE  /\ ftable'[g].i \in Inum /\ vol.dino[ftable'[g].i].live
                      /\ ftable'[g].off <= vol.dino[ftable'[g].i].size
    BY <1>2 DEF OpenLive
  <2>1. ftable'[g] = IF g = f THEN r ELSE ftable[g]
    BY <1>8 DEF SlotChanged
  <2>2. /\ ftable'[g].type = ftable[g].type /\ ftable'[g].i = ftable[g].i
        /\ ftable'[g].off = ftable[g].off
    BY SMT, <1>5, <2>1
  <2> QED
    BY <2>2 DEF Good, OpenLive
<1>18. Shapes'
  BY <1>2, <1>8, <1>9, <1>12, GoodFacts DEF Shapes, Tables, SlotChanged,
     DescriptorChanged, PlaceChanged
<1>19. Good'
  BY <1>13, <1>14, <1>15, <1>16, <1>17, <1>18, GoodNext
<1> QED
  BY <1>2, <1>19, SameVolume DEF Fine

(* The users of an inode are those before, when no slot is freed or filled.*)
LEMMA UsesKept ==
  ASSUME Good, \A f \in File : ftable'[f].type = ftable[f].type /\ ftable'[f].i = ftable[f].i,
         iref' = iref, \A j \in Inum : Cardinality(Puts(pc', j)) = Cardinality(Puts(pc, j))
  PROVE  UsesOf(iref', ftable', pc')
<1>1. \A j \in Inum : Opens(ftable', j) = Opens(ftable, j)
  BY DEF Opens
<1>2. UsesOf(iref, ftable, pc)
  BY GoodFacts
<1> QED
  BY <1>1, <1>2 DEF UsesOf

(* sys_dup: one more descriptor, one more reference.                       *)
LEMMA DupSound ==
  ASSUME Volume, Good, NEW p \in Proc, NEW fd \in Fd, sys_dup(p, fd)
  PROVE  Fine
<1>1. PICK f : f = ofile[p][fd]
  OBVIOUS
<1>2. /\ pc[p].at = "user" /\ f # 0
      /\ ftable' = [ftable EXCEPT ![f] = Counted(f, ftable[f].ref + 1)]
      /\ UNCHANGED <<vol, ino, iref, pc>>
  BY <1>1 DEF sys_dup, At
<1>3. PICK new \in Fd : fdalloc(p, new) /\ ofile' = [ofile EXCEPT ![p] = [@ EXCEPT ![new] = f]]
  BY <1>1 DEF sys_dup
<1>4. ofile[p][new] = 0
  BY <1>3 DEF fdalloc, IsFirst, FreeFds
<1>5. /\ f \in File /\ ftable[f] \in OpenFile /\ ftable[f].ref \in Nat \ {0}
      /\ ftable[f].type \in {"inode", "pipe"}
  BY <1>1, <1>2, InUse
<1>6. PICK r : r = Counted(f, ftable[f].ref + 1)
  OBVIOUS
<1>7. /\ r \in OpenFile /\ r.ref = ftable[f].ref + 1
      /\ r.type = ftable[f].type /\ r.i = ftable[f].i /\ r.off = ftable[f].off
  <2>1. PICK m : m = ftable[f].ref + 1
    OBVIOUS
  <2>2. m \in Nat
    BY SMT, <1>5, <2>1
  <2>3. r = [ftable[f] EXCEPT !.ref = m]
    BY <1>6, <2>1 DEF Counted
  <2>4. ftable[f] \in OpenFile
    BY <1>5
  <2> QED
    BY <2>1, <2>2, <2>3, <2>4, CountSet
<1>8. ftable \in [File -> OpenFile] /\ ofile \in Tables /\ f \in 0..NFILE
  BY <1>5, GoodFacts, Finite
<1>9. SlotChanged(ftable, ftable', f, r)
  <2>1. ftable' = [ftable EXCEPT ![f] = r]
    BY <1>2, <1>6
  <2> QED
    BY <1>5, <1>7, <1>8, <2>1, SlotSet
<1>10. DescriptorChanged(ofile, ofile', p, new, f)
  BY <1>3, <1>8, DescriptorSet
<1>11. \A g \in File : ftable'[g] = IF g = f THEN r ELSE ftable[g]
  BY <1>9 DEF SlotChanged
<1>12. \A g \in File : /\ ftable'[g].type = ftable[g].type /\ ftable'[g].i = ftable[g].i
                       /\ ftable'[g].off = ftable[g].off
  BY <1>7, <1>11
<1>13. RefsOf(ftable', ofile')
  <2>1. ASSUME NEW g \in File
        PROVE  /\ ftable'[g].ref = Cardinality(Described(ofile', g))
               /\ ftable'[g].ref = 0 <=> ftable'[g].type = "none"
    <3>1. /\ ftable[g].ref = Cardinality(Described(ofile, g))
          /\ ftable[g].ref = 0 <=> ftable[g].type = "none"
      BY GoodFacts DEF RefsOf
    <3>2. /\ Cardinality(Described(ofile, g)) \in Nat
          /\ Cardinality(Described(ofile', g)) =
               (Cardinality(Described(ofile, g)) - (IF 0 = g THEN 1 ELSE 0))
               + (IF f = g THEN 1 ELSE 0)
      BY <1>4, <1>10 DEF DescriptorChanged
    <3>3. 0 # g
      BY Finite
    <3>4. ftable'[g].ref = ftable[g].ref + (IF f = g THEN 1 ELSE 0) /\ ftable[g].ref \in Nat
      BY SMT, <1>7, <1>11, <3>1, <3>2
    <3>5. f = g => ftable[g].ref # 0
      BY SMT, <1>5
    <3> QED
      BY SMT, <1>12, <3>1, <3>2, <3>3, <3>4, <3>5
  <2> QED
    BY <2>1 DEF RefsOf
<1>14. UsesOf(iref', ftable', pc')
  BY <1>2, <1>12, UsesKept
<1>15. Placed'
  <2>1. \A q \in Proc : q # p => pc'[q] = pc[q] /\ ofile'[q] = ofile[q]
    BY SMT, <1>2, <1>3, <1>8 DEF Tables
  <2>2. pc'[p].at # "put" /\ pc'[p].at # "dead" /\ pc'[p].at # "write"
    BY SMT, <1>2
  <2>3. \A g \in File : ftable[g].type = "inode" => ftable'[g].type = "inode"
    BY <1>12
  <2> QED
    BY <2>1, <2>2, <2>3, PlacedNext
<1>16. Coherent' /\ OpenLive'
  BY <1>2, <1>12 DEF Good, Coherent, OpenLive
<1>17. Shapes'
  BY <1>2, <1>9, <1>10, GoodFacts DEF Shapes, Tables, SlotChanged, DescriptorChanged
<1>18. Good'
  BY <1>13, <1>14, <1>15, <1>16, <1>17, GoodNext
<1> QED
  BY <1>2, <1>18, SameVolume DEF Fine

(* fork: the child has the descriptors of its parent, and each counts.     *)
LEMMA ForkSound ==
  ASSUME Volume, Good, NEW p \in Proc, NEW q \in Proc, fork(p, q)
  PROVE  Fine
<1>1. /\ pc[q].at = "dead" /\ ofile' = [ofile EXCEPT ![q] = ofile[p]]
      /\ ftable' = [f \in File |-> Counted(f, ftable[f].ref + Dupped(p)[f])]
      /\ pc' = [pc EXCEPT ![q] = User] /\ UNCHANGED <<vol, ino, iref>>
  BY DEF fork
<1>2. \A fd \in Fd : ofile[q][fd] = 0
  BY <1>1 DEF Good, Placed
<1>3. ftable \in [File -> OpenFile] /\ ofile \in Tables /\ pc \in [Proc -> Place]
  BY GoodFacts
<1>4. Copied(ofile, ofile', p, q)
  BY <1>1, <1>2, <1>3, TableCopied
<1>5. \A f \in File : Dupped(p)[f] = Cardinality({fd \in Fd : ofile[p][fd] = f})
  BY DEF Dupped
<1>6. ASSUME NEW f \in File
      PROVE  /\ ftable'[f] \in OpenFile /\ ftable'[f].ref = ftable[f].ref + Dupped(p)[f]
             /\ ftable'[f].type = ftable[f].type /\ ftable'[f].i = ftable[f].i
             /\ ftable'[f].off = ftable[f].off
             /\ Dupped(p)[f] \in Nat /\ ftable[f].ref \in Nat
  <2>1. ftable[f] \in OpenFile
    BY <1>3
  <2>2. ftable[f].ref \in Nat
    BY SMT, <2>1 DEF OpenFile
  <2>3. Dupped(p)[f] \in Nat
    BY <1>4, <1>5 DEF Copied
  <2>4. PICK m : m = ftable[f].ref + Dupped(p)[f]
    OBVIOUS
  <2>5. m \in Nat
    BY SMT, <2>2, <2>3, <2>4
  <2>6. ftable'[f] = [ftable[f] EXCEPT !.ref = m]
    <3>1. ftable'[f] = Counted(f, ftable[f].ref + Dupped(p)[f])
      BY <1>1
    <3> QED
      BY <2>4, <3>1 DEF Counted
  <2> QED
    <3>1. /\ [ftable[f] EXCEPT !.ref = m] \in OpenFile /\ [ftable[f] EXCEPT !.ref = m].ref = m
          /\ [ftable[f] EXCEPT !.ref = m].type = ftable[f].type
          /\ [ftable[f] EXCEPT !.ref = m].i = ftable[f].i
          /\ [ftable[f] EXCEPT !.ref = m].off = ftable[f].off
      BY <2>1, <2>5, CountSet
    <3> QED
      BY <2>2, <2>3, <2>4, <2>6, <3>1
<1>7. RefsOf(ftable', ofile')
  <2>1. ASSUME NEW f \in File
        PROVE  /\ ftable'[f].ref = Cardinality(Described(ofile', f))
               /\ ftable'[f].ref = 0 <=> ftable'[f].type = "none"
    <3>1. /\ ftable[f].ref = Cardinality(Described(ofile, f))
          /\ ftable[f].ref = 0 <=> ftable[f].type = "none"
      BY GoodFacts DEF RefsOf
    <3>2. Cardinality(Described(ofile', f)) = ftable[f].ref + Dupped(p)[f]
      BY <1>4, <1>5, <3>1 DEF Copied
    <3>3. ASSUME ftable[f].type = "none"
          PROVE  Dupped(p)[f] = 0
      <4>1. \A fd \in Fd : ofile[p][fd] # f
        <5>1. ASSUME NEW fd \in Fd, ofile[p][fd] = f
              PROVE  FALSE
          <6>1. f # 0
            BY Finite
          <6>2. ftable[f].type \in {"inode", "pipe"}
            BY <5>1, <6>1, InUse
          <6> QED
            BY SMT, <3>3, <6>2
        <5> QED
          BY <5>1
      <4>2. {fd \in Fd : ofile[p][fd] = f} = {}
        BY <4>1
      <4> QED
        BY <1>5, <4>2, FS_EmptySet
    <3> QED
      BY SMT, <1>6, <3>1, <3>2, <3>3
  <2> QED
    BY <2>1 DEF RefsOf
<1>8. PICK l : l = User
  OBVIOUS
<1>9. l \in Place /\ l.at = "user"
  BY SMT, <1>8, FilesAssumption DEF User, In, Place
<1>10. PlaceChanged(pc, pc', q, l)
  BY <1>1, <1>3, <1>8, <1>9, PlaceSet
<1>11. UsesOf(iref', ftable', pc')
  <2>1. \A j \in Inum : PutsOn(pc[q], j) = 0 /\ PutsOn(l, j) = 0
    BY SMT, <1>1, <1>9 DEF PutsOn
  <2>2. \A j \in Inum : Cardinality(Puts(pc', j)) = Cardinality(Puts(pc, j))
    BY SMT, <1>10, <2>1 DEF PlaceChanged
  <2> QED
    BY <1>1, <1>6, <2>2, UsesKept
<1>12. Placed'
  <2>1. \A r \in Proc : r # q => pc'[r] = pc[r] /\ ofile'[r] = ofile[r]
    BY <1>4, <1>10 DEF Copied, PlaceChanged
  <2>2. pc'[q].at # "put" /\ pc'[q].at # "dead" /\ pc'[q].at # "write"
    BY SMT, <1>9, <1>10 DEF PlaceChanged
  <2>3. \A g \in File : ftable[g].type = "inode" => ftable'[g].type = "inode"
    BY <1>6
  <2> QED
    BY <2>1, <2>2, <2>3, PlacedNext
<1>13. Coherent' /\ OpenLive'
  BY <1>1, <1>6 DEF Good, Coherent, OpenLive
<1>14. Shapes'
  <2>1. ftable' \in [File -> OpenFile]
    BY SMT, <1>1, <1>6
  <2> QED
    BY <1>1, <1>4, <1>10, <2>1, GoodFacts DEF Shapes, Tables, Copied, PlaceChanged
<1>15. Good'
  BY <1>7, <1>11, <1>12, <1>13, <1>14, GoodNext
<1> QED
  BY <1>1, <1>15, SameVolume DEF Fine

(* sys_pipe: two free slots and two free descriptors.                      *)
LEMMA PipeSound ==
  ASSUME Volume, Good, NEW p \in Proc, NEW x \in Pairs, sys_pipe(p, x)
  PROVE  Fine
<1>1. pc[p].at = "user" /\ UNCHANGED <<vol, ino, iref, pc>>
  BY DEF sys_pipe, At
<1>2. PICK a \in File, b \in File, fd0 \in Fd, fd1 \in Fd :
        /\ filealloc(a) /\ IsFirst(b, FreeFiles \ {a})
        /\ fdalloc(p, fd0) /\ IsFirst(fd1, FreeFds(p) \ {fd0})
        /\ ofile' = [ofile EXCEPT ![p] = [@ EXCEPT ![fd0] = a, ![fd1] = b]]
        /\ ftable' = [ftable EXCEPT ![a] = PipeEnd(x, TRUE), ![b] = PipeEnd(x, FALSE)]
  BY DEF sys_pipe
<1>3. a # b /\ fd0 # fd1 /\ ofile[p][fd0] = 0 /\ ofile[p][fd1] = 0
  BY <1>2 DEF filealloc, fdalloc, IsFirst, FreeFds
<1>4. ftable[a].ref = 0 /\ ftable[b].ref = 0
  BY <1>2 DEF filealloc, IsFirst, FreeFiles
<1>5. ftable[a].type = "none" /\ ftable[b].type = "none"
  BY <1>4, GoodFacts DEF RefsOf
<1>6. PICK r, w : r = PipeEnd(x, TRUE) /\ w = PipeEnd(x, FALSE)
  OBVIOUS
<1>7. /\ r \in OpenFile /\ r.ref = 1 /\ r.type = "pipe" /\ w \in OpenFile /\ w.ref = 1
      /\ w.type = "pipe"
  BY SMT, <1>6 DEF PipeEnd, OpenFile
<1>8. /\ ftable \in [File -> OpenFile] /\ ofile \in Tables /\ a \in 0..NFILE /\ b \in 0..NFILE
  BY GoodFacts, Finite
<1>9. PICK t : t = [ftable EXCEPT ![a] = r]
  OBVIOUS
<1>10. PICK o : o = [ofile EXCEPT ![p] = [@ EXCEPT ![fd0] = a]]
  OBVIOUS
<1>11. SlotChanged(ftable, t, a, r)
  BY <1>7, <1>8, <1>9, SlotSet
<1>12. DescriptorChanged(ofile, o, p, fd0, a)
  BY <1>8, <1>10, DescriptorSet
<1>13. t \in [File -> OpenFile] /\ o \in Tables
  BY <1>11, <1>12 DEF SlotChanged, DescriptorChanged
<1>14. ftable' = [t EXCEPT ![b] = w]
  <2>1. ftable' = [ftable EXCEPT ![a] = r, ![b] = w]
    BY <1>2, <1>6
  <2> QED
    BY <1>8, <1>9, <2>1
<1>15. ofile' = [o EXCEPT ![p] = [@ EXCEPT ![fd1] = b]]
  BY <1>2, <1>8, <1>10 DEF Tables
<1>16. SlotChanged(t, ftable', b, w)
  BY <1>7, <1>13, <1>14, SlotSet
<1>17. DescriptorChanged(o, ofile', p, fd1, b)
  BY <1>8, <1>13, <1>15, DescriptorSet
<1>18. \A g \in File : ftable'[g] = IF g = b THEN w ELSE IF g = a THEN r ELSE ftable[g]
  BY <1>11, <1>16 DEF SlotChanged
<1>19. o[p][fd1] = 0
  BY <1>3, <1>12 DEF DescriptorChanged
<1>20. RefsOf(ftable', ofile')
  <2>1. ASSUME NEW g \in File
        PROVE  /\ ftable'[g].ref = Cardinality(Described(ofile', g))
               /\ ftable'[g].ref = 0 <=> ftable'[g].type = "none"
    <3>1. /\ ftable[g].ref = Cardinality(Described(ofile, g))
          /\ ftable[g].ref = 0 <=> ftable[g].type = "none"
      BY GoodFacts DEF RefsOf
    <3>2. /\ Cardinality(Described(ofile, g)) \in Nat
          /\ Cardinality(Described(o, g)) =
               (Cardinality(Described(ofile, g)) - (IF 0 = g THEN 1 ELSE 0))
               + (IF a = g THEN 1 ELSE 0)
      BY <1>3, <1>12 DEF DescriptorChanged
    <3>3. Cardinality(Described(ofile', g)) =
            (Cardinality(Described(o, g)) - (IF 0 = g THEN 1 ELSE 0)) + (IF b = g THEN 1 ELSE 0)
      BY <1>17, <1>19 DEF DescriptorChanged
    <3>4. 0 # g
      BY Finite
    <3>5. ftable'[g] = IF g = b THEN w ELSE IF g = a THEN r ELSE ftable[g]
      BY <1>18
    <3> QED
      BY SMT, <1>3, <1>4, <1>7, <3>1, <3>2, <3>3, <3>4, <3>5
  <2> QED
    BY <2>1 DEF RefsOf
<1>21. UsesOf(iref', ftable', pc')
  <2>1. \A j \in Inum : Opens(ftable', j) = Opens(ftable, j)
    BY SMT, <1>5, <1>7, <1>18 DEF Opens
  <2>2. UsesOf(iref, ftable, pc)
    BY GoodFacts
  <2> QED
    BY <1>1, <2>1, <2>2 DEF UsesOf
<1>22. Placed'
  <2>1. \A q \in Proc : q # p => pc'[q] = pc[q] /\ ofile'[q] = ofile[q]
    BY SMT, <1>1, <1>2, <1>8 DEF Tables
  <2>2. pc'[p].at # "put" /\ pc'[p].at # "dead" /\ pc'[p].at # "write"
    BY SMT, <1>1
  <2>3. \A g \in File : ftable[g].type = "inode" => ftable'[g].type = "inode"
    BY SMT, <1>5, <1>18
  <2> QED
    BY <2>1, <2>2, <2>3, PlacedNext
<1>23. Coherent'
  BY <1>1 DEF Good, Coherent
<1>24. OpenLive'
  <2>1. \A g \in File : ftable'[g].type = "inode" => ftable'[g] = ftable[g]
    BY SMT, <1>7, <1>18
  <2> QED
    BY <1>1, <2>1 DEF Good, OpenLive
<1>25. Shapes'
  BY <1>1, <1>16, <1>17, GoodFacts DEF Shapes, Tables, SlotChanged, DescriptorChanged
<1>26. Good'
  BY <1>20, <1>21, <1>22, <1>23, <1>24, <1>25, GoodNext
<1> QED
  BY <1>1, <1>26, SameVolume DEF Fine

(***************************************************************************)
(* sys_read and filewrite move an offset.                                  *)
(***************************************************************************)
(* The slot f has another offset, and nothing else has changed.            *)
LEMMA Moved ==
  ASSUME Good, NEW f \in File, NEW m \in Nat,
         ftable' = [ftable EXCEPT ![f] = [ftable[f] EXCEPT !.off = m]]
  PROVE  /\ ftable' \in [File -> OpenFile]
         /\ \A g \in File : /\ ftable'[g].type = ftable[g].type /\ ftable'[g].i = ftable[g].i
                            /\ ftable'[g].ref = ftable[g].ref
                            /\ ftable'[g].off = IF g = f THEN m ELSE ftable[g].off
<1>1. ftable \in [File -> OpenFile]
  BY GoodFacts
<1>2. PICK r : r = [ftable[f] EXCEPT !.off = m]
  OBVIOUS
<1>3. /\ r \in OpenFile /\ r.ref = ftable[f].ref /\ r.type = ftable[f].type /\ r.i = ftable[f].i
      /\ r.off = m
  <2>1. ftable[f] \in OpenFile
    BY <1>1
  <2> QED
    BY <1>2, <2>1, OffsetSet
<1>4. ftable' = [ftable EXCEPT ![f] = r]
  BY <1>2
<1>5. SlotChanged(ftable, ftable', f, r)
  BY <1>1, <1>3, <1>4, SlotSet
<1>6. /\ ftable' \in [File -> OpenFile] /\ ftable'[f] = r
      /\ \A g \in File : g # f => ftable'[g] = ftable[g]
  BY <1>5 DEF SlotChanged
<1> QED
  BY SMT, <1>3, <1>6

(* sys_read stops at the end of the file.                                  *)
LEMMA ReadSound ==
  ASSUME Volume, Good, NEW p \in Proc, NEW fd \in Fd, sys_read(p, fd, MaxRead)
  PROVE  Fine
<1>1. PICK f : f = ofile[p][fd]
  OBVIOUS
<1>2. PICK i : i = ftable[f].i
  OBVIOUS
<1>3. /\ f # 0 /\ ftable[f].type = "inode" /\ ino' = [ino EXCEPT ![i] = ilock(i)]
      /\ ftable' = Advance(f, sfs_readi(ilock(i), ftable[f].off, MaxRead))
      /\ UNCHANGED <<vol, iref, ofile, pc>>
  BY <1>1, <1>2 DEF sys_read
<1>4. f \in File /\ ftable[f] \in OpenFile
  BY <1>1, <1>3, InUse
<1>5. i \in Inum /\ ftable[f].off <= vol.dino[i].size
  BY <1>2, <1>3, <1>4 DEF Good, OpenLive
<1>6. ftable[f].off \in Nat /\ vol.dino[i].size \in Nat /\ MaxRead \in Nat
  BY SMT, <1>4, <1>5, FilesAssumption DEF OpenFile, Volume
<1>7. /\ ilock(i).size = vol.dino[i].size /\ ilock(i).nlink = vol.dino[i].nlink
      /\ ilock(i).live = vol.dino[i].live
  BY <1>5, Locked
<1>8. PICK r : r = sfs_readi(ilock(i), ftable[f].off, MaxRead)
  OBVIOUS
<1>9. r \in Nat /\ ftable[f].off + r <= vol.dino[i].size
  BY SMT, <1>5, <1>6, <1>7, <1>8 DEF sfs_readi
<1>10. PICK m : m = IF r > 0 THEN ftable[f].off + r ELSE ftable[f].off
  OBVIOUS
<1>11. m \in Nat /\ m <= vol.dino[i].size
  BY SMT, <1>5, <1>6, <1>9, <1>10
<1>12. ftable' = [ftable EXCEPT ![f] = [ftable[f] EXCEPT !.off = m]]
  BY <1>3, <1>8, <1>10 DEF Advance
<1>13. /\ ftable' \in [File -> OpenFile]
       /\ \A g \in File : /\ ftable'[g].type = ftable[g].type /\ ftable'[g].i = ftable[g].i
                          /\ ftable'[g].ref = ftable[g].ref
                          /\ ftable'[g].off = IF g = f THEN m ELSE ftable[g].off
  BY <1>4, <1>11, <1>12, Moved
<1>14. PICK ip : ip = ilock(i)
  OBVIOUS
<1>15. Coherent' /\ ino' = [j \in Inum |-> ino'[j]]
  BY <1>3, <1>5, <1>7, <1>14, CoherentKept
<1>16. RefsOf(ftable', ofile')
  BY <1>3, <1>13, GoodFacts DEF RefsOf
<1>17. UsesOf(iref', ftable', pc')
  BY <1>3, <1>13, UsesKept
<1>18. Placed'
  BY <1>3, <1>13 DEF Good, Placed
<1>19. OpenLive'
  <2> SUFFICES ASSUME NEW g \in File, ftable[g].type = "inode"
               PROVE  /\ ftable[g].i \in Inum /\ vol.dino[ftable[g].i].live
                      /\ ftable'[g].off <= vol.dino[ftable[g].i].size
    BY <1>3, <1>13 DEF OpenLive
  <2>1. /\ ftable[g].i \in Inum /\ vol.dino[ftable[g].i].live
        /\ ftable[g].off <= vol.dino[ftable[g].i].size
    BY DEF Good, OpenLive
  <2> QED
    BY <1>2, <1>11, <1>13, <2>1
<1>20. Shapes'
  BY <1>3, <1>13, <1>15, GoodFacts DEF Shapes, Tables
<1>21. Good'
  BY <1>15, <1>16, <1>17, <1>18, <1>19, <1>20, GoodNext
<1> QED
  BY <1>3, <1>21, SameVolume DEF Fine

(* What is left of a write after a chunk.                                  *)
LEMMA ChunkFacts ==
  ASSUME NEW n \in Nat
  PROVE  Chunk(n) \in Nat /\ n - Chunk(n) \in Nat
<1>1. LOGSIZE \in Nat /\ LOGSIZE >= 6 /\ BSIZE \in Nat
  BY SMT, FilesAssumption
<1>2. PICK h : h = (LOGSIZE - 1 - 1 - 2) \div 2
  OBVIOUS
<1>3. h \in Nat
  BY SMT, <1>1, <1>2
<1>4. max \in Nat
  BY SMT, <1>1, <1>2, <1>3 DEF max
<1> QED
  BY SMT, <1>4 DEF Chunk

(* A chunk of filewrite: the file grows when the chunk ends beyond it, and *)
(* the offset goes to the end of the chunk.                                *)
LEMMA WriteSound ==
  ASSUME Volume, Good, NEW p \in Proc, pc[p].at \in {"user", "write"}, NEW f \in File,
         ftable[f].type = "inode", \E fd \in Fd : ofile[p][fd] = f, NEW n \in Nat,
         filewrite(p, f, n)
  PROVE  Fine
<1>1. PICK i : i = ftable[f].i
  OBVIOUS
<1>2. PICK off, n1 : off = ftable[f].off /\ n1 = Chunk(n)
  OBVIOUS
<1>3. PICK ip : ip = ilock(i)
  OBVIOUS
<1>4. PICK r : r = IF CanWrite(ip, off, n1) THEN n1 ELSE -1
  OBVIOUS
<1>5. PICK v : /\ Apply(v, i, Written(ip, v, off, n1), iref[i],
                        IF Grows(ip, off, n1) THEN Dinode(Written(ip, v, off, n1))
                        ELSE vol.dino[i])
               /\ IF v.fault # None THEN UNCHANGED <<ftable, pc>>
                  ELSE ftable' = Advance(f, r) /\ pc' = [pc EXCEPT ![p] = Rest(f, n, r)]
               /\ UNCHANGED ofile
  BY <1>1, <1>2, <1>3, <1>4 DEF filewrite
<1>6. i \in Inum /\ vol.dino[i].live /\ off <= vol.dino[i].size
  BY <1>1, <1>2 DEF Good, OpenLive
<1>7. off \in Nat /\ n1 \in Nat /\ n - n1 \in Nat
  <2>1. ftable[f] \in OpenFile
    BY GoodFacts
  <2>2. ftable[f].off \in Nat
    BY SMT, <2>1 DEF OpenFile
  <2> QED
    BY <1>2, <2>2, ChunkFacts
<1>8. /\ vol.dino[i].size \in Nat /\ vol.dino[i].nlink \in Nat
  BY <1>6 DEF Volume
<1>9. ip.size = vol.dino[i].size /\ ip.nlink = vol.dino[i].nlink /\ ip.live = vol.dino[i].live
  BY <1>3, <1>6, Locked
<1>10. PICK x : x = Written(ip, v, off, n1)
  OBVIOUS
<1>11. /\ x.size = (IF Grows(ip, off, n1) THEN off + n1 ELSE ip.size)
       /\ x.nlink = ip.nlink /\ x.live = ip.live
       /\ Dinode(x).size = x.size /\ Dinode(x).nlink = x.nlink /\ Dinode(x).live = x.live
  BY SMT, <1>10 DEF Written, Dinode
<1>12. PICK d : d = IF Grows(ip, off, n1) THEN Dinode(x) ELSE vol.dino[i]
  OBVIOUS
<1>13. x.size = d.size /\ x.nlink = d.nlink /\ x.live = d.live
  BY <1>9, <1>11, <1>12
<1>14. /\ x.size \in Nat /\ x.size >= vol.dino[i].size
       /\ CanWrite(ip, off, n1) => off + n1 <= x.size
  BY SMT, <1>7, <1>8, <1>9, <1>11 DEF Grows
<1>15. d.size \in Nat /\ d.nlink \in Nat /\ d.live /\ d.size >= vol.dino[i].size
  BY <1>6, <1>8, <1>9, <1>11, <1>13, <1>14
<1>16. Apply(v, i, x, iref[i], d)
  BY <1>5, <1>10, <1>12
<1>17. CASE v.fault # None
  BY <1>5, <1>16, <1>17, Panics
<1>18. CASE v.fault = None
  <2>1. Committed(i, iref[i], d)
    BY <1>6, <1>13, <1>15, <1>16, <1>18, Commits
  <2>2. iref' = iref
    <3>1. iref' = [iref EXCEPT ![i] = iref[i]] /\ iref \in [Inum -> Nat]
      BY <2>1, GoodFacts DEF Committed
    <3> QED
      BY SMT, <3>1
  <2>3. ftable' = Advance(f, r) /\ pc' = [pc EXCEPT ![p] = Rest(f, n, r)] /\ ofile' = ofile
    BY <1>5, <1>18
  <2>4. PICK m : m = IF r > 0 THEN off + r ELSE off
    OBVIOUS
  <2>5. m \in Nat /\ m <= d.size
    <3>1. CASE CanWrite(ip, off, n1)
      BY SMT, SMTT(6), SMTT(7), <1>4, <1>6, <1>7, <1>8, <1>13, <1>14, <2>4, <3>1
    <3>2. CASE ~CanWrite(ip, off, n1)
      <4>1. r = -1
        BY <1>4, <3>2
      <4> QED
        BY SMT, <1>6, <1>7, <1>8, <1>13, <1>14, <2>4, <4>1
    <3> QED
      BY <3>1, <3>2
  <2>6. ftable' = [ftable EXCEPT ![f] = [ftable[f] EXCEPT !.off = m]]
    BY <1>2, <2>3, <2>4 DEF Advance
  <2>7. /\ ftable' \in [File -> OpenFile]
        /\ \A g \in File : /\ ftable'[g].type = ftable[g].type /\ ftable'[g].i = ftable[g].i
                           /\ ftable'[g].ref = ftable[g].ref
                           /\ ftable'[g].off = IF g = f THEN m ELSE ftable[g].off
    BY <2>5, <2>6, Moved
  <2>8. PICK l : l = Rest(f, n, r)
    OBVIOUS
  <2>9. l \in Place /\ (l.at = "user" \/ (l.at = "write" /\ l.f = f))
    <3>1. 0 \in 0..NFILE /\ f \in 0..NFILE
      BY SMT, FilesAssumption DEF File
    <3>2. User \in Place /\ User.at = "user"
      BY SMT, <3>1 DEF User, In, Place
    <3>3. CASE r < 0 \/ r = n
      BY <2>8, <3>2, <3>3 DEF Rest
    <3>4. CASE ~(r < 0 \/ r = n)
      <4>1. r = n1
        BY SMT, <1>4, <3>4
      <4>2. l = Writing(f, n - n1)
        BY <2>8, <3>4, <4>1 DEF Rest
      <4> QED
        BY SMT, <1>7, <3>1, <4>2 DEF Writing, Place
    <3> QED
      BY <3>3, <3>4
  <2>10. PlaceChanged(pc, pc', p, l)
    <3>1. pc' = [pc EXCEPT ![p] = l] /\ pc \in [Proc -> Place] /\ l \in Place
      BY <2>3, <2>8, <2>9, GoodFacts
    <3> QED
      BY <3>1, PlaceSet
  <2>11. UsesOf(iref', ftable', pc')
    <3>1. \A j \in Inum : PutsOn(pc[p], j) = 0 /\ PutsOn(l, j) = 0
      BY SMT, <2>9 DEF PutsOn
    <3>2. \A j \in Inum : Cardinality(Puts(pc', j)) = Cardinality(Puts(pc, j))
      BY SMT, <2>10, <3>1 DEF PlaceChanged
    <3> QED
      BY <2>2, <2>7, <3>2, UsesKept
  <2>12. RefsOf(ftable', ofile')
    BY <2>3, <2>7, GoodFacts DEF RefsOf
  <2>13. Placed'
    <3>1. \A q \in Proc : q # p => pc'[q] = pc[q] /\ ofile'[q] = ofile[q]
      BY <2>3, <2>10 DEF PlaceChanged
    <3>2. pc'[p] = l
      BY <2>10 DEF PlaceChanged
    <3>3. pc'[p].at # "put" /\ pc'[p].at # "dead"
      BY SMT, <2>9, <3>2
    <3>4. \A g \in File : ftable[g].type = "inode" => ftable'[g].type = "inode"
      BY <2>7
    <3>5. pc'[p].at = "write" => pc'[p].f = f
      BY SMT, <2>9, <3>2
    <3>6. pc'[p].at = "write" => /\ pc'[p].f \in File /\ ftable'[pc'[p].f].type = "inode"
                                 /\ \E fd \in Fd : ofile'[p][fd] = pc'[p].f
      BY <2>3, <3>4, <3>5
    <3> QED
      BY <3>1, <3>3, <3>4, <3>6, PlacedNext
  <2>14. OpenLive'
    <3> SUFFICES ASSUME NEW g \in File, ftable[g].type = "inode"
                 PROVE  /\ ftable[g].i \in Inum /\ vol'.dino[ftable[g].i].live
                        /\ ftable'[g].off <= vol'.dino[ftable[g].i].size
      BY <2>7 DEF OpenLive
    <3>1. /\ ftable[g].i \in Inum /\ vol'.dino[ftable[g].i].live
          /\ ftable[g].off <= vol'.dino[ftable[g].i].size
      BY <2>1 DEF Committed
    <3>2. vol'.dino[i] = d
      BY <2>1 DEF Committed
    <3> QED
      BY <1>1, <2>5, <2>7, <3>1, <3>2
  <2>15. Coherent' /\ ino' = [j \in Inum |-> ino'[j]]
    BY <2>1 DEF Committed
  <2>16. Shapes'
    <3>1. pc' \in [Proc -> Place] /\ iref' \in [Inum -> Nat] /\ ofile' \in Tables
      BY <2>2, <2>3, <2>10, GoodFacts DEF PlaceChanged
    <3> QED
      BY <2>7, <2>15, <3>1 DEF Shapes, Tables
  <2>17. Good'
    BY <2>11, <2>12, <2>13, <2>14, <2>15, <2>16, GoodNext
  <2> QED
    BY <2>1, <2>17 DEF Fine, Committed
<1> QED
  BY <1>17, <1>18

(***************************************************************************)
(* The start, and the theorems.                                            *)
(***************************************************************************)
(* After a boot nothing is open and one process runs.                      *)
LEMMA Boot ==
  /\ Booted.ftable \in [File -> OpenFile] /\ Booted.ofile \in Tables
  /\ Booted.pc \in [Proc -> Place] /\ Booted.iref \in [Inum -> Nat]
  /\ Booted.ino = [i \in Inum |-> Booted.ino[i]]
  /\ \A f \in File : Booted.ftable[f].type = "none"
  /\ \A p \in Proc : /\ Booted.pc[p].at \in {"user", "dead"}
                     /\ \A fd \in Fd : Booted.ofile[p][fd] = 0
  /\ \A i \in Inum : ~Booted.ino[i].valid
  /\ RefsOf(Booted.ftable, Booted.ofile) /\ UsesOf(Booted.iref, Booted.ftable, Booted.pc)
<1>1. NoFile \in OpenFile /\ NoFile.type = "none" /\ NoFile.ref = 0
  BY SMT DEF NoFile, OpenFile
<1>2. /\ User \in Place /\ Dead \in Place /\ User.at = "user" /\ Dead.at = "dead"
  BY SMT, FilesAssumption DEF User, Dead, In, Place
<1>3. 0 \in 0..NFILE /\ 0 \in Nat
  BY SMT, FilesAssumption
<1>4. ~NoInode.valid
  BY SMT DEF NoInode
<1>5. /\ Booted.ino = [i \in Inum |-> NoInode] /\ Booted.iref = [i \in Inum |-> 0]
      /\ Booted.ftable = [f \in File |-> NoFile]
      /\ Booted.ofile = [p \in Proc |-> [fd \in Fd |-> 0]]
      /\ Booted.pc = [p \in Proc |-> IF p = First THEN User ELSE Dead]
  BY SMT DEF Booted
<1>6. PICK t, o, c, r : t = Booted.ftable /\ o = Booted.ofile /\ c = Booted.pc /\ r = Booted.iref
  OBVIOUS
<1>7. /\ \A f \in File : t[f] = NoFile
      /\ \A p \in Proc : \A fd \in Fd : o[p][fd] = 0
      /\ \A p \in Proc : c[p] = User \/ c[p] = Dead
      /\ \A i \in Inum : r[i] = 0
  <2>1. \A f \in File : t[f] = NoFile
    BY <1>5, <1>6
  <2>2. \A p \in Proc : \A fd \in Fd : o[p][fd] = 0
    <3>1. o = [p \in Proc |-> [fd \in Fd |-> 0]]
      BY <1>5, <1>6
    <3> QED
      BY SMT, <3>1
  <2>3. \A p \in Proc : c[p] = User \/ c[p] = Dead
    BY <1>5, <1>6
  <2>4. \A i \in Inum : r[i] = 0
    BY <1>5, <1>6
  <2> QED
    BY <2>1, <2>2, <2>3, <2>4
<1>8. /\ t \in [File -> OpenFile] /\ o \in Tables /\ c \in [Proc -> Place] /\ r \in [Inum -> Nat]
  BY SMT, <1>1, <1>2, <1>3, <1>5, <1>6 DEF Tables
<1>9. \A f \in File : Described(o, f) = {}
  BY SMT, <1>7, Finite DEF Described
<1>10. \A i \in Inum : Opens(t, i) = {} /\ Puts(c, i) = {}
  BY SMT, <1>1, <1>2, <1>7 DEF Opens, Puts
<1>11. Cardinality({}) = 0
  BY FS_EmptySet
<1>12. RefsOf(t, o)
  BY SMT, <1>1, <1>7, <1>9, <1>11 DEF RefsOf
<1>13. UsesOf(r, t, c)
  BY SMT, <1>7, <1>10, <1>11 DEF UsesOf
<1>14. \A p \in Proc : c[p].at \in {"user", "dead"}
  BY SMT, <1>2, <1>7
<1>15. Booted.ino = [i \in Inum |-> Booted.ino[i]] /\ \A i \in Inum : ~Booted.ino[i].valid
  BY <1>4, <1>5
<1> QED
  BY <1>1, <1>6, <1>7, <1>8, <1>12, <1>13, <1>14, <1>15

(* The invariant holds at the start.                                       *)
LEMMA InitSound ==
  ASSUME Init
  PROVE  FilesInv
<1>1. /\ ino = Booted.ino /\ iref = Booted.iref /\ ftable = Booted.ftable /\ ofile = Booted.ofile
      /\ pc = Booted.pc
      /\ vol.dino = [i \in Inum |-> Dinode(NoInode)]
  BY SMT DEF Init
<1>2. Dinode(NoInode).size = 0 /\ Dinode(NoInode).nlink = 0
  BY SMT DEF Dinode, NoInode
<1>3. Volume
  <2>1. vol.dino = [i \in Inum |-> vol.dino[i]] /\ \A i \in Inum : vol.dino[i] = Dinode(NoInode)
    BY <1>1
  <2> QED
    BY SMT, <1>2, <2>1 DEF Volume
<1>4. \A p \in Proc : pc[p].at # "put" /\ pc[p].at # "write" /\ \A fd \in Fd : ofile[p][fd] = 0
  BY SMT, <1>1, Boot
<1>5. \A f \in File : ftable[f].type # "inode"
  BY SMT, <1>1, Boot
<1>6. Placed /\ OpenLive
  BY <1>4, <1>5 DEF Placed, OpenLive
<1>7. Coherent
  BY <1>1, Boot DEF Coherent
<1>8. Shapes
  BY <1>1, Boot DEF Shapes, Tables
<1>9. RefsOf(ftable, ofile) /\ UsesOf(iref, ftable, pc)
  BY <1>1, Boot
<1>10. FilesCounted
  BY <1>9 DEF FilesCounted, Descriptors, Described, RefsOf
<1>11. InodesCounted
  BY <1>9 DEF InodesCounted, OpenFiles, Putters, Opens, Puts, UsesOf
<1> QED
  BY <1>3, <1>6, <1>7, <1>8, <1>10, <1>11 DEF FilesInv

(* A crash leaves the volume, and what is in memory is made anew.          *)
LEMMA CrashSound ==
  ASSUME Volume, Crash
  PROVE  Volume' /\ Good' /\ \A f \in File : ftable'[f].type # "inode"
<1>1. /\ ino' = Booted.ino /\ iref' = Booted.iref /\ ftable' = Booted.ftable
      /\ ofile' = Booted.ofile /\ pc' = Booted.pc /\ vol' = vol
  BY DEF Crash
<1>2. Volume'
  BY <1>1 DEF Volume
<1>3. \A p \in Proc : /\ pc'[p].at # "put" /\ pc'[p].at # "write"
                      /\ \A fd \in Fd : ofile'[p][fd] = 0
  BY SMT, <1>1, Boot
<1>4. \A f \in File : ftable'[f].type # "inode"
  BY SMT, <1>1, Boot
<1>5. Placed' /\ OpenLive'
  BY <1>3, <1>4 DEF Placed, OpenLive
<1>6. Coherent'
  BY <1>1, Boot DEF Coherent
<1>7. Shapes'
  BY <1>1, Boot DEF Shapes, Tables
<1>8. RefsOf(ftable', ofile') /\ UsesOf(iref', ftable', pc')
  BY <1>1, Boot
<1> QED
  BY <1>2, <1>4, <1>5, <1>6, <1>7, <1>8, GoodNext

(* Every step but a crash is taken by a kernel that has not panicked, and  *)
(* keeps what Fine says.                                                   *)
LEMMA StepSound ==
  ASSUME FilesInv, Next
  PROVE  (fault = None /\ Good /\ Fine) \/ Crash
<1>1. SUFFICES ASSUME ~Crash
               PROVE  fault = None /\ Good /\ Fine
  OBVIOUS
<1>2. Volume /\ (fault = None => Good)
  BY DEF FilesInv, Good
<1>3. ASSUME NEW p \in Openers, NEW i \in Inum, sys_open_create(p, i)
      PROVE  fault = None /\ Fine
  <2>1. fault = None /\ p \in Proc
    BY <1>3, FilesAssumption DEF sys_open_create, At
  <2> QED
    BY <1>2, <1>3, <2>1, CreateSound
<1>4. ASSUME NEW p \in Openers, NEW i \in Inum, sys_unlink(p, i)
      PROVE  fault = None /\ Fine
  <2>1. fault = None /\ p \in Proc
    BY <1>4, FilesAssumption DEF sys_unlink, At
  <2> QED
    BY <1>2, <1>4, <2>1, UnlinkSound
<1>5. ASSUME NEW p \in Openers, NEW i \in Inum, NEW m \in Modes, sys_open(p, i, m[1], m[2])
      PROVE  fault = None /\ Fine
  <2>1. fault = None /\ p \in Proc
    BY <1>5, FilesAssumption DEF sys_open, At
  <2>2. m[1] \in BOOLEAN /\ m[2] \in BOOLEAN
    BY SMT, FilesAssumption
  <2> QED
    BY <1>2, <1>5, <2>1, <2>2, OpenSound
<1>6. ASSUME NEW p \in Openers, NEW fd \in Fd, sys_dup(p, fd)
      PROVE  fault = None /\ Fine
  <2>1. fault = None /\ p \in Proc
    BY <1>6, FilesAssumption DEF sys_dup, At
  <2> QED
    BY <1>2, <1>6, <2>1, DupSound
<1>7. ASSUME NEW p \in Openers, NEW x \in Pairs, sys_pipe(p, x)
      PROVE  fault = None /\ Fine
  <2>1. fault = None /\ p \in Proc
    BY <1>7, FilesAssumption DEF sys_pipe, At
  <2> QED
    BY <1>2, <1>7, <2>1, PipeSound
<1>8. ASSUME NEW p \in Openers, NEW q \in Proc, fork(p, q)
      PROVE  fault = None /\ Fine
  <2>1. fault = None /\ p \in Proc
    BY <1>8, FilesAssumption DEF fork, At
  <2> QED
    BY <1>2, <1>8, <2>1, ForkSound
<1>9. ASSUME NEW p \in Proc, NEW fd \in Fd, sys_close(p, fd)
      PROVE  fault = None /\ Fine
  <2>1. fault = None /\ pc[p].at \in {"user", "exit"} /\ fileclose(p, fd, "user")
    BY <1>9 DEF sys_close, At
  <2> QED
    BY <1>2, <2>1, CloseSound
<1>10. ASSUME NEW p \in Proc, exit(p)
       PROVE  fault = None /\ Fine
  <2>1. fault = None /\ pc[p].at \in {"user", "exit"}
    BY <1>10 DEF exit, At
  <2>2. PICK fd \in Fd : fileclose(p, fd, "exit")
    BY <1>10 DEF exit
  <2> QED
    BY <1>2, <2>1, <2>2, CloseSound
<1>11. ASSUME NEW p \in Proc, NEW fd \in Fd, sys_read(p, fd, MaxRead)
       PROVE  fault = None /\ Fine
  <2>1. fault = None
    BY <1>11 DEF sys_read, At
  <2> QED
    BY <1>2, <1>11, <2>1, ReadSound
<1>12. ASSUME NEW p \in Proc, NEW fd \in Fd, NEW n \in Lens, sys_write(p, fd, n)
       PROVE  fault = None /\ Fine
  <2>1. /\ fault = None /\ pc[p].at = "user" /\ ofile[p][fd] # 0
        /\ ftable[ofile[p][fd]].type = "inode" /\ filewrite(p, ofile[p][fd], n)
    BY <1>12 DEF sys_write, At
  <2>2. ofile[p][fd] \in File
    BY <1>2, <2>1, InUse
  <2>3. n \in Nat /\ pc[p].at \in {"user", "write"}
    BY SMT, <2>1, FilesAssumption
  <2>4. PICK f \in File : f = ofile[p][fd]
    BY <2>2
  <2> QED
    BY <1>2, <2>1, <2>3, <2>4, WriteSound
<1>13. ASSUME NEW p \in Proc, NextChunk(p)
       PROVE  fault = None /\ Fine
  <2>1. fault = None /\ pc[p].at = "write" /\ filewrite(p, pc[p].f, pc[p].n)
    BY <1>13 DEF NextChunk, At
  <2>2. /\ pc[p].f \in File /\ ftable[pc[p].f].type = "inode"
        /\ \E fd \in Fd : ofile[p][fd] = pc[p].f
    BY <1>2, <2>1 DEF Good, Placed
  <2>3. pc[p] \in Place
    BY <1>2, <2>1, GoodFacts
  <2>4. pc[p].n \in Nat /\ pc[p].at \in {"user", "write"}
    BY SMT, <2>1, <2>3 DEF Place
  <2>5. PICK f \in File, n \in Nat : f = pc[p].f /\ n = pc[p].n
    BY <2>2, <2>4
  <2> QED
    BY <1>2, <2>1, <2>2, <2>4, <2>5, WriteSound
<1>14. ASSUME NEW p \in Proc, ExitEnd(p)
       PROVE  fault = None /\ Fine
  <2>1. fault = None
    BY <1>14 DEF ExitEnd, At
  <2> QED
    BY <1>2, <1>14, <2>1, ExitEndSound
<1>15. ASSUME NEW p \in Proc, Put(p)
       PROVE  fault = None /\ Fine
  <2>1. fault = None
    BY <1>15 DEF Put, At
  <2> QED
    BY <1>2, <1>15, <2>1, PutSound
<1>16. fault = None /\ Fine
  BY <1>1, <1>3, <1>4, <1>5, <1>6, <1>7, <1>8, <1>9, <1>10, <1>11, <1>12, <1>13, <1>14,
     <1>15 DEF Next
<1> QED
  BY <1>2, <1>16

(* A step keeps the invariant.                                             *)
LEMMA InvStep ==
  ASSUME FilesInv, [Next]_vars
  PROVE  FilesInv'
<1>1. Volume
  BY DEF FilesInv
<1>2. CASE Next
  <2>1. CASE Crash
    BY <1>1, <2>1, CrashSound DEF FilesInv, Good
  <2>2. CASE Fine
    BY <2>2 DEF Fine, FilesInv, Good
  <2> QED
    BY <1>2, <2>1, <2>2, StepSound
<1>3. CASE UNCHANGED vars
  <2>1. UNCHANGED <<vol, ino, iref, ftable, ofile, pc, fault>>
    BY <1>3 DEF vars
  <2>2. Volume'
    BY <1>1, <2>1 DEF Volume
  <2>3. CASE fault # None
    BY <2>1, <2>2, <2>3 DEF FilesInv
  <2>4. CASE fault = None
    <3>1. Shapes /\ Placed /\ Coherent /\ OpenLive /\ FilesCounted /\ InodesCounted
      BY <2>4 DEF FilesInv
    <3>2. Shapes' /\ Placed'
      BY <2>1, <3>1 DEF Shapes, Placed
    <3>3. Coherent' /\ OpenLive'
      BY <2>1, <3>1 DEF Coherent, OpenLive
    <3>4. FilesCounted' /\ InodesCounted'
      BY <2>1, <3>1 DEF FilesCounted, InodesCounted, Descriptors, OpenFiles, Putters
    <3> QED
      BY <2>2, <3>2, <3>3, <3>4 DEF FilesInv
  <2> QED
    BY <2>3, <2>4
<1> QED
  BY <1>2, <1>3

(* The descriptors, the file table, the counts of the inode cache and the  *)
(* volume fit together after any order of open, dup, pipe, fork, read,     *)
(* write, unlink, close, exit and crash.                                   *)
THEOREM FilesInvariant == Spec => []FilesInv
<1>1. Init => FilesInv
  BY InitSound
<1>2. FilesInv /\ [Next]_vars => FilesInv'
  BY InvStep
<1> QED
  BY <1>1, <1>2, PTL DEF Spec

(* f->ref counts the descriptors of all processes, and ip->ref the open    *)
(* files and the puts still to do.                                         *)
THEOREM RefsAreExact == Spec => []RefsExact
<1>1. FilesInv => RefsExact
  BY DEF FilesInv, RefsExact
<1> QED
  BY <1>1, FilesInvariant, PTL

(* An open file stays on the volume, never gets shorter, and no offset is  *)
(* beyond its end, whatever unlink, close and the chunks of other writers  *)
(* do.                                                                     *)
THEOREM OpenFilesKept == Spec => OpenKept
<1>1. ASSUME FilesInv, Next, NEW f \in File, ftable[f].type = "inode",
             ftable'[f].type = "inode", ftable[f].i = ftable'[f].i
      PROVE  /\ vol'.dino[ftable[f].i].live
             /\ vol'.dino[ftable[f].i].size >= vol.dino[ftable[f].i].size
             /\ ftable'[f].off <= vol'.dino[ftable[f].i].size
  <2>1. ~Crash
    BY <1>1, CrashSound DEF FilesInv
  <2>2. Good /\ Fine
    BY <1>1, <2>1, StepSound
  <2>3. /\ ftable[f].i \in Inum /\ vol.dino[ftable[f].i].live
        /\ ftable[f].off <= vol.dino[ftable[f].i].size
    BY <1>1, <2>2 DEF Good, OpenLive
  <2>4. vol'.dino[ftable[f].i].size >= vol.dino[ftable[f].i].size
    BY <1>1, <2>2, <2>3 DEF Fine, Grow, Opens
  <2>5. CASE Good'
    BY <1>1, <2>4, <2>5 DEF Good, OpenLive
  <2>6. CASE UNCHANGED <<vol, ftable>>
    BY <2>3, <2>4, <2>6
  <2> QED
    BY <2>2, <2>5, <2>6 DEF Fine
<1>2. FilesInv /\ Next =>
        \A f \in File :
          ftable[f].type = "inode" /\ ftable'[f].type = "inode" /\ ftable[f].i = ftable'[f].i =>
            LET i == ftable[f].i IN
            /\ vol'.dino[i].live
            /\ vol'.dino[i].size >= vol.dino[i].size
            /\ ftable'[f].off <= vol'.dino[i].size
  BY <1>1
<1> QED
  BY <1>2, FilesInvariant, PTL DEF Spec, OpenKept

(***************************************************************************)
(* Block maps.  A is the block numbers in the inodes, M all of the block   *)
(* numbers of the volume.                                                  *)
(***************************************************************************)
Cell == 0..NBlock \cup Inum \cup {None}
Blocks == [Block -> [1..BSIZE -> Cell]]
Addrs == [0..NDIRECT -> 0..NBlock]
\* Where a block number is kept: an inode, and which of its block numbers.
Pos == Inum \X Ptr
Adr(blk, a, k) ==
  IF k <= NDIRECT THEN a[k] ELSE IF a[NDIRECT] = 0 THEN 0 ELSE blk[a[NDIRECT]][k - NDIRECT]
Map(blk, A) == [x \in Pos |-> Adr(blk, A[x[1]], x[2])]
Exact(M, used) ==
  /\ M \in [Pos -> 0..NBlock]
  /\ used = {M[x] : x \in Pos} \ {0}
  /\ \A x, y \in Pos : M[x] = M[y] => M[x] = 0 \/ x = y

\* An equation that the provers take as it is.
Yields(x, y) == x = y

\* Block b is cleared; it becomes block number k of inode i, or entry j of block
\* c; and then M, the map, is N.
Cleared(blk, b) == [blk EXCEPT ![b] = Zero]
WithAddr(A, i, k, b) == [A EXCEPT ![i] = [A[i] EXCEPT ![k] = b]]
WithEntry(blk, c, j, b) == [blk EXCEPT ![c] = [blk[c] EXCEPT ![j] = b]]
Entered(M, x, b, N) == N = [M EXCEPT ![x] = b]
\* The blocks S of inode i, and the map N without them.
Owned(M, i, S) == S = {M[<<i, k>>] : k \in Ptr} \ {0}
Erased(M, i, N) == N = [x \in Pos |-> IF x[1] = i THEN 0 ELSE M[x]]

(* A free block is pointed to where no block was.                          *)
LEMMA ExactAdd ==
  ASSUME NEW M, NEW used, Exact(M, used), NEW x \in Pos, M[x] = 0,
         NEW b \in Block \ used
  PROVE  Exact([M EXCEPT ![x] = b], used \cup {b})
<1>1. /\ M \in [Pos -> 0..NBlock] /\ used = {M[y] : y \in Pos} \ {0}
      /\ \A y, z \in Pos : M[y] = M[z] => M[y] = 0 \/ y = z
  BY DEF Exact
<1>2. b \in 1..NBlock /\ NBlock \in Nat /\ b # 0 /\ b \in 0..NBlock
  BY SMT, FilesAssumption DEF Block
<1>3. PICK N : N = [M EXCEPT ![x] = b]
  OBVIOUS
<1>4. N \in [Pos -> 0..NBlock]
  BY <1>1, <1>2, <1>3
<1>5. /\ N[x] = b /\ \A y \in Pos \ {x} : N[y] = M[y]
  BY <1>1, <1>3
<1>6. \A y \in Pos : M[y] # b
  BY <1>1, <1>2
<1>7. used \cup {b} = {N[y] : y \in Pos} \ {0}
  <2>1. ASSUME NEW c \in used \cup {b} PROVE c \in {N[y] : y \in Pos} \ {0}
    <3>1. CASE c = b
      BY <3>1, <1>2, <1>5
    <3>2. CASE c \in used
      <4>1. PICK y \in Pos : c = M[y] /\ c # 0
        BY <1>1, <3>2
      <4>2. N[y] = M[y]
        BY <1>5, <4>1
      <4> QED
        BY <4>1, <4>2
    <3> QED
      BY <2>1, <3>1, <3>2
  <2>2. ASSUME NEW y \in Pos, N[y] # 0 PROVE N[y] \in used \cup {b}
    BY <1>1, <1>5, <2>2
  <2> QED
    BY <2>1, <2>2
<1>8. ASSUME NEW y \in Pos, NEW z \in Pos, N[y] = N[z] PROVE N[y] = 0 \/ y = z
  BY <1>1, <1>5, <1>6, <1>8
<1> QED
  BY <1>3, <1>4, <1>7, <1>8 DEF Exact

(* The block numbers of an inode are erased, and its blocks freed.         *)
LEMMA ExactDrop ==
  ASSUME NEW M, NEW used, Exact(M, used), NEW i \in Inum,
         NEW N, Erased(M, i, N), NEW S, Owned(M, i, S)
  PROVE  Exact(N, used \ S)
<1>1. /\ M \in [Pos -> 0..NBlock] /\ used = {M[y] : y \in Pos} \ {0}
      /\ \A y, z \in Pos : M[y] = M[z] => M[y] = 0 \/ y = z
  BY DEF Exact
<1>2. 0 \in 0..NBlock
  BY SMT, FilesAssumption
<1>3. N \in [Pos -> 0..NBlock]
  BY <1>1, <1>2 DEF Erased
<1>4. \A y \in Pos : N[y] = IF y[1] = i THEN 0 ELSE M[y]
  BY DEF Erased
<1>6. ASSUME NEW y \in Pos, y[1] = i PROVE \E k \in Ptr : y = <<i, k>>
  BY SMT, <1>6 DEF Pos
<1>7. ASSUME NEW k \in Ptr PROVE <<i, k>> \in Pos /\ <<i, k>>[1] = i
  BY SMT DEF Pos
<1>8. used \ S = {N[y] : y \in Pos} \ {0}
  <2>1. ASSUME NEW c \in used \ S PROVE c \in {N[y] : y \in Pos} \ {0}
    <3>1. PICK y \in Pos : c = M[y] /\ c # 0
      BY <1>1, <2>1
    <3>2. y[1] # i
      BY <1>6, <2>1, <3>1 DEF Owned
    <3> QED
      BY <1>4, <3>1, <3>2
  <2>2. ASSUME NEW y \in Pos, N[y] # 0 PROVE N[y] \in used \ S
    <3>1. y[1] # i /\ N[y] = M[y]
      BY <1>4, <2>2
    <3>2. N[y] \in used
      BY <1>1, <2>2, <3>1
    <3>3. CASE N[y] \in S
      <4>1. PICK k \in Ptr : N[y] = M[<<i, k>>]
        BY <3>3 DEF Owned
      <4>2. <<i, k>> = y
        BY <1>1, <1>7, <2>2, <3>1, <4>1
      <4> QED
        BY <1>7, <3>1, <4>2
    <3> QED
      BY <3>2, <3>3
  <2> QED
    BY <2>1, <2>2
<1>9. ASSUME NEW y \in Pos, NEW z \in Pos, N[y] = N[z] PROVE N[y] = 0 \/ y = z
  BY <1>1, <1>4, <1>9
<1> QED
  BY <1>3, <1>8, <1>9 DEF Exact

(* The entries of the map.                                                 *)
LEMMA MapAt ==
  ASSUME NEW blk, NEW A, NEW i \in Inum, NEW k \in Ptr
  PROVE  <<i, k>> \in Pos /\ Map(blk, A)[<<i, k>>] = Adr(blk, A[i], k)
<1>1. <<i, k>> \in Pos /\ <<i, k>>[1] = i /\ <<i, k>>[2] = k
  BY SMT DEF Pos
<1> QED
  BY <1>1 DEF Map

(* The blocks in use are blocks.                                           *)
LEMMA UsedBlocks ==
  ASSUME NEW M, NEW used, Exact(M, used)
  PROVE  used \subseteq Block
<1>1. M \in [Pos -> 0..NBlock] /\ used = {M[x] : x \in Pos} \ {0}
  BY DEF Exact
<1>2. used \subseteq 0..NBlock /\ 0 \notin used
  BY <1>1
<1> QED
  BY SMT, <1>2, FilesAssumption DEF Block

(* The last block number in the inode is that of the indirect block.       *)
LEMMA MapIndirectAt ==
  ASSUME NEW blk, NEW A, NEW i \in Inum
  PROVE  <<i, NDIRECT>> \in Pos /\ Map(blk, A)[<<i, NDIRECT>>] = A[i][NDIRECT]
<1>1. NDIRECT \in Ptr /\ NDIRECT <= NDIRECT
  BY SMT, FilesAssumption DEF Ptr
<1>2. <<i, NDIRECT>> \in Pos /\ Map(blk, A)[<<i, NDIRECT>>] = Adr(blk, A[i], NDIRECT)
  BY <1>1, MapAt
<1>3. Adr(blk, A[i], NDIRECT) = A[i][NDIRECT]
  BY <1>1 DEF Adr
<1> QED
  BY <1>2, <1>3

(* The indirect block of an inode is in use.                               *)
LEMMA IndirectUsed ==
  ASSUME NEW blk, NEW A, NEW used, Exact(Map(blk, A), used), NEW i \in Inum
  PROVE  A[i][NDIRECT] \in used \cup {0}
<1>1. <<i, NDIRECT>> \in Pos /\ Map(blk, A)[<<i, NDIRECT>>] = A[i][NDIRECT]
  BY MapIndirectAt
<1> QED
  BY <1>1 DEF Exact

(* Blocks that are not indirect blocks may change.                         *)
LEMMA MapKept ==
  ASSUME NEW blk, NEW new, NEW A,
         \A i \in Inum : A[i][NDIRECT] # 0 => new[A[i][NDIRECT]] = blk[A[i][NDIRECT]]
  PROVE  Map(new, A) = Map(blk, A)
<1>1. ASSUME NEW x \in Pos PROVE Adr(new, A[x[1]], x[2]) = Adr(blk, A[x[1]], x[2])
  <2>1. x[1] \in Inum
    BY SMT DEF Pos
  <2> QED
    BY <2>1 DEF Adr
<1> QED
  BY <1>1 DEF Map

(* A block that is free may change.                                        *)
LEMMA MapFree ==
  ASSUME NEW blk \in Blocks, NEW A, NEW used, Exact(Map(blk, A), used),
         NEW b \in Block \ used, NEW z
  PROVE  Map([blk EXCEPT ![b] = z], A) = Map(blk, A)
<1>1. PICK new : new = [blk EXCEPT ![b] = z]
  OBVIOUS
<1>2. ASSUME NEW i \in Inum, A[i][NDIRECT] # 0
      PROVE  new[A[i][NDIRECT]] = blk[A[i][NDIRECT]]
  <2>1. A[i][NDIRECT] \in used \cup {0} /\ used \subseteq Block
    BY IndirectUsed, UsedBlocks
  <2>2. A[i][NDIRECT] # b /\ A[i][NDIRECT] \in Block
    BY <1>2, <2>1
  <2> QED
    BY <1>1, <2>1, <2>2 DEF Blocks
<1> QED
  BY <1>1, <1>2, MapKept

(* A block of data may change.                                             *)
LEMMA MapData ==
  ASSUME NEW blk \in Blocks, NEW A, NEW used, Exact(Map(blk, A), used),
         NEW i \in Inum, NEW k \in Ptr \ {NDIRECT}, NEW b, b = Map(blk, A)[<<i, k>>], b # 0, NEW z
  PROVE  Yields(Map([blk EXCEPT ![b] = z], A), Map(blk, A))
<1>1. PICK new : new = [blk EXCEPT ![b] = z]
  OBVIOUS
<1>2. ASSUME NEW j \in Inum, A[j][NDIRECT] # 0
      PROVE  new[A[j][NDIRECT]] = blk[A[j][NDIRECT]]
  <2>1. A[j][NDIRECT] # b
    <3>1. <<i, k>> \in Pos /\ <<i, k>> # <<j, NDIRECT>>
      BY SMT DEF Pos
    <3>2. <<j, NDIRECT>> \in Pos /\ Map(blk, A)[<<j, NDIRECT>>] = A[j][NDIRECT]
      BY MapIndirectAt
    <3> QED
      BY <3>1, <3>2 DEF Exact
  <2>2. A[j][NDIRECT] \in Block
    <3>1. A[j][NDIRECT] \in used \cup {0} /\ used \subseteq Block
      BY IndirectUsed, UsedBlocks
    <3> QED
      BY <1>2, <3>1
  <2> QED
    BY <1>1, <2>1, <2>2 DEF Blocks
<1> QED
  BY <1>1, <1>2, MapKept DEF Yields

(* bmap enters a new, empty block in the inode.                            *)
LEMMA MapDirect ==
  ASSUME NEW blk, NEW A \in [Inum -> Addrs], NEW i \in Inum, NEW k \in 0..NDIRECT, A[i][k] = 0,
         NEW b \in Block, blk[b] = Zero
  PROVE  Entered(Map(blk, A), <<i, k>>, b, Map(blk, WithAddr(A, i, k, b)))
<1>1. PICK a, B : a = [A[i] EXCEPT ![k] = b] /\ B = [A EXCEPT ![i] = a]
  OBVIOUS
<1>2. B[i] = a /\ \A j \in Inum \ {i} : B[j] = A[j]
  BY <1>1
<1>3. A[i] \in [0..NDIRECT -> 0..NBlock] /\ b # 0
  BY SMT, FilesAssumption DEF Addrs, Block
<1>4. a[k] = b /\ \A l \in 0..NDIRECT : l # k => a[l] = A[i][l]
  BY <1>1, <1>3
<1>5. NDIRECT \in 0..NDIRECT /\ NDIRECT \in Nat /\ NINDIRECT \in Nat /\ NINDIRECT <= BSIZE
  BY SMT, FilesAssumption
<1>6. ASSUME NEW l \in Ptr PROVE Adr(blk, a, l) = IF l = k THEN b ELSE Adr(blk, A[i], l)
  <2>1. CASE l <= NDIRECT
    <3>1. l \in 0..NDIRECT
      BY SMT, <1>5, <2>1 DEF Ptr
    <3> QED
      BY <1>4, <2>1, <3>1 DEF Adr
  <2>2. CASE ~(l <= NDIRECT)
    <3>1. l # k /\ l - NDIRECT \in 1..BSIZE
      BY SMT, <1>5, <2>2, FilesAssumption DEF Ptr
    <3>2. CASE k = NDIRECT
      <4>1. a[NDIRECT] = b /\ blk[b][l - NDIRECT] = 0 /\ A[i][NDIRECT] = 0
        BY <1>4, <3>1, <3>2 DEF Zero
      <4> QED
        BY SMT, <2>2, <3>1, <4>1 DEF Adr
    <3>3. CASE k # NDIRECT
      <4>1. a[NDIRECT] = A[i][NDIRECT]
        BY <1>4, <1>5, <3>3
      <4> QED
        BY SMT, <2>2, <3>1, <4>1 DEF Adr
    <3> QED
      BY <3>2, <3>3
  <2> QED
    BY <2>1, <2>2
<1>7. k \in Ptr /\ <<i, k>> \in Pos
  BY SMT, <1>5 DEF Ptr, Pos
<1>8. ASSUME NEW x \in Pos
      PROVE  Adr(blk, B[x[1]], x[2]) = IF x = <<i, k>> THEN b ELSE Adr(blk, A[x[1]], x[2])
  <2>1. x[1] \in Inum /\ x[2] \in Ptr /\ (x = <<i, k>> <=> x[1] = i /\ x[2] = k)
    BY SMT DEF Pos
  <2> QED
    BY <1>2, <1>6, <2>1
<1>9. PICK M : M = Map(blk, A)
  OBVIOUS
<1>10. [M EXCEPT ![<<i, k>>] = b] = [x \in Pos |-> IF x = <<i, k>> THEN b ELSE M[x]]
  <2>1. M = [x \in Pos |-> M[x]]
    BY <1>9 DEF Map
  <2> QED
    BY SMT, <2>1, <1>7
<1>11. Map(blk, B) = [x \in Pos |-> IF x = <<i, k>> THEN b ELSE M[x]]
  BY <1>8, <1>9 DEF Map
<1> QED
  BY <1>1, <1>9, <1>10, <1>11 DEF Entered, WithAddr

(* bmap enters a block number in the indirect block.                       *)
LEMMA MapEntry ==
  ASSUME NEW blk \in Blocks, NEW A, NEW used, Exact(Map(blk, A), used),
         NEW i \in Inum, NEW c, c = A[i][NDIRECT], c # 0,
         NEW j \in 1..NINDIRECT, NEW b
  PROVE  Entered(Map(blk, A), <<i, NDIRECT + j>>, b, Map(WithEntry(blk, c, j, b), A))
<1>0. PICK new : new = [blk EXCEPT ![c] = [blk[c] EXCEPT ![j] = b]]
  OBVIOUS
<1>1. c \in Block
  <2>1. c \in used \cup {0} /\ used \subseteq Block
    BY IndirectUsed, UsedBlocks
  <2> QED
    BY <2>1
<1>2. blk \in [Block -> [1..BSIZE -> Cell]] /\ blk[c] \in [1..BSIZE -> Cell]
  BY <1>1 DEF Blocks
<1>3. new[c] = [blk[c] EXCEPT ![j] = b] /\ \A d \in Block \ {c} : new[d] = blk[d]
  BY <1>0, <1>1, <1>2
<1>4. NDIRECT \in Nat /\ NINDIRECT \in Nat /\ BSIZE \in Nat /\ NINDIRECT <= BSIZE
  BY SMT, FilesAssumption
<1>5. j \in 1..BSIZE /\ NDIRECT + j \in Ptr
  BY SMT, <1>4 DEF Ptr
<1>6. new[c][j] = b /\ \A k \in 1..BSIZE \ {j} : new[c][k] = blk[c][k]
  <2>1. PICK f : f = blk[c] /\ f \in [1..BSIZE -> Cell]
    BY <1>2
  <2>2. new[c] = [f EXCEPT ![j] = b]
    BY <1>3, <2>1
  <2> QED
    BY <1>5, <2>1, <2>2
<1>7. ASSUME NEW l \in Ptr
      PROVE  Adr(new, A[i], l) = IF l = NDIRECT + j THEN b ELSE Adr(blk, A[i], l)
  <2>1. CASE l <= NDIRECT
    <3>1. l # NDIRECT + j
      BY SMT, <1>4, <2>1 DEF Ptr
    <3> QED
      BY <2>1, <3>1 DEF Adr
  <2>2. CASE ~(l <= NDIRECT)
    <3>1. l - NDIRECT \in 1..BSIZE /\ (l - NDIRECT = j <=> l = NDIRECT + j)
      BY SMT, <1>4, <2>2 DEF Ptr
    <3>2. Adr(new, A[i], l) = new[c][l - NDIRECT] /\ Adr(blk, A[i], l) = blk[c][l - NDIRECT]
      BY SMT, <2>2 DEF Adr
    <3> QED
      BY <1>6, <3>1, <3>2
  <2> QED
    BY <2>1, <2>2
<1>8. ASSUME NEW k \in Inum \ {i}, NEW l \in Ptr PROVE Adr(new, A[k], l) = Adr(blk, A[k], l)
  <2>1. A[k][NDIRECT] \in used \cup {0} /\ used \subseteq Block
    BY IndirectUsed, UsedBlocks
  <2>2. A[k][NDIRECT] # c
    <3>1. <<i, NDIRECT>> \in Pos /\ Map(blk, A)[<<i, NDIRECT>>] = c
      BY SMT, MapIndirectAt
    <3>2. <<k, NDIRECT>> \in Pos /\ Map(blk, A)[<<k, NDIRECT>>] = A[k][NDIRECT]
      BY MapIndirectAt
    <3>3. <<i, NDIRECT>> # <<k, NDIRECT>>
      BY SMT
    <3> QED
      BY <3>1, <3>2, <3>3 DEF Exact
  <2>3. A[k][NDIRECT] # 0 => new[A[k][NDIRECT]] = blk[A[k][NDIRECT]]
    BY <1>3, <2>1, <2>2
  <2> QED
    BY SMT, <2>3 DEF Adr
<1>9. ASSUME NEW x \in Pos
      PROVE  Adr(new, A[x[1]], x[2])
               = IF x = <<i, NDIRECT + j>> THEN b ELSE Adr(blk, A[x[1]], x[2])
  <2>1. x[1] \in Inum /\ x[2] \in Ptr
        /\ (x = <<i, NDIRECT + j>> <=> x[1] = i /\ x[2] = NDIRECT + j)
    BY SMT, <1>5 DEF Pos
  <2>2. CASE x[1] = i
    <3>1. Adr(new, A[i], x[2]) = IF x[2] = NDIRECT + j THEN b ELSE Adr(blk, A[i], x[2])
      BY <1>7, <2>1
    <3> QED
      BY <2>1, <2>2, <3>1
  <2>3. CASE x[1] # i
    <3>1. Adr(new, A[x[1]], x[2]) = Adr(blk, A[x[1]], x[2])
      BY <1>8, <2>1, <2>3
    <3> QED
      BY <2>1, <2>3, <3>1
  <2> QED
    BY <2>2, <2>3
<1>10. PICK M, y : M = Map(blk, A) /\ y = <<i, NDIRECT + j>>
  OBVIOUS
<1>11. [M EXCEPT ![y] = b] = [x \in Pos |-> IF x = y THEN b ELSE M[x]]
  <2>1. M = [x \in Pos |-> M[x]]
    BY <1>10 DEF Map
  <2> QED
    BY SMT, <2>1
<1>12. Map(new, A) = [x \in Pos |-> IF x = y THEN b ELSE M[x]]
  BY <1>9, <1>10 DEF Map
<1> QED
  BY <1>0, <1>10, <1>11, <1>12 DEF Entered, WithEntry

(* sfs_itrunc erases the block numbers of an inode.                        *)
LEMMA MapDrop ==
  ASSUME NEW blk, NEW new, NEW A \in [Inum -> Addrs], NEW i \in Inum,
         \A j \in Inum \ {i} : A[j][NDIRECT] # 0 => new[A[j][NDIRECT]] = blk[A[j][NDIRECT]]
  PROVE  Yields(Map(new, [A EXCEPT ![i] = NoAddrs]),
                [x \in Pos |-> IF x[1] = i THEN 0 ELSE Map(blk, A)[x]])
<1>1. PICK B : B = [A EXCEPT ![i] = NoAddrs]
  OBVIOUS
<1>2. B[i] = NoAddrs /\ \A j \in Inum \ {i} : B[j] = A[j]
  BY <1>1
<1>3. \A l \in Ptr : Adr(new, NoAddrs, l) = 0
  <2>1. \A l \in 0..NDIRECT : NoAddrs[l] = 0
    BY DEF NoAddrs
  <2>2. NDIRECT \in 0..NDIRECT /\ \A l \in Ptr : l <= NDIRECT => l \in 0..NDIRECT
    BY SMT, FilesAssumption DEF Ptr
  <2> QED
    BY <2>1, <2>2 DEF Adr
<1>4. ASSUME NEW x \in Pos
      PROVE  Adr(new, B[x[1]], x[2]) = IF x[1] = i THEN 0 ELSE Adr(blk, A[x[1]], x[2])
  <2>1. x[1] \in Inum /\ x[2] \in Ptr
    BY SMT DEF Pos
  <2>2. CASE x[1] = i
    BY <1>2, <1>3, <2>1, <2>2
  <2>3. CASE x[1] # i
    <3>1. B[x[1]] = A[x[1]]
      BY <1>2, <2>1, <2>3
    <3>2. Adr(new, A[x[1]], x[2]) = Adr(blk, A[x[1]], x[2])
      BY <2>1, <2>3 DEF Adr
    <3> QED
      BY <2>3, <3>1, <3>2
  <2> QED
    BY <2>2, <2>3
<1>5. \A x \in Pos : Map(blk, A)[x] = Adr(blk, A[x[1]], x[2])
  BY DEF Map
<1>6. Map(new, B) = [x \in Pos |-> IF x[1] = i THEN 0 ELSE Map(blk, A)[x]]
  BY <1>4, <1>5 DEF Map
<1> QED
  BY <1>1, <1>6 DEF Yields

(***************************************************************************)
(* Blocks B, block numbers A and a bitmap U that agree; and C with D, in   *)
(* which all block numbers and all data of B with A are as they were.      *)
(***************************************************************************)
Sound(B, A, U) == B \in Blocks /\ A \in [Inum -> Addrs] /\ Exact(Map(B, A), U)
Kept(B, A, C, D) ==
  \A x \in Pos : Map(B, A)[x] # 0 =>
    Map(C, D)[x] = Map(B, A)[x] /\ (x[2] # NDIRECT => C[Map(B, A)[x]] = B[Map(B, A)[x]])

(* Zeroes are what a block may hold.                                       *)
LEMMA ZeroBlock == Zero \in [1..BSIZE -> Cell] /\ Block \subseteq Cell
<1>1. 0 \in Cell /\ Block \subseteq Cell
  BY SMT, FilesAssumption DEF Cell, Block
<1> QED
  BY <1>1 DEF Zero

(* Nothing changes: all is kept.                                           *)
LEMMA KeptSame == ASSUME NEW B, NEW A PROVE Kept(B, A, B, A)
BY DEF Kept

(* What two steps keep, both keep together.                                *)
LEMMA KeptBoth ==
  ASSUME NEW B, NEW A, NEW C, NEW D, NEW E, NEW F, Kept(B, A, C, D), Kept(C, D, E, F)
  PROVE  Kept(B, A, E, F)
<1> SUFFICES ASSUME NEW x \in Pos, Map(B, A)[x] # 0
             PROVE  /\ Map(E, F)[x] = Map(B, A)[x]
                    /\ x[2] # NDIRECT => E[Map(B, A)[x]] = B[Map(B, A)[x]]
  BY DEF Kept
<1>1. /\ Map(C, D)[x] = Map(B, A)[x]
      /\ x[2] # NDIRECT => C[Map(B, A)[x]] = B[Map(B, A)[x]]
  BY DEF Kept
<1>2. /\ Map(E, F)[x] = Map(C, D)[x]
      /\ x[2] # NDIRECT => E[Map(C, D)[x]] = C[Map(C, D)[x]]
  BY <1>1 DEF Kept
<1> QED
  BY <1>1, <1>2

(* A free block that balloc has cleared is entered in the inode.           *)
LEMMA EnterDirect ==
  ASSUME NEW B, NEW A, NEW U, Sound(B, A, U), NEW i \in Inum,
         NEW k \in 0..NDIRECT, A[i][k] = 0, NEW b \in Block \ U,
         NEW C, C = Cleared(B, b), NEW D, D = WithAddr(A, i, k, b)
  PROVE  /\ Sound(C, D, U \cup {b}) /\ Kept(B, A, C, D)
         /\ <<i, k>> \in Pos /\ Map(C, D)[<<i, k>>] = b
<1>1. B \in Blocks /\ A \in [Inum -> Addrs] /\ Exact(Map(B, A), U)
  BY DEF Sound
<1>2. C \in Blocks
  BY <1>1, ZeroBlock DEF Blocks, Cleared
<1>3. D \in [Inum -> Addrs]
  <2>1. PICK a : a = A[i] /\ a \in Addrs
    BY <1>1
  <2>2. b \in 0..NBlock
    BY SMT, FilesAssumption DEF Block
  <2>3. [a EXCEPT ![k] = b] \in Addrs
    BY <2>1, <2>2 DEF Addrs
  <2> QED
    BY <1>1, <2>1, <2>3 DEF WithAddr
<1>4. Map(C, A) = Map(B, A)
  BY <1>1, MapFree DEF Cleared
<1>5. C[b] = Zero /\ \A d \in Block \ {b} : C[d] = B[d]
  BY <1>1 DEF Blocks, Cleared
<1>7. Entered(Map(C, A), <<i, k>>, b, Map(C, D))
  <2>1. A \in [Inum -> Addrs]
    BY <1>1
  <2>2. b \in Block /\ C[b] = Zero
    BY <1>5
  <2> QED
    BY <2>1, <2>2, MapDirect
<1>8. PICK M, y : M = Map(B, A) /\ y = <<i, k>>
  OBVIOUS
<1>9. Map(C, D) = [M EXCEPT ![y] = b]
  BY <1>4, <1>7, <1>8 DEF Entered
<1>10. k \in Ptr /\ k <= NDIRECT
  BY SMT, FilesAssumption DEF Ptr
<1>11. y \in Pos /\ M[y] = 0
  <2>1. <<i, k>> \in Pos /\ Map(B, A)[<<i, k>>] = Adr(B, A[i], k)
    BY <1>10, MapAt
  <2>2. Adr(B, A[i], k) = 0
    BY <1>10 DEF Adr
  <2> QED
    BY <1>8, <2>1, <2>2
<1>12. Exact(M, U)
  BY <1>1, <1>8
<1>13. Exact([M EXCEPT ![y] = b], U \cup {b})
  BY <1>11, <1>12, ExactAdd
<1>14. M \in [Pos -> 0..NBlock] /\ U = {M[x] : x \in Pos} \ {0} /\ U \subseteq Block
  BY <1>12, UsedBlocks DEF Exact
<1>15. PICK N : N = [M EXCEPT ![y] = b]
  OBVIOUS
<1>16. N[y] = b /\ \A x \in Pos : x # y => N[x] = M[x]
  BY <1>11, <1>14, <1>15
<1>17. Kept(B, A, C, D)
  <2> SUFFICES ASSUME NEW x \in Pos, M[x] # 0
               PROVE  N[x] = M[x] /\ (x[2] # NDIRECT => C[M[x]] = B[M[x]])
    BY <1>8, <1>9, <1>15 DEF Kept
  <2>1. N[x] = M[x]
    BY <1>11, <1>16
  <2>2. M[x] \in U /\ M[x] \in Block \ {b}
    BY <1>14
  <2> QED
    BY <1>5, <2>1, <2>2
<1>18. Sound(C, D, U \cup {b})
  BY <1>2, <1>3, <1>9, <1>13 DEF Sound
<1> QED
  BY <1>8, <1>9, <1>11, <1>15, <1>16, <1>17, <1>18

(* A free block that balloc has cleared is entered in the indirect block.  *)
LEMMA EnterIndirect ==
  ASSUME NEW B, NEW A, NEW U, Sound(B, A, U), NEW i \in Inum,
         NEW c, c = A[i][NDIRECT], c # 0,
         NEW j \in 1..NINDIRECT, B[c][j] = 0, NEW b \in Block \ U,
         NEW Z, Z = Cleared(B, b), NEW C, C = WithEntry(Z, c, j, b)
  PROVE  /\ c \in U /\ Sound(C, A, U \cup {b}) /\ Kept(B, A, C, A)
         /\ <<i, NDIRECT + j>> \in Pos /\ Map(C, A)[<<i, NDIRECT + j>>] = b
<1>1. B \in Blocks /\ A \in [Inum -> Addrs] /\ Exact(Map(B, A), U)
  BY DEF Sound
<1>2. Z \in Blocks
  BY <1>1, ZeroBlock DEF Blocks, Cleared
<1>3. c \in U /\ U \subseteq Block
  <2>1. A[i][NDIRECT] \in U \cup {0} /\ U \subseteq Block
    BY <1>1, IndirectUsed, UsedBlocks
  <2> QED
    BY <2>1
<1>4. Map(Z, A) = Map(B, A)
  BY <1>1, MapFree DEF Cleared
<1>5. C \in Blocks
  <2>1. PICK f : f = Z[c] /\ f \in [1..BSIZE -> Cell]
    BY <1>2, <1>3 DEF Blocks
  <2>2. b \in Cell
    BY ZeroBlock
  <2>3. [f EXCEPT ![j] = b] \in [1..BSIZE -> Cell]
    BY <2>1, <2>2
  <2> QED
    BY <1>2, <2>1, <2>3 DEF Blocks, WithEntry
<1>6. Z[c] = B[c] /\ \A d \in Block \ {b, c} : C[d] = B[d]
  <2>1. \A d \in Block \ {b} : Z[d] = B[d]
    BY <1>1 DEF Blocks, Cleared
  <2>2. \A d \in Block \ {c} : C[d] = Z[d]
    BY <1>2 DEF Blocks, WithEntry
  <2> QED
    BY <1>3, <2>1, <2>2
<1>7. PICK M, y : M = Map(B, A) /\ y = <<i, NDIRECT + j>>
  OBVIOUS
<1>8. Entered(Map(Z, A), <<i, NDIRECT + j>>, b, Map(C, A))
  <2>1. Exact(Map(Z, A), U)
    BY <1>1, <1>4
  <2> QED
    BY <1>2, <2>1, MapEntry
<1>9. Map(C, A) = [M EXCEPT ![y] = b]
  BY <1>4, <1>7, <1>8 DEF Entered
<1>10. NDIRECT + j \in Ptr /\ ~(NDIRECT + j <= NDIRECT) /\ NDIRECT + j - NDIRECT = j
  BY SMT, FilesAssumption DEF Ptr
<1>11. y \in Pos /\ M[y] = 0
  <2>1. <<i, NDIRECT + j>> \in Pos
        /\ Map(B, A)[<<i, NDIRECT + j>>] = Adr(B, A[i], NDIRECT + j)
    BY <1>10, MapAt
  <2>2. Adr(B, A[i], NDIRECT + j) = 0
    <3>1. PICK l : l = NDIRECT + j
      OBVIOUS
    <3>11. ~(l <= NDIRECT) /\ l - NDIRECT = j
      BY SMT, FilesAssumption, <3>1
    <3>2. Adr(B, A[i], l) = B[A[i][NDIRECT]][l - NDIRECT]
      BY SMT, <3>11 DEF Adr
    <3> QED
      BY <3>1, <3>11, <3>2
  <2> QED
    BY <1>7, <2>1, <2>2
<1>12. Exact(M, U)
  BY <1>1, <1>7
<1>13. Exact([M EXCEPT ![y] = b], U \cup {b})
  BY <1>11, <1>12, ExactAdd
<1>14. /\ M \in [Pos -> 0..NBlock] /\ U = {M[x] : x \in Pos} \ {0}
       /\ \A x, z \in Pos : M[x] = M[z] => M[x] = 0 \/ x = z
  BY <1>12 DEF Exact
<1>15. PICK N : N = [M EXCEPT ![y] = b]
  OBVIOUS
<1>16. N[y] = b /\ \A x \in Pos : x # y => N[x] = M[x]
  BY <1>11, <1>14, <1>15
<1>17. Kept(B, A, C, A)
  <2> SUFFICES ASSUME NEW x \in Pos, M[x] # 0
               PROVE  N[x] = M[x] /\ (x[2] # NDIRECT => C[M[x]] = B[M[x]])
    BY <1>7, <1>9, <1>15 DEF Kept
  <2>1. N[x] = M[x]
    BY <1>11, <1>16
  <2>2. M[x] \in U /\ M[x] \in Block \ {b}
    BY <1>3, <1>14
  <2>3. ASSUME x[2] # NDIRECT PROVE M[x] # c
    <3>1. <<i, NDIRECT>> \in Pos /\ Map(B, A)[<<i, NDIRECT>>] = A[i][NDIRECT]
      BY MapIndirectAt
    <3>2. x # <<i, NDIRECT>>
      BY SMT, <2>3
    <3> QED
      BY <1>7, <1>14, <3>1, <3>2
  <2> QED
    BY <1>6, <2>1, <2>2, <2>3
<1>18. Sound(C, A, U \cup {b})
  BY <1>1, <1>5, <1>9, <1>13 DEF Sound
<1> QED
  BY <1>3, <1>7, <1>9, <1>11, <1>15, <1>16, <1>17, <1>18

(***************************************************************************)
(* The operations on blocks, with the log L that has room for another      *)
(* block, or for three blocks besides those of X.                          *)
(***************************************************************************)
V(B, U, a, L, r) == [blk |-> B, used |-> U, addrs |-> a, logged |-> L, ret |-> r, fault |-> None]
Small(L) == IsFiniteSet(L) /\ Cardinality(L) < LOGSIZE - 1
Room(X) == \A c, d : Small({0, c, d} \cup X)

\* What balloc, Direct and Indirect may yield.
Allocated(B, U, a, L, w) ==
  \/ w.fault = "balloc"
  \/ \E b \in Block \ U :
       w = V(Cleared(B, b), U \cup {b}, a, L \cup {BitmapBlock} \cup {b}, b)
DirectMade(B, U, a, L, k, w) ==
  \/ a[k] # 0 /\ w = V(B, U, a, L, a[k])
  \/ w.fault = "balloc"
  \/ a[k] = 0 /\ \E b \in Block \ U :
       w = V(Cleared(B, b), U \cup {b}, [a EXCEPT ![k] = b], L \cup {BitmapBlock} \cup {b}, b)
IndirectMade(B, U, a, L, c, j, w) ==
  \/ B[c][j] # 0 /\ w = V(B, U, a, L, B[c][j])
  \/ w.fault = "balloc"
  \/ B[c][j] = 0 /\ \E b \in Block \ U :
       w = V(WithEntry(Cleared(B, b), c, j, b), U \cup {b}, a,
             L \cup {BitmapBlock} \cup {b} \cup {c}, b)

(* A part of a small set is small.                                         *)
LEMMA SmallPart == ASSUME NEW L, Small(L), NEW K, K \subseteq L PROVE Small(K)
<1>1. IsFiniteSet(L) /\ Cardinality(L) < LOGSIZE - 1 /\ LOGSIZE \in Nat
  BY FilesAssumption DEF Small
<1>2. IsFiniteSet(K) /\ Cardinality(K) <= Cardinality(L)
  BY <1>1, FS_Subset
<1>3. Cardinality(K) \in Nat /\ Cardinality(L) \in Nat
  BY <1>1, <1>2, FS_CardinalityType
<1>4. Cardinality(K) < LOGSIZE - 1
  BY SMT, <1>1, <1>2, <1>3
<1> QED
  BY <1>2, <1>4 DEF Small

(* Three blocks fit besides a few.                                         *)
LEMMA RoomFor ==
  ASSUME NEW X, IsFiniteSet(X), Cardinality(X) + 3 < LOGSIZE - 1
  PROVE  Room(X)
<1> SUFFICES ASSUME NEW c, NEW d PROVE Small({0, c, d} \cup X)
  BY DEF Room
<1>1. PICK X1, X2, X3 : X1 = X \cup {0} /\ X2 = X1 \cup {c} /\ X3 = X2 \cup {d}
  OBVIOUS
<1>2. /\ IsFiniteSet(X1) /\ Cardinality(X1) \in {Cardinality(X), Cardinality(X) + 1}
      /\ Cardinality(X) \in Nat
  <2>1. Cardinality(X) \in Nat
    BY FS_CardinalityType
  <2> QED
    BY SMT, <1>1, <2>1, FS_AddElement
<1>3. IsFiniteSet(X2) /\ Cardinality(X2) \in {Cardinality(X1), Cardinality(X1) + 1}
  BY SMT, <1>1, <1>2, FS_AddElement
<1>4. IsFiniteSet(X3) /\ Cardinality(X3) \in {Cardinality(X2), Cardinality(X2) + 1}
  BY SMT, <1>1, <1>3, FS_AddElement
<1>5. Cardinality(X3) < LOGSIZE - 1
  BY SMT, <1>2, <1>3, <1>4, FilesAssumption
<1>6. X3 = {0, c, d} \cup X
  BY <1>1
<1> QED
  BY <1>4, <1>5, <1>6 DEF Small

(* log_write notes the block.                                              *)
LEMMA LogWrite ==
  ASSUME NEW B, NEW U, NEW a, NEW L, NEW r, NEW b, Small(L)
  PROVE  Yields(log_write(V(B, U, a, L, r), b), V(B, U, a, L \cup {b}, r))
<1>1. ~(Cardinality(L) >= LOGSIZE - 1)
  BY SMT, FS_CardinalityType, FilesAssumption DEF Small
<1>2. V(B, U, a, L, r).logged = L
  BY DEF V
<1>3. log_write(V(B, U, a, L, r), b)
        = [V(B, U, a, L, r) EXCEPT !.logged = V(B, U, a, L, r).logged \cup {b}]
  BY <1>1, <1>2 DEF log_write
<1> QED
  BY SMT, <1>2, <1>3 DEF V, Yields

(* A set of blocks has a first one.                                        *)
LEMMA FirstBlock == ASSUME NEW S \in SUBSET Block, S # {} PROVE Min(S) \in S
<1> DEFINE R == OpToRel(<, Nat)
<1>1. IsWellFoundedOn(R, Nat)
  BY NatLessThanWellFounded
<1>2. \A x, y \in Nat : <<x, y>> \in R <=> x < y
  BY SMT DEF OpToRel
<1> HIDE DEF R
<1>3. S \subseteq Nat
  BY SMT, FilesAssumption DEF Block
<1>4. PICK x \in S : \A y \in S : ~(<<y, x>> \in R)
  BY <1>1, <1>3, WFMin
<1>5. ASSUME NEW y \in S PROVE x <= y
  <2>1. x \in Nat /\ y \in Nat
    BY <1>3
  <2>2. ~(y < x)
    BY <2>1, <1>2, <1>4
  <2> QED
    BY SMT, <2>1, <2>2
<1> QED
  BY <1>5 DEF Min

(* balloc finds a free block, marks and clears it, unless all are in use.  *)
LEMMA BallocIs ==
  ASSUME NEW B, NEW U \in SUBSET Block, NEW a, NEW L, NEW r, Small(L \cup {BitmapBlock})
  PROVE  Allocated(B, U, a, L, balloc(V(B, U, a, L, r)))
<1>1. PICK v : v = V(B, U, a, L, r)
  OBVIOUS
<1>2. v.used = U /\ v.fault = None
  BY <1>1 DEF V
<1>3. CASE U = Block
  <2>1. balloc(v) = [v EXCEPT !.fault = "balloc"]
    BY <1>2, <1>3 DEF balloc
  <2>2. [v EXCEPT !.fault = "balloc"].fault = "balloc"
    BY SMT, <1>1 DEF V
  <2> QED
    BY <1>1, <2>1, <2>2 DEF Allocated
<1>4. CASE U # Block
  <2>1. PICK b : b = Min(Block \ U)
    OBVIOUS
  <2>2. b \in Block \ U
    BY <1>4, <2>1, FirstBlock
  <2>3. PICK U1, L1, L2, B1 : /\ U1 = U \cup {b} /\ L1 = L \cup {BitmapBlock}
                              /\ L2 = L1 \cup {b} /\ B1 = Cleared(B, b)
    OBVIOUS
  <2>4. BitSet(v, b) = V(B, U1, a, L1, r)
    <3>1. [v EXCEPT !.used = v.used \cup {b}] = V(B, U1, a, L, r)
      BY SMT, <1>1, <2>3 DEF V
    <3>2. Small(L)
      BY SmallPart
    <3>3. Yields(log_write(V(B, U1, a, L, r), BitmapBlock), V(B, U1, a, L \cup {BitmapBlock}, r))
      BY <3>2, LogWrite
    <3> QED
      BY <2>3, <3>1, <3>3 DEF BitSet, Yields
  <2>5. PICK w : w = V(B, U1, a, L1, r)
    OBVIOUS
  <2>6. w.fault = None
    BY <2>5 DEF V
  <2>7. balloc(v) = bzero(w, b)
    <3>1. b = Min(Block \ v.used) /\ v.used # Block
      BY <1>2, <1>4, <2>1
    <3> QED
      BY <2>4, <2>5, <2>6, <3>1 DEF balloc, With, Then
  <2>8. log_write(w, b) = V(B, U1, a, L2, r)
    <3>1. Small(L1)
      BY <2>3
    <3>2. Yields(log_write(V(B, U1, a, L1, r), b), V(B, U1, a, L1 \cup {b}, r))
      BY <3>1, LogWrite
    <3> QED
      BY <2>3, <2>5, <3>2 DEF Yields
  <2>9. PICK x : x = V(B, U1, a, L2, r)
    OBVIOUS
  <2>10. x.fault = None /\ x.blk = B
    BY <2>9 DEF V
  <2>11. bzero(w, b) = [x EXCEPT !.blk = [x.blk EXCEPT ![b] = Zero], !.ret = b]
    BY <2>8, <2>9, <2>10 DEF bzero, Then
  <2>12. [x EXCEPT !.blk = B1, !.ret = b] = V(B1, U1, a, L2, b)
    <3>1. [x EXCEPT !.blk = B1] = V(B1, U1, a, L2, r)
      BY SMT, <2>9 DEF V
    <3>2. [V(B1, U1, a, L2, r) EXCEPT !.ret = b] = V(B1, U1, a, L2, b)
      BY SMT DEF V
    <3> QED
      BY <3>1, <3>2
  <2>13. B1 = [x.blk EXCEPT ![b] = Zero]
    BY <2>3, <2>10 DEF Cleared
  <2> QED
    BY <1>1, <2>2, <2>3, <2>7, <2>11, <2>12, <2>13 DEF Allocated
<1> QED
  BY <1>3, <1>4

(* A panic of balloc is not None, which stands for no panic.               *)
LEMMA Panicked ==
  ASSUME NEW v, v.fault = "balloc"
  PROVE  v.fault # None
BY FilesAssumption

(* A block number in the inode, made on demand.                            *)
LEMMA DirectIs ==
  ASSUME NEW B, NEW U \in SUBSET Block, NEW a, NEW L, NEW r, Small(L \cup {BitmapBlock}), NEW k
  PROVE  DirectMade(B, U, a, L, k, Direct(V(B, U, a, L, r), k))
<1>1. PICK v : v = V(B, U, a, L, r)
  OBVIOUS
<1>2. v.addrs = a
  BY <1>1 DEF V
<1>3. CASE a[k] # 0
  <2>1. Direct(v, k) = [v EXCEPT !.ret = a[k]]
    BY <1>2, <1>3 DEF Direct
  <2>2. PICK c : c = a[k]
    OBVIOUS
  <2>3. [V(B, U, a, L, r) EXCEPT !.ret = c] = V(B, U, a, L, c)
    BY SMT DEF V
  <2> QED
    BY <1>1, <1>3, <2>1, <2>2, <2>3 DEF DirectMade
<1>4. CASE a[k] = 0
  <2>1. CASE balloc(v).fault = "balloc"
    <3>1. balloc(v).fault # None
      BY <2>1, Panicked
    <3>2. Direct(v, k) = balloc(v)
      BY <1>2, <1>4, <3>1 DEF Direct, Then
    <3> QED
      BY <1>1, <2>1, <3>2 DEF DirectMade
  <2>2. ASSUME NEW b \in Block \ U,
               balloc(v) = V(Cleared(B, b), U \cup {b}, a, L \cup {BitmapBlock} \cup {b}, b)
        PROVE  Direct(v, k) = V(Cleared(B, b), U \cup {b}, [a EXCEPT ![k] = b],
                                L \cup {BitmapBlock} \cup {b}, b)
    <3>1. PICK B1, U1, L1, a1 : /\ U1 = U \cup {b} /\ L1 = L \cup {BitmapBlock} \cup {b}
                                /\ B1 = Cleared(B, b) /\ a1 = [a EXCEPT ![k] = b]
      OBVIOUS
    <3>2. PICK w : w = V(B1, U1, a, L1, b)
      OBVIOUS
    <3>3. w.fault = None /\ w.ret = b /\ w.addrs = a
      BY <3>2 DEF V
    <3>4. balloc(v) = w
      BY <2>2, <3>1, <3>2
    <3>5. Direct(v, k) = [w EXCEPT !.addrs = [w.addrs EXCEPT ![k] = w.ret]]
      BY <1>2, <1>4, <3>3, <3>4 DEF Direct, Then
    <3>6. Direct(v, k) = [w EXCEPT !.addrs = a1]
      BY <3>1, <3>3, <3>5
    <3>7. [V(B1, U1, a, L1, b) EXCEPT !.addrs = a1] = V(B1, U1, a1, L1, b)
      BY SMT DEF V
    <3> QED
      BY <3>1, <3>2, <3>6, <3>7
  <2>3. Allocated(B, U, a, L, balloc(v))
    BY <1>1, BallocIs
  <2> QED
    BY <1>1, <1>4, <2>1, <2>2, <2>3 DEF Allocated, DirectMade
<1> QED
  BY <1>3, <1>4

(* A block number in the indirect block c, made on demand.                 *)
LEMMA IndirectIs ==
  ASSUME NEW B \in Blocks, NEW U \in SUBSET Block, NEW a, NEW L, NEW r, NEW c \in U, NEW j,
         \A b \in Block : Small(L \cup {BitmapBlock} \cup {b})
  PROVE  IndirectMade(B, U, a, L, c, j, Indirect(V(B, U, a, L, r), c, j))
<1>1. PICK v : v = V(B, U, a, L, r)
  OBVIOUS
<1>2. v.blk = B
  BY <1>1 DEF V
<1>3. CASE B[c][j] # 0
  <2>1. Indirect(v, c, j) = [v EXCEPT !.ret = B[c][j]]
    BY <1>2, <1>3 DEF Indirect
  <2>2. PICK d : d = B[c][j]
    OBVIOUS
  <2>3. [V(B, U, a, L, r) EXCEPT !.ret = d] = V(B, U, a, L, d)
    BY SMT DEF V
  <2> QED
    BY <1>1, <1>3, <2>1, <2>2, <2>3 DEF IndirectMade
<1>4. CASE B[c][j] = 0
  <2>1. CASE balloc(v).fault = "balloc"
    <3>1. balloc(v).fault # None
      BY <2>1, Panicked
    <3>2. Indirect(v, c, j) = balloc(v)
      BY <1>2, <1>4, <3>1 DEF Indirect, Then
    <3> QED
      BY <1>1, <2>1, <3>2 DEF IndirectMade
  <2>2. ASSUME NEW b \in Block \ U,
               balloc(v) = V(Cleared(B, b), U \cup {b}, a, L \cup {BitmapBlock} \cup {b}, b)
        PROVE  Indirect(v, c, j) = V(WithEntry(Cleared(B, b), c, j, b), U \cup {b}, a,
                                     L \cup {BitmapBlock} \cup {b} \cup {c}, b)
    <3>1. PICK B1, U1, L1, B2 : /\ U1 = U \cup {b} /\ L1 = L \cup {BitmapBlock} \cup {b}
                                /\ B1 = Cleared(B, b) /\ B2 = WithEntry(B1, c, j, b)
      OBVIOUS
    <3>2. PICK w : w = V(B1, U1, a, L1, b)
      OBVIOUS
    <3>3. w.fault = None /\ w.ret = b /\ w.blk = B1
      BY <3>2 DEF V
    <3>4. balloc(v) = w
      BY <2>2, <3>1, <3>2
    <3>5. Indirect(v, c, j)
            = log_write([w EXCEPT !.blk = [w.blk EXCEPT ![c] = [w.blk[c] EXCEPT ![j] = w.ret]]], c)
      BY <1>2, <1>4, <3>3, <3>4 DEF Indirect, Then
    <3>6. Indirect(v, c, j) = log_write([w EXCEPT !.blk = B2], c)
      BY <3>1, <3>3, <3>5 DEF WithEntry
    <3>7. [V(B1, U1, a, L1, b) EXCEPT !.blk = B2] = V(B2, U1, a, L1, b)
      BY SMT DEF V
    <3>8. Small(L1)
      BY <3>1
    <3>9. Yields(log_write(V(B2, U1, a, L1, b), c), V(B2, U1, a, L1 \cup {c}, b))
      BY <3>8, LogWrite
    <3> QED
      BY <3>1, <3>2, <3>6, <3>7, <3>9 DEF Yields
  <2>3. Allocated(B, U, a, L, balloc(v))
    <3>1. c \in Block
      OBVIOUS
    <3>2. Small(L \cup {BitmapBlock})
      <4>1. PICK K : K = L \cup {BitmapBlock} \cup {c}
        OBVIOUS
      <4>2. Small(K)
        BY <3>1, <4>1
      <4>3. L \cup {BitmapBlock} \subseteq K
        BY <4>1
      <4> QED
        BY <4>2, <4>3, SmallPart
    <3> QED
      BY <1>1, <3>2, BallocIs
  <2> QED
    BY <1>1, <1>4, <2>1, <2>2, <2>3 DEF Allocated, IndirectMade
<1> QED
  BY <1>3, <1>4

(***************************************************************************)
(* bmap.  It leaves blocks C, bitmap W, block numbers d in the inode and   *)
(* the log K, and yields block s.                                          *)
(***************************************************************************)
Reached(B, A, i, X, k, C, W, d, K, s) ==
  /\ Sound(C, [A EXCEPT ![i] = d], W) /\ Kept(B, A, C, [A EXCEPT ![i] = d])
  /\ s = Map(C, [A EXCEPT ![i] = d])[<<i, k>>] /\ s # 0
  /\ K \subseteq {0, d[NDIRECT], s} \cup X
  /\ Map(B, A)[<<i, k>>] # 0 => d = A[i]
Reaches(B, A, i, X, k, w) ==
  w.fault = "balloc" \/ \E C, W, d, K, s : w = V(C, W, d, K, s) /\ Reached(B, A, i, X, k, C, W, d, K, s)

(* What the parts of a sound volume are.                                   *)
LEMMA SoundFacts ==
  ASSUME NEW B, NEW A, NEW U, Sound(B, A, U), NEW i \in Inum
  PROVE  /\ B \in Blocks /\ A \in [Inum -> Addrs] /\ Exact(Map(B, A), U) /\ U \in SUBSET Block
         /\ A[i] \in [0..NDIRECT -> 0..NBlock] /\ [A EXCEPT ![i] = A[i]] = A
         /\ A[i][NDIRECT] \in U \cup {0}
<1>1. B \in Blocks /\ A \in [Inum -> Addrs] /\ Exact(Map(B, A), U)
  BY DEF Sound
<1>2. U \subseteq Block /\ A[i][NDIRECT] \in U \cup {0}
  BY <1>1, UsedBlocks, IndirectUsed
<1>3. A[i] \in [0..NDIRECT -> 0..NBlock]
  BY <1>1 DEF Addrs
<1>4. [A EXCEPT ![i] = A[i]] = A
  BY SMT, <1>1
<1> QED
  BY <1>1, <1>2, <1>3, <1>4

(* Block numbers in the inode.                                             *)
LEMMA DirectSound ==
  ASSUME NEW B, NEW A, NEW U, Sound(B, A, U), NEW i \in Inum, NEW k \in 0..NDIRECT,
         NEW X, Room(X), NEW L, L \subseteq {0, A[i][NDIRECT]} \cup X, NEW r
  PROVE  Reaches(B, A, i, X, k, Direct(V(B, U, A[i], L, r), k))
<1>1. /\ B \in Blocks /\ A \in [Inum -> Addrs] /\ Exact(Map(B, A), U) /\ U \in SUBSET Block
      /\ A[i] \in [0..NDIRECT -> 0..NBlock] /\ [A EXCEPT ![i] = A[i]] = A
      /\ A[i][NDIRECT] \in U \cup {0}
  BY SoundFacts
<1>2. PICK w, a : w = Direct(V(B, U, A[i], L, r), k) /\ a = A[i]
  OBVIOUS
<1>3. Small(L \cup {BitmapBlock})
  <2>1. PICK Y : Y = {0, A[i][NDIRECT], 0} \cup X /\ Small(Y)
    BY DEF Room
  <2>2. L \cup {BitmapBlock} \subseteq Y
    BY <2>1 DEF BitmapBlock
  <2> QED
    BY <2>1, <2>2, SmallPart
<1>4. DirectMade(B, U, a, L, k, w)
  BY <1>1, <1>2, <1>3, DirectIs
<1>5. Map(B, A)[<<i, k>>] = a[k]
  <2>1. k \in Ptr /\ k <= NDIRECT
    BY SMT, FilesAssumption DEF Ptr
  <2>2. Map(B, A)[<<i, k>>] = Adr(B, A[i], k)
    BY <2>1, MapAt
  <2> QED
    BY <1>2, <2>1, <2>2 DEF Adr
<1>6. ASSUME a[k] # 0, w = V(B, U, a, L, a[k]) PROVE Reaches(B, A, i, X, k, w)
  <2>1. Reached(B, A, i, X, k, B, U, a, L, a[k])
    <3>1. [A EXCEPT ![i] = a] = A
      BY <1>1, <1>2
    <3>2. L \subseteq {0, a[NDIRECT], a[k]} \cup X
      BY <1>2
    <3>3. Kept(B, A, B, A)
      BY KeptSame
    <3> QED
      BY <1>2, <1>5, <1>6, <3>1, <3>2, <3>3 DEF Reached
  <2> QED
    BY <1>6, <2>1 DEF Reaches
<1>7. ASSUME a[k] = 0, NEW b \in Block \ U,
             w = V(Cleared(B, b), U \cup {b}, [a EXCEPT ![k] = b], L \cup {BitmapBlock} \cup {b}, b)
      PROVE  Reaches(B, A, i, X, k, w)
  <2>1. PICK C, D, d, K : /\ C = Cleared(B, b) /\ D = WithAddr(A, i, k, b)
                          /\ d = [a EXCEPT ![k] = b] /\ K = L \cup {BitmapBlock} \cup {b}
    OBVIOUS
  <2>2. A[i][k] = 0
    BY <1>2, <1>7
  <2>3. /\ Sound(C, D, U \cup {b}) /\ Kept(B, A, C, D)
        /\ <<i, k>> \in Pos /\ Map(C, D)[<<i, k>>] = b
    BY SMT, <2>1, <2>2, EnterDirect
  <2>4. D = [A EXCEPT ![i] = d]
    BY <1>2, <2>1 DEF WithAddr
  <2>5. b # 0
    BY SMT, FilesAssumption DEF Block
  <2>6. K \subseteq {0, d[NDIRECT], b} \cup X
    <3>1. NDIRECT \in 0..NDIRECT
      BY SMT, FilesAssumption
    <3>2. CASE k = NDIRECT
      BY <1>2, <2>1, <2>2, <3>2 DEF BitmapBlock
    <3>3. CASE k # NDIRECT
      <4>1. d[NDIRECT] = A[i][NDIRECT]
        BY <1>1, <1>2, <2>1, <3>1, <3>3
      <4> QED
        BY <2>1, <4>1 DEF BitmapBlock
    <3> QED
      BY <3>2, <3>3
  <2>7. Map(B, A)[<<i, k>>] = 0
    BY <1>5, <1>7
  <2>8. Reached(B, A, i, X, k, C, U \cup {b}, d, K, b)
    BY <2>3, <2>4, <2>5, <2>6, <2>7 DEF Reached
  <2> QED
    BY <1>7, <2>1, <2>8 DEF Reaches
<1>8. ASSUME w.fault = "balloc" PROVE Reaches(B, A, i, X, k, w)
  BY <1>8 DEF Reaches
<1>9. Reaches(B, A, i, X, k, w)
  BY <1>4, <1>6, <1>7, <1>8 DEF DirectMade
<1> QED
  BY <1>2, <1>9

(* Block numbers in the indirect block.                                    *)
LEMMA IndirectSound ==
  ASSUME NEW B, NEW A, NEW U, Sound(B, A, U), NEW i \in Inum, NEW j \in 1..NINDIRECT,
         NEW c, c = A[i][NDIRECT], c # 0,
         NEW X, Room(X), NEW L, L \subseteq {0, c} \cup X, NEW r
  PROVE  Reaches(B, A, i, X, NDIRECT + j, Indirect(V(B, U, A[i], L, r), c, j))
<1>1. /\ B \in Blocks /\ A \in [Inum -> Addrs] /\ Exact(Map(B, A), U) /\ U \in SUBSET Block
      /\ A[i] \in [0..NDIRECT -> 0..NBlock] /\ [A EXCEPT ![i] = A[i]] = A
      /\ A[i][NDIRECT] \in U \cup {0}
  BY SoundFacts
<1>2. PICK w, a, k : w = Indirect(V(B, U, A[i], L, r), c, j) /\ a = A[i] /\ k = NDIRECT + j
  OBVIOUS
<1>3. c \in U
  BY <1>1
<1>4. IndirectMade(B, U, a, L, c, j, w)
  <2>1. ASSUME NEW b \in Block PROVE Small(L \cup {BitmapBlock} \cup {b})
    <3>1. PICK Y : Y = {0, c, b} \cup X /\ Small(Y)
      BY DEF Room
    <3>2. L \cup {BitmapBlock} \cup {b} \subseteq Y
      BY <3>1 DEF BitmapBlock
    <3> QED
      BY <3>1, <3>2, SmallPart
  <2>2. B \in Blocks /\ U \in SUBSET Block
    BY <1>1
  <2> QED
    BY <1>2, <1>3, <2>1, <2>2, IndirectIs
<1>5. Map(B, A)[<<i, k>>] = B[c][j]
  <2>1. k \in Ptr /\ ~(k <= NDIRECT) /\ k - NDIRECT = j
    BY SMT, FilesAssumption, <1>2 DEF Ptr
  <2>2. Map(B, A)[<<i, k>>] = Adr(B, A[i], k)
    BY <2>1, MapAt
  <2>3. Adr(B, A[i], k) = B[c][k - NDIRECT]
    BY SMT, <2>1 DEF Adr
  <2> QED
    BY <2>1, <2>2, <2>3
<1>6. ASSUME B[c][j] # 0, w = V(B, U, a, L, B[c][j]) PROVE Reaches(B, A, i, X, k, w)
  <2>1. PICK s : s = B[c][j]
    OBVIOUS
  <2>2. Reached(B, A, i, X, k, B, U, a, L, s)
    <3>1. [A EXCEPT ![i] = a] = A
      BY <1>1, <1>2
    <3>2. L \subseteq {0, a[NDIRECT], s} \cup X
      BY <1>2
    <3>3. Kept(B, A, B, A)
      BY KeptSame
    <3> QED
      BY <1>2, <1>5, <1>6, <2>1, <3>1, <3>2, <3>3 DEF Reached
  <2> QED
    BY <1>6, <2>1, <2>2 DEF Reaches
<1>7. ASSUME B[c][j] = 0, NEW b \in Block \ U,
             w = V(WithEntry(Cleared(B, b), c, j, b), U \cup {b}, a,
                   L \cup {BitmapBlock} \cup {b} \cup {c}, b)
      PROVE  Reaches(B, A, i, X, k, w)
  <2>1. PICK Z, C, K : /\ Z = Cleared(B, b) /\ C = WithEntry(Z, c, j, b)
                       /\ K = L \cup {BitmapBlock} \cup {b} \cup {c}
    OBVIOUS
  <2>2. /\ c \in U /\ Sound(C, A, U \cup {b}) /\ Kept(B, A, C, A)
        /\ <<i, NDIRECT + j>> \in Pos /\ Map(C, A)[<<i, NDIRECT + j>>] = b
    BY SMT, <1>7, <2>1, EnterIndirect
  <2>3. [A EXCEPT ![i] = a] = A
    BY <1>1, <1>2
  <2>4. b # 0
    BY SMT, FilesAssumption DEF Block
  <2>5. K \subseteq {0, a[NDIRECT], b} \cup X
    BY <1>2, <2>1 DEF BitmapBlock
  <2>6. Reached(B, A, i, X, k, C, U \cup {b}, a, K, b)
    BY <1>2, <2>2, <2>3, <2>4, <2>5 DEF Reached
  <2> QED
    BY <1>7, <2>1, <2>6 DEF Reaches
<1>8. ASSUME w.fault = "balloc" PROVE Reaches(B, A, i, X, k, w)
  BY <1>8 DEF Reaches
<1>9. Reaches(B, A, i, X, k, w)
  BY <1>4, <1>6, <1>7, <1>8 DEF IndirectMade
<1> QED
  BY <1>2, <1>9

(* The second of two assignments counts.                                   *)
LEMMA TwiceSet ==
  ASSUME NEW S, NEW f, f = [y \in S |-> f[y]], NEW x \in S, NEW c, NEW d
  PROVE  [[f EXCEPT ![x] = c] EXCEPT ![x] = d] = [f EXCEPT ![x] = d]
<1>1. PICK g : g = [y \in S |-> IF y = x THEN c ELSE f[y]]
  OBVIOUS
<1>2. [f EXCEPT ![x] = c] = g
  BY SMT, <1>1
<1>3. [f EXCEPT ![x] = d] = [y \in S |-> IF y = x THEN d ELSE f[y]]
  BY SMT
<1>4. [g EXCEPT ![x] = d] = [y \in S |-> IF y = x THEN d ELSE f[y]]
  BY SMT, <1>1
<1> QED
  BY <1>2, <1>3, <1>4

(* bmap yields the block of a file, made on demand.                        *)
LEMMA BmapSound ==
  ASSUME NEW B, NEW A, NEW U, Sound(B, A, U), NEW i \in Inum, NEW bn \in 0..MAXFILE - 1,
         NEW X, Room(X), NEW L, L \subseteq {0, A[i][NDIRECT]} \cup X, NEW r
  PROVE  Reaches(B, A, i, X, PtrOf(bn), bmap(V(B, U, A[i], L, r), bn))
<1>1. PICK v : v = V(B, U, A[i], L, r)
  OBVIOUS
<1>2. CASE bn < NDIRECT
  <2>1. bn \in 0..NDIRECT
    BY SMT, <1>2, FilesAssumption DEF MAXFILE
  <2>2. Reaches(B, A, i, X, bn, Direct(v, bn))
    BY <1>1, <2>1, DirectSound
  <2> QED
    BY <1>1, <1>2, <2>2 DEF PtrOf, bmap
<1>3. CASE ~(bn < NDIRECT)
  <2>1. PICK x, j, k : x = Direct(v, NDIRECT) /\ j = 1 + bn - NDIRECT /\ k = NDIRECT + j
    OBVIOUS
  <2>2. NDIRECT \in 0..NDIRECT /\ j \in 1..NINDIRECT /\ PtrOf(bn) = k
    BY SMT, <1>3, <2>1, FilesAssumption DEF PtrOf, MAXFILE
  <2>3. Reaches(B, A, i, X, NDIRECT, x)
    BY <1>1, <2>1, <2>2, DirectSound
  <2>4. bmap(v, bn) = IF x.fault # None THEN x ELSE Indirect(x, x.ret, j)
    BY <1>3, <2>1 DEF bmap, Then
  <2>5. CASE x.fault = "balloc"
    <3>1. x.fault # None
      BY <2>5, Panicked
    <3> QED
      BY <1>1, <2>4, <2>5, <3>1 DEF Reaches
  <2>6. CASE ~(x.fault = "balloc")
    <3>1. PICK C, W, d, K, s :
            x = V(C, W, d, K, s) /\ Reached(B, A, i, X, NDIRECT, C, W, d, K, s)
      BY <2>3, <2>6 DEF Reaches
    <3>2. PICK D : D = [A EXCEPT ![i] = d]
      OBVIOUS
    <3>3. /\ Sound(C, D, W) /\ Kept(B, A, C, D)
          /\ s = Map(C, D)[<<i, NDIRECT>>] /\ s # 0
          /\ K \subseteq {0, d[NDIRECT], s} \cup X
          /\ Map(B, A)[<<i, NDIRECT>>] # 0 => d = A[i]
      BY <3>1, <3>2 DEF Reached
    <3>4. A \in [Inum -> Addrs] /\ D[i] = d
      BY <3>2 DEF Sound
    <3>5. s = d[NDIRECT] /\ Map(B, A)[<<i, NDIRECT>>] = A[i][NDIRECT]
      <4>1. Map(C, D)[<<i, NDIRECT>>] = D[i][NDIRECT]
        BY MapIndirectAt
      <4>2. Map(B, A)[<<i, NDIRECT>>] = A[i][NDIRECT]
        BY MapIndirectAt
      <4> QED
        BY <3>3, <3>4, <4>1, <4>2
    <3>6. x.fault = None /\ x.ret = s /\ x = V(C, W, D[i], K, s)
      BY <3>1, <3>4 DEF V
    <3>7. PICK w : w = Indirect(V(C, W, D[i], K, s), s, j) /\ bmap(v, bn) = w
      BY <2>4, <3>6
    <3>8. K \subseteq {0, s} \cup X
      BY <3>3, <3>5
    <3>9. Reaches(C, D, i, X, k, w)
      <4>1. Sound(C, D, W) /\ s = D[i][NDIRECT] /\ s # 0
        BY <3>3, <3>4, <3>5
      <4>2. Reaches(C, D, i, X, NDIRECT + j, Indirect(V(C, W, D[i], K, s), s, j))
        BY <2>2, <3>8, <4>1, IndirectSound
      <4> QED
        BY <2>1, <3>7, <4>2
    <3>10. ASSUME Map(B, A)[<<i, k>>] # 0 PROVE d = A[i] /\ Map(C, D)[<<i, k>>] # 0
      <4>1. k \in Ptr /\ ~(k <= NDIRECT) /\ <<i, k>> \in Pos
        BY SMT, FilesAssumption, <2>1, <2>2 DEF Ptr, Pos
      <4>2. Adr(B, A[i], k) # 0
        BY <3>10, <4>1, MapAt
      <4>3. A[i][NDIRECT] # 0
        BY <4>1, <4>2 DEF Adr
      <4>4. Map(C, D)[<<i, k>>] = Map(B, A)[<<i, k>>]
        BY <3>3, <3>10, <4>1 DEF Kept
      <4> QED
        BY <3>3, <3>5, <3>10, <4>3, <4>4
    <3>11. ASSUME NEW C2, NEW W2, NEW d2, NEW K2, NEW s2, w = V(C2, W2, d2, K2, s2),
                  Reached(C, D, i, X, k, C2, W2, d2, K2, s2)
           PROVE  Reached(B, A, i, X, k, C2, W2, d2, K2, s2)
      <4>1. [D EXCEPT ![i] = d2] = [A EXCEPT ![i] = d2]
        <5>1. A = [y \in Inum |-> A[y]]
          BY <3>4
        <5> QED
          BY <3>2, <5>1, TwiceSet
      <4>2. PICK E : E = [A EXCEPT ![i] = d2]
        OBVIOUS
      <4>3. /\ Sound(C2, E, W2) /\ Kept(C, D, C2, E)
            /\ s2 = Map(C2, E)[<<i, k>>] /\ s2 # 0
            /\ K2 \subseteq {0, d2[NDIRECT], s2} \cup X
            /\ Map(C, D)[<<i, k>>] # 0 => d2 = D[i]
        BY <3>11, <4>1, <4>2 DEF Reached
      <4>4. Kept(B, A, C2, E)
        BY <3>3, <4>3, KeptBoth
      <4>5. Map(B, A)[<<i, k>>] # 0 => d2 = A[i]
        BY <3>4, <3>10, <4>3
      <4> QED
        BY <4>2, <4>3, <4>4, <4>5 DEF Reached
    <3>12. Reaches(B, A, i, X, k, w)
      BY <3>9, <3>11 DEF Reaches
    <3> QED
      BY <1>1, <2>2, <3>7, <3>12
  <2> QED
    BY <2>5, <2>6
<1> QED
  BY <1>2, <1>3

(***************************************************************************)
(* Contents.  Unit r of block bn of file i is one that was written to it.  *)
(***************************************************************************)
Unit(B, A, i, bn, r) ==
  /\ Map(B, A)[<<i, PtrOf(bn)>>] # 0
  /\ B[Map(B, A)[<<i, PtrOf(bn)>>]][r + 1] = i
UnitsKept(B, A, C, D) ==
  \A j \in Inum, m \in 0..MAXFILE - 1, r \in 0..BSIZE - 1 : Unit(B, A, j, m, r) => Unit(C, D, j, m, r)
Stored(C, D, i, bn, lo, hi) == \A r \in 0..BSIZE - 1 : lo <= r /\ r < hi => Unit(C, D, i, bn, r)

(* Block bn of a file is one of its block numbers, and no indirect block.  *)
LEMMA PtrFacts ==
  ASSUME NEW i \in Inum, NEW bn \in 0..MAXFILE - 1
  PROVE  /\ PtrOf(bn) \in Ptr \ {NDIRECT} /\ <<i, PtrOf(bn)>> \in Pos
         /\ <<i, PtrOf(bn)>>[2] # NDIRECT
<1>1. PtrOf(bn) \in Ptr \ {NDIRECT}
  BY SMT, FilesAssumption DEF PtrOf, Ptr, MAXFILE
<1> QED
  BY SMT, <1>1 DEF Pos

(* What keeps the blocks keeps the contents.                               *)
LEMMA KeptUnits ==
  ASSUME NEW B, NEW A, NEW C, NEW D, Kept(B, A, C, D)
  PROVE  UnitsKept(B, A, C, D)
<1> SUFFICES ASSUME NEW j \in Inum, NEW m \in 0..MAXFILE - 1, NEW r \in 0..BSIZE - 1,
                    Unit(B, A, j, m, r)
             PROVE  Unit(C, D, j, m, r)
  BY DEF UnitsKept
<1>1. PICK x : x = <<j, PtrOf(m)>>
  OBVIOUS
<1>2. x \in Pos /\ x[2] # NDIRECT
  BY <1>1, PtrFacts
<1>3. Map(B, A)[x] # 0 /\ B[Map(B, A)[x]][r + 1] = j
  BY <1>1 DEF Unit
<1>4. Map(C, D)[x] = Map(B, A)[x] /\ C[Map(B, A)[x]] = B[Map(B, A)[x]]
  BY <1>2, <1>3 DEF Kept
<1> QED
  BY <1>1, <1>3, <1>4 DEF Unit

(* What two steps keep, both keep together.                                *)
LEMMA UnitsKeptBoth ==
  ASSUME NEW B, NEW A, NEW C, NEW D, NEW E, NEW F, UnitsKept(B, A, C, D), UnitsKept(C, D, E, F)
  PROVE  UnitsKept(B, A, E, F)
BY DEF UnitsKept

\* The units from lo up to hi of block s become units of file i.
Refilled(B, s, lo, hi, i) ==
  [k \in 1..BSIZE |-> IF k - 1 \in lo..lo + (hi - lo) - 1 THEN i ELSE B[s][k]]
Overwritten(B, s, lo, hi, i) == [B EXCEPT ![s] = Refilled(B, s, lo, hi, i)]
PutDone(B, A, U, i, bn, lo, hi, C) ==
  Sound(C, A, U) /\ UnitsKept(B, A, C, A) /\ Stored(C, A, i, bn, lo, hi)

(* Units of file i are written to its block bn, which is block s.          *)
LEMMA PutSounds ==
  ASSUME NEW B, NEW A, NEW U, Sound(B, A, U), NEW i \in Inum, NEW bn \in 0..MAXFILE - 1,
         NEW s, s = Map(B, A)[<<i, PtrOf(bn)>>], s # 0, NEW lo \in Int, NEW hi \in Int
  PROVE  PutDone(B, A, U, i, bn, lo, hi, Overwritten(B, s, lo, hi, i))
<1>0. PICK f, C : f = Refilled(B, s, lo, hi, i) /\ C = Overwritten(B, s, lo, hi, i)
  OBVIOUS
<1>1. /\ B \in Blocks /\ A \in [Inum -> Addrs] /\ Exact(Map(B, A), U) /\ U \in SUBSET Block
  BY SoundFacts
<1>2. PtrOf(bn) \in Ptr \ {NDIRECT} /\ <<i, PtrOf(bn)>> \in Pos
  BY PtrFacts
<1>3. PICK M : M = Map(B, A)
  OBVIOUS
<1>4. /\ M \in [Pos -> 0..NBlock] /\ U = {M[x] : x \in Pos} \ {0}
      /\ \A x, z \in Pos : M[x] = M[z] => M[x] = 0 \/ x = z
  BY <1>1, <1>3 DEF Exact
<1>5. s \in U /\ s \in Block
  BY <1>1, <1>2, <1>3, <1>4
<1>6. Map(C, A) = M
  <2>1. Yields(Map([B EXCEPT ![s] = f], A), Map(B, A))
    BY <1>1, <1>2, MapData
  <2> QED
    BY <1>0, <1>3, <2>1 DEF Yields, Overwritten
<1>7. f \in [1..BSIZE -> Cell]
  <2>1. B[s] \in [1..BSIZE -> Cell]
    BY <1>1, <1>5 DEF Blocks
  <2>2. i \in Cell
    BY DEF Cell
  <2> QED
    BY <1>0, <2>1, <2>2 DEF Refilled
<1>8. C \in Blocks /\ C[s] = f /\ \A d \in Block \ {s} : C[d] = B[d]
  BY <1>0, <1>1, <1>5, <1>7 DEF Blocks, Overwritten
<1>9. Sound(C, A, U)
  BY <1>1, <1>3, <1>6, <1>8 DEF Sound
<1>10. ASSUME NEW r \in 0..BSIZE - 1
       PROVE  f[r + 1] = IF lo <= r /\ r < hi THEN i ELSE B[s][r + 1]
  <2>1. PICK q : q = r + 1
    OBVIOUS
  <2>2. q \in 1..BSIZE /\ (q - 1 \in lo..lo + (hi - lo) - 1 <=> lo <= r /\ r < hi)
    BY SMT, FilesAssumption, <2>1
  <2>3. f[q] = IF q - 1 \in lo..lo + (hi - lo) - 1 THEN i ELSE B[s][q]
    BY <1>0, <2>2 DEF Refilled
  <2> QED
    BY <2>1, <2>2, <2>3
<1>11. UnitsKept(B, A, C, A)
  <2> SUFFICES ASSUME NEW j \in Inum, NEW m \in 0..MAXFILE - 1, NEW r \in 0..BSIZE - 1,
                      Unit(B, A, j, m, r)
               PROVE  Unit(C, A, j, m, r)
    BY DEF UnitsKept
  <2>1. PICK x, y : x = <<j, PtrOf(m)>> /\ y = <<i, PtrOf(bn)>>
    OBVIOUS
  <2>2. x \in Pos /\ y \in Pos /\ (x = y => j = i)
    <3>1. x \in Pos
      BY <2>1, PtrFacts
    <3>2. x = y => j = i
      BY SMT, <2>1
    <3> QED
      BY <1>2, <2>1, <3>1, <3>2
  <2>3. M[x] # 0 /\ B[M[x]][r + 1] = j /\ s = M[y]
    BY <1>3, <2>1 DEF Unit
  <2>4. C[M[x]][r + 1] = j
    <3>1. CASE M[x] = s
      <4>1. j = i
        BY <1>4, <2>2, <2>3, <3>1
      <4> QED
        BY <1>8, <1>10, <2>3, <3>1, <4>1
    <3>2. CASE M[x] # s
      <4>1. M[x] \in U
        BY <1>4, <2>2, <2>3
      <4>2. C[M[x]] = B[M[x]]
        BY <1>1, <1>8, <3>2, <4>1
      <4> QED
        BY <2>3, <4>2
    <3> QED
      BY <3>1, <3>2
  <2> QED
    BY <1>6, <2>1, <2>3, <2>4 DEF Unit
<1>12. Stored(C, A, i, bn, lo, hi)
  <2> SUFFICES ASSUME NEW r \in 0..BSIZE - 1, lo <= r, r < hi PROVE Unit(C, A, i, bn, r)
    BY DEF Stored
  <2>1. C[s][r + 1] = i
    BY <1>8, <1>10
  <2> QED
    BY <1>3, <1>6, <2>1 DEF Unit
<1> QED
  BY <1>0, <1>9, <1>11, <1>12 DEF PutDone

\* What a round of sfs_writei's loop leaves.
Wrote(B, A, i, X, bn, lo, hi, C, W, d, K, s) ==
  /\ Sound(C, [A EXCEPT ![i] = d], W) /\ UnitsKept(B, A, C, [A EXCEPT ![i] = d])
  /\ Stored(C, [A EXCEPT ![i] = d], i, bn, lo, hi)
  /\ K \subseteq {0, d[NDIRECT]} \cup (X \cup {s})
  /\ Map(B, A)[<<i, PtrOf(bn)>>] # 0 => d = A[i]
Writes(B, A, i, X, bn, lo, hi, w) ==
  \/ w.fault = "balloc"
  \/ \E C, W, d, K, s : w = V(C, W, d, K, s) /\ Wrote(B, A, i, X, bn, lo, hi, C, W, d, K, s)

(* One round: bmap, and the units of the block.                            *)
LEMMA RoundSound ==
  ASSUME NEW B, NEW A, NEW U, Sound(B, A, U), NEW i \in Inum, NEW bn \in 0..MAXFILE - 1,
         NEW X, Room(X), NEW L, L \subseteq {0, A[i][NDIRECT]} \cup X, NEW r, NEW off, NEW n,
         NEW lo \in Int, NEW hi \in Int, lo = From(off, bn), hi = To(off, n, bn)
  PROVE  Writes(B, A, i, X, bn, lo, hi, Round(V(B, U, A[i], L, r), i, off, n, bn))
<1>1. PICK w, z : /\ w = bmap(V(B, U, A[i], L, r), bn)
                  /\ z = Round(V(B, U, A[i], L, r), i, off, n, bn)
  OBVIOUS
<1>2. Reaches(B, A, i, X, PtrOf(bn), w)
  BY <1>1, BmapSound
<1>3. z = IF w.fault # None THEN w ELSE PutUnits(w, w.ret, lo, hi - lo, i)
  BY <1>1 DEF Round, Then
<1>4. CASE w.fault = "balloc"
  <2>1. w.fault # None
    BY <1>4, Panicked
  <2> QED
    BY <1>1, <1>3, <1>4, <2>1 DEF Writes
<1>5. CASE ~(w.fault = "balloc")
  <2>1. PICK C, W, d, K, s :
          w = V(C, W, d, K, s) /\ Reached(B, A, i, X, PtrOf(bn), C, W, d, K, s)
    BY <1>2, <1>5 DEF Reaches
  <2>2. PICK D : D = [A EXCEPT ![i] = d]
    OBVIOUS
  <2>3. /\ Sound(C, D, W) /\ Kept(B, A, C, D)
        /\ s = Map(C, D)[<<i, PtrOf(bn)>>] /\ s # 0
        /\ K \subseteq {0, d[NDIRECT], s} \cup X
        /\ Map(B, A)[<<i, PtrOf(bn)>>] # 0 => d = A[i]
    BY <2>1, <2>2 DEF Reached
  <2>4. w.fault = None /\ w.ret = s /\ w.blk = C
    BY <2>1 DEF V
  <2>5. PICK E : E = Overwritten(C, s, lo, hi, i)
    OBVIOUS
  <2>6. z = log_write([w EXCEPT !.blk = E], s)
    <3>1. z = PutUnits(w, s, lo, hi - lo, i)
      BY <1>3, <2>4
    <3> QED
      BY <2>4, <2>5, <3>1 DEF PutUnits, Overwritten, Refilled
  <2>7. [V(C, W, d, K, s) EXCEPT !.blk = E] = V(E, W, d, K, s)
    BY SMT DEF V
  <2>8. Small(K)
    <3>1. PICK Y : Y = {0, d[NDIRECT], s} \cup X /\ Small(Y)
      BY DEF Room
    <3> QED
      BY <2>3, <3>1, SmallPart
  <2>9. Yields(log_write(V(E, W, d, K, s), s), V(E, W, d, K \cup {s}, s))
    BY <2>8, LogWrite
  <2>10. z = V(E, W, d, K \cup {s}, s)
    BY <2>1, <2>6, <2>7, <2>9 DEF Yields
  <2>11. Sound(E, D, W) /\ UnitsKept(C, D, E, D) /\ Stored(E, D, i, bn, lo, hi)
    <3>1. PutDone(C, D, W, i, bn, lo, hi, E)
      BY <2>3, <2>5, PutSounds
    <3> QED
      BY <3>1 DEF PutDone
  <2>12. UnitsKept(B, A, E, D)
    <3>1. UnitsKept(B, A, C, D)
      BY <2>3, KeptUnits
    <3> QED
      BY <2>11, <3>1, UnitsKeptBoth
  <2>13. K \cup {s} \subseteq {0, d[NDIRECT]} \cup (X \cup {s})
    BY <2>3
  <2>14. Wrote(B, A, i, X, bn, lo, hi, E, W, d, K \cup {s}, s)
    BY <2>2, <2>3, <2>11, <2>12, <2>13 DEF Wrote
  <2> QED
    BY <1>1, <2>10, <2>14 DEF Writes
<1> QED
  BY <1>4, <1>5

(***************************************************************************)
(* The loop of sfs_writei, from block first to block last of the file.     *)
(***************************************************************************)
LoopAt(B, A, i, off, n, first, last, bn, C, W, d, K, X) ==
  /\ Sound(C, [A EXCEPT ![i] = d], W) /\ UnitsKept(B, A, C, [A EXCEPT ![i] = d])
  /\ K \subseteq {0, d[NDIRECT]} \cup X
  /\ IsFiniteSet(X) /\ Cardinality(X) <= bn - first + 1
  /\ \A m \in first..bn : Stored(C, [A EXCEPT ![i] = d], i, m, From(off, m), To(off, n, m))
  /\ (\A m \in first..last : \E r \in 0..BSIZE - 1 : Unit(B, A, i, m, r)) => d = A[i]
InLoop(B, A, i, off, n, first, last, bn, w) ==
  \/ w.fault = "balloc"
  \/ \E C, W, d, K, s, X : w = V(C, W, d, K, s)
                           /\ LoopAt(B, A, i, off, n, first, last, bn, C, W, d, K, X)
Again(w, i, off, n, bn) == IF w.fault # None THEN w ELSE Round(w, i, off, n, bn)

(* Blocks and units: the facts of arithmetic.                              *)
LEMMA DivMod ==
  ASSUME NEW x \in Nat
  PROVE  /\ x \div BSIZE \in Nat /\ x % BSIZE \in 0..BSIZE - 1
         /\ x = (x \div BSIZE) * BSIZE + (x % BSIZE)
BY SMT, FilesAssumption

(* The order of units is that of their blocks.                             *)
LEMMA BlockOrder ==
  ASSUME NEW a \in Int, NEW b \in Int, NEW r \in 0..BSIZE - 1, NEW q \in 0..BSIZE - 1,
         a * BSIZE + r <= b * BSIZE + q
  PROVE  a <= b
<1>0. BSIZE \in Nat
  BY SMT, FilesAssumption
<1>1. CASE a > b
  <2>1. a - b - 1 \in Nat /\ a = b + (a - b - 1) + 1
    BY SMT, <1>1
  <2>2. PICK d \in Nat : a = b + d + 1
    BY <2>1
  <2>3. a * BSIZE = b * BSIZE + d * BSIZE + BSIZE
    BY SMT, <1>0, <2>2
  <2>4. d * BSIZE >= 0
    BY SMT, <1>0
  <2> QED
    BY SMT, <1>0, <2>3, <2>4
<1> QED
  BY SMT, <1>1

(* The smaller of two numbers.                                             *)
LEMMA MinOfTwo ==
  ASSUME NEW a \in Int, NEW b \in Int
  PROVE  Min({a, b}) \in Int /\ Min({a, b}) = IF a <= b THEN a ELSE b
<1>1. PICK c : c = IF a <= b THEN a ELSE b
  OBVIOUS
<1>2. c \in {a, b} /\ \A y \in {a, b} : c <= y
  BY SMT, <1>1
<1>3. Min({a, b}) \in {a, b} /\ \A y \in {a, b} : Min({a, b}) <= y
  BY <1>2 DEF Min
<1> QED
  BY SMT, <1>1, <1>2, <1>3

(* The part of a block that is written is given by integers.               *)
LEMMA PartType ==
  ASSUME NEW off \in Nat, NEW n \in Nat, NEW bn \in Nat
  PROVE  From(off, bn) \in Int /\ To(off, n, bn) \in Int
<1>1. From(off, bn) \in Int
  <2>1. off % BSIZE \in Int /\ 0 \in Int
    BY SMT, DivMod
  <2> QED
    BY <2>1 DEF From
<1>2. PICK x : x = off + n - bn * BSIZE
  OBVIOUS
<1>3. BSIZE \in Int /\ x \in Int
  BY SMT, <1>2, FilesAssumption
<1>4. Min({BSIZE, x}) \in Int
  BY <1>3, MinOfTwo
<1> QED
  BY <1>1, <1>2, <1>4 DEF To

(* What is stored stays stored.                                            *)
LEMMA StoredKept ==
  ASSUME NEW C, NEW D, NEW E, NEW F, UnitsKept(C, D, E, F), NEW i \in Inum,
         NEW m \in 0..MAXFILE - 1, NEW lo, NEW hi, Stored(C, D, i, m, lo, hi)
  PROVE  Stored(E, F, i, m, lo, hi)
BY DEF UnitsKept, Stored

(* A round of the loop.                                                    *)
LEMMA LoopStep ==
  ASSUME NEW B, NEW A \in [Inum -> Addrs], NEW i \in Inum, NEW off \in Nat, NEW n \in Nat,
         NEW first \in Nat, NEW last \in Nat, last <= MAXFILE - 1, last - first + 3 < LOGSIZE - 1,
         NEW bn \in first..last, NEW w, InLoop(B, A, i, off, n, first, last, bn - 1, w)
  PROVE  InLoop(B, A, i, off, n, first, last, bn, Again(w, i, off, n, bn))
<1>1. CASE w.fault = "balloc"
  <2>1. w.fault # None
    BY <1>1, Panicked
  <2> QED
    BY <1>1, <2>1 DEF InLoop, Again
<1>2. CASE ~(w.fault = "balloc")
  <2>1. PICK C, W, d, K, s, X : /\ w = V(C, W, d, K, s)
                                /\ LoopAt(B, A, i, off, n, first, last, bn - 1, C, W, d, K, X)
    BY <1>2 DEF InLoop
  <2>2. PICK D : D = [A EXCEPT ![i] = d]
    OBVIOUS
  <2>3. /\ Sound(C, D, W) /\ UnitsKept(B, A, C, D)
        /\ K \subseteq {0, d[NDIRECT]} \cup X
        /\ IsFiniteSet(X) /\ Cardinality(X) <= bn - 1 - first + 1
        /\ \A m \in first..bn - 1 : Stored(C, D, i, m, From(off, m), To(off, n, m))
        /\ (\A m \in first..last : \E r \in 0..BSIZE - 1 : Unit(B, A, i, m, r)) => d = A[i]
    BY <2>1, <2>2 DEF LoopAt
  <2>4. D[i] = d
    BY <2>2
  <2>5. bn \in 0..MAXFILE - 1 /\ bn \in Nat /\ first..bn - 1 \subseteq 0..MAXFILE - 1
    BY SMT, FilesAssumption DEF MAXFILE
  <2>6. Room(X)
    <3>1. Cardinality(X) \in Nat
      BY <2>3, FS_CardinalityType
    <3>2. Cardinality(X) + 3 < LOGSIZE - 1
      BY SMT, SMTT(6), SMTT(7), <2>3, <3>1, FilesAssumption
    <3> QED
      BY <2>3, <3>2, RoomFor
  <2>7. PICK lo \in Int, hi \in Int : lo = From(off, bn) /\ hi = To(off, n, bn)
    BY <2>5, PartType
  <2>8. PICK z : z = Round(w, i, off, n, bn) /\ Again(w, i, off, n, bn) = z
    <3>1. w.fault = None
      BY <2>1 DEF V
    <3> QED
      BY <3>1 DEF Again
  <2>9. Writes(C, D, i, X, bn, lo, hi, z)
    <3>1. K \subseteq {0, D[i][NDIRECT]} \cup X
      BY <2>3, <2>4
    <3>2. Sound(C, D, W)
      BY <2>3
    <3>3. Writes(C, D, i, X, bn, lo, hi, Round(V(C, W, D[i], K, s), i, off, n, bn))
      BY <2>5, <2>6, <2>7, <3>1, <3>2, RoundSound
    <3> QED
      BY <2>1, <2>4, <2>8, <3>3
  <2>10. ASSUME NEW C2, NEW W2, NEW d2, NEW K2, NEW s2, z = V(C2, W2, d2, K2, s2),
                Wrote(C, D, i, X, bn, lo, hi, C2, W2, d2, K2, s2)
         PROVE  InLoop(B, A, i, off, n, first, last, bn, z)
    <3>1. [D EXCEPT ![i] = d2] = [A EXCEPT ![i] = d2]
      <4>1. A = [x \in Inum |-> A[x]]
        OBVIOUS
      <4> QED
        BY <2>2, <4>1, TwiceSet
    <3>2. PICK E, X2 : E = [A EXCEPT ![i] = d2] /\ X2 = X \cup {s2}
      OBVIOUS
    <3>3. /\ Sound(C2, E, W2) /\ UnitsKept(C, D, C2, E)
          /\ Stored(C2, E, i, bn, lo, hi)
          /\ K2 \subseteq {0, d2[NDIRECT]} \cup X2
          /\ Map(C, D)[<<i, PtrOf(bn)>>] # 0 => d2 = D[i]
      BY <2>10, <3>1, <3>2 DEF Wrote
    <3>4. UnitsKept(B, A, C2, E)
      BY <2>3, <3>3, UnitsKeptBoth
    <3>5. IsFiniteSet(X2) /\ Cardinality(X2) <= bn - first + 1
      <4>1. Cardinality(X) \in Nat
        BY <2>3, FS_CardinalityType
      <4>2. IsFiniteSet(X2) /\ Cardinality(X2) \in {Cardinality(X), Cardinality(X) + 1}
        BY SMT, SMTT(6), SMTT(7), <2>3, <3>2, <4>1, FS_AddElement
      <4> QED
        BY SMT, SMTT(6), SMTT(7), <2>3, <2>5, <4>1, <4>2
    <3>6. ASSUME NEW m \in first..bn PROVE Stored(C2, E, i, m, From(off, m), To(off, n, m))
      <4>1. CASE m = bn
        BY <2>7, <3>3, <4>1
      <4>2. CASE m # bn
        <5>1. m \in first..bn - 1
          BY SMT, <2>5, <4>2
        <5>2. m \in 0..MAXFILE - 1 /\ Stored(C, D, i, m, From(off, m), To(off, n, m))
          BY <2>3, <2>5, <5>1
        <5> QED
          BY <3>3, <5>2, StoredKept
      <4> QED
        BY <4>1, <4>2
    <3>7. ASSUME \A m \in first..last : \E r \in 0..BSIZE - 1 : Unit(B, A, i, m, r)
          PROVE  d2 = A[i]
      <4>1. PICK r \in 0..BSIZE - 1 : Unit(B, A, i, bn, r)
        BY <3>7
      <4>2. Unit(C, D, i, bn, r)
        BY <2>3, <2>5, <4>1 DEF UnitsKept
      <4>3. Map(C, D)[<<i, PtrOf(bn)>>] # 0
        BY <4>2 DEF Unit
      <4> QED
        BY <2>3, <2>4, <3>3, <3>7, <4>3
    <3>8. LoopAt(B, A, i, off, n, first, last, bn, C2, W2, d2, K2, X2)
      BY <3>2, <3>3, <3>4, <3>5, <3>6, <3>7 DEF LoopAt
    <3> QED
      BY <2>10, <3>8 DEF InLoop
  <2>11. ASSUME z.fault = "balloc" PROVE InLoop(B, A, i, off, n, first, last, bn, z)
    BY <2>11 DEF InLoop
  <2>12. InLoop(B, A, i, off, n, first, last, bn, z)
    BY <2>9, <2>10, <2>11 DEF Writes
  <2> QED
    BY <2>8, <2>12
<1> QED
  BY <1>1, <1>2

\* A run of the loop: f[bn] is what block bn leaves.
LoopRun(f, v, i, off, n, first, last) ==
  f = [bn \in first - 1..last |-> IF bn < first THEN v ELSE Again(f[bn - 1], i, off, n, bn)]

Runs(v, i, off, n, first, last) ==
  \E f : LoopRun(f, v, i, off, n, first, last) /\ WriteLoop(v, i, off, n) = f[last]

(* A set of naturals that is not empty has a least element.                *)
LEMMA LeastOf ==
  ASSUME NEW S \in SUBSET Nat, S # {}
  PROVE  \E x \in S : \A y \in S : x <= y
<1> DEFINE R == OpToRel(<, Nat)
<1>1. IsWellFoundedOn(R, Nat)
  BY NatLessThanWellFounded
<1>2. \A x, y \in Nat : <<x, y>> \in R <=> x < y
  BY SMT DEF OpToRel
<1> HIDE DEF R
<1>3. PICK x \in S : \A y \in S : ~(<<y, x>> \in R)
  BY <1>1, WFMin
<1>4. ASSUME NEW y \in S PROVE x <= y
  <2>1. x \in Nat /\ y \in Nat
    OBVIOUS
  <2>2. ~(y < x)
    BY <2>1, <1>2, <1>3
  <2> QED
    BY SMT, <2>1, <2>2
<1> QED
  BY <1>4

(* The loop has a run, however long it is.                                 *)
LEMMA RunExists ==
  ASSUME NEW v, NEW i, NEW off, NEW n, NEW first \in Nat, NEW last \in Nat, first <= last
  PROVE  \E f : LoopRun(f, v, i, off, n, first, last)
<1>1. PICK S : S = {h \in Nat : h >= first /\ ~ \E f : LoopRun(f, v, i, off, n, first, h)}
  OBVIOUS
<1>2. CASE S = {}
  BY <1>1, <1>2
<1>3. CASE S # {}
  <2>1. S \in SUBSET Nat
    BY <1>1
  <2>2. PICK h \in S : \A y \in S : h <= y
    BY <1>3, <2>1, LeastOf
  <2>3. h \in Nat /\ h >= first /\ ~ \E f : LoopRun(f, v, i, off, n, first, h)
    BY <1>1, <2>2
  <2>4. \E f : f = [bn \in first - 1..h - 1 |-> IF bn < first THEN v ELSE Again(f[bn - 1], i, off, n, bn)]
    <3>1. CASE h = first
      <4>1. PICK f : f = [bn \in first - 1..h - 1 |-> v]
        OBVIOUS
      <4>2. \A bn \in first - 1..h - 1 : bn < first
        BY SMT, <3>1
      <4> QED
        BY <4>1, <4>2
    <3>2. CASE h # first
      <4>1. h - 1 \in Nat /\ h - 1 >= first /\ ~(h <= h - 1)
        BY SMT, <2>3, <3>2
      <4>2. h - 1 \notin S
        BY <2>2, <4>1
      <4>3. \E f : LoopRun(f, v, i, off, n, first, h - 1)
        BY <1>1, <4>1, <4>2
      <4> QED
        BY <4>3 DEF LoopRun
    <3> QED
      BY <3>1, <3>2
  <2>5. PICK f : f = [bn \in first - 1..h - 1 |-> IF bn < first THEN v ELSE Again(f[bn - 1], i, off, n, bn)]
    BY <2>4
  <2>6. PICK g : g = [bn \in first - 1..h |-> IF bn = h THEN Again(f[h - 1], i, off, n, h) ELSE f[bn]]
    OBVIOUS
  <2>7. ASSUME NEW bn \in first - 1..h
        PROVE  g[bn] = IF bn < first THEN v ELSE Again(g[bn - 1], i, off, n, bn)
    <3>1. CASE bn = h
      <4>1. ~(bn < first) /\ h - 1 \in first - 1..h /\ h - 1 # h /\ h \in first - 1..h
        BY SMT, <2>3, <3>1
      <4>2. g[h] = Again(f[h - 1], i, off, n, h) /\ g[h - 1] = f[h - 1]
        BY <2>6, <4>1
      <4> QED
        BY <3>1, <4>1, <4>2
    <3>2. CASE bn # h
      <4>1. bn \in first - 1..h - 1
        BY SMT, <2>3, <3>2
      <4>2. g[bn] = IF bn < first THEN v ELSE Again(f[bn - 1], i, off, n, bn)
        BY <2>5, <2>6, <3>2, <4>1
      <4>3. ~(bn < first) => bn - 1 \in first - 1..h /\ bn - 1 # h
        BY SMT, <2>3, <3>2, <4>1
      <4>4. ~(bn < first) => g[bn - 1] = f[bn - 1]
        BY <2>6, <4>3
      <4> QED
        BY <4>2, <4>4
    <3> QED
      BY <3>1, <3>2
  <2>8. g = [bn \in first - 1..h |-> g[bn]]
    BY <2>6
  <2>9. LoopRun(g, v, i, off, n, first, h)
    BY <2>7, <2>8 DEF LoopRun
  <2> QED
    BY <2>3, <2>9
<1> QED
  BY <1>2, <1>3

(* The loop of the model is such a run.                                    *)
LEMMA LoopIsRun ==
  ASSUME NEW v, NEW i, NEW off \in Nat, NEW n, NEW first \in Nat, NEW last \in Nat, first <= last,
         first = off \div BSIZE, last = (off + n - 1) \div BSIZE
  PROVE  Runs(v, i, off, n, first, last)
<1>1. PICK g : LoopRun(g, v, i, off, n, first, last)
  BY RunExists
<1>2. PICK h : h = CHOOSE f : f = [bn \in first - 1..last |->
                     IF bn < first THEN v ELSE Then(f[bn - 1], LAMBDA w : Round(w, i, off, n, bn))]
  OBVIOUS
<1>3. h = CHOOSE f : LoopRun(f, v, i, off, n, first, last)
  BY <1>2 DEF LoopRun, Then, Again
<1>4. LoopRun(h, v, i, off, n, first, last)
  BY <1>1, <1>3
<1>5. WriteLoop(v, i, off, n) = h[last]
  BY <1>2 DEF WriteLoop
<1> QED
  BY <1>4, <1>5 DEF Runs

(* All rounds of the loop.                                                 *)
LEMMA LoopSound ==
  ASSUME NEW B, NEW A, NEW U, Sound(B, A, U), NEW i \in Inum, NEW off \in Nat, NEW n \in Nat, NEW r0,
         NEW first \in Nat, NEW last \in Nat, first <= last, last <= MAXFILE - 1,
         last - first + 3 < LOGSIZE - 1,
         first = off \div BSIZE, last = (off + n - 1) \div BSIZE
  PROVE  InLoop(B, A, i, off, n, first, last, last, WriteLoop(V(B, U, A[i], {}, r0), i, off, n))
<1>1. PICK v : v = V(B, U, A[i], {}, r0)
  OBVIOUS
<1>2. PICK f : LoopRun(f, v, i, off, n, first, last) /\ WriteLoop(v, i, off, n) = f[last]
  <2>1. Runs(v, i, off, n, first, last)
    BY LoopIsRun
  <2> QED
    BY <2>1 DEF Runs
<1>3. /\ f = [bn \in first - 1..last |-> f[bn]]
      /\ \A bn \in first - 1..last : f[bn] = IF bn < first THEN v ELSE Again(f[bn - 1], i, off, n, bn)
  BY <1>2 DEF LoopRun
<1>4. A \in [Inum -> Addrs] /\ [A EXCEPT ![i] = A[i]] = A
  BY SoundFacts
<1>6. InLoop(B, A, i, off, n, first, last, first - 1, v)
  <2>1. PICK D, X : D = [A EXCEPT ![i] = A[i]] /\ X = {}
    OBVIOUS
  <2>2. D = A
    BY <1>4, <2>1
  <2>3. UnitsKept(B, A, B, D)
    BY <2>2 DEF UnitsKept
  <2>4. IsFiniteSet(X) /\ Cardinality(X) = 0
    BY <2>1, FS_EmptySet
  <2>5. Cardinality(X) <= first - 1 - first + 1 /\ first..first - 1 = {}
    BY SMT, <2>4
  <2>6. LoopAt(B, A, i, off, n, first, last, first - 1, B, U, A[i], {}, X)
    BY <2>1, <2>2, <2>3, <2>4, <2>5 DEF LoopAt
  <2> QED
    BY <1>1, <2>6 DEF InLoop
<1>7. PICK S : S = {h \in Nat : /\ h >= first /\ h <= last
                                /\ ~InLoop(B, A, i, off, n, first, last, h, f[h])}
  OBVIOUS
<1>8. CASE S = {}
  <2>1. last \in Nat /\ last >= first /\ last <= last
    BY SMT
  <2>2. InLoop(B, A, i, off, n, first, last, last, f[last])
    BY <1>7, <1>8, <2>1
  <2> QED
    BY <1>1, <1>2, <2>2
<1>9. CASE S # {}
  <2>1. S \in SUBSET Nat
    BY <1>7
  <2>2. PICK h \in S : \A y \in S : h <= y
    BY <1>9, <2>1, LeastOf
  <2>3. h \in Nat /\ h >= first /\ h <= last /\ ~InLoop(B, A, i, off, n, first, last, h, f[h])
    BY <1>7, <2>2
  <2>4. InLoop(B, A, i, off, n, first, last, h - 1, f[h - 1])
    <3>1. CASE h = first
      <4>1. first - 1 \in first - 1..last /\ first - 1 < first
        BY SMT
      <4>2. f[first - 1] = v
        BY <1>3, <4>1
      <4> QED
        BY <1>6, <3>1, <4>2
    <3>2. CASE h # first
      <4>1. h - 1 \in Nat /\ h - 1 >= first /\ h - 1 <= last /\ ~(h <= h - 1)
        BY SMT, <2>3, <3>2
      <4>2. h - 1 \notin S
        BY <2>2, <4>1
      <4> QED
        BY <1>7, <4>1, <4>2
    <3> QED
      BY <3>1, <3>2
  <2>5. h \in first - 1..last /\ h \in first..last /\ ~(h < first)
    BY SMT, <2>3
  <2>6. InLoop(B, A, i, off, n, first, last, h, Again(f[h - 1], i, off, n, h))
    <3>1. PICK w : w = f[h - 1]
      OBVIOUS
    <3>2. InLoop(B, A, i, off, n, first, last, h - 1, w)
      BY <2>4, <3>1
    <3>3. A \in [Inum -> Addrs] /\ h \in first..last
      BY <1>4, <2>5
    <3>4. InLoop(B, A, i, off, n, first, last, h, Again(w, i, off, n, h))
      BY SMT, SMTT(6), SMTT(7), <3>2, <3>3, LoopStep
    <3> QED
      BY <3>1, <3>4
  <2>7. f[h] = Again(f[h - 1], i, off, n, h)
    BY <1>3, <2>5
  <2> QED
    BY <2>3, <2>6, <2>7
<1> QED
  BY <1>8, <1>9

\* All units of a file below size are units that were written to it.
Holds(B, A, i, size) ==
  \A bn \in 0..MAXFILE - 1, r \in 0..BSIZE - 1 : bn * BSIZE + r < size => Unit(B, A, i, bn, r)
\* A write that ends at end leaves blocks C, block numbers d in the inode.
Appended(B, A, i, off, end, C, W, d) ==
  /\ Sound(C, [A EXCEPT ![i] = d], W) /\ UnitsKept(B, A, C, [A EXCEPT ![i] = d])
  /\ \A size \in Nat : Holds(B, A, i, size) /\ off <= size => Holds(C, [A EXCEPT ![i] = d], i, end)
  /\ \A size \in Nat : Holds(B, A, i, size) /\ end <= size => d = A[i]
Appends(B, A, i, off, end, w) ==
  w.fault = "balloc" \/ \E C, W, d, K, s : w = V(C, W, d, K, s) /\ Appended(B, A, i, off, end, C, W, d)

(* The blocks of a chunk: in the file, and few.                            *)
LEMMA ChunkBlocks ==
  ASSUME NEW off \in Nat, NEW n \in Nat \ {0}, n <= max, off + n <= MAXFILE * BSIZE,
         NEW first, first = off \div BSIZE, NEW last, last = (off + n - 1) \div BSIZE
  PROVE  /\ first \in Nat /\ last \in Nat /\ first <= last /\ last <= MAXFILE - 1
         /\ last - first + 3 < LOGSIZE - 1
<1>0. BSIZE \in Nat /\ BSIZE >= 1 /\ MAXFILE \in Nat /\ LOGSIZE \in Nat /\ LOGSIZE >= 6
  BY SMT, FilesAssumption DEF MAXFILE
<1>1. PICK e \in Nat : e = off + n - 1
  BY SMT
<1>2. PICK p, q : p = off % BSIZE /\ q = e % BSIZE
  OBVIOUS
<1>3. first \in Nat /\ p \in 0..BSIZE - 1 /\ off = first * BSIZE + p
  BY <1>2, DivMod
<1>4. last \in Nat /\ q \in 0..BSIZE - 1 /\ e = last * BSIZE + q
  BY <1>1, <1>2, DivMod
<1>5. first <= last
  <2>1. first * BSIZE + p <= last * BSIZE + q
    BY SMT, <1>1, <1>3, <1>4
  <2> QED
    BY SMT, SMTT(6), SMTT(7), <1>3, <1>4, <2>1, BlockOrder
<1>6. last <= MAXFILE - 1
  <2>1. PICK m \in Int, t \in 0..BSIZE - 1 : m = MAXFILE - 1 /\ t = BSIZE - 1
    BY SMT, <1>0
  <2>2. MAXFILE * BSIZE = m * BSIZE + t + 1
    BY SMT, SMTT(6), SMTT(7), <1>0, <2>1
  <2>3. MAXFILE * BSIZE \in Int /\ m * BSIZE \in Int /\ last * BSIZE \in Int
    BY SMT, SMTT(6), SMTT(7), <1>0, <1>4, <2>1
  <2>4. last * BSIZE + q <= m * BSIZE + t
    BY SMT, SMTT(6), SMTT(7), <1>1, <1>4, <2>1, <2>2, <2>3
  <2>5. last <= m
    BY SMT, SMTT(6), SMTT(7), <1>4, <2>1, <2>4, BlockOrder
  <2> QED
    BY <2>1, <2>5
<1>7. PICK half \in Nat : max = half * BSIZE /\ 2 * half <= LOGSIZE - 4
  <2>1. PICK x \in Nat : x = LOGSIZE - 4
    BY SMT, <1>0
  <2>2. PICK half : half = x \div 2
    OBVIOUS
  <2>3. half \in Nat /\ 2 * half <= x
    BY SMT, SMTT(6), SMTT(7), <2>1, <2>2
  <2>4. LOGSIZE - 1 - 1 - 2 = x
    BY SMT, <1>0, <2>1
  <2>5. max = half * BSIZE
    BY <2>2, <2>4 DEF max
  <2> QED
    BY <2>1, <2>3, <2>5
<1>8. last <= first + half
  <2>1. (first + half) * BSIZE = first * BSIZE + half * BSIZE
    BY SMT, SMTT(6), SMTT(7), <1>0, <1>3, <1>7
  <2>2. first * BSIZE \in Int /\ half * BSIZE \in Int /\ last * BSIZE \in Int
    BY SMT, SMTT(6), SMTT(7), <1>0, <1>3, <1>4, <1>7
  <2>3. last * BSIZE + q <= (first + half) * BSIZE + p
    BY SMT, SMTT(6), SMTT(7), <1>1, <1>3, <1>4, <1>7, <2>1, <2>2
  <2> QED
    BY SMT, SMTT(6), SMTT(7), <1>3, <1>4, <1>7, <2>3, BlockOrder
<1>9. last - first + 3 < LOGSIZE - 1
  BY SMT, SMTT(6), SMTT(7), <1>0, <1>3, <1>4, <1>7, <1>8
<1> QED
  BY <1>3, <1>4, <1>5, <1>6, <1>9

(* Two blocks fit besides those of a chunk.                                *)
LEMMA RoomForTwo ==
  ASSUME NEW X, IsFiniteSet(X), Cardinality(X) + 2 < LOGSIZE - 1, NEW c
  PROVE  Small({0, c} \cup X)
<1>1. PICK X1, X2 : X1 = X \cup {0} /\ X2 = X1 \cup {c}
  OBVIOUS
<1>2. Cardinality(X) \in Nat
  BY FS_CardinalityType
<1>3. IsFiniteSet(X1) /\ Cardinality(X1) \in {Cardinality(X), Cardinality(X) + 1}
  BY SMT, SMTT(6), SMTT(7), <1>1, <1>2, FS_AddElement
<1>4. IsFiniteSet(X2) /\ Cardinality(X2) \in {Cardinality(X1), Cardinality(X1) + 1}
  BY SMT, SMTT(6), SMTT(7), <1>1, <1>3, FS_AddElement
<1>5. Cardinality(X2) < LOGSIZE - 1
  BY SMT, SMTT(6), SMTT(7), <1>2, <1>3, <1>4, FilesAssumption
<1>6. X2 = {0, c} \cup X
  BY <1>1
<1> QED
  BY <1>4, <1>5, <1>6 DEF Small

(* The loop of sfs_writei has written off to off + n - 1.                  *)
LEMMA LoopAppends ==
  ASSUME NEW B, NEW A, NEW i \in Inum, NEW off \in Nat, NEW n \in Nat \ {0},
         NEW first \in Nat, NEW last \in Nat, last <= MAXFILE - 1,
         first = off \div BSIZE, last = (off + n - 1) \div BSIZE,
         NEW C, NEW W, NEW d, NEW K, NEW X,
         LoopAt(B, A, i, off, n, first, last, last, C, W, d, K, X)
  PROVE  Appended(B, A, i, off, off + n, C, W, d)
<1>0. BSIZE \in Nat /\ BSIZE >= 1 /\ MAXFILE \in Nat
  BY SMT, FilesAssumption DEF MAXFILE
<1>1. PICK D, e, p, q : /\ D = [A EXCEPT ![i] = d] /\ e = off + n - 1
                        /\ p = off % BSIZE /\ q = e % BSIZE
  OBVIOUS
<1>2. /\ Sound(C, D, W) /\ UnitsKept(B, A, C, D)
      /\ \A m \in first..last : Stored(C, D, i, m, From(off, m), To(off, n, m))
      /\ (\A m \in first..last : \E r \in 0..BSIZE - 1 : Unit(B, A, i, m, r)) => d = A[i]
  BY <1>1 DEF LoopAt
<1>3. e \in Nat
  BY SMT, <1>1
<1>4. p \in 0..BSIZE - 1 /\ off = first * BSIZE + p
  BY <1>1, DivMod
<1>5. q \in 0..BSIZE - 1 /\ e = last * BSIZE + q
  BY <1>1, <1>3, DivMod
<1>6. ASSUME NEW size \in Nat, Holds(B, A, i, size), off <= size
      PROVE  Holds(C, D, i, off + n)
  <2> SUFFICES ASSUME NEW bn \in 0..MAXFILE - 1, NEW r \in 0..BSIZE - 1, bn * BSIZE + r < off + n
               PROVE  Unit(C, D, i, bn, r)
    BY DEF Holds
  <2>1. CASE bn * BSIZE + r < size
    <3>1. Unit(B, A, i, bn, r)
      BY <1>6, <2>1 DEF Holds
    <3> QED
      BY <1>2, <3>1 DEF UnitsKept
  <2>2. CASE ~(bn * BSIZE + r < size)
    <3>1. PICK x \in Int : x = bn * BSIZE
      BY SMT, SMTT(6), SMTT(7), <1>0
    <3>2. off <= x + r /\ x + r <= e /\ bn \in Int
      BY SMT, SMTT(6), SMTT(7), <1>0, <1>1, <1>6, <2>2, <3>1
    <3>3. first <= bn
      BY SMT, SMTT(6), SMTT(7), <1>4, <3>1, <3>2, BlockOrder
    <3>4. bn <= last
      BY SMT, SMTT(6), SMTT(7), <1>5, <3>1, <3>2, BlockOrder
    <3>5. bn \in first..last
      BY SMT, SMTT(6), SMTT(7), <3>2, <3>3, <3>4
    <3>6. From(off, bn) <= r
      <4>1. CASE bn = first
        <5>1. p <= r
          BY SMT, SMTT(6), SMTT(7), <1>0, <1>4, <3>1, <3>2, <4>1
        <5> QED
          BY <1>1, <4>1, <5>1 DEF From
      <4>2. CASE bn # first
        <5>1. 0 <= r
          BY SMT
        <5> QED
          BY <4>2, <5>1 DEF From
      <4> QED
        BY <4>1, <4>2
    <3>7. r < To(off, n, bn)
      <4>1. PICK y \in Int : y = off + n - x
        BY SMT
      <4>2. BSIZE \in Int /\ r < BSIZE /\ r < y
        BY SMT, SMTT(6), SMTT(7), <1>0, <1>1, <3>1, <3>2, <4>1
      <4>3. Min({BSIZE, y}) = IF BSIZE <= y THEN BSIZE ELSE y
        BY <4>2, MinOfTwo
      <4>4. To(off, n, bn) = Min({BSIZE, y})
        BY <3>1, <4>1 DEF To
      <4> QED
        BY <4>2, <4>3, <4>4
    <3> QED
      BY <1>2, <3>5, <3>6, <3>7 DEF Stored
  <2> QED
    BY <2>1, <2>2
<1>7. ASSUME NEW size \in Nat, Holds(B, A, i, size), off + n <= size
      PROVE  d = A[i]
  <2>1. ASSUME NEW m \in first..last PROVE \E r \in 0..BSIZE - 1 : Unit(B, A, i, m, r)
    <3>1. PICK t \in Nat : last = m + t /\ m \in Nat
      <4>1. last - m \in Nat /\ last = m + (last - m) /\ m \in Nat
        BY SMT
      <4> QED
        BY <4>1
    <3>2. last * BSIZE = m * BSIZE + t * BSIZE
      BY SMT, SMTT(6), SMTT(7), <1>0, <3>1
    <3>3. t * BSIZE \in Nat /\ m * BSIZE \in Nat /\ last * BSIZE \in Nat
      BY SMT, SMTT(6), SMTT(7), <1>0, <3>1
    <3>4. m * BSIZE + 0 < size
      BY SMT, SMTT(6), SMTT(7), <1>1, <1>5, <1>7, <3>2, <3>3
    <3>5. m \in 0..MAXFILE - 1 /\ 0 \in 0..BSIZE - 1
      BY SMT, <1>0
    <3>6. Unit(B, A, i, m, 0)
      BY <1>7, <3>4, <3>5 DEF Holds
    <3> QED
      BY <3>5, <3>6
  <2> QED
    BY <1>2, <2>1
<1> QED
  BY <1>1, <1>2, <1>6, <1>7 DEF Appended

(* sfs_writei of a chunk, which fits in the log.                           *)
LEMMA ChunkSound ==
  ASSUME NEW B, NEW A, NEW U, Sound(B, A, U), NEW i \in Inum, NEW off \in Nat,
         NEW n \in Nat \ {0}, n <= max, NEW ip, CanWrite(ip, off, n)
  PROVE  Appends(B, A, i, off, off + n, sfs_writei(V(B, U, A[i], {}, 0), ip, i, off, n))
<1>1. PICK v, w, z : /\ v = V(B, U, A[i], {}, 0) /\ w = WriteLoop(v, i, off, n)
                     /\ z = sfs_writei(v, ip, i, off, n)
  OBVIOUS
<1>2. z = IF w.fault # None THEN w ELSE IF Grows(ip, off, n) THEN log_write(w, InodeBlock) ELSE w
  BY <1>1 DEF sfs_writei, Then, sfs_iupdate
<1>3. PICK first, last : first = off \div BSIZE /\ last = (off + n - 1) \div BSIZE
  OBVIOUS
<1>4. /\ first \in Nat /\ last \in Nat /\ first <= last /\ last <= MAXFILE - 1
      /\ last - first + 3 < LOGSIZE - 1
  <2>1. off + n <= MAXFILE * BSIZE
    BY DEF CanWrite
  <2> QED
    BY <1>3, <2>1, ChunkBlocks
<1>5. InLoop(B, A, i, off, n, first, last, last, w)
  <2>1. n \in Nat
    OBVIOUS
  <2> QED
    BY <1>1, <1>3, <1>4, <2>1, LoopSound
<1>6. CASE w.fault = "balloc"
  <2>1. w.fault # None
    BY <1>6, Panicked
  <2> QED
    BY <1>1, <1>2, <1>6, <2>1 DEF Appends
<1>7. CASE ~(w.fault = "balloc")
  <2>1. PICK C, W, d, K, s, X : /\ w = V(C, W, d, K, s)
                                /\ LoopAt(B, A, i, off, n, first, last, last, C, W, d, K, X)
    BY <1>5, <1>7 DEF InLoop
  <2>2. Appended(B, A, i, off, off + n, C, W, d)
    BY <1>3, <1>4, <2>1, LoopAppends
  <2>3. w.fault = None
    BY <2>1 DEF V
  <2>4. K \subseteq {0, d[NDIRECT]} \cup X /\ IsFiniteSet(X) /\ Cardinality(X) <= last - first + 1
    BY <2>1 DEF LoopAt
  <2>5. Cardinality(X) + 2 < LOGSIZE - 1
    <3>1. Cardinality(X) \in Nat
      BY <2>4, FS_CardinalityType
    <3> QED
      BY SMT, SMTT(6), SMTT(7), <1>4, <2>4, <3>1, FilesAssumption
  <2>6. Small(K)
    <3>1. PICK Y : Y = {0, d[NDIRECT]} \cup X
      OBVIOUS
    <3>2. Small(Y)
      BY <2>4, <2>5, <3>1, RoomForTwo
    <3> QED
      BY <2>4, <3>1, <3>2, SmallPart
  <2>7. Yields(log_write(V(C, W, d, K, s), InodeBlock), V(C, W, d, K \cup {InodeBlock}, s))
    BY <2>6, LogWrite
  <2>8. z = V(C, W, d, K, s) \/ z = V(C, W, d, K \cup {InodeBlock}, s)
    BY <1>2, <2>1, <2>3, <2>7 DEF Yields
  <2> QED
    BY <1>1, <2>2, <2>8 DEF Appends
<1> QED
  BY <1>6, <1>7

(***************************************************************************)
(* sfs_itrunc and sfs_iput.                                                *)
(***************************************************************************)
\* Inode i has lost its blocks, and the others have theirs.
Truncated(B, A, i, C, W) ==
  /\ Sound(C, [A EXCEPT ![i] = NoAddrs], W)
  /\ \A j \in Inum \ {i}, m \in 0..MAXFILE - 1, r \in 0..BSIZE - 1 :
       Unit(B, A, j, m, r) => Unit(C, [A EXCEPT ![i] = NoAddrs], j, m, r)
Scrapped(B, S) == [b \in Block |-> IF b \in S THEN Junk ELSE B[b]]
Scraps(B, A, U, i, S, C) == S \subseteq U /\ Truncated(B, A, i, C, U \ S)

(* The blocks of an inode are freed.                                       *)
LEMMA ScrapSound ==
  ASSUME NEW B, NEW A, NEW U, Sound(B, A, U), NEW i \in Inum,
         NEW S, Owned(Map(B, A), i, S)
  PROVE  Scraps(B, A, U, i, S, Scrapped(B, S))
<1>0. PICK C : C = Scrapped(B, S)
  OBVIOUS
<1>1. B \in Blocks /\ A \in [Inum -> Addrs] /\ Exact(Map(B, A), U) /\ U \in SUBSET Block
  BY SoundFacts
<1>2. PICK M, D : M = Map(B, A) /\ D = [A EXCEPT ![i] = NoAddrs]
  OBVIOUS
<1>3. /\ M \in [Pos -> 0..NBlock] /\ U = {M[x] : x \in Pos} \ {0}
      /\ \A x, z \in Pos : M[x] = M[z] => M[x] = 0 \/ x = z
  BY <1>1, <1>2 DEF Exact
<1>4. \A k \in Ptr : <<i, k>> \in Pos /\ <<i, k>>[1] = i
  BY SMT DEF Pos
<1>5. S \subseteq U
  BY <1>2, <1>3, <1>4 DEF Owned
<1>6. C \in Blocks
  <2>1. Junk \in [1..BSIZE -> Cell]
    BY DEF Junk, Cell
  <2> QED
    BY <1>0, <1>1, <2>1 DEF Blocks, Scrapped
<1>7. D \in [Inum -> Addrs]
  <2>1. NoAddrs \in Addrs
    <3>1. 0 \in 0..NBlock
      BY SMT, FilesAssumption
    <3> QED
      BY <3>1 DEF NoAddrs, Addrs
  <2> QED
    BY <1>1, <1>2, <2>1
<1>8. ASSUME NEW x \in Pos, x[1] # i, M[x] # 0 PROVE C[M[x]] = B[M[x]]
  <2>1. M[x] \in Block
    BY <1>1, <1>3, <1>8
  <2>2. M[x] \notin S
    <3>1. CASE M[x] \in S
      <4>1. PICK k \in Ptr : M[x] = M[<<i, k>>]
        BY <1>2, <3>1 DEF Owned
      <4>2. x = <<i, k>>
        BY <1>3, <1>4, <1>8, <4>1
      <4> QED
        BY <1>4, <1>8, <4>2
    <3> QED
      BY <3>1
  <2> QED
    BY <1>0, <2>1, <2>2 DEF Scrapped
<1>9. PICK N : N = [x \in Pos |-> IF x[1] = i THEN 0 ELSE M[x]]
  OBVIOUS
<1>10. Map(C, D) = N
  <2>1. ASSUME NEW j \in Inum \ {i}, A[j][NDIRECT] # 0
        PROVE  C[A[j][NDIRECT]] = B[A[j][NDIRECT]]
    <3>1. PICK x : x = <<j, NDIRECT>>
      OBVIOUS
    <3>2. x \in Pos /\ M[x] = A[j][NDIRECT]
      <4>0. j \in Inum
        OBVIOUS
      <4>1. <<j, NDIRECT>> \in Pos /\ Map(B, A)[<<j, NDIRECT>>] = A[j][NDIRECT]
        BY SMT, SMTT(6), SMTT(7), <4>0, MapIndirectAt
      <4> QED
        BY <1>2, <3>1, <4>1
    <3>3. x[1] # i
      BY SMT, <3>1
    <3> QED
      BY <1>8, <2>1, <3>2, <3>3
  <2>2. Yields(Map(C, [A EXCEPT ![i] = NoAddrs]),
               [x \in Pos |-> IF x[1] = i THEN 0 ELSE Map(B, A)[x]])
    BY <1>1, <2>1, MapDrop
  <2> QED
    BY <1>2, <1>9, <2>2 DEF Yields
<1>11. Exact(N, U \ S)
  <2>1. Exact(M, U)
    BY <1>1, <1>2
  <2>2. Owned(M, i, S) /\ Erased(M, i, N)
    BY <1>2, <1>9 DEF Erased
  <2> QED
    BY <2>1, <2>2, ExactDrop
<1>12. Sound(C, D, U \ S)
  BY <1>6, <1>7, <1>10, <1>11 DEF Sound
<1>13. ASSUME NEW j \in Inum \ {i}, NEW m \in 0..MAXFILE - 1, NEW r \in 0..BSIZE - 1,
              Unit(B, A, j, m, r)
       PROVE  Unit(C, D, j, m, r)
  <2>1. PICK x : x = <<j, PtrOf(m)>>
    OBVIOUS
  <2>2. x \in Pos
    BY <2>1, PtrFacts
  <2>3. x[1] # i
    BY SMT, <2>1
  <2>4. M[x] # 0 /\ B[M[x]][r + 1] = j
    BY <1>2, <1>13, <2>1 DEF Unit
  <2>5. N[x] = M[x] /\ C[M[x]] = B[M[x]]
    BY <1>8, <1>9, <2>2, <2>3, <2>4
  <2> QED
    BY <1>10, <2>1, <2>4, <2>5 DEF Unit
<1> QED
  BY <1>0, <1>2, <1>5, <1>12, <1>13 DEF Truncated, Scraps

\* What the frees of all blocks of S yield.
Frees(B, U, a, S, r, w) ==
  \E K : w = V(Scrapped(B, S), U \ S, a, K, r) /\ K \subseteq {BitmapBlock, InodeBlock}
\* What sfs_itrunc yields.
Truncates(B, A, i, w) ==
  \E C, W, K, r : /\ w = V(C, W, NoAddrs, K, r) /\ Truncated(B, A, i, C, W)
                  /\ K \subseteq {BitmapBlock, InodeBlock}

(* The bitmap block and the inode block fit in the log.                    *)
LEMMA TwoFit == ASSUME NEW L, L \subseteq {BitmapBlock, InodeBlock} PROVE Small(L)
<1>1. PICK X : X = {}
  OBVIOUS
<1>2. IsFiniteSet(X) /\ Cardinality(X) = 0
  BY <1>1, FS_EmptySet
<1>3. Cardinality(X) + 2 < LOGSIZE - 1
  BY SMT, <1>2, FilesAssumption
<1>4. Small({0, InodeBlock} \cup X)
  BY <1>2, <1>3, RoomForTwo
<1>5. L \subseteq {0, InodeBlock} \cup X
  BY DEF BitmapBlock
<1> QED
  BY <1>4, <1>5, SmallPart

(* The blocks that sfs_itrunc frees.                                       *)
LEMMA OwnedIs ==
  ASSUME NEW B, NEW A, NEW U, NEW i \in Inum, NEW L, NEW r, NEW v, v = V(B, U, A[i], L, r)
  PROVE  Owned(Map(B, A), i, BlocksOf(v, v))
<1>1. v.blk = B /\ v.addrs = A[i]
  BY DEF V
<1>2. ASSUME NEW k \in Ptr PROVE Pointer(v, v, k) = Map(B, A)[<<i, k>>]
  <2>1. Pointer(v, v, k) = Adr(B, A[i], k)
    BY <1>1 DEF Pointer, Adr
  <2> QED
    BY <2>1, MapAt
<1> QED
  BY <1>2 DEF Owned, BlocksOf

(* bfree of all blocks of an inode.                                        *)
LEMMA FreeAllIs ==
  ASSUME NEW B, NEW U, NEW a, NEW L, L \subseteq {BitmapBlock, InodeBlock}, NEW r,
         NEW S, S \subseteq U, B \in Blocks
  PROVE  Frees(B, U, a, S, r, FreeAll(V(B, U, a, L, r), S))
<1>1. PICK v : v = V(B, U, a, L, r)
  OBVIOUS
<1>2. CASE S = {}
  <2>1. FreeAll(v, S) = v
    BY <1>2 DEF FreeAll
  <2>2. Scrapped(B, S) = B /\ U \ S = U
    BY <1>2 DEF Scrapped, Blocks
  <2> QED
    BY <1>1, <2>1, <2>2 DEF Frees
<1>3. CASE S # {}
  <2>1. v.used = U /\ v.blk = B
    BY <1>1 DEF V
  <2>2. PICK C, W, w : C = Scrapped(B, S) /\ W = U \ S /\ w = [v EXCEPT !.used = W, !.blk = C]
    OBVIOUS
  <2>3. FreeAll(v, S) = log_write(w, BitmapBlock)
    BY <1>3, <2>1, <2>2 DEF FreeAll, Scrapped
  <2>4. w = V(C, W, a, L, r)
    <3>1. [v EXCEPT !.used = W] = V(B, W, a, L, r)
      BY SMT, <1>1 DEF V
    <3>2. [V(B, W, a, L, r) EXCEPT !.blk = C] = V(C, W, a, L, r)
      BY SMT DEF V
    <3> QED
      BY <2>2, <3>1, <3>2
  <2>5. Yields(log_write(V(C, W, a, L, r), BitmapBlock), V(C, W, a, L \cup {BitmapBlock}, r))
    BY TwoFit, LogWrite
  <2>6. L \cup {BitmapBlock} \subseteq {BitmapBlock, InodeBlock}
    OBVIOUS
  <2> QED
    BY <1>1, <2>2, <2>3, <2>4, <2>5, <2>6 DEF Yields, Frees
<1> QED
  BY <1>2, <1>3

(* sfs_itrunc: no block is free already, and the log has room.             *)
LEMMA TruncSound ==
  ASSUME NEW B, NEW A, NEW U, Sound(B, A, U), NEW i \in Inum, NEW r,
         NEW L, L \subseteq {BitmapBlock, InodeBlock}
  PROVE  Truncates(B, A, i, sfs_itrunc(V(B, U, A[i], L, r)))
<1>1. PICK v, S, C : v = V(B, U, A[i], L, r) /\ S = BlocksOf(v, v) /\ C = Scrapped(B, S)
  OBVIOUS
<1>2. Owned(Map(B, A), i, S)
  BY <1>1, OwnedIs
<1>3. S \subseteq U /\ Truncated(B, A, i, C, U \ S)
  <2>1. Scraps(B, A, U, i, S, Scrapped(B, S))
    BY <1>2, ScrapSound
  <2> QED
    BY <1>1, <2>1 DEF Scraps
<1>4. B \in Blocks
  BY SoundFacts
<1>5. PICK w, K : /\ w = FreeAll(v, S) /\ w = V(Scrapped(B, S), U \ S, A[i], K, r)
                  /\ K \subseteq {BitmapBlock, InodeBlock}
  <2>1. Frees(B, U, A[i], S, r, FreeAll(V(B, U, A[i], L, r), S))
    BY <1>3, <1>4, FreeAllIs
  <2> QED
    BY <1>1, <2>1 DEF Frees
<1>6. w = V(C, U \ S, A[i], K, r)
  BY <1>1, <1>5
<1>7. w.fault = None
  BY <1>6 DEF V
<1>8. sfs_itrunc(v) = log_write([w EXCEPT !.addrs = NoAddrs], InodeBlock)
  BY <1>1, <1>5, <1>7 DEF sfs_itrunc, Then, sfs_iupdate
<1>9. [w EXCEPT !.addrs = NoAddrs] = V(C, U \ S, NoAddrs, K, r)
  BY SMT, <1>6 DEF V
<1>10. Yields(log_write(V(C, U \ S, NoAddrs, K, r), InodeBlock),
              V(C, U \ S, NoAddrs, K \cup {InodeBlock}, r))
  BY <1>5, TwoFit, LogWrite
<1>11. K \cup {InodeBlock} \subseteq {BitmapBlock, InodeBlock}
  BY <1>5
<1>12. sfs_itrunc(v) = V(C, U \ S, NoAddrs, K \cup {InodeBlock}, r)
  BY <1>8, <1>9, <1>10 DEF Yields
<1> QED
  BY <1>1, <1>3, <1>11, <1>12 DEF Truncates

(* sfs_iput of the last user of a file without a name.                     *)
LEMMA IputSound ==
  ASSUME NEW B, NEW A, NEW U, Sound(B, A, U), NEW i \in Inum, NEW r,
         NEW L, L \subseteq {BitmapBlock, InodeBlock}, NEW ip, NEW ref, LastUse(ip, ref)
  PROVE  Truncates(B, A, i, sfs_iput(V(B, U, A[i], L, r), ip, ref))
<1>1. PICK v, w : v = V(B, U, A[i], L, r) /\ w = sfs_itrunc(v)
  OBVIOUS
<1>2. PICK C, W, K, s : /\ w = V(C, W, NoAddrs, K, s) /\ Truncated(B, A, i, C, W)
                        /\ K \subseteq {BitmapBlock, InodeBlock}
  <2>1. Truncates(B, A, i, w)
    BY <1>1, TruncSound
  <2> QED
    BY <2>1 DEF Truncates
<1>3. w.fault = None
  BY <1>2 DEF V
<1>4. sfs_iput(v, ip, ref) = log_write(w, InodeBlock)
  BY <1>1, <1>3 DEF sfs_iput, Then, sfs_iupdate
<1>5. Yields(log_write(V(C, W, NoAddrs, K, s), InodeBlock),
             V(C, W, NoAddrs, K \cup {InodeBlock}, s))
  BY <1>2, TwoFit, LogWrite
<1>6. K \cup {InodeBlock} \subseteq {BitmapBlock, InodeBlock}
  BY <1>2
<1> QED
  BY <1>1, <1>2, <1>4, <1>5, <1>6 DEF Yields, Truncates

(***************************************************************************)
(* The volume.                                                             *)
(***************************************************************************)
AddrsOf(m) == [i \in Inum |-> m.dino[i].addrs]
Filled(m) ==
  \A i \in Inum : /\ Holds(m.blk, AddrsOf(m), i, m.dino[i].size)
                  /\ ~m.dino[i].live => m.dino[i].addrs = NoAddrs /\ m.dino[i].size = 0
Stock(m) == Sound(m.blk, AddrsOf(m), m.used) /\ Filled(m)
\* Inodes in memory have the block numbers of the volume; a write that goes on
\* has something left to write.
SameAddrs(o, m) == \A i \in Inum : o[i].valid => o[i].addrs = m.dino[i].addrs
Left(c) == \A p \in Proc : c[p].at = "write" => c[p].n \in Nat \ {0}
BlocksInv ==
  /\ Stock(vol) /\ FitsLog
  /\ fault = None => SameAddrs(ino, vol) /\ Left(pc)

(* A panic other than those of log_write and bfree is allowed.             *)
LEMMA NoPanic == None \notin {"log", "bfree"} /\ "balloc" \notin {"log", "bfree"} /\ None # "balloc"
BY FilesAssumption

(* What an inode in memory has from the volume.                            *)
LEMMA LockAddrs ==
  ASSUME SameAddrs(ino, vol), NEW i \in Inum
  PROVE  ilock(i).addrs = vol.dino[i].addrs
<1>1. CASE ino[i].valid
  BY <1>1 DEF ilock, SameAddrs
<1>2. CASE ~ino[i].valid
  <2>1. ilock(i) = Inode(vol.dino[i])
    BY <1>2 DEF ilock
  <2>2. Inode(vol.dino[i]).addrs = vol.dino[i].addrs
    BY DEF Inode
  <2> QED
    BY <2>1, <2>2
<1> QED
  BY <1>1, <1>2

(* Where the operations on blocks begin.                                   *)
LEMMA OnIs ==
  ASSUME SameAddrs(ino, vol), NEW i \in Inum
  PROVE  Yields(On(i), V(vol.blk, vol.used, AddrsOf(vol)[i], {}, 0))
<1>1. AddrsOf(vol)[i] = vol.dino[i].addrs
  BY DEF AddrsOf
<1>2. ilock(i).addrs = AddrsOf(vol)[i]
  BY <1>1, LockAddrs
<1> QED
  BY <1>2 DEF Yields, On, V

(* An inode in memory changes.                                             *)
LEMMA SetAddrs ==
  ASSUME NEW o, o = [j \in Inum |-> o[j]], NEW m, SameAddrs(o, m), NEW i \in Inum, NEW x,
         x.valid => x.addrs = m.dino[i].addrs
  PROVE  SameAddrs([o EXCEPT ![i] = x], m)
<1>1. PICK n : n = [o EXCEPT ![i] = x]
  OBVIOUS
<1>2. n = [j \in Inum |-> IF j = i THEN x ELSE o[j]]
  BY SMT, <1>1
<1>3. \A j \in Inum : n[j] = IF j = i THEN x ELSE o[j]
  BY <1>2
<1>4. SameAddrs(n, m)
  BY <1>3 DEF SameAddrs
<1> QED
  BY <1>1, <1>4

(* A process goes on elsewhere.                                            *)
LEMMA LeftSet ==
  ASSUME NEW c \in [Proc -> Place], Left(c), NEW p \in Proc, NEW x,
         x.at = "write" => x.n \in Nat \ {0}
  PROVE  Left([c EXCEPT ![p] = x])
<1>1. PICK d : d = [c EXCEPT ![p] = x]
  OBVIOUS
<1>2. d[p] = x /\ \A q \in Proc : q # p => d[q] = c[q]
  BY <1>1
<1>3. Left(d)
  BY <1>2 DEF Left
<1> QED
  BY <1>1, <1>3

(* A step that leaves the volume alone.                                    *)
LEMMA StockKept ==
  ASSUME BlocksInv, vol' = vol, fault' = None, SameAddrs(ino', vol), Left(pc')
  PROVE  BlocksInv'
<1>1. Stock(vol')
  BY DEF BlocksInv
<1>2. SameAddrs(ino', vol')
  OBVIOUS
<1> QED
  BY <1>1, <1>2, NoPanic DEF BlocksInv, FitsLog

\* Inode i of volume m may become d, with blocks C and bitmap W.
Fits(m, i, d, C, W) ==
  /\ Sound(C, [AddrsOf(m) EXCEPT ![i] = d.addrs], W)
  /\ \A j \in Inum \ {i}, bn \in 0..MAXFILE - 1, r \in 0..BSIZE - 1 :
       Unit(m.blk, AddrsOf(m), j, bn, r) => Unit(C, [AddrsOf(m) EXCEPT ![i] = d.addrs], j, bn, r)
  /\ Holds(C, [AddrsOf(m) EXCEPT ![i] = d.addrs], i, d.size)
  /\ ~d.live => d.addrs = NoAddrs /\ d.size = 0

(* One inode of the volume changes, and what its blocks hold.              *)
LEMMA StockNext ==
  ASSUME NEW m, m.dino = [j \in Inum |-> m.dino[j]], Stock(m), NEW i \in Inum, NEW d, NEW C, NEW W,
         Fits(m, i, d, C, W)
  PROVE  Stock([dino |-> [m.dino EXCEPT ![i] = d], blk |-> C, used |-> W])
<1>1. PICK n, D : /\ n = [dino |-> [m.dino EXCEPT ![i] = d], blk |-> C, used |-> W]
                  /\ D = [AddrsOf(m) EXCEPT ![i] = d.addrs]
  OBVIOUS
<1>0. /\ Sound(C, D, W) /\ Holds(C, D, i, d.size)
      /\ \A j \in Inum \ {i}, bn \in 0..MAXFILE - 1, r \in 0..BSIZE - 1 :
           Unit(m.blk, AddrsOf(m), j, bn, r) => Unit(C, D, j, bn, r)
      /\ ~d.live => d.addrs = NoAddrs /\ d.size = 0
  BY <1>1 DEF Fits
<1>2. n.dino = [m.dino EXCEPT ![i] = d] /\ n.blk = C /\ n.used = W
  BY <1>1
<1>3. n.dino = [j \in Inum |-> IF j = i THEN d ELSE m.dino[j]]
  <2>1. PICK f : f = m.dino /\ f = [j \in Inum |-> f[j]]
    OBVIOUS
  <2>2. [f EXCEPT ![i] = d] = [j \in Inum |-> IF j = i THEN d ELSE f[j]]
    BY SMT, <2>1
  <2> QED
    BY <1>2, <2>1, <2>2
<1>4. n.dino[i] = d /\ \A j \in Inum : j # i => n.dino[j] = m.dino[j]
  BY <1>3
<1>5. AddrsOf(n) = D
  <2>1. PICK A : A = AddrsOf(m)
    OBVIOUS
  <2>2. A = [j \in Inum |-> A[j]] /\ \A j \in Inum : A[j] = m.dino[j].addrs
    BY <2>1 DEF AddrsOf
  <2>3. [A EXCEPT ![i] = d.addrs] = [j \in Inum |-> IF j = i THEN d.addrs ELSE A[j]]
    BY SMT, <2>2
  <2>4. \A j \in Inum : n.dino[j].addrs = IF j = i THEN d.addrs ELSE A[j]
    BY <1>4, <2>2
  <2>5. AddrsOf(n) = [j \in Inum |-> IF j = i THEN d.addrs ELSE A[j]]
    BY <2>4 DEF AddrsOf
  <2> QED
    BY <1>1, <2>1, <2>3, <2>5
<1>6. ASSUME NEW j \in Inum
      PROVE  /\ Holds(C, D, j, n.dino[j].size)
             /\ ~n.dino[j].live => n.dino[j].addrs = NoAddrs /\ n.dino[j].size = 0
  <2>1. CASE j = i
    BY <1>0, <1>4, <2>1
  <2>2. CASE j # i
    <3>1. n.dino[j] = m.dino[j] /\ j \in Inum \ {i}
      BY <1>4, <2>2
    <3>2. /\ Holds(m.blk, AddrsOf(m), j, m.dino[j].size)
          /\ ~m.dino[j].live => m.dino[j].addrs = NoAddrs /\ m.dino[j].size = 0
      BY DEF Stock, Filled
    <3>3. Holds(C, D, j, m.dino[j].size)
      BY <1>0, <3>1, <3>2 DEF Holds
    <3> QED
      BY <3>1, <3>2, <3>3
  <2> QED
    BY <2>1, <2>2
<1>7. Sound(n.blk, AddrsOf(n), n.used) /\ Filled(n)
  BY <1>0, <1>2, <1>5, <1>6 DEF Filled
<1> QED
  BY <1>1, <1>7 DEF Stock

\* What the proofs below use of the invariant.
Calm == fault = None /\ Volume /\ Good /\ BlocksInv

(* The parts of it.                                                        *)
LEMMA CalmFacts ==
  ASSUME Calm
  PROVE  /\ Stock(vol) /\ SameAddrs(ino, vol) /\ Left(pc) /\ BlocksInv
         /\ ino = [j \in Inum |-> ino[j]] /\ pc \in [Proc -> Place]
         /\ vol.dino = [j \in Inum |-> vol.dino[j]]
         /\ Volume /\ Good /\ fault = None
<1>1. Stock(vol) /\ SameAddrs(ino, vol) /\ Left(pc)
  BY DEF Calm, BlocksInv
<1>2. ino = [j \in Inum |-> ino[j]] /\ pc \in [Proc -> Place]
  BY GoodFacts DEF Calm
<1>3. vol.dino = [j \in Inum |-> vol.dino[j]]
  BY DEF Calm, Volume
<1> QED
  BY <1>1, <1>2, <1>3 DEF Calm

(* sys_open, whether or not it finds a slot and a descriptor.              *)
LEMMA OpenBlocks ==
  ASSUME Calm, NEW p, NEW i \in Inum, NEW rd, NEW wr, sys_open(p, i, rd, wr)
  PROVE  BlocksInv'
<1>1. UNCHANGED <<vol, pc, fault>> /\ Opened(p, i, ilock(i))
  BY DEF sys_open
<1>2. PICK x : x = IF Full(p) /\ iref[i] = 0 THEN NoInode ELSE ilock(i)
  OBVIOUS
<1>3. x.valid => x.addrs = vol.dino[i].addrs
  <2>1. ilock(i).addrs = vol.dino[i].addrs
    BY CalmFacts, LockAddrs
  <2>2. ~NoInode.valid
    BY DEF NoInode
  <2> QED
    BY <1>2, <2>1, <2>2
<1>4. ino' = [ino EXCEPT ![i] = x]
  BY <1>1, <1>2 DEF Opened
<1>5. SameAddrs([ino EXCEPT ![i] = x], vol)
  BY <1>3, CalmFacts, SetAddrs
<1>6. SameAddrs(ino', vol) /\ Left(pc') /\ vol' = vol /\ fault' = None /\ BlocksInv
  BY <1>1, <1>4, <1>5, CalmFacts
<1> QED
  BY <1>6, StockKept

(* sys_read fills an inode in memory.                                      *)
LEMMA ReadBlocks ==
  ASSUME Calm, NEW p \in Proc, NEW fd \in Fd, sys_read(p, fd, MaxRead)
  PROVE  BlocksInv'
<1>1. PICK f, i : f = ofile[p][fd] /\ i = ftable[f].i
  OBVIOUS
<1>2. /\ f # 0 /\ ftable[f].type = "inode" /\ ino' = [ino EXCEPT ![i] = ilock(i)]
      /\ UNCHANGED <<vol, pc, fault>>
  BY <1>1 DEF sys_read
<1>3. f \in File
  BY <1>1, <1>2, CalmFacts, InUse
<1>4. i \in Inum
  BY <1>1, <1>2, <1>3, CalmFacts DEF Good, OpenLive
<1>5. PICK x : x = ilock(i) /\ x.addrs = vol.dino[i].addrs
  BY <1>4, CalmFacts, LockAddrs
<1>6. SameAddrs([ino EXCEPT ![i] = x], vol)
  BY <1>4, <1>5, CalmFacts, SetAddrs
<1>7. SameAddrs(ino', vol) /\ Left(pc') /\ vol' = vol /\ fault' = None /\ BlocksInv
  BY <1>2, <1>5, <1>6, CalmFacts
<1> QED
  BY <1>7, StockKept

(* Steps that leave the inodes alone, and where p goes on.                 *)
LEMMA QuietBlocks ==
  ASSUME Calm, UNCHANGED <<vol, ino, fault>>, NEW p \in Proc, NEW x,
         pc' = pc \/ pc' = [pc EXCEPT ![p] = x], x.at # "write"
  PROVE  BlocksInv'
<1>1. Left([pc EXCEPT ![p] = x])
  BY CalmFacts, LeftSet
<1>2. SameAddrs(ino', vol) /\ Left(pc') /\ vol' = vol /\ fault' = None /\ BlocksInv
  BY <1>1, CalmFacts
<1> QED
  BY <1>2, StockKept

(* A process that is back in user code, or dead, does not write.           *)
LEMMA Resting == User.at # "write" /\ Dead.at # "write"
BY SMT DEF User, Dead, In

(* fileclose, the ends of exit, dup, pipe and fork.                        *)
LEMMA OtherBlocks ==
  ASSUME Calm, NEW p \in Proc,
         \/ \E fd \in Fd, then \in {"user", "exit"} : fileclose(p, fd, then)
         \/ ExitEnd(p)
         \/ \E fd \in Fd : sys_dup(p, fd)
         \/ \E x \in Pairs : sys_pipe(p, x)
         \/ \E q \in Proc : fork(p, q)
  PROVE  BlocksInv'
<1>1. \A then \in {"user", "exit"} : \A i : Putting(i, then).at # "write" /\ In(then).at # "write"
  <2>1. \A then, i : Putting(i, then).at = "put" /\ In(then).at = then
    BY DEF Putting, In
  <2> QED
    BY <2>1
<1>2. Dead.at # "write" /\ User.at # "write"
  BY Resting
<1>3. ASSUME NEW fd \in Fd, NEW then \in {"user", "exit"}, fileclose(p, fd, then) PROVE BlocksInv'
  <2>1. PICK f : f = ofile[p][fd]
    OBVIOUS
  <2>2. PICK x : x = IF ftable[f].ref = 1 /\ ftable[f].type = "inode"
                     THEN Putting(ftable[f].i, then) ELSE In(then)
    OBVIOUS
  <2>3. UNCHANGED <<vol, ino, fault>> /\ pc' = [pc EXCEPT ![p] = x]
    BY <1>3, <2>1, <2>2 DEF fileclose
  <2>4. x.at # "write"
    BY <1>1, <2>2
  <2> QED
    BY <2>3, <2>4, QuietBlocks
<1>4. ASSUME ExitEnd(p) PROVE BlocksInv'
  <2>1. UNCHANGED <<vol, ino, fault>> /\ pc' = [pc EXCEPT ![p] = Dead]
    BY <1>4 DEF ExitEnd
  <2> QED
    BY <1>2, <2>1, QuietBlocks
<1>5. ASSUME (\E fd \in Fd : sys_dup(p, fd)) \/ (\E x \in Pairs : sys_pipe(p, x)) PROVE BlocksInv'
  <2>1. UNCHANGED <<vol, ino, fault>> /\ pc' = pc
    BY <1>5 DEF sys_dup, sys_pipe
  <2> QED
    BY <1>2, <2>1, QuietBlocks
<1>6. ASSUME NEW q \in Proc, fork(p, q) PROVE BlocksInv'
  <2>1. UNCHANGED <<vol, ino, fault>> /\ pc' = [pc EXCEPT ![q] = User]
    BY <1>6 DEF fork
  <2> QED
    BY <1>2, <2>1, QuietBlocks
<1> QED
  BY <1>3, <1>4, <1>5, <1>6

(* The inodes in memory are empty after a crash, and nobody writes.        *)
LEMMA CrashBlocks ==
  ASSUME BlocksInv, Crash
  PROVE  BlocksInv'
<1>1. vol' = vol /\ fault' = None /\ ino' = Booted.ino /\ pc' = Booted.pc
  BY DEF Crash
<1>2. /\ Booted.ino = [i \in Inum |-> NoInode]
      /\ Booted.pc = [p \in Proc |-> IF p = First THEN User ELSE Dead]
  BY DEF Booted
<1>3. ~NoInode.valid /\ User.at # "write" /\ Dead.at # "write"
  BY Resting DEF NoInode
<1>4. SameAddrs(ino', vol)
  BY <1>1, <1>2, <1>3 DEF SameAddrs
<1>5. Left(pc')
  BY <1>1, <1>2, <1>3 DEF Left
<1> QED
  BY <1>1, <1>4, <1>5, StockKept

(* An inode in memory changes together with the one on the volume.         *)
LEMMA SetBoth ==
  ASSUME NEW o, o = [j \in Inum |-> o[j]], NEW m, m.dino = [j \in Inum |-> m.dino[j]],
         SameAddrs(o, m), NEW i \in Inum, NEW d, NEW C, NEW W, NEW x, x.valid => x.addrs = d.addrs
  PROVE  SameAddrs([o EXCEPT ![i] = x], [dino |-> [m.dino EXCEPT ![i] = d], blk |-> C, used |-> W])
<1>1. PICK n, f, g, h : /\ n = [dino |-> [m.dino EXCEPT ![i] = d], blk |-> C, used |-> W]
                        /\ f = m.dino /\ g = [f EXCEPT ![i] = d] /\ h = [o EXCEPT ![i] = x]
  OBVIOUS
<1>2. n.dino = g
  BY <1>1
<1>3. g = [j \in Inum |-> IF j = i THEN d ELSE f[j]]
  <2>1. f = [j \in Inum |-> f[j]] /\ g = [f EXCEPT ![i] = d]
    BY <1>1
  <2> QED
    BY SMT, <2>1
<1>4. h = [j \in Inum |-> IF j = i THEN x ELSE o[j]]
  BY SMT, <1>1
<1>5. \A j \in Inum : /\ h[j] = IF j = i THEN x ELSE o[j]
                      /\ n.dino[j] = IF j = i THEN d ELSE m.dino[j]
  BY <1>1, <1>2, <1>3, <1>4
<1>6. SameAddrs(h, n)
  BY <1>5 DEF SameAddrs
<1> QED
  BY <1>1, <1>6

(* A step on inode i commits.                                              *)
LEMMA CommitBlocks ==
  ASSUME Calm, NEW i \in Inum, NEW C, NEW W, NEW d, Fits(vol, i, d, C, W),
         vol' = [dino |-> [vol.dino EXCEPT ![i] = d], blk |-> C, used |-> W],
         NEW x, ino' = [ino EXCEPT ![i] = x], x.valid => x.addrs = d.addrs,
         fault' = None, Left(pc')
  PROVE  BlocksInv'
<1>1. PICK n : n = [dino |-> [vol.dino EXCEPT ![i] = d], blk |-> C, used |-> W]
  OBVIOUS
<1>2. Stock(n)
  BY <1>1, CalmFacts, StockNext
<1>3. SameAddrs([ino EXCEPT ![i] = x], n)
  BY <1>1, CalmFacts, SetBoth
<1>4. Stock(vol') /\ SameAddrs(ino', vol')
  BY <1>1, <1>2, <1>3
<1> QED
  BY <1>4, NoPanic DEF BlocksInv, FitsLog

(* The same for the steps that Apply describes.                            *)
LEMMA ApplyBlocks ==
  ASSUME Calm, NEW i \in Inum, NEW C, NEW W, NEW a, NEW K, NEW r, NEW x, NEW ref, NEW d,
         Apply(V(C, W, a, K, r), i, x, ref, d), Fits(vol, i, d, C, W),
         x.valid => x.addrs = d.addrs, Left(pc')
  PROVE  BlocksInv'
<1>1. PICK v : v = V(C, W, a, K, r)
  OBVIOUS
<1>2. v.fault = None /\ v.blk = C /\ v.used = W
  BY <1>1 DEF V
<1>3. /\ vol' = [dino |-> [vol.dino EXCEPT ![i] = d], blk |-> C, used |-> W]
      /\ ino' = [ino EXCEPT ![i] = x] /\ fault' = fault
  BY <1>1, <1>2 DEF Apply
<1>4. fault' = None
  BY <1>3, CalmFacts
<1> QED
  BY <1>3, <1>4, CommitBlocks

(* The inode stays as it is on the volume, or loses its name only.         *)
LEMMA FitsSame ==
  ASSUME Calm, NEW i \in Inum, NEW d, d.addrs = vol.dino[i].addrs, d.size = vol.dino[i].size,
         d.live = vol.dino[i].live
  PROVE  Fits(vol, i, d, vol.blk, vol.used)
<1>1. PICK A : A = AddrsOf(vol)
  OBVIOUS
<1>2. Sound(vol.blk, A, vol.used) /\ Filled(vol)
  BY <1>1, CalmFacts DEF Stock
<1>3. A[i] = d.addrs
  BY <1>1 DEF AddrsOf
<1>4. [A EXCEPT ![i] = d.addrs] = A
  BY <1>2, <1>3, SoundFacts
<1>5. /\ Holds(vol.blk, A, i, d.size)
      /\ ~d.live => d.addrs = NoAddrs /\ d.size = 0
  BY <1>1, <1>2 DEF Filled
<1> QED
  BY <1>1, <1>2, <1>4, <1>5 DEF Fits

(* A file of size 0 holds all of its units.                                *)
LEMMA HoldsNothing == ASSUME NEW B, NEW A, NEW i PROVE Holds(B, A, i, 0)
<1>1. ASSUME NEW bn \in 0..MAXFILE - 1, NEW r \in 0..BSIZE - 1 PROVE ~(bn * BSIZE + r < 0)
  <2>1. bn \in Nat /\ r \in Nat /\ BSIZE \in Nat
    BY SMT, FilesAssumption
  <2>2. bn * BSIZE \in Nat
    BY SMT, <2>1
  <2> QED
    BY SMT, SMTT(6), SMTT(7), <2>1, <2>2
<1> QED
  BY <1>1 DEF Holds

(* sys_open of a file that is made.                                        *)
LEMMA CreateBlocks ==
  ASSUME Calm, NEW p, NEW i \in Inum, sys_open_create(p, i)
  PROVE  BlocksInv'
<1>1. /\ ~vol.dino[i].live /\ Opened(p, i, New) /\ UNCHANGED <<pc, fault>>
      /\ vol' = [dino |-> [vol.dino EXCEPT ![i] = Dinode(New)], blk |-> vol.blk, used |-> vol.used]
  BY DEF sys_open_create
<1>2. PICK d : d = Dinode(New)
  OBVIOUS
<1>3. d.addrs = NoAddrs /\ d.size = 0 /\ d.live /\ New.addrs = NoAddrs /\ ~NoInode.valid
  BY <1>2 DEF Dinode, New, NoInode
<1>4. PICK x : x = IF Full(p) /\ iref[i] = 0 THEN NoInode ELSE New
  OBVIOUS
<1>5. ino' = [ino EXCEPT ![i] = x] /\ (x.valid => x.addrs = d.addrs)
  BY <1>1, <1>3, <1>4 DEF Opened
<1>6. PICK A : A = AddrsOf(vol)
  OBVIOUS
<1>7. Sound(vol.blk, A, vol.used) /\ Filled(vol)
  BY <1>6, CalmFacts DEF Stock
<1>8. A[i] = d.addrs
  <2>1. vol.dino[i].addrs = NoAddrs
    BY <1>1, <1>7 DEF Filled
  <2> QED
    BY <1>3, <1>6, <2>1 DEF AddrsOf
<1>9. [A EXCEPT ![i] = d.addrs] = A
  BY <1>7, <1>8, SoundFacts
<1>10. Holds(vol.blk, A, i, d.size)
  BY <1>3, HoldsNothing
<1>11. Fits(vol, i, d, vol.blk, vol.used)
  BY <1>3, <1>6, <1>7, <1>9, <1>10 DEF Fits
<1>12. fault' = None /\ Left(pc')
  BY <1>1, CalmFacts
<1> QED
  BY <1>1, <1>2, <1>5, <1>11, <1>12, CommitBlocks

(* The last user of a file without a name frees inode and blocks.          *)
LEMMA TruncBlocks ==
  ASSUME Calm, NEW i \in Inum, NEW v, Truncates(vol.blk, AddrsOf(vol), i, v), NEW ref,
         Apply(v, i, NoInode, ref, Dinode(NoInode)), Left(pc')
  PROVE  BlocksInv'
<1>1. PICK C, W, K, r : v = V(C, W, NoAddrs, K, r) /\ Truncated(vol.blk, AddrsOf(vol), i, C, W)
  BY DEF Truncates
<1>2. PICK d : d = Dinode(NoInode)
  OBVIOUS
<1>3. d.addrs = NoAddrs /\ d.size = 0 /\ ~NoInode.valid
  BY <1>2 DEF Dinode, NoInode
<1>4. PICK A, D : A = AddrsOf(vol) /\ D = [A EXCEPT ![i] = d.addrs]
  OBVIOUS
<1>5. /\ Sound(C, D, W)
      /\ \A j \in Inum \ {i}, m \in 0..MAXFILE - 1, q \in 0..BSIZE - 1 :
           Unit(vol.blk, A, j, m, q) => Unit(C, D, j, m, q)
  BY <1>1, <1>3, <1>4 DEF Truncated
<1>6. Holds(C, D, i, d.size)
  BY <1>3, HoldsNothing
<1>7. Fits(vol, i, d, C, W)
  BY <1>3, <1>4, <1>5, <1>6 DEF Fits
<1>8. Apply(V(C, W, NoAddrs, K, r), i, NoInode, ref, d) /\ (NoInode.valid => NoInode.addrs = d.addrs)
  BY <1>1, <1>2, <1>3
<1> QED
  BY <1>7, <1>8, ApplyBlocks

(* What the operations begin with.                                         *)
LEMMA CalmOn ==
  ASSUME Calm, NEW i \in Inum
  PROVE  /\ On(i) = V(vol.blk, vol.used, AddrsOf(vol)[i], {}, 0)
         /\ Sound(vol.blk, AddrsOf(vol), vol.used)
<1>1. Yields(On(i), V(vol.blk, vol.used, AddrsOf(vol)[i], {}, 0))
  BY CalmFacts, OnIs
<1> QED
  BY <1>1, CalmFacts DEF Yields, Stock

(* sys_unlink, which frees the file when nobody has it open.               *)
LEMMA UnlinkBlocks ==
  ASSUME Calm, NEW p, NEW i \in Inum, sys_unlink(p, i)
  PROVE  BlocksInv'
<1>1. PICK ip, ref, u, v : /\ ip = Unlinked(ilock(i)) /\ ref = iref[i] + 1
                           /\ u = sfs_iupdate(On(i))
                           /\ v = IF u.fault # None THEN u ELSE sfs_iput(u, ip, ref)
  OBVIOUS
<1>2. /\ Apply(v, i, IF ref = 1 THEN NoInode ELSE ip, iref[i],
               IF LastUse(ip, ref) THEN Dinode(NoInode) ELSE Dinode(ip))
      /\ pc' = pc
  BY <1>1 DEF sys_unlink, Then
<1>3. Left(pc')
  BY <1>2, CalmFacts
<1>4. PICK B, U, A, w : /\ B = vol.blk /\ U = vol.used /\ A = AddrsOf(vol)
                        /\ w = V(B, U, A[i], {} \cup {InodeBlock}, 0)
  OBVIOUS
<1>5. On(i) = V(B, U, A[i], {}, 0) /\ Sound(B, A, U)
  BY <1>4, CalmOn
<1>6. v = sfs_iput(w, ip, ref)
  <2>1. Yields(log_write(V(B, U, A[i], {}, 0), InodeBlock), V(B, U, A[i], {} \cup {InodeBlock}, 0))
    BY TwoFit, LogWrite
  <2>2. sfs_iupdate(On(i)) = w
    BY <1>4, <1>5, <2>1 DEF Yields, sfs_iupdate
  <2>3. w.fault = None
    BY <1>4 DEF V
  <2> QED
    BY <1>1, <2>2, <2>3
<1>7. CASE LastUse(ip, ref)
  <2>1. ref = 1
    BY <1>7 DEF LastUse
  <2>2. Truncates(B, A, i, sfs_iput(V(B, U, A[i], {} \cup {InodeBlock}, 0), ip, ref))
    <3>1. {} \cup {InodeBlock} \subseteq {BitmapBlock, InodeBlock}
      OBVIOUS
    <3> QED
      BY <1>5, <1>7, <3>1, IputSound
  <2>3. Truncates(vol.blk, AddrsOf(vol), i, v)
    BY <1>4, <1>6, <2>2
  <2>4. Apply(v, i, NoInode, iref[i], Dinode(NoInode))
    BY <1>2, <1>7, <2>1
  <2> QED
    BY <1>3, <2>3, <2>4, TruncBlocks
<1>8. CASE ~LastUse(ip, ref)
  <2>1. v = w
    BY <1>6, <1>8 DEF sfs_iput
  <2>2. PICK x, d : x = (IF ref = 1 THEN NoInode ELSE ip) /\ d = Dinode(ip)
    OBVIOUS
  <2>3. Apply(V(B, U, A[i], {} \cup {InodeBlock}, 0), i, x, iref[i], d)
    BY <1>2, <1>4, <1>8, <2>1, <2>2
  <2>4. /\ ip.addrs = ilock(i).addrs /\ ip.size = ilock(i).size /\ ip.live = ilock(i).live
        /\ d.addrs = ip.addrs /\ d.size = ip.size /\ d.live = ip.live /\ ~NoInode.valid
    BY SMT, SMTT(6), SMTT(7), <1>1, <2>2 DEF Unlinked, Dinode, NoInode
  <2>5. ilock(i).size = vol.dino[i].size /\ ilock(i).live = vol.dino[i].live
    BY CalmFacts, Locked
  <2>6. ilock(i).addrs = vol.dino[i].addrs
    BY CalmFacts, LockAddrs
  <2>7. Fits(vol, i, d, vol.blk, vol.used)
    BY <2>4, <2>5, <2>6, FitsSame
  <2>8. Fits(vol, i, d, B, U) /\ (x.valid => x.addrs = d.addrs)
    BY <1>4, <2>2, <2>4, <2>7
  <2> QED
    BY <1>3, <2>3, <2>8, ApplyBlocks
<1> QED
  BY <1>7, <1>8

(* The put after the last close.                                           *)
LEMMA PutBlocks ==
  ASSUME Calm, NEW p \in Proc, Put(p)
  PROVE  BlocksInv'
<1>1. PICK i, v : i = pc[p].i /\ v = sfs_iput(On(i), ino[i], iref[i])
  OBVIOUS
<1>2. /\ pc[p].at = "put" /\ pc' = [pc EXCEPT ![p] = In(pc[p].then)]
      /\ Apply(v, i, IF iref[i] = 1 THEN NoInode ELSE ino[i], iref[i] - 1,
               IF LastUse(ino[i], iref[i]) THEN Dinode(NoInode) ELSE vol.dino[i])
  BY <1>1 DEF Put, At
<1>3. i \in Inum
  BY <1>1, <1>2, CalmFacts DEF Good, Placed
<1>4. Left(pc')
  <2>1. PICK x : x = In(pc[p].then)
    OBVIOUS
  <2>2. pc[p].then \in {"user", "exit"}
    <3>1. pc[p] \in Place
      BY CalmFacts
    <3> QED
      BY SMT, <3>1 DEF Place
  <2>3. x.at # "write"
    BY SMT, SMTT(6), SMTT(7), <2>1, <2>2 DEF In
  <2>4. Left([pc EXCEPT ![p] = x])
    BY <2>3, CalmFacts, LeftSet
  <2> QED
    BY <1>2, <2>1, <2>4
<1>5. PICK B, U, A : B = vol.blk /\ U = vol.used /\ A = AddrsOf(vol)
  OBVIOUS
<1>6. On(i) = V(B, U, A[i], {}, 0) /\ Sound(B, A, U)
  BY <1>3, <1>5, CalmOn
<1>7. CASE LastUse(ino[i], iref[i])
  <2>1. iref[i] = 1
    BY <1>7 DEF LastUse
  <2>2. Truncates(B, A, i, sfs_iput(V(B, U, A[i], {}, 0), ino[i], iref[i]))
    <3>1. {} \subseteq {BitmapBlock, InodeBlock}
      OBVIOUS
    <3> QED
      BY <1>3, <1>6, <1>7, <3>1, IputSound
  <2>3. Truncates(vol.blk, AddrsOf(vol), i, v)
    BY <1>1, <1>5, <1>6, <2>2
  <2>4. Apply(v, i, NoInode, iref[i] - 1, Dinode(NoInode))
    BY <1>2, <1>7, <2>1
  <2> QED
    BY <1>3, <1>4, <2>3, <2>4, TruncBlocks
<1>8. CASE ~LastUse(ino[i], iref[i])
  <2>1. v = V(B, U, A[i], {}, 0)
    BY <1>1, <1>6, <1>8 DEF sfs_iput
  <2>2. PICK x : x = IF iref[i] = 1 THEN NoInode ELSE ino[i]
    OBVIOUS
  <2>3. Apply(V(B, U, A[i], {}, 0), i, x, iref[i] - 1, vol.dino[i])
    BY <1>2, <1>8, <2>1, <2>2
  <2>4. x.valid => x.addrs = vol.dino[i].addrs
    <3>1. ~NoInode.valid
      BY DEF NoInode
    <3> QED
      BY <1>3, <2>2, <3>1, CalmFacts DEF SameAddrs
  <2>5. Fits(vol, i, vol.dino[i], B, U)
    BY <1>3, <1>5, FitsSame
  <2> QED
    BY <1>3, <1>4, <2>3, <2>4, <2>5, ApplyBlocks
<1> QED
  BY <1>7, <1>8

(* A chunk is not empty, and not longer than what fits in the log.         *)
LEMMA ChunkSize ==
  ASSUME NEW n \in Nat \ {0}
  PROVE  /\ Chunk(n) \in Nat \ {0} /\ Chunk(n) <= max
         /\ n # Chunk(n) => n - Chunk(n) \in Nat \ {0}
<1>1. LOGSIZE \in Nat /\ LOGSIZE >= 6 /\ BSIZE \in Nat \ {0}
  BY SMT, FilesAssumption
<1>2. PICK h : h = (LOGSIZE - 1 - 1 - 2) \div 2
  OBVIOUS
<1>3. h \in Nat \ {0}
  BY SMT, SMTT(6), SMTT(7), <1>1, <1>2
<1>4. max = h * BSIZE
  BY <1>2 DEF max
<1>5. max \in Nat \ {0}
  BY SMT, SMTT(6), SMTT(7), <1>1, <1>3, <1>4
<1> QED
  BY SMT, SMTT(6), SMTT(7), <1>5 DEF Chunk

(* The inode of a file after a chunk that ends at end, with blocks a.      *)
Longer(d, e, a, end) ==
  \/ end > d.size /\ e.size = end /\ e.addrs = a
  \/ ~(end > d.size) /\ e = d

(* A chunk that does not end beyond the file's end adds no block to it.    *)
LEMMA LongerAddrs ==
  ASSUME Calm, NEW i \in Inum, NEW off \in Nat, NEW end \in Nat, NEW C, NEW W, NEW a, NEW d,
         Appended(vol.blk, AddrsOf(vol), i, off, end, C, W, a), Longer(vol.dino[i], d, a, end)
  PROVE  d.addrs = a
<1>1. PICK A : A = AddrsOf(vol)
  OBVIOUS
<1>2. vol.dino[i].size \in Nat /\ Holds(vol.blk, A, i, vol.dino[i].size)
  BY <1>1, CalmFacts DEF Stock, Filled, Volume
<1>3. \A size \in Nat : Holds(vol.blk, A, i, size) /\ end <= size => a = A[i]
  BY <1>1 DEF Appended
<1>4. CASE ~(end > vol.dino[i].size) /\ d = vol.dino[i]
  <2>1. end <= vol.dino[i].size
    BY SMT, SMTT(6), SMTT(7), <1>2, <1>4
  <2>2. a = A[i]
    BY <1>2, <1>3, <2>1
  <2> QED
    BY <1>1, <1>4, <2>2 DEF AddrsOf
<1> QED
  BY <1>4 DEF Longer

(* A chunk may be written.                                                 *)
LEMMA FitsWritten ==
  ASSUME Calm, NEW i \in Inum, NEW off \in Nat, NEW end \in Nat, NEW C, NEW W, NEW a, NEW d,
         Appended(vol.blk, AddrsOf(vol), i, off, end, C, W, a), off <= vol.dino[i].size,
         d.live, Longer(vol.dino[i], d, a, end)
  PROVE  Fits(vol, i, d, C, W)
<1>1. PICK B, A, D : B = vol.blk /\ A = AddrsOf(vol) /\ D = [A EXCEPT ![i] = a]
  OBVIOUS
<1>2. vol.dino[i].size \in Nat /\ Holds(B, A, i, vol.dino[i].size)
  BY <1>1, CalmFacts DEF Stock, Filled, Volume
<1>3. /\ Sound(C, D, W) /\ UnitsKept(B, A, C, D)
      /\ \A size \in Nat : Holds(B, A, i, size) /\ off <= size => Holds(C, D, i, end)
      /\ \A size \in Nat : Holds(B, A, i, size) /\ end <= size => a = A[i]
  BY <1>1 DEF Appended
<1>4. d.addrs = a
  BY LongerAddrs
<1>5. Holds(C, D, i, d.size)
  <2>1. CASE end > vol.dino[i].size /\ d.size = end
    BY <1>2, <1>3, <2>1
  <2>2. CASE d = vol.dino[i]
    <3>1. Holds(C, D, i, vol.dino[i].size)
      BY <1>2, <1>3 DEF Holds, UnitsKept
    <3> QED
      BY <2>2, <3>1
  <2> QED
    BY <2>1, <2>2 DEF Longer
<1>6. \A j \in Inum \ {i}, bn \in 0..MAXFILE - 1, r \in 0..BSIZE - 1 :
        Unit(B, A, j, bn, r) => Unit(C, D, j, bn, r)
  BY <1>3 DEF UnitsKept
<1> QED
  BY <1>1, <1>3, <1>4, <1>5, <1>6 DEF Fits

(* A chunk of filewrite.                                                   *)
LEMMA WriteBlocks ==
  ASSUME Calm, NEW p \in Proc, NEW f \in File, ftable[f].type = "inode", NEW n \in Nat \ {0},
         filewrite(p, f, n)
  PROVE  BlocksInv'
<1>1. PICK i, off, n1, ip : /\ i = ftable[f].i /\ off = ftable[f].off /\ n1 = Chunk(n)
                            /\ ip = ilock(i)
  OBVIOUS
<1>2. PICK r, v : /\ r = (IF CanWrite(ip, off, n1) THEN n1 ELSE -1)
                  /\ v = sfs_writei(On(i), ip, i, off, n1)
  OBVIOUS
<1>3. /\ Apply(v, i, Written(ip, v, off, n1), iref[i],
               IF Grows(ip, off, n1) THEN Dinode(Written(ip, v, off, n1)) ELSE vol.dino[i])
      /\ IF v.fault # None THEN UNCHANGED <<ftable, pc>>
         ELSE ftable' = Advance(f, r) /\ pc' = [pc EXCEPT ![p] = Rest(f, n, r)]
  BY <1>1, <1>2 DEF filewrite
<1>4. i \in Inum /\ vol.dino[i].live /\ off <= vol.dino[i].size
  BY <1>1, CalmFacts DEF Good, OpenLive
<1>5. off \in Nat /\ vol.dino[i].size \in Nat
  <2>1. ftable[f] \in OpenFile
    BY CalmFacts, GoodFacts
  <2>2. ftable[f].off \in Nat
    BY SMT, <2>1 DEF OpenFile
  <2> QED
    BY <1>1, <1>4, <2>2, CalmFacts DEF Volume
<1>6. n1 \in Nat \ {0} /\ n1 <= max /\ (n # n1 => n - n1 \in Nat \ {0})
  BY <1>1, ChunkSize
<1>7. /\ ip.size = vol.dino[i].size /\ ip.live = vol.dino[i].live
      /\ ip.addrs = vol.dino[i].addrs
  BY <1>1, <1>4, CalmFacts, Locked, LockAddrs
<1>8. v.fault = None => Left(pc')
  <2> SUFFICES ASSUME v.fault = None PROVE Left(pc')
    OBVIOUS
  <2>1. PICK x : x = Rest(f, n, r)
    OBVIOUS
  <2>2. x.at = "write" => x.n \in Nat \ {0}
    <3>1. CASE r < 0 \/ r = n
      BY <2>1, <3>1, Resting DEF Rest
    <3>2. CASE ~(r < 0 \/ r = n)
      <4>1. r = n1
        BY SMT, SMTT(6), SMTT(7), <1>2, <3>2
      <4>2. x = Writing(f, n - n1) /\ n # n1
        BY <2>1, <3>2, <4>1 DEF Rest
      <4>3. x.n = n - n1
        BY <4>2 DEF Writing
      <4> QED
        BY <1>6, <4>2, <4>3
    <3> QED
      BY <3>1, <3>2
  <2>3. Left([pc EXCEPT ![p] = x])
    BY <2>2, CalmFacts, LeftSet
  <2> QED
    BY <1>3, <2>1, <2>3
<1>9. PICK B, U, A : B = vol.blk /\ U = vol.used /\ A = AddrsOf(vol)
  OBVIOUS
<1>10. On(i) = V(B, U, A[i], {}, 0) /\ Sound(B, A, U)
  BY <1>4, <1>9, CalmOn
<1>11. CASE ~CanWrite(ip, off, n1)
  <2>1. v = V(B, U, A[i], {}, 0)
    BY <1>2, <1>10, <1>11 DEF sfs_writei
  <2>2. v.fault = None /\ v.addrs = A[i]
    BY <2>1 DEF V
  <2>3. PICK x : x = Written(ip, v, off, n1)
    OBVIOUS
  <2>4. x.addrs = vol.dino[i].addrs
    <3>1. x.addrs = v.addrs
      BY <2>3 DEF Written
    <3> QED
      BY <1>4, <1>9, <2>2, <3>1 DEF AddrsOf
  <2>5. Apply(V(B, U, A[i], {}, 0), i, x, iref[i], vol.dino[i])
    BY <1>3, <1>11, <2>1, <2>3 DEF Grows
  <2>6. Fits(vol, i, vol.dino[i], B, U)
    BY <1>4, <1>9, FitsSame
  <2> QED
    BY <1>4, <1>8, <2>2, <2>4, <2>5, <2>6, ApplyBlocks
<1>12. CASE CanWrite(ip, off, n1)
  <2>1. Appends(B, A, i, off, off + n1, v)
    <3>1. Appends(B, A, i, off, off + n1, sfs_writei(V(B, U, A[i], {}, 0), ip, i, off, n1))
      BY <1>4, <1>5, <1>6, <1>10, <1>12, ChunkSound
    <3> QED
      BY <1>2, <1>10, <3>1
  <2>2. CASE v.fault = "balloc"
    <3>1. fault' = v.fault /\ UNCHANGED <<vol, ino>>
      BY <1>3, <2>2, Panicked DEF Apply
    <3>2. Stock(vol') /\ fault' # None /\ fault' \notin {"log", "bfree"}
      BY <2>2, <3>1, NoPanic, CalmFacts
    <3> QED
      BY <3>2 DEF BlocksInv, FitsLog
  <2>3. CASE ~(v.fault = "balloc")
    <3>1. PICK C, W, a, K, s : v = V(C, W, a, K, s) /\ Appended(B, A, i, off, off + n1, C, W, a)
      BY <2>1, <2>3 DEF Appends
    <3>2. v.fault = None /\ v.addrs = a
      BY <3>1 DEF V
    <3>3. PICK x, d, e : /\ x = Written(ip, v, off, n1) /\ e = off + n1
                         /\ d = IF Grows(ip, off, n1) THEN Dinode(x) ELSE vol.dino[i]
      OBVIOUS
    <3>4. Apply(V(C, W, a, K, s), i, x, iref[i], d)
      BY <1>3, <3>1, <3>3
    <3>5. e \in Nat /\ (Grows(ip, off, n1) <=> e > vol.dino[i].size)
      <4>1. Grows(ip, off, n1) <=> e > ip.size
        BY <1>12, <3>3 DEF Grows
      <4> QED
        BY SMT, SMTT(6), SMTT(7), <1>5, <1>6, <1>7, <3>3, <4>1
    <3>6. /\ x.addrs = a /\ x.live = ip.live
          /\ Grows(ip, off, n1) => x.size = e
      BY SMT, SMTT(6), SMTT(7), <3>2, <3>3 DEF Written
    <3>7. Dinode(x).addrs = x.addrs /\ Dinode(x).live = x.live /\ Dinode(x).size = x.size
      BY SMT DEF Dinode
    <3>8. d.live /\ Longer(vol.dino[i], d, a, e)
      BY <1>4, <1>7, <3>3, <3>5, <3>6, <3>7 DEF Longer
    <3>9. Appended(vol.blk, AddrsOf(vol), i, off, e, C, W, a)
      BY <1>9, <3>1, <3>3
    <3>10. Fits(vol, i, d, C, W) /\ d.addrs = a
      <4>1. Fits(vol, i, d, C, W)
        BY <1>4, <1>5, <3>5, <3>8, <3>9, FitsWritten
      <4>2. d.addrs = a
        BY <1>4, <1>5, <3>5, <3>8, <3>9, LongerAddrs
      <4> QED
        BY <4>1, <4>2
    <3> QED
      BY <1>4, <1>8, <3>2, <3>4, <3>6, <3>10, ApplyBlocks
  <2> QED
    BY <2>2, <2>3
<1> QED
  BY <1>11, <1>12

(* The initial volume: no file has a block, and every block is free.       *)
LEMMA InitBlocks ==
  ASSUME Init
  PROVE  BlocksInv
<1>1. /\ vol = [dino |-> [i \in Inum |-> Dinode(NoInode)], blk |-> [b \in Block |-> Junk],
                used |-> {}]
      /\ ino = Booted.ino /\ pc = Booted.pc /\ fault = None
  BY DEF Init
<1>2. PICK B, A : B = vol.blk /\ A = AddrsOf(vol)
  OBVIOUS
<1>3. B = [b \in Block |-> Junk] /\ vol.used = {} /\ vol.dino = [i \in Inum |-> Dinode(NoInode)]
  BY <1>1, <1>2
<1>4. \A i \in Inum : vol.dino[i].addrs = NoAddrs /\ vol.dino[i].size = 0
  <2>1. Dinode(NoInode).addrs = NoAddrs /\ Dinode(NoInode).size = 0
    BY DEF Dinode, NoInode
  <2> QED
    BY <1>3, <2>1
<1>5. A = [i \in Inum |-> NoAddrs]
  BY <1>2, <1>4 DEF AddrsOf
<1>6. NDIRECT \in 0..NDIRECT /\ 0 \in 0..NBlock /\ \A k \in Ptr : k <= NDIRECT => k \in 0..NDIRECT
  BY SMT, FilesAssumption DEF Ptr
<1>7. NoAddrs \in Addrs /\ A \in [Inum -> Addrs]
  BY <1>5, <1>6 DEF NoAddrs, Addrs
<1>8. B \in Blocks
  BY <1>3 DEF Blocks, Junk, Cell
<1>9. \A x \in Pos : Map(B, A)[x] = 0
  <2>1. \A k \in Ptr : Adr(B, NoAddrs, k) = 0
    BY <1>6 DEF Adr, NoAddrs
  <2>2. \A x \in Pos : x[1] \in Inum /\ x[2] \in Ptr
    BY SMT DEF Pos
  <2> QED
    BY <1>5, <2>1, <2>2 DEF Map
<1>10. PICK M : M = Map(B, A)
  OBVIOUS
<1>11. M = [x \in Pos |-> 0]
  BY <1>9, <1>10 DEF Map
<1>12. Exact(M, {})
  BY <1>6, <1>11 DEF Exact
<1>13. Sound(B, A, {})
  BY <1>7, <1>8, <1>10, <1>12 DEF Sound
<1>14. Filled(vol)
  BY <1>4, HoldsNothing DEF Filled
<1>15. SameAddrs(ino, vol)
  <2>1. ino = [i \in Inum |-> NoInode] /\ ~NoInode.valid
    BY <1>1 DEF Booted, NoInode
  <2> QED
    BY <2>1 DEF SameAddrs
<1>16. Left(pc)
  <2>1. pc = [p \in Proc |-> IF p = First THEN User ELSE Dead]
    BY <1>1 DEF Booted
  <2> QED
    BY <2>1, Resting DEF Left
<1>17. Stock(vol)
  BY <1>2, <1>3, <1>13, <1>14 DEF Stock
<1> QED
  BY <1>1, <1>15, <1>16, <1>17, NoPanic DEF BlocksInv, FitsLog

(* What the volume's invariant says in the model's terms.                  *)
LEMMA StockIsExact ==
  ASSUME Stock(vol)
  PROVE  BlocksExact
<1>1. PICK B, A, M : B = vol.blk /\ A = AddrsOf(vol) /\ M = Map(B, A)
  OBVIOUS
<1>2. Exact(M, vol.used)
  BY <1>1 DEF Stock, Sound
<1>3. ASSUME NEW i \in Inum, NEW k \in Ptr
      PROVE  <<i, k>> \in Pos /\ M[<<i, k>>] = Pointer(vol, vol.dino[i], k)
  <2>1. <<i, k>> \in Pos /\ M[<<i, k>>] = Adr(B, A[i], k)
    BY <1>1, MapAt
  <2>2. A[i] = vol.dino[i].addrs
    BY <1>1 DEF AddrsOf
  <2> QED
    BY <1>1, <2>1, <2>2 DEF Adr, Pointer
<1>4. vol.used = UNION {BlocksOf(vol, vol.dino[i]) : i \in Inum}
  <2>1. vol.used = {M[x] : x \in Pos} \ {0}
    BY <1>2 DEF Exact
  <2>2. ASSUME NEW x \in Pos PROVE \E i \in Inum, k \in Ptr : x = <<i, k>>
    BY SMT DEF Pos
  <2>3. ASSUME NEW b \in vol.used PROVE \E i \in Inum : b \in BlocksOf(vol, vol.dino[i])
    <3>1. PICK x \in Pos : b = M[x] /\ b # 0
      BY <2>1, <2>3
    <3>2. PICK i \in Inum, k \in Ptr : x = <<i, k>>
      BY <2>2
    <3>3. b = Pointer(vol, vol.dino[i], k)
      BY <1>3, <3>1, <3>2
    <3> QED
      BY <3>1, <3>3 DEF BlocksOf
  <2>4. ASSUME NEW i \in Inum, NEW b \in BlocksOf(vol, vol.dino[i]) PROVE b \in vol.used
    <3>1. PICK k \in Ptr : b = Pointer(vol, vol.dino[i], k) /\ b # 0
      BY DEF BlocksOf
    <3> QED
      BY <1>3, <2>1, <3>1
  <2> QED
    BY <2>3, <2>4
<1>5. ASSUME NEW i \in Inum, NEW j \in Inum, NEW k \in Ptr, NEW l \in Ptr,
             Pointer(vol, vol.dino[i], k) = Pointer(vol, vol.dino[j], l)
      PROVE  Pointer(vol, vol.dino[i], k) = 0 \/ <<i, k>> = <<j, l>>
  <2>1. PICK x \in Pos, y \in Pos : x = <<i, k>> /\ y = <<j, l>>
    BY <1>3
  <2>2. M[x] = Pointer(vol, vol.dino[i], k) /\ M[y] = Pointer(vol, vol.dino[j], l)
    BY <1>3, <2>1
  <2>3. M[x] = 0 \/ x = y
    BY <1>2, <1>5, <2>2 DEF Exact
  <2> QED
    BY <2>1, <2>2, <2>3
<1>6. ASSUME NEW i \in Inum, NEW bn \in 0..MAXFILE - 1, NEW r \in 0..BSIZE - 1,
             bn * BSIZE + r < vol.dino[i].size
      PROVE  /\ Pointer(vol, vol.dino[i], PtrOf(bn)) # 0
             /\ UnitAt(vol, vol.dino[i], bn, r) = i
  <2>1. Unit(B, A, i, bn, r)
    BY <1>1, <1>6 DEF Stock, Filled, Holds
  <2>2. PtrOf(bn) \in Ptr
    BY PtrFacts
  <2>3. M[<<i, PtrOf(bn)>>] = Pointer(vol, vol.dino[i], PtrOf(bn))
    BY <1>3, <2>2
  <2> QED
    BY <1>1, <2>1, <2>3 DEF Unit, UnitAt
<1> QED
  BY <1>4, <1>5, <1>6 DEF BlocksExact

(* Every step of a kernel that has not panicked keeps the blocks in order. *)
LEMMA StepBlocks ==
  ASSUME FilesInv, BlocksInv, Next
  PROVE  BlocksInv'
<1>1. CASE Crash
  BY <1>1, CrashBlocks
<1>2. ASSUME ~Crash PROVE BlocksInv'
  <2>1. Volume /\ fault = None /\ Good
    BY <1>2, StepSound DEF FilesInv
  <2>2. Calm
    BY <2>1 DEF Calm
  <2>3. Openers \subseteq Proc
    BY FilesAssumption
  <2>4. ASSUME NEW p \in Proc, NEW fd \in Fd, NEW n \in Lens, sys_write(p, fd, n) PROVE BlocksInv'
    <3>1. /\ ofile[p][fd] # 0 /\ ftable[ofile[p][fd]].type = "inode"
          /\ filewrite(p, ofile[p][fd], n)
      BY <2>4 DEF sys_write
    <3>2. ofile[p][fd] \in File
      BY <2>1, <3>1, InUse
    <3>3. n \in Nat \ {0}
      BY FilesAssumption
    <3>4. PICK f \in File : f = ofile[p][fd]
      BY <3>2
    <3> QED
      BY <2>2, <3>1, <3>3, <3>4, WriteBlocks
  <2>5. ASSUME NEW p \in Proc, NextChunk(p) PROVE BlocksInv'
    <3>1. pc[p].at = "write" /\ filewrite(p, pc[p].f, pc[p].n)
      BY <2>5 DEF NextChunk, At
    <3>2. pc[p].f \in File /\ ftable[pc[p].f].type = "inode"
      BY <2>1, <3>1 DEF Good, Placed
    <3>3. pc[p].n \in Nat \ {0}
      BY <2>2, <3>1, CalmFacts DEF Left
    <3>4. PICK f \in File, n \in Nat \ {0} : f = pc[p].f /\ n = pc[p].n
      BY <3>2, <3>3
    <3> QED
      BY <2>2, <3>1, <3>2, <3>4, WriteBlocks
  <2>6. ASSUME NEW p \in Proc, NEW fd \in Fd, sys_close(p, fd) PROVE BlocksInv'
    BY <2>2, <2>6, OtherBlocks DEF sys_close
  <2>7. ASSUME NEW p \in Proc, exit(p) PROVE BlocksInv'
    BY <2>2, <2>7, OtherBlocks DEF exit
  <2>8. ASSUME NEW p \in Openers, NEW i \in Inum, NEW m \in Modes, sys_open(p, i, m[1], m[2])
        PROVE  BlocksInv'
    BY <2>2, <2>8, OpenBlocks
  <2>9. ASSUME NEW p \in Openers, NEW i \in Inum, sys_open_create(p, i) PROVE BlocksInv'
    BY <2>2, <2>9, CreateBlocks
  <2>10. ASSUME NEW p \in Openers, NEW i \in Inum, sys_unlink(p, i) PROVE BlocksInv'
    BY <2>2, <2>10, UnlinkBlocks
  <2>11. ASSUME NEW p \in Openers, \/ \E fd \in Fd : sys_dup(p, fd)
                                   \/ \E x \in Pairs : sys_pipe(p, x)
                                   \/ \E q \in Proc : fork(p, q)
         PROVE  BlocksInv'
    BY <2>2, <2>3, <2>11, OtherBlocks
  <2>12. ASSUME NEW p \in Proc, NEW fd \in Fd, sys_read(p, fd, MaxRead) PROVE BlocksInv'
    BY <2>2, <2>12, ReadBlocks
  <2>13. ASSUME NEW p \in Proc, ExitEnd(p) PROVE BlocksInv'
    BY <2>2, <2>13, OtherBlocks
  <2>14. ASSUME NEW p \in Proc, Put(p) PROVE BlocksInv'
    BY <2>2, <2>14, PutBlocks
  <2> QED
    BY <1>2, <2>4, <2>5, <2>6, <2>7, <2>8, <2>9, <2>10, <2>11, <2>12, <2>13, <2>14 DEF Next
<1> QED
  BY <1>1, <1>2

(* The bitmap, the block numbers, the units below every size, and the log: *)
(* they are right after every step of the file system, crashes included.   *)
THEOREM BlocksInvariant == Spec => []BlocksInv
<1>1. Init => BlocksInv
  BY InitBlocks
<1>2. FilesInv /\ BlocksInv /\ [Next]_vars => BlocksInv'
  <2> SUFFICES ASSUME FilesInv, BlocksInv, [Next]_vars PROVE BlocksInv'
    OBVIOUS
  <2>1. CASE UNCHANGED vars
    <3>1. UNCHANGED <<vol, ino, pc, fault>>
      BY <2>1 DEF vars
    <3> QED
      BY <3>1 DEF BlocksInv, FitsLog
  <2> QED
    BY <2>1, StepBlocks
<1> QED
  BY <1>1, <1>2, FilesInvariant, PTL DEF Spec

(* The bitmap marks exactly the blocks inodes point to, no block has two   *)
(* pointers, and every unit of a file is one written to it: balloc, bmap,  *)
(* sfs_writei, sfs_itrunc and sfs_iupdate agree for files of any size.     *)
THEOREM BlocksAreExact == Spec => []BlocksExact
<1>1. BlocksInv => BlocksExact
  BY StockIsExact DEF BlocksInv
<1> QED
  BY <1>1, BlocksInvariant, PTL

(* A chunk of filewrite, and the truncation of fileclose and unlink, never *)
(* write more blocks than a transaction of the log may, and bfree never    *)
(* finds its block free: neither panic is reached.                         *)
THEOREM FitsTheLog == Spec => []FitsLog
<1>1. BlocksInv => FitsLog
  BY DEF BlocksInv
<1> QED
  BY <1>1, BlocksInvariant, PTL

=============================================================================
