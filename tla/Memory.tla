------------------------------- MODULE Memory -------------------------------
(***************************************************************************)
(* Physical pages and address spaces: kalloc.c, vm.c, exec.c, and fork,    *)
(* growproc, exit and wait of proc.c as far as they take and give memory.  *)
(* An address space belongs to one process, so a call is one action; what  *)
(* the other CPUs do meanwhile to the free list shows in kalloc, which may *)
(* find the list empty at any of its calls and not at the next.            *)
(*                                                                         *)
(* The order of the free list is left open: kalloc takes the lowest page.  *)
(* A page directory is the record                                          *)
(*   self    its own page           ktab   the tables of the kernel part   *)
(*   tab     tables of the user part, 0 where PTE_P is clear               *)
(*   pte     the page mapped at a user page number, 0 where there is none  *)
(*   hidden  the user page without PTE_U, or -1                            *)
(* Addresses are counted in units, PGSIZE of them to a page.               *)
(***************************************************************************)
EXTENDS Integers, Sequences, FiniteSets, SequencesExt, FiniteSetsExt

CONSTANTS
  NFrame,       \* pages between end and PHYSTOP
  NPT, NPD,     \* NPTENTRIES, and the entries of a directory below KERNBASE
  NKTab,        \* tables that the kernel part needs
  PGSIZE,
  Slot,         \* slots of ptable; the first is initproc
  Programs,     \* a program is the sequence of its segments <<page, end>>
  Deltas,       \* arguments of sbrk
  MaxFail,      \* kallocs that find the list empty for a while
  MaxCall,      \* calls of exec, fork and growproc in a behaviour
  None

Frame == 1..NFrame
NPage == NPT * NPD
KERNBASE == NPage * PGSIZE
WORD == 2 * KERNBASE                                  \* of a uint
PGROUNDUP(sz) == (sz + PGSIZE - 1) \div PGSIZE        \* as a page number
Init0 == Min(Slot)

ASSUME MemoryAssumption ==
  /\ {NFrame, NPT, NPD, NKTab, PGSIZE} \subseteq Nat \ {0}
  /\ Slot \subseteq Nat /\ IsFiniteSet(Slot) /\ Slot # {}
  /\ NFrame > NKTab + 4

VARIABLES
  free,         \* kmem.freelist
  proc,         \* per slot: state, kstack, pgdir, sz
  failed,       \* some kalloc has returned 0
  calls,        \* calls so far
  ret,          \* the slot whose call returned last, and whether it failed
  fault         \* the panic or stray access that stopped the kernel

vars == <<free, proc, failed, calls, ret, fault>>

Unused == [state |-> "unused", kstack |-> 0, dir |-> None, sz |-> 0]

(***************************************************************************)
(* A call works on v: the free list, the ordinals of the kallocs that fail,*)
(* the number of kallocs so far, the directory d in hand, the result.      *)
(***************************************************************************)
With(x, Op(_)) == Op(x)
Then(v, Op(_)) == IF v.fault # None THEN v ELSE Op(v)
Stop(v, why) == [v EXCEPT !.fault = why]
Work(d, fails) ==
  [free |-> free, fails |-> fails, n |-> 0, d |-> d, ret |-> 0, fault |-> None, failed |-> failed]

kalloc(v) ==
  IF v.free = {} \/ v.n + 1 \in v.fails THEN [v EXCEPT !.n = @ + 1, !.ret = 0, !.failed = TRUE]
  ELSE With(Min(v.free), LAMBDA f : [v EXCEPT !.n = @ + 1, !.free = @ \ {f}, !.ret = f])
kfree(v, S) == [v EXCEPT !.free = @ \cup S]

NoDir(f) == [self |-> f, ktab |-> {}, tab |-> [i \in 0..NPD - 1 |-> 0],
             pte |-> [i \in 0..NPage - 1 |-> 0], hidden |-> -1]

\* walkpgdir with alloc: ret is 0 when there is no table and no page for one.
walkpgdir(v, pg) ==
  IF v.d.tab[pg \div NPT] # 0 THEN [v EXCEPT !.ret = v.d.tab[pg \div NPT]]
  ELSE With(kalloc(v), LAMBDA w : IF w.ret = 0 THEN w ELSE [w EXCEPT !.d.tab[pg \div NPT] = w.ret])
\* mappages of one page.
mappages(v, pg, f) ==
  With(walkpgdir(v, pg),
       LAMBDA w : IF w.ret = 0 THEN [w EXCEPT !.ret = -1]
                  ELSE IF w.d.pte[pg] # 0 THEN Stop(w, "remap")
                  ELSE [w EXCEPT !.d.pte[pg] = f, !.ret = 0])

\* setupkvm; when a table of the kernel part is not to be had, the directory and
\* the tables so far are not given back.
KernelTab(v) ==
  IF v.ret = 0 THEN v
  ELSE With(kalloc(v), LAMBDA w : IF w.ret = 0 THEN w ELSE [w EXCEPT !.d.ktab = @ \cup {w.ret}])
setupkvm(v) ==
  With(kalloc(v),
       LAMBDA w : IF w.ret = 0 THEN w
                  ELSE FoldLeft(LAMBDA u, k : KernelTab(u), [w EXCEPT !.d = NoDir(w.ret)],
                                [k \in 1..NKTab |-> k]))

\* Mutant: the pte keeps the page.
Unmap_Kept(v, pg) == kfree(v, {v.d.pte[pg]} \ {0})
Unmap(v, pg) == kfree([v EXCEPT !.d.pte[pg] = 0], {v.d.pte[pg]} \ {0})
\* Where a table is missing deallocuvm goes on NPTENTRIES pages later.
deallocuvm(v, oldsz, newsz) ==
  LET RECURSIVE From(_, _)
      From(w, pg) == IF pg * PGSIZE >= oldsz THEN w
                     ELSE IF w.d.tab[pg \div NPT] = 0 THEN From(w, pg + NPT)
                     ELSE From(Unmap(w, pg), pg + 1)
  IN  IF newsz >= oldsz THEN [v EXCEPT !.ret = oldsz]
      ELSE [From(v, PGROUNDUP(newsz)) EXCEPT !.ret = newsz]

\* allocuvm; the result of mappages is not looked at.
allocuvm(v, oldsz, newsz) ==
  LET RECURSIVE From(_, _)
      From(w, pg) ==
        IF w.fault # None \/ pg * PGSIZE >= newsz THEN [w EXCEPT !.ret = newsz]
        ELSE With(kalloc(w),
                  LAMBDA u : IF u.ret = 0 THEN [deallocuvm(u, newsz, oldsz) EXCEPT !.ret = 0]
                             ELSE From(mappages(u, pg, u.ret), pg + 1))
  IN  IF newsz >= KERNBASE THEN [v EXCEPT !.ret = 0]
      ELSE IF newsz < oldsz THEN [v EXCEPT !.ret = oldsz]
      ELSE From(v, PGROUNDUP(oldsz))

Tables(d) == {d.tab[i] : i \in 0..NPD - 1} \ {0}
\* Mutant: the tables are forgotten.
freevm_NoTables(v) ==
  With(deallocuvm(v, KERNBASE, 0), LAMBDA w : kfree(w, w.d.ktab \cup {w.d.self}))
freevm(v) ==
  With(deallocuvm(v, KERNBASE, 0),
       LAMBDA w : kfree(w, Tables(w.d) \cup w.d.ktab \cup {w.d.self}))

\* copyuvm of the pages below sz of directory src, into v.d.
CopyPage(v, src, pg) ==
  IF src.tab[pg \div NPT] = 0 \/ src.pte[pg] = 0 THEN Stop(v, "copyuvm")
  ELSE With(kalloc(v), LAMBDA w : IF w.ret = 0 THEN [w EXCEPT !.ret = -1]
                                  ELSE mappages(w, pg, w.ret))
\* Mutant: a last page in part is not copied.
CopyPages_Whole(v, src, sz) ==
  FoldLeft(LAMBDA w, k : IF w.fault # None \/ w.ret < 0 THEN w ELSE CopyPage(w, src, k - 1),
           [v EXCEPT !.ret = 0], [k \in 1..sz \div PGSIZE |-> k])
CopyPages(v, src, sz) ==
  FoldLeft(LAMBDA w, k : IF w.fault # None \/ w.ret < 0 THEN w ELSE CopyPage(w, src, k - 1),
           [v EXCEPT !.ret = 0], [k \in 1..PGROUNDUP(sz) |-> k])
copyuvm(v, src, sz) ==
  With(setupkvm(v),
       LAMBDA w : IF w.ret = 0 THEN [w EXCEPT !.ret = -1]
                  ELSE Then(CopyPages([w EXCEPT !.d.hidden = src.hidden], src, sz),
                            LAMBDA u : IF u.ret < 0 THEN [freevm(u) EXCEPT !.ret = -1] ELSE u))

(***************************************************************************)
(* exec.  v.ret is the size so far, -1 once the code has gone to bad.      *)
(***************************************************************************)
Good(v, Op(_)) == IF v.fault # None \/ v.ret < 0 THEN v ELSE Op(v)
OrBad(v) == IF v.ret = 0 THEN [v EXCEPT !.ret = -1] ELSE v

\* loaduvm takes the address in a pte as it is, PTE_P or not: "stray" stands for
\* an access to page 0, and the model stops there.
loaduvm(v, pages) ==
  IF \E pg \in pages : v.d.tab[pg \div NPT] = 0 THEN Stop(v, "loaduvm")
  ELSE IF \E pg \in pages : v.d.pte[pg] = 0 THEN Stop(v, "stray")
  ELSE v
LoadSegment(v, seg, ok) ==
  Good(OrBad(allocuvm(v, v.ret, seg[2])),
       LAMBDA w : Good(loaduvm(w, seg[1]..PGROUNDUP(seg[2]) - 1),
                       LAMBDA u : IF ok THEN u ELSE [u EXCEPT !.ret = -1]))
Load(v, prog, stop) ==
  FoldLeft(LAMBDA w, k : Good(w, LAMBDA u : LoadSegment(u, prog[k], k # stop)), v,
           [k \in 1..Len(prog) |-> k])

\* The stack below sz = w.ret: a hidden page and a page for the arguments, which
\* copyout reaches through the page table.
clearpteu(v, pg) ==
  IF v.d.tab[pg \div NPT] = 0 THEN Stop(v, "clearpteu") ELSE [v EXCEPT !.d.hidden = pg]
copyout(v, pg) ==
  IF v.d.tab[pg \div NPT] = 0 THEN Stop(v, "stray")
  ELSE IF v.d.pte[pg] = 0 \/ v.d.hidden = pg THEN [v EXCEPT !.ret = -1] ELSE v
Stack(v, ok) ==
  With(PGROUNDUP(v.ret),
       LAMBDA top :
         Good(Good(OrBad(allocuvm(v, top * PGSIZE, (top + 2) * PGSIZE)), LAMBDA w : clearpteu(w, top)),
              LAMBDA w : IF ok THEN copyout(w, top + 1) ELSE [w EXCEPT !.ret = -1]))

Image(v, prog, stop) ==
  With(setupkvm(v),
       LAMBDA w : IF w.ret = 0 THEN [w EXCEPT !.ret = -1]
                  ELSE With(Good(Load([w EXCEPT !.ret = 0], prog, stop),
                                 LAMBDA u : Stack(u, stop # Len(prog) + 1)),
                            LAMBDA u : IF u.fault = None /\ u.ret < 0
                                       THEN [freevm(u) EXCEPT !.ret = -1] ELSE u))

(***************************************************************************)
(* Calls.                                                                  *)
(***************************************************************************)
\* The kallocs that fail besides those that find no page left, in one call of a
\* behaviour.
Fails == {F \in SUBSET (1..NPage + NPD + NKTab + 2) : Cardinality(F) <= IF failed THEN 0 ELSE MaxFail}
May(p) == fault = None /\ proc[p].state = "running"
\* A process without a page faults at its next instruction, and trap ends it.
Hollow(p) == \A pg \in 0..NPage - 1 : proc[p].dir.pte[pg] = 0
Call(p) == May(p) /\ ~Hollow(p) /\ calls < MaxCall /\ calls' = calls + 1
Return(v, p, r) == free' = v.free /\ failed' = v.failed /\ fault' = v.fault /\ ret' = [p |-> p, ok |-> r]

exec(p, prog, stop, F) ==
  /\ Call(p)
  /\ \E v \in {Image(Work(None, F), prog, stop)} :
       IF v.fault # None \/ v.ret < 0 THEN Return(v, p, FALSE) /\ UNCHANGED proc
       ELSE /\ proc' = [proc EXCEPT ![p].dir = v.d, ![p].sz = v.ret]
            /\ Return(freevm([v EXCEPT !.d = proc[p].dir]), p, TRUE)

\* The size that sbrk(n) asks for, as a uint.
NewSize(p, n) == (proc[p].sz + n) % WORD

\* Mutant: a failure is not looked at.
growproc_Unchecked(p, n, F) ==
  /\ Call(p)
  /\ \E v \in {IF n > 0 THEN allocuvm(Work(proc[p].dir, F), proc[p].sz, NewSize(p, n))
               ELSE deallocuvm(Work(proc[p].dir, F), proc[p].sz, NewSize(p, n))} :
       /\ Return(v, p, v.ret # 0)
       /\ proc' = [proc EXCEPT ![p].dir = v.d, ![p].sz = v.ret]
\* A size 0 from deallocuvm, after the pages are gone, is a failure as well, and
\* sz stays.
growproc(p, n, F) ==
  /\ Call(p)
  /\ \E v \in {IF n > 0 THEN allocuvm(Work(proc[p].dir, F), proc[p].sz, NewSize(p, n))
               ELSE deallocuvm(Work(proc[p].dir, F), proc[p].sz, NewSize(p, n))} :
       /\ Return(v, p, v.ret # 0)
       /\ proc' = [proc EXCEPT ![p].dir = v.d, ![p].sz = IF v.ret = 0 THEN @ ELSE v.ret]

\* allocproc takes the kernel stack, copyuvm the rest.
fork(p, q, F) ==
  /\ Call(p) /\ proc[q].state = "unused"
  /\ \E v \in {kalloc(Work(None, F))} :
       IF v.ret = 0 THEN Return(v, p, FALSE) /\ UNCHANGED proc
       ELSE \E w \in {copyuvm(v, proc[p].dir, proc[p].sz)} :
              IF w.fault # None \/ w.ret < 0
              THEN Return(Then(w, LAMBDA u : kfree(u, {v.ret})), p, FALSE) /\ UNCHANGED proc
              ELSE /\ Return(w, p, TRUE)
                   /\ proc' = [proc EXCEPT ![q] = [state |-> "running", kstack |-> v.ret,
                                                   dir |-> w.d, sz |-> proc[p].sz]]

exit(p) ==
  /\ May(p) /\ p # Init0
  /\ proc' = [proc EXCEPT ![p].state = "zombie"]
  /\ UNCHANGED <<free, failed, calls, fault, ret>>

wait(p) ==
  /\ fault = None /\ proc[p].state = "zombie"
  /\ Return(kfree(freevm(Work(proc[p].dir, {})), {proc[p].kstack}), p, TRUE)
  /\ proc' = [proc EXCEPT ![p] = Unused]
  /\ UNCHANGED calls

\* userinit: a kernel stack, a directory, one page for initcode.
Init ==
  LET boot == [free |-> Frame, fails |-> {}, n |-> 0, d |-> None, ret |-> 0,
               fault |-> None, failed |-> FALSE]
      k == kalloc(boot)
      d == setupkvm(k)
      m == kalloc(d)
      v == mappages(m, 0, m.ret)
  IN  /\ free = v.free
      /\ proc = [p \in Slot |-> IF p = Init0 THEN [state |-> "running", kstack |-> k.ret,
                                                   dir |-> v.d, sz |-> PGSIZE]
                                ELSE Unused]
      /\ failed = FALSE /\ fault = None /\ calls = 0
      /\ ret = [p |-> Init0, ok |-> TRUE]

Next ==
  \/ \E p \in Slot, F \in Fails :
       \/ \E prog \in Programs : \E stop \in 0..Len(prog) + 1 : exec(p, prog, stop, F)
       \/ \E n \in Deltas : growproc(p, n, F)
       \/ \E q \in Slot : fork(p, q, F)
  \/ \E p \in Slot : exit(p) \/ wait(p)

Spec == Init /\ [][Next]_vars

(***************************************************************************)
(* Properties.                                                             *)
(***************************************************************************)
\* What a process holds, as places: each place holds one page.
Held(p) ==
  IF proc[p].state = "unused" THEN {}
  ELSE LET d == proc[p].dir IN
       {<<p, "kstack", 0, proc[p].kstack>>, <<p, "self", 0, d.self>>}
         \cup {<<p, "ktab", f, f>> : f \in d.ktab}
         \cup {<<p, "tab", i, d.tab[i]>> : i \in {j \in 0..NPD - 1 : d.tab[j] # 0}}
         \cup {<<p, "pte", i, d.pte[i]>> : i \in {j \in 0..NPage - 1 : d.pte[j] # 0}}
Places == UNION {Held(p) : p \in Slot}
Pages(S) == {x[4] : x \in S}

\* A page is in at most one place, and no page in use is on the free list: no
\* page is freed twice, freed while it is mapped, or mapped in two processes,
\* whatever kallocs fail on the way through exec, fork and growproc.
OneOwner ==
  /\ Cardinality(Pages(Places)) = Cardinality(Places)
  /\ Pages(Places) \cap free = {}

\* As long as every kalloc has found a page none is lost, and no call panics:
\* what fork, exec and growproc take, a failing exec, exit and wait give back.
NothingLost == ~failed => Pages(Places) \cup free = Frame /\ fault = None

\* As long as every kalloc has found a page, a process has a page for each of
\* its addresses below sz and none beyond, which copyuvm and mappages rely on:
\* unless it has given all of them back, and then it has none.
ImageWhole ==
  ~failed => \A p \in Slot : proc[p].state # "unused" =>
    \/ Hollow(p)
    \/ \A pg \in 0..NPage - 1 : proc[p].dir.pte[pg] # 0 <=> pg < PGROUNDUP(proc[p].sz)

\* A call that fails leaves the image of its process as it was, the size and
\* every page that was mapped, and a call of one process that of the others.
\* The one exception is sbrk(-sz), which fails after it has freed every page.
FailureKeeps ==
  [][\A p \in Slot : (~ret'.ok \/ ret'.p # p) /\ proc[p].state = "running" =>
       /\ proc'[p].sz = proc[p].sz
       /\ \/ growproc(p, -proc[p].sz, {}) /\ Hollow(p)'
          \/ \A pg \in 0..PGROUNDUP(proc[p].sz) - 1 : proc'[p].dir.pte[pg] = proc[p].dir.pte[pg]]_vars

=============================================================================
