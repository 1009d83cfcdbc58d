----------------------------- MODULE ProcProofs -----------------------------
(***************************************************************************)
(* Proofs about processes, for any number of CPUs and of slots of the      *)
(* process table.                                                          *)
(***************************************************************************)
EXTENDS Proc, WellFoundedInduction, TLAPS

(* A slot is neither 0, which stands for no process, nor the channel of    *)
(* the clock; every slot can be a channel, and the scan ends one after the *)
(* last.                                                                   *)
LEMMA SlotFacts ==
  /\ Slot \subseteq Nat /\ 0 \notin Slot /\ None \notin Slot /\ None \notin CPU
  /\ initproc \in Slot /\ initproc # 0
  /\ ticks \notin Slot /\ ticks # 0 /\ ticks \in 0..ticks /\ 0 \in 0..ticks
  /\ \A p \in Slot : p \in 0..ticks /\ p + 1 \in 1..(NPROC + 1)
BY ProcAssumption DEF Slot, initproc, ticks

(* The loops over ptable.proc[] that stop at the first slot of a kind find *)
(* one if there is one.                                                    *)
LEMMA FirstIn == ASSUME NEW S \in SUBSET Slot, S # {} PROVE First(S) \in S
<1> DEFINE R == OpToRel(<, Nat)
<1>1. IsWellFoundedOn(R, Nat)
  BY Zenon, NatLessThanWellFounded
<1>2. \A i, j \in Nat : <<i, j>> \in R <=> i < j
  BY DEF OpToRel
<1> HIDE DEF R
<1>3. S \subseteq Nat
  BY SlotFacts
<1>4. PICK i \in S : \A j \in S : ~ (<<j, i>> \in R)
  BY Zenon, <1>1, <1>3, WFMin
<1>5. ASSUME NEW j \in S PROVE i <= j
  <2>1. i \in Nat /\ j \in Nat
    BY <1>3
  <2>2. ~ (j < i)
    BY Zenon, <2>1, <1>2, <1>4
  <2> QED
    BY <2>1, <2>2
<1>6. \E k \in S : \A j \in S : k <= j
  BY <1>5
<1> QED
  BY <1>6 DEF First

(***************************************************************************)
(* The actions that use such a loop, for the slot it finds, and those      *)
(* with several outcomes, for each of them.                                *)
(***************************************************************************)
GiveUp(c) ==
  /\ on[c] = 0 /\ holder = c /\ holder' = None
  /\ UNCHANGED <<table, on, scan, tholder, pc, child, left>>

PickAt(c, p) ==
  /\ on[c] = 0 /\ holder = c /\ state[p] = "RUNNABLE"
  /\ state' = [state EXCEPT ![p] = "RUNNING"]
  /\ on' = [on EXCEPT ![c] = p] /\ scan' = [scan EXCEPT ![c] = p + 1]
  /\ UNCHANGED <<pid, parent, killed, chan, kstack, nextpid, holder, tholder, pc, child, left>>

KillAt(c, p, q) ==
  /\ Calls(c, p) /\ holder = None
  /\ killed' = killed \cup {q}
  /\ state' = [state EXCEPT ![q] = KillWakes(q)]
  /\ UNCHANGED <<pid, parent, chan, kstack, nextpid, on, scan, holder, tholder, pc, child,
                 left>>

AllocAt(c, p, q) ==
  /\ Calls(c, p) /\ holder = None /\ nextpid <= MaxPid /\ state[q] = "UNUSED"
  /\ state' = [state EXCEPT ![q] = "EMBRYO"]
  /\ pid' = [pid EXCEPT ![q] = nextpid] /\ nextpid' = nextpid + 1
  /\ child' = [child EXCEPT ![p] = q] /\ pc' = [pc EXCEPT ![p] = "fork"]
  /\ UNCHANGED <<parent, killed, chan, kstack, on, scan, holder, tholder, left>>

FoundAt(c, p, q) ==
  /\ on[c] = p /\ state[p] = "RUNNING" /\ pc[p] = "wait"
  /\ parent[q] = p /\ state[q] = "ZOMBIE"
  /\ kstack' = kstack \ {q} /\ killed' = killed \ {q}
  /\ state' = [state EXCEPT ![q] = "UNUSED"]
  /\ pid' = [pid EXCEPT ![q] = 0] /\ parent' = [parent EXCEPT ![q] = 0]
  /\ chan' = [chan EXCEPT ![p] = 0] /\ pc' = [pc EXCEPT ![p] = "user"]
  /\ holder' = None
  /\ UNCHANGED <<nextpid, on, scan, tholder, child, left>>

ForkAt(c, p, q) ==
  /\ Runs(c, p, "fork") /\ q = child[p] /\ state[q] = "EMBRYO" /\ q # p
  /\ state' = [state EXCEPT ![q] = "RUNNABLE"]
  /\ parent' = [parent EXCEPT ![q] = p] /\ kstack' = kstack \cup {q}
  /\ pc' = [pc EXCEPT ![p] = "user", ![q] = "user"] /\ child' = [child EXCEPT ![p] = 0]
  /\ UNCHANGED <<pid, killed, chan, nextpid, on, scan, holder, tholder, left>>

\* A process other than the one that exits is woken or stays as it is; it is
\* woken if it waits for that one, or as init for a dead child of that one.
ExitAt(c, p) ==
  /\ Runs(c, p, "user") /\ p # initproc /\ holder = None /\ holder' = c
  /\ state' \in [Slot -> States] /\ state'[p] = "ZOMBIE"
  /\ \A r \in Slot \ {p} :
       \/ state[r] = "SLEEPING" /\ state'[r] = "RUNNABLE"
       \/ /\ state'[r] = state[r]
          /\ state[r] = "SLEEPING" =>
               /\ chan[r] # parent[p]
               /\ chan[r] = initproc => \A q \in Children(p) : state[q] # "ZOMBIE"
  /\ parent' = Reparented(p) /\ pc' = [pc EXCEPT ![p] = "exit"]
  /\ UNCHANGED <<pid, killed, chan, kstack, nextpid, on, scan, tholder, child, left>>

WaitBack(c, p) ==
  /\ on[c] = p /\ state[p] = "RUNNING" /\ pc[p] = "wait"
  /\ chan' = [chan EXCEPT ![p] = 0] /\ holder' = None /\ pc' = [pc EXCEPT ![p] = "user"]
  /\ UNCHANGED <<state, pid, parent, killed, kstack, nextpid, on, scan, tholder, child, left>>

WaitSleep(c, p) ==
  /\ on[c] = p /\ state[p] = "RUNNING" /\ pc[p] = "wait"
  /\ p \notin killed /\ Children(p) # {} /\ \A q \in Children(p) : state[q] # "ZOMBIE"
  /\ chan' = [chan EXCEPT ![p] = p] /\ state' = [state EXCEPT ![p] = "SLEEPING"]
  /\ holder' = c
  /\ UNCHANGED <<pid, parent, killed, kstack, nextpid, on, scan, tholder, pc, child, left>>

(* The scheduler's loop switches to a process that can run, or ends. *)
LEMMA PickEffect ==
  ASSUME NEW c \in CPU, SchedPick(c)
  PROVE  GiveUp(c) \/ \E p \in Slot : PickAt(c, p)
<1>1. CASE Candidates(c) = {}
  BY <1>1 DEF SchedPick, GiveUp, table
<1>2. CASE Candidates(c) # {}
  <2>1. First(Candidates(c)) \in Candidates(c)
    BY <1>2, FirstIn DEF Candidates
  <2>2. First(Candidates(c)) \in Slot /\ state[First(Candidates(c))] = "RUNNABLE"
    BY <2>1 DEF Candidates
  <2> QED
    BY <1>2, <2>2 DEF SchedPick, PickAt
<1> QED
  BY <1>1, <1>2

(* kill marks a process, and wakes it if it sleeps. *)
LEMMA KillEffect ==
  ASSUME NEW c \in CPU, NEW p \in Slot, NEW n \in 0..MaxPid, kill(c, p, n)
  PROVE  \E q \in Slot : KillAt(c, p, q)
<1> DEFINE S == {i \in Slot : pid[i] = n}
<1>1. First(S) \in S
  BY FirstIn DEF kill
<1>2. First(S) \in Slot
  BY <1>1
<1> QED
  BY Zenon, <1>2 DEF kill, KillAt

(* allocproc takes an unused slot. *)
LEMMA AllocEffect ==
  ASSUME NEW c \in CPU, NEW p \in Slot, allocproc(c, p)
  PROVE  \E q \in Slot : AllocAt(c, p, q)
<1> DEFINE S == {i \in Slot : state[i] = "UNUSED"}
<1>1. First(S) \in S
  BY FirstIn DEF allocproc
<1>2. First(S) \in Slot /\ state[First(S)] = "UNUSED"
  BY <1>1
<1> QED
  BY Zenon, <1>2 DEF allocproc, AllocAt

(* wait frees a child that is dead. *)
LEMMA FoundEffect ==
  ASSUME NEW c \in CPU, NEW p \in Slot, WaitFound(c, p)
  PROVE  \E q \in Slot : FoundAt(c, p, q)
<1> DEFINE S == {i \in Children(p) : state[i] = "ZOMBIE"}
<1>1. First(S) \in S
  BY FirstIn DEF WaitFound, Children
<1>2. First(S) \in Slot /\ parent[First(S)] = p /\ state[First(S)] = "ZOMBIE"
  BY <1>1 DEF Children
<1> QED
  BY Zenon, <1>2 DEF WaitFound, FoundAt

(* fork ends with the child that allocproc gave it. *)
LEMMA ForkEffect ==
  ASSUME ForkInv, NEW c \in CPU, NEW p \in Slot, ForkDone(c, p)
  PROVE  \E q \in Slot : ForkAt(c, p, q)
<1>1. child[p] \in Slot /\ state[child[p]] = "EMBRYO" /\ child[p] # p
  BY DEF ForkDone, Runs, ForkInv
<1> QED
  BY Zenon, <1>1 DEF ForkDone, ForkAt

(* What exit does to the states of the others. *)
LEMMA ExitEffect ==
  ASSUME TypeOK, NEW c \in CPU, NEW p \in Slot, exit(c, p)
  PROVE  ExitAt(c, p)
<1> DEFINE s == wakeup1(state, parent[p])
<1>1. /\ s \in [Slot -> States]
      /\ \A r \in Slot : s[r] = IF state[r] = "SLEEPING" /\ chan[r] = parent[p]
                                THEN "RUNNABLE" ELSE state[r]
  BY DEF wakeup1, TypeOK, States
<1> HIDE DEF s
<1> DEFINE t == InitWoken(s, p)
<1>2. t \in [Slot -> States]
  BY <1>1 DEF InitWoken, wakeup1, States
<1>3. ASSUME NEW r \in Slot
      PROVE  \/ state[r] = "SLEEPING" /\ t[r] = "RUNNABLE"
             \/ /\ t[r] = state[r]
                /\ state[r] = "SLEEPING" =>
                     /\ chan[r] # parent[p]
                     /\ chan[r] = initproc => \A q \in Children(p) : state[q] # "ZOMBIE"
  BY <1>1 DEF InitWoken, wakeup1
<1> HIDE DEF t
<1>4. state' = [t EXCEPT ![p] = "ZOMBIE"]
  BY DEF exit, s, t
<1>5. /\ state' \in [Slot -> States] /\ state'[p] = "ZOMBIE"
      /\ \A r \in Slot \ {p} : state'[r] = t[r]
  BY <1>2, <1>4 DEF States
<1> QED
  BY <1>3, <1>5 DEF exit, ExitAt, HoldInSched

(* wait without a dead child returns or sleeps. *)
LEMMA MoreEffect ==
  ASSUME NEW c \in CPU, NEW p \in Slot, WaitMore(c, p)
  PROVE  WaitBack(c, p) \/ WaitSleep(c, p)
<1>1. CASE Children(p) = {} \/ p \in killed
  BY <1>1 DEF WaitMore, WaitBack
<1>2. CASE ~(Children(p) = {} \/ p \in killed)
  BY <1>2 DEF WaitMore, WaitSleep, HoldInSched
<1> QED
  BY <1>1, <1>2

(* A step of the system is one of these, or one of the other actions. *)
LEMMA NextCases ==
  ASSUME TypeOK, ForkInv, Next
  PROVE  \/ Tick
         \/ \E c \in CPU : \/ SchedLock(c) \/ GiveUp(c) \/ Swtch(c) \/ Resume(c) \/ InitExits(c)
         \/ \E c \in CPU, p \in Slot :
              \/ PickAt(c, p) \/ yield(c, p) \/ Fault(c, p) \/ ForkFails(c, p)
              \/ ExitAt(c, p) \/ WaitCall(c, p) \/ WaitBack(c, p) \/ WaitSleep(c, p)
              \/ NapCall(c, p) \/ NapTest(c, p) \/ NapSleep(c, p) \/ NapLock(c, p)
         \/ \E c \in CPU, p, q \in Slot :
              KillAt(c, p, q) \/ AllocAt(c, p, q) \/ ForkAt(c, p, q) \/ FoundAt(c, p, q)
BY PickEffect, KillEffect, AllocEffect, ForkEffect, ExitEffect, FoundEffect, MoreEffect
   DEF Next, Step

(* Every step keeps the types. *)
LEMMA TypeStep ==
  ASSUME TypeOK, ForkInv, [Next]_vars
  PROVE  TypeOK'
<1> USE SlotFacts DEF TypeOK, table
<1>1. ASSUME Tick PROVE TypeOK'
  <2>1. left' \in [Slot -> 0..NapTicks]
    BY <1>1, ProcAssumption DEF Tick
  <2> QED
    BY <1>1, <2>1 DEF Tick, wakeup1, States
<1>2. ASSUME NEW c \in CPU, SchedLock(c) PROVE TypeOK'
  BY <1>2, ProcAssumption DEF SchedLock
<1>3. ASSUME NEW c \in CPU, GiveUp(c) PROVE TypeOK'
  BY <1>3 DEF GiveUp
<1>4. ASSUME NEW c \in CPU, Swtch(c) PROVE TypeOK'
  BY <1>4 DEF Swtch
<1>5. ASSUME NEW c \in CPU, Resume(c) PROVE TypeOK'
  BY <1>5 DEF Resume
<1>6. ASSUME NEW c \in CPU, InitExits(c) PROVE TypeOK'
  BY <1>6 DEF InitExits, Runs
<1>7. ASSUME NEW c \in CPU, NEW p \in Slot, PickAt(c, p) PROVE TypeOK'
  BY <1>7 DEF PickAt, States
<1>8. ASSUME NEW c \in CPU, NEW p \in Slot, yield(c, p) PROVE TypeOK'
  BY <1>8 DEF yield, Runs, HoldInSched, States
<1>9. ASSUME NEW c \in CPU, NEW p \in Slot, Fault(c, p) PROVE TypeOK'
  BY <1>9 DEF Fault, Calls, Runs
<1>10. ASSUME NEW c \in CPU, NEW p \in Slot, ForkFails(c, p) PROVE TypeOK'
  BY <1>10 DEF ForkFails, Runs, ForkInv, States
<1>11. ASSUME NEW c \in CPU, NEW p \in Slot, ExitAt(c, p) PROVE TypeOK'
  BY <1>11 DEF ExitAt, Runs, Reparented
<1>12. ASSUME NEW c \in CPU, NEW p \in Slot, WaitCall(c, p) PROVE TypeOK'
  BY <1>12 DEF WaitCall, Calls, Runs
<1>13. ASSUME NEW c \in CPU, NEW p \in Slot, WaitBack(c, p) PROVE TypeOK'
  BY <1>13 DEF WaitBack
<1>14. ASSUME NEW c \in CPU, NEW p \in Slot, WaitSleep(c, p) PROVE TypeOK'
  BY <1>14 DEF WaitSleep, States
<1>15. ASSUME NEW c \in CPU, NEW p \in Slot, NapCall(c, p) PROVE TypeOK'
  BY <1>15, ProcAssumption DEF NapCall, Calls, Runs
<1>16. ASSUME NEW c \in CPU, NEW p \in Slot, NapTest(c, p) PROVE TypeOK'
  BY <1>16, ProcAssumption DEF NapTest, Runs
<1>17. ASSUME NEW c \in CPU, NEW p \in Slot, NapSleep(c, p) PROVE TypeOK'
  BY <1>17 DEF NapSleep, Runs, HoldInSched, States
<1>18. ASSUME NEW c \in CPU, NEW p \in Slot, NapLock(c, p) PROVE TypeOK'
  BY <1>18 DEF NapLock, Runs
<1>19. ASSUME NEW c \in CPU, NEW p \in Slot, NEW q \in Slot, KillAt(c, p, q) PROVE TypeOK'
  BY <1>19 DEF KillAt, Calls, Runs, KillWakes, States
<1>20. ASSUME NEW c \in CPU, NEW p \in Slot, NEW q \in Slot, AllocAt(c, p, q) PROVE TypeOK'
  BY <1>20, ProcAssumption DEF AllocAt, Calls, Runs, States
<1>21. ASSUME NEW c \in CPU, NEW p \in Slot, NEW q \in Slot, ForkAt(c, p, q) PROVE TypeOK'
  BY ZenonT(60), <1>21 DEF ForkAt, Runs, ForkInv, States
<1>22. ASSUME NEW c \in CPU, NEW p \in Slot, NEW q \in Slot, FoundAt(c, p, q) PROVE TypeOK'
  BY <1>22, ProcAssumption DEF FoundAt, States
<1>23. ASSUME UNCHANGED vars PROVE TypeOK'
  BY SMTT(60), <1>23 DEF vars
<1> QED
  BY ZenonT(60), <1>1, <1>2, <1>3, <1>4, <1>5, <1>6, <1>7, <1>8, <1>9, <1>10, <1>11, <1>12,
     <1>13, <1>14, <1>15, <1>16, <1>17, <1>18, <1>19, <1>20, <1>21, <1>22, <1>23, NextCases

(* No step puts a process on two CPUs, frees a stack in use, or lets go of *)
(* ptable.lock while a process is on the way out of its stack.             *)
LEMMA CpuStep ==
  ASSUME TypeOK, CpuInv, ForkInv, [Next]_vars
  PROVE  CpuInv'
<1> USE SlotFacts DEF TypeOK, CpuInv, Live, table
<1>1. ASSUME Tick PROVE CpuInv'
  BY <1>1 DEF Tick, wakeup1
<1>2. ASSUME NEW c \in CPU, SchedLock(c) PROVE CpuInv'
  BY <1>2 DEF SchedLock
<1>3. ASSUME NEW c \in CPU, GiveUp(c) PROVE CpuInv'
  BY <1>3 DEF GiveUp
<1>4. ASSUME NEW c \in CPU, Swtch(c) PROVE CpuInv'
  BY <1>4 DEF Swtch
<1>5. ASSUME NEW c \in CPU, Resume(c) PROVE CpuInv'
  BY <1>5 DEF Resume
<1>6. ASSUME NEW c \in CPU, InitExits(c) PROVE CpuInv'
  BY <1>6 DEF InitExits, Runs
<1>7. ASSUME NEW c \in CPU, NEW p \in Slot, PickAt(c, p) PROVE CpuInv'
  BY <1>7 DEF PickAt
<1>8. ASSUME NEW c \in CPU, NEW p \in Slot, yield(c, p) PROVE CpuInv'
  BY <1>8 DEF yield, Runs, HoldInSched
<1>9. ASSUME NEW c \in CPU, NEW p \in Slot, Fault(c, p) PROVE CpuInv'
  BY <1>9 DEF Fault, Calls, Runs
<1>10. ASSUME NEW c \in CPU, NEW p \in Slot, ForkFails(c, p) PROVE CpuInv'
  BY <1>10 DEF ForkFails, Runs, ForkInv
<1>11. ASSUME NEW c \in CPU, NEW p \in Slot, ExitAt(c, p) PROVE CpuInv'
  <2>1. on[c] = p /\ holder = None /\ holder' = c /\ on' = on /\ kstack' = kstack
    BY <1>11 DEF ExitAt, Runs
  <2>2. \A r \in Slot : state'[r] \in Live <=> state[r] \in Live
    BY <1>11 DEF ExitAt, Runs
  <2>3. ASSUME NEW d \in CPU, on[d] # 0, d # c
        PROVE  on[d] # p /\ state'[on[d]] = "RUNNING" /\ pc'[on[d]] # "wait"
    <3>1. on[d] \in Slot \ {p} /\ state[on[d]] = "RUNNING" /\ pc[on[d]] # "wait"
      BY <2>1, <2>3
    <3> HIDE DEF CpuInv
    <3> QED
      BY Zenon, <1>11, <3>1 DEF ExitAt
  <2>4. pc'[p] # "wait"
    BY <1>11 DEF ExitAt
  <2> QED
    BY <2>1, <2>2, <2>3, <2>4
<1>12. ASSUME NEW c \in CPU, NEW p \in Slot, WaitCall(c, p) PROVE CpuInv'
  BY <1>12 DEF WaitCall, Calls, Runs
<1>13. ASSUME NEW c \in CPU, NEW p \in Slot, WaitBack(c, p) PROVE CpuInv'
  BY <1>13 DEF WaitBack
<1>14. ASSUME NEW c \in CPU, NEW p \in Slot, WaitSleep(c, p) PROVE CpuInv'
  BY <1>14 DEF WaitSleep
<1>15. ASSUME NEW c \in CPU, NEW p \in Slot, NapCall(c, p) PROVE CpuInv'
  BY <1>15 DEF NapCall, Calls, Runs
<1>16. ASSUME NEW c \in CPU, NEW p \in Slot, NapTest(c, p) PROVE CpuInv'
  BY ZenonT(60), <1>16 DEF NapTest, Runs
<1>17. ASSUME NEW c \in CPU, NEW p \in Slot, NapSleep(c, p) PROVE CpuInv'
  BY <1>17 DEF NapSleep, Runs, HoldInSched
<1>18. ASSUME NEW c \in CPU, NEW p \in Slot, NapLock(c, p) PROVE CpuInv'
  BY <1>18 DEF NapLock, Runs
<1>19. ASSUME NEW c \in CPU, NEW p \in Slot, NEW q \in Slot, KillAt(c, p, q) PROVE CpuInv'
  BY <1>19 DEF KillAt, Calls, Runs, KillWakes
<1>20. ASSUME NEW c \in CPU, NEW p \in Slot, NEW q \in Slot, AllocAt(c, p, q) PROVE CpuInv'
  BY <1>20 DEF AllocAt, Calls, Runs
<1>21. ASSUME NEW c \in CPU, NEW p \in Slot, NEW q \in Slot, ForkAt(c, p, q) PROVE CpuInv'
  <2>1. ASSUME NEW d \in CPU PROVE on[d] # q
    BY <1>21 DEF ForkAt
  <2>2. /\ on' = on /\ holder' = holder /\ kstack' = kstack \cup {q}
        /\ \A r \in Slot \ {q} : state'[r] = state[r] /\ (pc'[r] = "wait" => pc[r] = "wait")
    BY <1>21 DEF ForkAt
  <2>3. ASSUME NEW d \in CPU, on'[d] # 0
        PROVE  /\ state'[on'[d]] \in Live
               /\ state'[on'[d]] # "RUNNING" \/ pc'[on'[d]] = "wait" => holder' = d
               /\ \A e \in CPU : on'[e] = on'[d] => d = e
    <3>1. on'[d] = on[d] /\ on[d] \in Slot \ {q}
      BY <2>1, <2>2, <2>3
    <3>2. state'[on[d]] = state[on[d]] /\ (pc'[on[d]] = "wait" => pc[on[d]] = "wait")
      BY Zenon, <2>2, <3>1
    <3> QED
      BY <2>2, <2>3, <3>1, <3>2
  <2>4. \A r \in Slot : state'[r] \in Live => r \in kstack'
    BY <2>2
  <2> QED
    BY <2>3, <2>4
<1>22. ASSUME NEW c \in CPU, NEW p \in Slot, NEW q \in Slot, FoundAt(c, p, q) PROVE CpuInv'
  BY <1>22 DEF FoundAt
<1>23. ASSUME UNCHANGED vars PROVE CpuInv'
  BY SMTT(60), <1>23 DEF vars
<1> QED
  BY SMTT(60), <1>1, <1>2, <1>3, <1>4, <1>5, <1>6, <1>7, <1>8, <1>9, <1>10, <1>11, <1>12, <1>13,
     <1>14,
     <1>15, <1>16, <1>17, <1>18, <1>19, <1>20, <1>21, <1>22, <1>23, NextCases

(* No step touches the slot that a process in fork has allocated, but its own. *)
LEMMA ForkStep ==
  ASSUME TypeOK, ForkInv, [Next]_vars
  PROVE  ForkInv'
<1> USE SlotFacts DEF TypeOK, ForkInv, table
<1>1. ASSUME Tick PROVE ForkInv'
  BY Zenon, <1>1 DEF Tick, wakeup1
<1>2. ASSUME NEW c \in CPU, SchedLock(c) PROVE ForkInv'
  BY <1>2 DEF SchedLock
<1>3. ASSUME NEW c \in CPU, GiveUp(c) PROVE ForkInv'
  BY <1>3 DEF GiveUp
<1>4. ASSUME NEW c \in CPU, Swtch(c) PROVE ForkInv'
  BY <1>4 DEF Swtch
<1>5. ASSUME NEW c \in CPU, Resume(c) PROVE ForkInv'
  BY <1>5 DEF Resume
<1>6. ASSUME NEW c \in CPU, InitExits(c) PROVE ForkInv'
  BY <1>6 DEF InitExits, Runs
<1>7. ASSUME NEW c \in CPU, NEW p \in Slot, PickAt(c, p) PROVE ForkInv'
  BY <1>7 DEF PickAt
<1>8. ASSUME NEW c \in CPU, NEW p \in Slot, yield(c, p) PROVE ForkInv'
  BY <1>8 DEF yield, Runs, HoldInSched
<1>9. ASSUME NEW c \in CPU, NEW p \in Slot, Fault(c, p) PROVE ForkInv'
  BY <1>9 DEF Fault, Calls, Runs
<1>10. ASSUME NEW c \in CPU, NEW p \in Slot, ForkFails(c, p) PROVE ForkInv'
  BY <1>10 DEF ForkFails, Runs
<1>11. ASSUME NEW c \in CPU, NEW p \in Slot, ExitAt(c, p) PROVE ForkInv'
  BY ZenonT(60), <1>11 DEF ExitAt, Runs
<1>12. ASSUME NEW c \in CPU, NEW p \in Slot, WaitCall(c, p) PROVE ForkInv'
  BY <1>12 DEF WaitCall, Calls, Runs
<1>13. ASSUME NEW c \in CPU, NEW p \in Slot, WaitBack(c, p) PROVE ForkInv'
  BY <1>13 DEF WaitBack
<1>14. ASSUME NEW c \in CPU, NEW p \in Slot, WaitSleep(c, p) PROVE ForkInv'
  BY <1>14 DEF WaitSleep
<1>15. ASSUME NEW c \in CPU, NEW p \in Slot, NapCall(c, p) PROVE ForkInv'
  BY <1>15 DEF NapCall, Calls, Runs
<1>16. ASSUME NEW c \in CPU, NEW p \in Slot, NapTest(c, p) PROVE ForkInv'
  BY <1>16 DEF NapTest, Runs
<1>17. ASSUME NEW c \in CPU, NEW p \in Slot, NapSleep(c, p) PROVE ForkInv'
  BY <1>17 DEF NapSleep, Runs, HoldInSched
<1>18. ASSUME NEW c \in CPU, NEW p \in Slot, NapLock(c, p) PROVE ForkInv'
  BY <1>18 DEF NapLock, Runs
<1>19. ASSUME NEW c \in CPU, NEW p \in Slot, NEW q \in Slot, KillAt(c, p, q) PROVE ForkInv'
  BY <1>19 DEF KillAt, Calls, Runs, KillWakes
<1>20. ASSUME NEW c \in CPU, NEW p \in Slot, NEW q \in Slot, AllocAt(c, p, q) PROVE ForkInv'
  BY <1>20 DEF AllocAt, Calls, Runs
<1>21. ASSUME NEW c \in CPU, NEW p \in Slot, NEW q \in Slot, ForkAt(c, p, q) PROVE ForkInv'
  BY <1>21 DEF ForkAt, Runs
<1>22. ASSUME NEW c \in CPU, NEW p \in Slot, NEW q \in Slot, FoundAt(c, p, q) PROVE ForkInv'
  BY <1>22 DEF FoundAt
<1>23. ASSUME UNCHANGED vars PROVE ForkInv'
  BY SMTT(60), <1>23 DEF vars
<1> QED
  BY <1>1, <1>2, <1>3, <1>4, <1>5, <1>6, <1>7, <1>8, <1>9, <1>10, <1>11, <1>12, <1>13, <1>14,
     <1>15, <1>16, <1>17, <1>18, <1>19, <1>20, <1>21, <1>22, <1>23, NextCases

(* A process in sys_sleep keeps tickslock between its test and its sleep. *)
LEMMA NapStep ==
  ASSUME TypeOK, NapInv, ForkInv, [Next]_vars
  PROVE  NapInv'
<1> USE SlotFacts DEF TypeOK, NapInv, table
<1>1. ASSUME Tick PROVE NapInv'
  BY Zenon, <1>1 DEF Tick
<1>2. ASSUME NEW c \in CPU, SchedLock(c) PROVE NapInv'
  BY <1>2 DEF SchedLock
<1>3. ASSUME NEW c \in CPU, GiveUp(c) PROVE NapInv'
  BY <1>3 DEF GiveUp
<1>4. ASSUME NEW c \in CPU, Swtch(c) PROVE NapInv'
  BY <1>4 DEF Swtch
<1>5. ASSUME NEW c \in CPU, Resume(c) PROVE NapInv'
  BY <1>5 DEF Resume
<1>6. ASSUME NEW c \in CPU, InitExits(c) PROVE NapInv'
  BY <1>6 DEF InitExits, Runs
<1>7. ASSUME NEW c \in CPU, NEW p \in Slot, PickAt(c, p) PROVE NapInv'
  BY <1>7 DEF PickAt
<1>8. ASSUME NEW c \in CPU, NEW p \in Slot, yield(c, p) PROVE NapInv'
  BY <1>8 DEF yield, Runs, HoldInSched
<1>9. ASSUME NEW c \in CPU, NEW p \in Slot, Fault(c, p) PROVE NapInv'
  BY <1>9 DEF Fault, Calls, Runs
<1>10. ASSUME NEW c \in CPU, NEW p \in Slot, ForkFails(c, p) PROVE NapInv'
  BY <1>10 DEF ForkFails, Runs
<1>11. ASSUME NEW c \in CPU, NEW p \in Slot, ExitAt(c, p) PROVE NapInv'
  BY <1>11 DEF ExitAt, Runs
<1>12. ASSUME NEW c \in CPU, NEW p \in Slot, WaitCall(c, p) PROVE NapInv'
  BY <1>12 DEF WaitCall, Calls, Runs
<1>13. ASSUME NEW c \in CPU, NEW p \in Slot, WaitBack(c, p) PROVE NapInv'
  BY <1>13 DEF WaitBack
<1>14. ASSUME NEW c \in CPU, NEW p \in Slot, WaitSleep(c, p) PROVE NapInv'
  BY <1>14 DEF WaitSleep
<1>15. ASSUME NEW c \in CPU, NEW p \in Slot, NapCall(c, p) PROVE NapInv'
  BY <1>15 DEF NapCall, Calls, Runs
<1>16. ASSUME NEW c \in CPU, NEW p \in Slot, NapTest(c, p) PROVE NapInv'
  BY <1>16 DEF NapTest, Runs
<1>17. ASSUME NEW c \in CPU, NEW p \in Slot, NapSleep(c, p) PROVE NapInv'
  BY <1>17 DEF NapSleep, Runs, HoldInSched
<1>18. ASSUME NEW c \in CPU, NEW p \in Slot, NapLock(c, p) PROVE NapInv'
  BY <1>18 DEF NapLock, Runs
<1>19. ASSUME NEW c \in CPU, NEW p \in Slot, NEW q \in Slot, KillAt(c, p, q) PROVE NapInv'
  BY <1>19 DEF KillAt, Calls, Runs, KillWakes
<1>20. ASSUME NEW c \in CPU, NEW p \in Slot, NEW q \in Slot, AllocAt(c, p, q) PROVE NapInv'
  BY <1>20 DEF AllocAt, Calls, Runs
<1>21. ASSUME NEW c \in CPU, NEW p \in Slot, NEW q \in Slot, ForkAt(c, p, q) PROVE NapInv'
  BY <1>21 DEF ForkAt, Runs, ForkInv
<1>22. ASSUME NEW c \in CPU, NEW p \in Slot, NEW q \in Slot, FoundAt(c, p, q) PROVE NapInv'
  BY <1>22 DEF FoundAt
<1>23. ASSUME UNCHANGED vars PROVE NapInv'
  BY SMTT(60), <1>23 DEF vars
<1> QED
  BY <1>1, <1>2, <1>3, <1>4, <1>5, <1>6, <1>7, <1>8, <1>9, <1>10, <1>11, <1>12, <1>13, <1>14,
     <1>15, <1>16, <1>17, <1>18, <1>19, <1>20, <1>21, <1>22, <1>23, NextCases

(* Every step leaves each process but init a living parent, and the pids distinct. *)
LEMMA FamilyStep ==
  ASSUME TypeOK, ForkInv, FamilyInv, [Next]_vars
  PROVE  FamilyInv'
<1> USE SlotFacts DEF TypeOK, FamilyInv, Live, table
<1>1. ASSUME Tick PROVE FamilyInv'
  BY <1>1 DEF Tick, wakeup1
<1>2. ASSUME NEW c \in CPU, SchedLock(c) PROVE FamilyInv'
  BY <1>2 DEF SchedLock
<1>3. ASSUME NEW c \in CPU, GiveUp(c) PROVE FamilyInv'
  BY <1>3 DEF GiveUp
<1>4. ASSUME NEW c \in CPU, Swtch(c) PROVE FamilyInv'
  BY <1>4 DEF Swtch
<1>5. ASSUME NEW c \in CPU, Resume(c) PROVE FamilyInv'
  BY <1>5 DEF Resume
<1>6. ASSUME NEW c \in CPU, InitExits(c) PROVE FamilyInv'
  BY <1>6 DEF InitExits, Runs
<1>7. ASSUME NEW c \in CPU, NEW p \in Slot, PickAt(c, p) PROVE FamilyInv'
  BY <1>7 DEF PickAt
<1>8. ASSUME NEW c \in CPU, NEW p \in Slot, yield(c, p) PROVE FamilyInv'
  BY <1>8 DEF yield, Runs, HoldInSched
<1>9. ASSUME NEW c \in CPU, NEW p \in Slot, Fault(c, p) PROVE FamilyInv'
  BY <1>9 DEF Fault, Calls, Runs
<1>10. ASSUME NEW c \in CPU, NEW p \in Slot, ForkFails(c, p) PROVE FamilyInv'
  BY <1>10 DEF ForkFails, Runs, ForkInv
<1>11. ASSUME NEW c \in CPU, NEW p \in Slot, ExitAt(c, p) PROVE FamilyInv'
  <2>1. \A r \in Slot : /\ state'[r] \in Live <=> state[r] \in Live
                        /\ state'[r] = "UNUSED" <=> state[r] = "UNUSED"
                        /\ r # p /\ state[r] # "ZOMBIE" => state'[r] # "ZOMBIE"
    BY <1>11 DEF ExitAt, Runs
  <2>2. \A r \in Slot : parent'[r] = IF parent[r] = p THEN initproc ELSE parent[r]
    BY <1>11 DEF ExitAt, Reparented
  <2>3. p # initproc /\ state[p] \in Live /\ pid' = pid /\ nextpid' = nextpid
    BY <1>11 DEF ExitAt, Runs
  <2>4. state'[initproc] \in Live \ {"ZOMBIE"} /\ parent'[initproc] = 0
    BY <2>1, <2>2, <2>3
  <2>5. ASSUME NEW r \in Slot
        PROVE  /\ parent'[r] # r /\ (state'[r] \notin Live => parent'[r] = 0)
               /\ state'[r] \in Live /\ r # initproc =>
                    parent'[r] # 0 /\ state'[parent'[r]] \in Live \ {"ZOMBIE"}
    <3>1. CASE parent[r] = p
      BY <2>1, <2>2, <2>3, <2>4, <3>1
    <3>2. CASE parent[r] # p
      <4>1. parent'[r] = parent[r]
        BY <2>2, <3>2
      <4>2. ASSUME state[r] \in Live, r # initproc
            PROVE  /\ parent[r] \in Slot \ {p}
                   /\ state[parent[r]] \in Live \ {"ZOMBIE"}
        BY <3>2, <4>2
      <4>3. ASSUME state[r] \in Live, r # initproc
            PROVE  parent[r] # 0 /\ state'[parent[r]] \in Live \ {"ZOMBIE"}
        BY ZenonT(60), <2>1, <4>2, <4>3
      <4>4. parent[r] # r /\ (state[r] \notin Live => parent[r] = 0)
        OBVIOUS
      <4> QED
        BY <2>1, <4>1, <4>3, <4>4
    <3> QED
      BY <3>1, <3>2
  <2> QED
    BY <2>1, <2>3, <2>4, <2>5
<1>12. ASSUME NEW c \in CPU, NEW p \in Slot, WaitCall(c, p) PROVE FamilyInv'
  BY <1>12 DEF WaitCall, Calls, Runs
<1>13. ASSUME NEW c \in CPU, NEW p \in Slot, WaitBack(c, p) PROVE FamilyInv'
  BY <1>13 DEF WaitBack
<1>14. ASSUME NEW c \in CPU, NEW p \in Slot, WaitSleep(c, p) PROVE FamilyInv'
  BY <1>14 DEF WaitSleep
<1>15. ASSUME NEW c \in CPU, NEW p \in Slot, NapCall(c, p) PROVE FamilyInv'
  BY <1>15 DEF NapCall, Calls, Runs
<1>16. ASSUME NEW c \in CPU, NEW p \in Slot, NapTest(c, p) PROVE FamilyInv'
  BY <1>16 DEF NapTest, Runs
<1>17. ASSUME NEW c \in CPU, NEW p \in Slot, NapSleep(c, p) PROVE FamilyInv'
  BY <1>17 DEF NapSleep, Runs, HoldInSched
<1>18. ASSUME NEW c \in CPU, NEW p \in Slot, NapLock(c, p) PROVE FamilyInv'
  BY <1>18 DEF NapLock, Runs
<1>19. ASSUME NEW c \in CPU, NEW p \in Slot, NEW q \in Slot, KillAt(c, p, q) PROVE FamilyInv'
  BY <1>19 DEF KillAt, Calls, Runs, KillWakes
<1>20. ASSUME NEW c \in CPU, NEW p \in Slot, NEW q \in Slot, AllocAt(c, p, q) PROVE FamilyInv'
  BY <1>20 DEF AllocAt, Calls, Runs
<1>21. ASSUME NEW c \in CPU, NEW p \in Slot, NEW q \in Slot, ForkAt(c, p, q) PROVE FamilyInv'
  BY <1>21 DEF ForkAt, Runs, ForkInv
<1>22. ASSUME NEW c \in CPU, NEW p \in Slot, NEW q \in Slot, FoundAt(c, p, q) PROVE FamilyInv'
  BY <1>22 DEF FoundAt
<1>23. ASSUME UNCHANGED vars PROVE FamilyInv'
  BY SMTT(60), <1>23 DEF vars
<1> QED
  BY ZenonT(60), <1>1, <1>2, <1>3, <1>4, <1>5, <1>6, <1>7, <1>8, <1>9, <1>10, <1>11, <1>12,
     <1>13, <1>14, <1>15, <1>16, <1>17, <1>18, <1>19, <1>20, <1>21, <1>22, <1>23, NextCases

(* No step makes a process sleep on, or fall asleep, after what it waits for. *)
LEMMA WakeupStep ==
  ASSUME TypeOK, ForkInv, FamilyInv, NapInv, NoLostWakeup, [Next]_vars
  PROVE  NoLostWakeup'
<1> USE SlotFacts DEF TypeOK, NoLostWakeup, Children, table
<1>1. ASSUME Tick PROVE NoLostWakeup'
  BY ZenonT(60), <1>1 DEF Tick, wakeup1
<1>2. ASSUME NEW c \in CPU, SchedLock(c) PROVE NoLostWakeup'
  BY <1>2 DEF SchedLock
<1>3. ASSUME NEW c \in CPU, GiveUp(c) PROVE NoLostWakeup'
  BY <1>3 DEF GiveUp
<1>4. ASSUME NEW c \in CPU, Swtch(c) PROVE NoLostWakeup'
  BY <1>4 DEF Swtch
<1>5. ASSUME NEW c \in CPU, Resume(c) PROVE NoLostWakeup'
  BY <1>5 DEF Resume
<1>6. ASSUME NEW c \in CPU, InitExits(c) PROVE NoLostWakeup'
  BY <1>6 DEF InitExits, Runs
<1>7. ASSUME NEW c \in CPU, NEW p \in Slot, PickAt(c, p) PROVE NoLostWakeup'
  BY <1>7 DEF PickAt
<1>8. ASSUME NEW c \in CPU, NEW p \in Slot, yield(c, p) PROVE NoLostWakeup'
  BY <1>8 DEF yield, Runs, HoldInSched
<1>9. ASSUME NEW c \in CPU, NEW p \in Slot, Fault(c, p) PROVE NoLostWakeup'
  BY <1>9 DEF Fault, Calls, Runs
<1>10. ASSUME NEW c \in CPU, NEW p \in Slot, ForkFails(c, p) PROVE NoLostWakeup'
  BY <1>10 DEF ForkFails, Runs, ForkInv
<1>11. ASSUME NEW c \in CPU, NEW p \in Slot, ExitAt(c, p) PROVE NoLostWakeup'
  <2> SUFFICES ASSUME NEW r \in Slot, state'[r] = "SLEEPING"
               PROVE  \/ chan'[r] = ticks /\ left'[r] > 0
                      \/ /\ chan'[r] = r /\ r \notin killed'
                         /\ Children(r)' # {} /\ \A q \in Children(r)' : state'[q] # "ZOMBIE"
    BY DEF NoLostWakeup
  <2>1. /\ r # p /\ state[r] = "SLEEPING" /\ chan[r] # parent[p]
        /\ chan[r] = initproc => \A q \in Children(p) : state[q] # "ZOMBIE"
        /\ chan' = chan /\ left' = left /\ killed' = killed
    BY <1>11 DEF ExitAt
  <2>2. \A q \in Slot : parent'[q] = IF parent[q] = p THEN initproc ELSE parent[q]
    BY <1>11 DEF ExitAt, Reparented
  <2>3. \A q \in Slot : q # p /\ state[q] # "ZOMBIE" => state'[q] # "ZOMBIE"
    BY <1>11 DEF ExitAt
  <2>4. CASE chan[r] = ticks
    BY <2>1, <2>4 DEF NoLostWakeup
  <2>5. CASE chan[r] # ticks
    <3>1. /\ chan[r] = r /\ r \notin killed
          /\ Children(r) # {} /\ \A q \in Children(r) : state[q] # "ZOMBIE"
      BY <2>1, <2>5 DEF NoLostWakeup
    <3>2. PICK k \in Slot : parent[k] = r
      BY ZenonT(60), <3>1
    <3>3. Children(r)' # {}
      BY <2>1, <2>2, <3>2
    <3>4. ASSUME NEW q \in Slot, parent'[q] = r PROVE state'[q] # "ZOMBIE"
      <4>1. CASE parent[q] = p
        <5>1. r = initproc /\ q # p
          BY <2>2, <3>4, <4>1 DEF FamilyInv
        <5> QED
          BY <2>1, <2>3, <3>1, <4>1, <5>1
      <4>2. CASE parent[q] # p
        BY <2>1, <2>2, <2>3, <3>1, <3>4, <4>2
      <4> QED
        BY <4>1, <4>2
    <3> QED
      BY <2>1, <3>1, <3>3, <3>4
  <2> QED
    BY <2>4, <2>5
<1>12. ASSUME NEW c \in CPU, NEW p \in Slot, WaitCall(c, p) PROVE NoLostWakeup'
  BY <1>12 DEF WaitCall, Calls, Runs
<1>13. ASSUME NEW c \in CPU, NEW p \in Slot, WaitBack(c, p) PROVE NoLostWakeup'
  BY <1>13 DEF WaitBack
<1>14. ASSUME NEW c \in CPU, NEW p \in Slot, WaitSleep(c, p) PROVE NoLostWakeup'
  BY <1>14 DEF WaitSleep
<1>15. ASSUME NEW c \in CPU, NEW p \in Slot, NapCall(c, p) PROVE NoLostWakeup'
  BY <1>15 DEF NapCall, Calls, Runs
<1>16. ASSUME NEW c \in CPU, NEW p \in Slot, NapTest(c, p) PROVE NoLostWakeup'
  BY <1>16 DEF NapTest, Runs
<1>17. ASSUME NEW c \in CPU, NEW p \in Slot, NapSleep(c, p) PROVE NoLostWakeup'
  BY <1>17 DEF NapSleep, Runs, HoldInSched, NapInv
<1>18. ASSUME NEW c \in CPU, NEW p \in Slot, NapLock(c, p) PROVE NoLostWakeup'
  BY <1>18 DEF NapLock, Runs
<1>19. ASSUME NEW c \in CPU, NEW p \in Slot, NEW q \in Slot, KillAt(c, p, q) PROVE NoLostWakeup'
  BY <1>19 DEF KillAt, Calls, Runs, KillWakes
<1>20. ASSUME NEW c \in CPU, NEW p \in Slot, NEW q \in Slot, AllocAt(c, p, q) PROVE NoLostWakeup'
  BY <1>20 DEF AllocAt, Calls, Runs
<1>21. ASSUME NEW c \in CPU, NEW p \in Slot, NEW q \in Slot, ForkAt(c, p, q) PROVE NoLostWakeup'
  <2>1. parent[q] = 0 /\ state[p] = "RUNNING" /\ state'[p] = "RUNNING"
    BY <1>21 DEF ForkAt, Runs, FamilyInv, Live
  <2>2. /\ state'[q] = "RUNNABLE" /\ parent'[q] = p
        /\ \A r \in Slot \ {q} : state'[r] = state[r] /\ parent'[r] = parent[r]
        /\ chan' = chan /\ left' = left /\ killed' = killed
    BY <1>21 DEF ForkAt
  <2>3. ASSUME NEW r \in Slot \ {p} PROVE Children(r)' = Children(r)
    <3>1. \A k \in Slot : parent'[k] = r <=> parent[k] = r
      BY <2>1, <2>2
    <3> QED
      BY Zenon, <3>1
  <2>4. \A r \in Slot : \A k \in Children(r) : state[k] # "ZOMBIE" => state'[k] # "ZOMBIE"
    BY <2>2
  <2> HIDE DEF Children
  <2> QED
    BY <2>1, <2>2, <2>3, <2>4
<1>22. ASSUME NEW c \in CPU, NEW p \in Slot, NEW q \in Slot, FoundAt(c, p, q) PROVE NoLostWakeup'
  BY <1>22 DEF FoundAt
<1>23. ASSUME UNCHANGED vars PROVE NoLostWakeup'
  BY <1>23 DEF vars
<1> QED
  BY SMTT(60), <1>1, <1>2, <1>3, <1>4, <1>5, <1>6, <1>7, <1>8, <1>9, <1>10, <1>11, <1>12, <1>13,
     <1>14, <1>15, <1>16, <1>17, <1>18, <1>19, <1>20, <1>21, <1>22, <1>23, NextCases

(* The process table at boot satisfies the invariant. *)
LEMMA InitInv == ASSUME Init PROVE ProcInv
<1> USE SlotFacts DEF Init
<1>1. TypeOK
  BY ProcAssumption DEF TypeOK, States
<1>2. CpuInv
  BY DEF CpuInv, Live
<1>3. ForkInv
  BY DEF ForkInv
<1>4. FamilyInv
  BY DEF FamilyInv, Live
<1>5. NapInv
  BY DEF NapInv
<1>6. NoLostWakeup
  BY DEF NoLostWakeup
<1> QED
  BY <1>1, <1>2, <1>3, <1>4, <1>5, <1>6 DEF ProcInv

(* Every step of scheduler, system calls, traps and clock keeps ProcInv. *)
LEMMA StepInv ==
  ASSUME ProcInv, [Next]_vars
  PROVE  ProcInv'
<1>1. TypeOK /\ CpuInv /\ ForkInv /\ FamilyInv /\ NapInv /\ NoLostWakeup
  BY DEF ProcInv
<1> QED
  BY <1>1, TypeStep, CpuStep, ForkStep, FamilyStep, NapStep, WakeupStep DEF ProcInv

(* ProcInv holds at all times. *)
THEOREM ProcInvariant == Spec => []ProcInv
<1>1. Init => ProcInv
  BY InitInv
<1>2. ProcInv /\ [Next]_vars => ProcInv'
  BY StepInv
<1> QED
  BY <1>1, <1>2, PTL DEF Spec

(* A process is never on two CPUs, and its kernel stack is not used or     *)
(* freed before swtch has left it.                                         *)
THEOREM ProcessOnOneCPU == Spec => []OneCPU
<1>1. ProcInv => OneCPU
  BY Zenon, SlotFacts DEF ProcInv, OneCPU, CpuInv, TypeOK
<1> QED
  BY <1>1, ProcInvariant, PTL

(* No process sleeps in wait or in sys_sleep past the exit, the kill or    *)
(* the tick that should have woken it.                                     *)
THEOREM WakeupsKept == Spec => []NoLostWakeup
<1>1. ProcInv => NoLostWakeup
  BY DEF ProcInv
<1> QED
  BY <1>1, ProcInvariant, PTL

(* However parents and children exit, every process but init has a living  *)
(* parent, and pids are unique.                                            *)
THEOREM FamilyKept == Spec => []Family
<1>1. ProcInv => Family
  BY DEF ProcInv, Family, FamilyInv, Live
<1> QED
  BY <1>1, ProcInvariant, PTL
=============================================================================
