-------------------------------- MODULE Proc --------------------------------
(***************************************************************************)
(* Processes (proc.c, with trap and sys_sleep): the process table, the     *)
(* scheduler of each CPU, context switches, fork, exit, wait, kill, sleep  *)
(* and wakeup.                                                             *)
(*                                                                         *)
(* A step is what is done under one hold of ptable.lock, except that the   *)
(* lock is held across swtch: the change of proc->state and the switch to  *)
(* the scheduler's stack are two steps.  What fork does without the lock   *)
(* is in steps of its own.                                                 *)
(***************************************************************************)
EXTENDS Naturals

CONSTANTS CPU,
          NPROC,
          MaxPid,    \* bound: pids are given out up to this one
          NapTicks,  \* the argument of sys_sleep
          None

Slot == 1..NPROC
initproc == 1
ticks == NPROC + 1      \* the channel &ticks; a process is its own channel in wait

ASSUME ProcAssumption ==
  /\ NPROC \in Nat \ {0} /\ MaxPid \in Nat \ {0} /\ NapTicks \in Nat
  /\ None \notin CPU /\ None \notin Slot

First(S) == CHOOSE i \in S : \A j \in S : i <= j

VARIABLES state, pid, parent, killed, chan,  \* struct proc; killed is a set of slots
          kstack,    \* slots whose kernel stack is allocated
          nextpid,
          on,        \* the process on whose kernel stack a CPU runs; 0: the scheduler's
          scan,      \* the next slot that a CPU's scheduler looks at
          holder,    \* the CPU that holds ptable.lock
          tholder,   \* the process that holds tickslock
          pc,        \* where a process is
          child,     \* the slot that a process in fork has allocated
          left       \* clock ticks until sys_sleep may return

table == <<state, pid, parent, killed, chan, kstack, nextpid>>
vars == <<table, on, scan, holder, tholder, pc, child, left>>

States == {"UNUSED", "EMBRYO", "SLEEPING", "RUNNABLE", "RUNNING", "ZOMBIE"}

TypeOK ==
  /\ state \in [Slot -> States]
  /\ pid \in [Slot -> 0..MaxPid] /\ nextpid \in 1..(MaxPid + 1)
  /\ parent \in [Slot -> Slot \cup {0}]
  /\ killed \in SUBSET Slot /\ kstack \in SUBSET Slot
  /\ chan \in [Slot -> 0..ticks]
  /\ on \in [CPU -> Slot \cup {0}] /\ scan \in [CPU -> 1..(NPROC + 1)]
  /\ holder \in CPU \cup {None} /\ tholder \in Slot \cup {None}
  /\ pc \in [Slot -> {"user", "fork", "wait", "exit", "panic", "naptest", "napsleep", "naplock"}]
  /\ child \in [Slot -> Slot \cup {0}]
  /\ left \in [Slot -> 0..NapTicks]

\* userinit: the first process is ready to run.
Init ==
  /\ state = [p \in Slot |-> IF p = initproc THEN "RUNNABLE" ELSE "UNUSED"]
  /\ pid = [p \in Slot |-> IF p = initproc THEN 1 ELSE 0]
  /\ nextpid = 2
  /\ parent = [p \in Slot |-> 0]
  /\ killed = {} /\ kstack = {initproc}
  /\ chan = [p \in Slot |-> 0]
  /\ on = [c \in CPU |-> 0] /\ scan = [c \in CPU |-> 1]
  /\ holder = None /\ tholder = None
  /\ pc = [p \in Slot |-> "user"]
  /\ child = [p \in Slot |-> 0]
  /\ left = [p \in Slot |-> 0]

(***************************************************************************)
(* The scheduler.                                                          *)
(***************************************************************************)
SchedLock(c) ==
  /\ on[c] = 0 /\ holder = None
  /\ holder' = c
  /\ scan' = [scan EXCEPT ![c] = 1]
  /\ UNCHANGED <<table, on, tholder, pc, child, left>>

\* Mutant: every round starts at the first slot.
Candidates_All(c) == {p \in Slot : state[p] = "RUNNABLE"}

Candidates(c) == {p \in Slot : p >= scan[c] /\ state[p] = "RUNNABLE"}

\* Switch to the next process that can run, or give up the lock after the
\* last one.
SchedPick(c) ==
  /\ on[c] = 0 /\ holder = c
  /\ IF Candidates(c) = {}
     THEN /\ holder' = None
          /\ UNCHANGED <<state, on, scan>>
     ELSE LET p == First(Candidates(c))
          IN  /\ state' = [state EXCEPT ![p] = "RUNNING"]
              /\ on' = [on EXCEPT ![c] = p]
              /\ scan' = [scan EXCEPT ![c] = p + 1]
              /\ UNCHANGED holder
  /\ UNCHANGED <<pid, parent, killed, chan, kstack, nextpid, tholder, pc, child, left>>

\* sched: the process has changed its state; its CPU goes back to the
\* scheduler, that goes on with the lock.
Swtch(c) ==
  /\ on[c] # 0 /\ state[on[c]] # "RUNNING"
  /\ on' = [on EXCEPT ![c] = 0]
  /\ UNCHANGED <<table, scan, holder, tholder, pc, child, left>>

\* forkret, the end of yield, and the end of sleep with a lock of its own.
Resume(c) ==
  /\ on[c] # 0 /\ state[on[c]] = "RUNNING" /\ holder = c
  /\ pc[on[c]] \in {"user", "fork", "naplock"}
  /\ holder' = None
  /\ chan' = [chan EXCEPT ![on[c]] = 0]
  /\ UNCHANGED <<state, pid, parent, killed, kstack, nextpid, on, scan, tholder, pc, child,
                 left>>

\* Process p runs on CPU c, at l, and does not have ptable.lock.
Runs(c, p, l) == on[c] = p /\ state[p] = "RUNNING" /\ pc[p] = l /\ holder # c

\* A system call of p begins: trap lets a killed process make none.
Calls(c, p) == Runs(c, p, "user") /\ p \notin killed

\* Mutant: ptable.lock is released before the switch to the scheduler.
HoldInSched_Not(c) == None

\* The holder of ptable.lock while the process calls sched.
HoldInSched(c) == c

\* The clock makes a process yield, in the kernel too if it holds no lock.
yield(c, p) ==
  /\ Runs(c, p, "user") \/ Runs(c, p, "fork") \/ Runs(c, p, "naplock")
  /\ holder = None
  /\ holder' = HoldInSched(c)
  /\ state' = [state EXCEPT ![p] = "RUNNABLE"]
  /\ UNCHANGED <<pid, parent, killed, chan, kstack, nextpid, on, scan, tholder, pc, child,
                 left>>

(***************************************************************************)
(* wakeup and kill                                                         *)
(***************************************************************************)
\* Mutant: nobody is woken.
wakeup1_None(s, ch) == s

\* The states after wakeup1(ch) in the states s.
wakeup1(s, ch) ==
  [p \in Slot |-> IF s[p] = "SLEEPING" /\ chan[p] = ch THEN "RUNNABLE" ELSE s[p]]

KillWakes(p) == IF state[p] = "SLEEPING" THEN "RUNNABLE" ELSE state[p]

\* sys_kill: the first slot with that pid, whatever its state.
kill(c, p, n) ==
  /\ Calls(c, p) /\ holder = None
  /\ \E q \in Slot : pid[q] = n
  /\ LET q == First({i \in Slot : pid[i] = n})
     IN  /\ killed' = killed \cup {q}
         /\ state' = [state EXCEPT ![q] = KillWakes(q)]
  /\ UNCHANGED <<pid, parent, chan, kstack, nextpid, on, scan, holder, tholder, pc, child,
                 left>>

\* trap: a process that misbehaves in user space is killed.
Fault(c, p) ==
  /\ Calls(c, p)
  /\ killed' = killed \cup {p}
  /\ UNCHANGED <<state, pid, parent, chan, kstack, nextpid, on, scan, holder, tholder, pc,
                 child, left>>

(***************************************************************************)
(* fork                                                                    *)
(***************************************************************************)
\* allocproc takes the first free slot.
allocproc(c, p) ==
  /\ Calls(c, p) /\ holder = None
  /\ nextpid <= MaxPid
  /\ \E q \in Slot : state[q] = "UNUSED"
  /\ LET q == First({i \in Slot : state[i] = "UNUSED"})
     IN  /\ state' = [state EXCEPT ![q] = "EMBRYO"]
         /\ pid' = [pid EXCEPT ![q] = nextpid]
         /\ child' = [child EXCEPT ![p] = q]
  /\ nextpid' = nextpid + 1
  /\ pc' = [pc EXCEPT ![p] = "fork"]
  /\ UNCHANGED <<parent, killed, chan, kstack, on, scan, holder, tholder, left>>

\* No memory for the stack or for the address space of the child.
ForkFails(c, p) ==
  /\ Runs(c, p, "fork")
  /\ state' = [state EXCEPT ![child[p]] = "UNUSED"]
  /\ child' = [child EXCEPT ![p] = 0]
  /\ pc' = [pc EXCEPT ![p] = "user"]
  /\ UNCHANGED <<pid, parent, killed, chan, kstack, nextpid, on, scan, holder, tholder, left>>

\* The child is ready to run, from forkret.
ForkDone(c, p) ==
  /\ Runs(c, p, "fork")
  /\ state' = [state EXCEPT ![child[p]] = "RUNNABLE"]
  /\ parent' = [parent EXCEPT ![child[p]] = p]
  /\ kstack' = kstack \cup {child[p]}
  /\ pc' = [pc EXCEPT ![p] = "user", ![child[p]] = "user"]
  /\ child' = [child EXCEPT ![p] = 0]
  /\ UNCHANGED <<pid, killed, chan, nextpid, on, scan, holder, tholder, left>>

(***************************************************************************)
(* exit and wait                                                           *)
(***************************************************************************)
Children(p) == {q \in Slot : parent[q] = p}

\* Mutant: the children of a process that exits keep it as their parent.
Reparented_Not(p) == parent

\* The children of a process that exits are passed to init.
Reparented(p) == [q \in Slot |-> IF parent[q] = p THEN initproc ELSE parent[q]]

\* Mutant: init is not told of the dead among its new children.
InitWoken_Not(s, p) == s

InitWoken(s, p) ==
  IF \E q \in Children(p) : state[q] = "ZOMBIE" THEN wakeup1(s, initproc) ELSE s

\* A system call, or what trap does with a process that has been killed.
exit(c, p) ==
  /\ Runs(c, p, "user") /\ p # initproc
  /\ holder = None
  /\ holder' = HoldInSched(c)
  /\ state' = [InitWoken(wakeup1(state, parent[p]), p) EXCEPT ![p] = "ZOMBIE"]
  /\ parent' = Reparented(p)
  /\ pc' = [pc EXCEPT ![p] = "exit"]
  /\ UNCHANGED <<pid, killed, chan, kstack, nextpid, on, scan, tholder, child, left>>

\* panic("init exiting"): the CPU loops for ever, with interrupts off.
InitExits(c) ==
  /\ Runs(c, initproc, "user") /\ initproc \in killed
  /\ pc' = [pc EXCEPT ![initproc] = "panic"]
  /\ UNCHANGED <<table, on, scan, holder, tholder, child, left>>

WaitCall(c, p) ==
  /\ Calls(c, p) /\ holder = None
  /\ holder' = c
  /\ pc' = [pc EXCEPT ![p] = "wait"]
  /\ UNCHANGED <<table, on, scan, tholder, child, left>>

\* One round of the loop of wait: free the first dead child.
WaitFound(c, p) ==
  /\ on[c] = p /\ state[p] = "RUNNING" /\ pc[p] = "wait"
  /\ \E q \in Children(p) : state[q] = "ZOMBIE"
  /\ LET q == First({i \in Children(p) : state[i] = "ZOMBIE"})
     IN  /\ kstack' = kstack \ {q}
         /\ state' = [state EXCEPT ![q] = "UNUSED"]
         /\ pid' = [pid EXCEPT ![q] = 0]
         /\ parent' = [parent EXCEPT ![q] = 0]
         /\ killed' = killed \ {q}
  /\ chan' = [chan EXCEPT ![p] = 0]
  /\ holder' = None
  /\ pc' = [pc EXCEPT ![p] = "user"]
  /\ UNCHANGED <<nextpid, on, scan, tholder, child, left>>

\* No child is dead: return if there is none at all, or sleep.
WaitMore(c, p) ==
  /\ on[c] = p /\ state[p] = "RUNNING" /\ pc[p] = "wait"
  /\ \A q \in Children(p) : state[q] # "ZOMBIE"
  /\ IF Children(p) = {} \/ p \in killed
     THEN /\ chan' = [chan EXCEPT ![p] = 0]
          /\ holder' = None
          /\ pc' = [pc EXCEPT ![p] = "user"]
          /\ UNCHANGED state
     ELSE /\ chan' = [chan EXCEPT ![p] = p]
          /\ state' = [state EXCEPT ![p] = "SLEEPING"]
          /\ holder' = HoldInSched(c)
          /\ UNCHANGED pc
  /\ UNCHANGED <<pid, parent, killed, kstack, nextpid, on, scan, tholder, child, left>>

(***************************************************************************)
(* sys_sleep and the clock: sleep with a lock other than ptable.lock.      *)
(***************************************************************************)
NapCall(c, p) ==
  /\ Calls(c, p) /\ tholder = None
  /\ tholder' = p
  /\ left' = [left EXCEPT ![p] = NapTicks]
  /\ pc' = [pc EXCEPT ![p] = "naptest"]
  /\ UNCHANGED <<table, on, scan, holder, child>>

NapTest(c, p) ==
  /\ Runs(c, p, "naptest")
  /\ IF left[p] = 0 \/ p \in killed
     THEN /\ tholder' = None
          /\ left' = [left EXCEPT ![p] = 0]
          /\ pc' = [pc EXCEPT ![p] = "user"]
     ELSE /\ pc' = [pc EXCEPT ![p] = "napsleep"]
          /\ UNCHANGED <<tholder, left>>
  /\ UNCHANGED <<table, on, scan, holder, child>>

\* sleep(&ticks, &tickslock): ptable.lock is taken before tickslock is given up.
NapSleep(c, p) ==
  /\ Runs(c, p, "napsleep") /\ holder = None
  /\ holder' = HoldInSched(c)
  /\ tholder' = None
  /\ chan' = [chan EXCEPT ![p] = ticks]
  /\ state' = [state EXCEPT ![p] = "SLEEPING"]
  /\ pc' = [pc EXCEPT ![p] = "naplock"]
  /\ UNCHANGED <<pid, parent, killed, kstack, nextpid, on, scan, child, left>>

NapLock(c, p) ==
  /\ Runs(c, p, "naplock") /\ tholder = None
  /\ tholder' = p
  /\ pc' = [pc EXCEPT ![p] = "naptest"]
  /\ UNCHANGED <<table, on, scan, holder, child, left>>

\* trap on IRQ_TIMER: ticks++ and wakeup(&ticks), under both locks; when no
\* process counts ticks, nothing is changed.
Tick ==
  /\ holder = None /\ tholder = None
  /\ \E p \in Slot : left[p] > 0
  /\ left' = [p \in Slot |-> IF left[p] > 0 THEN left[p] - 1 ELSE 0]
  /\ state' = wakeup1(state, ticks)
  /\ UNCHANGED <<pid, parent, killed, chan, kstack, nextpid, on, scan, holder, tholder, pc,
                 child>>

Step(c, p) ==
  \/ yield(c, p) \/ Fault(c, p)
  \/ \E n \in 0..MaxPid : kill(c, p, n)
  \/ allocproc(c, p) \/ ForkFails(c, p) \/ ForkDone(c, p)
  \/ exit(c, p) \/ WaitCall(c, p) \/ WaitFound(c, p) \/ WaitMore(c, p)
  \/ NapCall(c, p) \/ NapTest(c, p) \/ NapSleep(c, p) \/ NapLock(c, p)

Next ==
  \/ Tick
  \/ \E c \in CPU : \/ SchedLock(c) \/ SchedPick(c) \/ Swtch(c) \/ Resume(c)
                    \/ InitExits(c)
                    \/ \E p \in Slot : Step(c, p)

Spec == Init /\ [][Next]_vars

\* What a process does in the kernel, or on its way out of it.
KernelStep(c, p) ==
  \/ ForkFails(c, p) \/ ForkDone(c, p) \/ WaitFound(c, p) \/ WaitMore(c, p)
  \/ NapTest(c, p) \/ NapSleep(c, p) \/ NapLock(c, p)
  \/ p \in killed /\ exit(c, p)
  \/ p = initproc /\ InitExits(c)

\* The schedulers run, the locks are handed to every CPU that spins on them,
\* the clock ticks, and interrupts every process that stays on its CPU;
\* init (init.c) waits for children again and again.
Fairness ==
  /\ \A c \in CPU : /\ WF_vars(SchedPick(c) \/ Swtch(c) \/ Resume(c))
                    /\ SF_vars(SchedLock(c))
  /\ \A p \in Slot : /\ SF_vars(\E c \in CPU : KernelStep(c, p))
                     /\ SF_vars(\E c \in CPU : yield(c, p))
  /\ SF_vars(Tick)
  /\ SF_vars(\E c \in CPU : WaitCall(c, initproc))

FairSpec == Spec /\ Fairness

(***************************************************************************)
(* Properties.                                                             *)
(***************************************************************************)
\* The states of a slot that holds a process.
Live == {"SLEEPING", "RUNNABLE", "RUNNING", "ZOMBIE"}

(* A process runs on one CPU at most, and no other CPU uses or frees its   *)
(* kernel stack before swtch has left it: a process on a CPU is RUNNING,   *)
(* or its CPU holds ptable.lock on the way to the scheduler.               *)
OneCPU ==
  /\ TypeOK
  /\ \A c \in CPU : on[c] # 0 =>
       /\ on[c] \in kstack
       /\ \A d \in CPU : on[d] = on[c] => c = d
       /\ state[on[c]] # "RUNNING" => holder = c /\ state[on[c]] \in Live

(* A process that sleeps in wait has a child and none that is dead, and    *)
(* has not been killed; one that sleeps in sys_sleep has time left: no     *)
(* wakeup of exit, kill or the clock is lost.                              *)
NoLostWakeup ==
  \A p \in Slot : state[p] = "SLEEPING" =>
    \/ chan[p] = ticks /\ left[p] > 0
    \/ /\ chan[p] = p /\ p \notin killed
       /\ Children(p) # {} /\ \A q \in Children(p) : state[q] # "ZOMBIE"

(* Every process but init has a parent that is alive and can wait for it,  *)
(* and no two processes have the same pid.                                 *)
Family ==
  \A p \in Slot : state[p] \in Live =>
    /\ p # initproc => parent[p] # 0 /\ state[parent[p]] \in Live \ {"ZOMBIE"}
    /\ \A q \in Slot : state[q] \in Live /\ pid[q] = pid[p] => q = p

(* A new process has not been killed: kill is for the process that had the *)
(* pid when it was called.                                                 *)
BornAlive ==
  [][\A q \in Slot : state[q] = "UNUSED" /\ state'[q] = "EMBRYO" => q \notin killed']_vars

(* A process that is killed, wherever it is, gets out of the kernel and    *)
(* exits: it is woken, scheduled, and no lock or loop keeps it.             *)
KilledExits ==
  \A p \in Slot \ {initproc} :
    (p \in killed /\ state[p] \in Live) ~> (state[p] \in {"ZOMBIE", "UNUSED"} \/ pc[initproc] = "panic")

(* A dead process whose parent is init, which may have got it from a       *)
(* parent that exited, is freed by init's wait.                            *)
OrphanReaped ==
  \A p \in Slot \ {initproc} :
    (state[p] = "ZOMBIE" /\ parent[p] = initproc) ~> (state[p] = "UNUSED" \/ pc[initproc] = "panic")

(***************************************************************************)
(* The inductive strengthening of OneCPU, NoLostWakeup and Family.         *)
(***************************************************************************)
\* A process in wait has ptable.lock as long as it is on a CPU, and so has
\* one that has changed its state and not yet left its stack.
CpuInv ==
  /\ \A c \in CPU : on[c] # 0 =>
       /\ state[on[c]] \in Live
       /\ state[on[c]] # "RUNNING" \/ pc[on[c]] = "wait" => holder = c
       /\ \A d \in CPU : on[d] = on[c] => c = d
  /\ \A p \in Slot : state[p] \in Live => p \in kstack

\* A process in fork has a slot that is no other's.
ForkInv ==
  \A p \in Slot : pc[p] = "fork" =>
    /\ state[p] \in {"RUNNABLE", "RUNNING"}
    /\ child[p] \in Slot /\ state[child[p]] = "EMBRYO"
    /\ \A q \in Slot : pc[q] = "fork" /\ child[q] = child[p] => q = p

\* init is alive and nobody's child; a slot without a process has no parent.
FamilyInv ==
  /\ state[initproc] \in Live \ {"ZOMBIE"} /\ parent[initproc] = 0
  /\ \A p \in Slot :
       /\ parent[p] # p /\ pid[p] < nextpid
       /\ state[p] \notin Live => parent[p] = 0
       /\ state[p] \in Live /\ p # initproc =>
            parent[p] # 0 /\ state[parent[p]] \in Live \ {"ZOMBIE"}
       /\ \A q \in Slot :
            state[p] # "UNUSED" /\ state[q] # "UNUSED" /\ pid[p] = pid[q] => p = q

\* A process keeps tickslock from its test of the time left to its sleep.
NapInv ==
  \A p \in Slot : /\ pc[p] \in {"naptest", "napsleep"} => tholder = p
                  /\ pc[p] = "napsleep" => left[p] > 0

ProcInv == TypeOK /\ CpuInv /\ ForkInv /\ FamilyInv /\ NapInv /\ NoLostWakeup
=============================================================================
