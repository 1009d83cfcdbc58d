-------------------------------- MODULE Pipe --------------------------------
(***************************************************************************)
(* A pipe (pipe.c): the processes that hold its read end or its write end, *)
(* blocking reads and writes, the last close of each end, fork and kill.   *)
(*                                                                         *)
(* One step is one round of a loop under p->lock, or the step that takes   *)
(* or gives up the lock; proc->killed is not protected by that lock, so    *)
(* kill may fall between the test of it and the sleep that follows.        *)
(***************************************************************************)
EXTENDS Naturals, Sequences

CONSTANTS Reader, Writer,  \* processes that may hold each end
          Byte,
          Payload,         \* what a call of write may write
          ReadSize,        \* n of a call of read
          PIPESIZE,
          UINT,            \* nread and nwrite are numbers modulo UINT (2^32)
          NoProc

Proc == Reader \cup Writer

\* a + 1 in a uint.
Inc(a) == IF a + 1 = UINT THEN 0 ELSE a + 1

\* a + k in a uint, for k of at most UINT.
Plus(a, k) == IF a + k >= UINT THEN a + k - UINT ELSE a + k

ASSUME PipeAssumption ==
  /\ Reader \cap Writer = {} /\ NoProc \notin Proc
  /\ Payload \subseteq Seq(Byte) /\ ReadSize \subseteq Nat
  /\ PIPESIZE \in Nat \ {0} /\ UINT \in Nat /\ PIPESIZE < UINT

\* PIPESIZE divides 2^32: up to PIPESIZE consecutive numbers modulo UINT
\* have different places in data[].
ASSUME PlaceAssumption ==
  \A a \in 0..(UINT - 1) :
    /\ a % PIPESIZE \in 0..(PIPESIZE - 1)
    /\ \A k \in 1..(PIPESIZE - 1) : Plus(a, k) % PIPESIZE # a % PIPESIZE

VARIABLES data, nread, nwrite, readopen, writeopen,  \* struct pipe
          freed,   \* 1 once the page of the pipe is given back to kfree
          lock,    \* the holder of p->lock
          open,    \* processes that hold a descriptor of their end
          killed,  \* processes with proc->killed set
          pc,      \* where each process is
          todo,    \* bytes that a call of write has still to write
          want,    \* bytes that a call of read asks for
          got      \* bytes that a call of read has copied to addr

ring == <<data, nread, nwrite>>
ends == <<readopen, writeopen, freed, open>>
vars == <<ring, ends, lock, killed, pc, todo, want, got>>

TypeOK ==
  /\ data \in [0..(PIPESIZE - 1) -> Byte]
  /\ nread \in 0..(UINT - 1) /\ nwrite \in 0..(UINT - 1)
  /\ readopen \in {0, 1} /\ writeopen \in {0, 1} /\ freed \in {0, 1}
  /\ lock \in Proc \cup {NoProc}
  /\ open \in SUBSET Proc /\ killed \in SUBSET Proc
  /\ pc \in [Proc -> {"unborn", "run", "gone", "close", "wlock", "write", "wfull", "wsleep",
                      "rlock", "read", "rempty", "rsleep", "copy"}]
  /\ todo \in [Proc -> Seq(Byte)]
  /\ want \in [Proc -> Nat]
  /\ got \in [Proc -> Seq(Byte)]

\* pipealloc, then fork and close until each process holds one end; the
\* processes that are not there yet may be forked later.
Init ==
  /\ \E b \in Byte : data = [i \in 0..(PIPESIZE - 1) |-> b]
  /\ nread = 0 /\ nwrite = 0
  /\ readopen = 1 /\ writeopen = 1 /\ freed = 0
  /\ lock = NoProc
  /\ open \in SUBSET Proc /\ open \cap Reader # {} /\ open \cap Writer # {}
  /\ killed = {}
  /\ pc = [p \in Proc |-> IF p \in open THEN "run" ELSE "unborn"]
  /\ todo = [p \in Proc |-> <<>>]
  /\ want = [p \in Proc |-> 0]
  /\ got = [p \in Proc |-> <<>>]

\* nwrite == nread + PIPESIZE
Full == nwrite = Plus(nread, PIPESIZE)
Empty == nread = nwrite

Goto(p, l) == pc' = [pc EXCEPT ![p] = l]

\* wakeup(&p->nread) and wakeup(&p->nwrite), f being where the processes are:
\* a process that is woken takes p->lock again in sleep.
WakeReaders(f) == [q \in Proc |-> IF f[q] = "rsleep" THEN "rlock" ELSE f[q]]

\* Mutant: the writers are not woken.
WakeWriters_None(f) == f

WakeWriters(f) == [q \in Proc |-> IF f[q] = "wsleep" THEN "wlock" ELSE f[q]]

\* acquire(&p->lock), at the start of a call or at the end of sleep.
Acquire(p) ==
  /\ lock = NoProc
  /\ \/ pc[p] = "wlock" /\ Goto(p, "write")
     \/ pc[p] = "rlock" /\ Goto(p, "read")
  /\ lock' = p
  /\ UNCHANGED <<ring, ends, killed, todo, want, got>>

(***************************************************************************)
(* pipewrite                                                               *)
(***************************************************************************)
WriteCall(p) ==
  /\ pc[p] = "run" /\ p \in Writer /\ p \notin killed
  /\ todo' \in {[todo EXCEPT ![p] = s] : s \in Payload}
  /\ Goto(p, "wlock")
  /\ UNCHANGED <<ring, ends, lock, killed, want, got>>

WriteByte(p) ==
  /\ pc[p] = "write" /\ todo[p] # <<>> /\ ~Full
  /\ data' = [data EXCEPT ![nwrite % PIPESIZE] = Head(todo[p])]
  /\ nwrite' = Inc(nwrite)
  /\ todo' = [todo EXCEPT ![p] = Tail(@)]
  /\ UNCHANGED <<nread, ends, lock, killed, pc, want, got>>

\* The pipe is full: give up, or wake the readers and go to sleep.
WriteFull(p) ==
  /\ pc[p] = "write" /\ todo[p] # <<>> /\ Full
  /\ IF readopen = 0 \/ p \in killed
     THEN /\ Goto(p, "run")
          /\ lock' = NoProc
          /\ todo' = [todo EXCEPT ![p] = <<>>]
     ELSE /\ pc' = WakeReaders([pc EXCEPT ![p] = "wfull"])
          /\ UNCHANGED <<lock, todo>>
  /\ UNCHANGED <<ring, ends, killed, want, got>>

\* sleep(&p->nwrite, &p->lock)
WriteSleep(p) ==
  /\ pc[p] = "wfull"
  /\ Goto(p, "wsleep")
  /\ lock' = NoProc
  /\ UNCHANGED <<ring, ends, killed, todo, want, got>>

WriteDone(p) ==
  /\ pc[p] = "write" /\ todo[p] = <<>>
  /\ pc' = WakeReaders([pc EXCEPT ![p] = "run"])
  /\ lock' = NoProc
  /\ UNCHANGED <<ring, ends, killed, todo, want, got>>

(***************************************************************************)
(* piperead                                                                *)
(***************************************************************************)
ReadCall(p) ==
  /\ pc[p] = "run" /\ p \in Reader /\ p \notin killed
  /\ want' \in {[want EXCEPT ![p] = n] : n \in ReadSize}
  /\ got' = [got EXCEPT ![p] = <<>>]
  /\ Goto(p, "rlock")
  /\ UNCHANGED <<ring, ends, lock, killed, todo>>

\* The first loop: wait for a byte, or for the last writer to close.
ReadTest(p) ==
  /\ pc[p] = "read"
  /\ \/ /\ ~(Empty /\ writeopen = 1)
        /\ Goto(p, "copy") /\ UNCHANGED lock
     \/ /\ Empty /\ writeopen = 1 /\ p \in killed
        /\ Goto(p, "run") /\ lock' = NoProc
     \/ /\ Empty /\ writeopen = 1 /\ p \notin killed
        /\ Goto(p, "rempty") /\ UNCHANGED lock
  /\ UNCHANGED <<ring, ends, killed, todo, want, got>>

\* sleep(&p->nread, &p->lock)
ReadSleep(p) ==
  /\ pc[p] = "rempty"
  /\ Goto(p, "rsleep")
  /\ lock' = NoProc
  /\ UNCHANGED <<ring, ends, killed, todo, want, got>>

\* Mutant: the byte is taken from the wrong place.
Oldest_Newest == data[nwrite % PIPESIZE]

Oldest == data[nread % PIPESIZE]

ReadByte(p) ==
  /\ pc[p] = "copy" /\ Len(got[p]) < want[p] /\ ~Empty
  /\ got' = [got EXCEPT ![p] = Append(@, Oldest)]
  /\ nread' = Inc(nread)
  /\ UNCHANGED <<data, nwrite, ends, lock, killed, pc, todo, want>>

ReadDone(p) ==
  /\ pc[p] = "copy" /\ (Len(got[p]) >= want[p] \/ Empty)
  /\ pc' = WakeWriters([pc EXCEPT ![p] = "run"])
  /\ lock' = NoProc
  /\ UNCHANGED <<ring, ends, killed, todo, want, got>>

(***************************************************************************)
(* Descriptors and processes.                                              *)
(***************************************************************************)
SameEnd(p) == IF p \in Reader THEN Reader ELSE Writer

\* close, or the exit of a process: the last one of its end closes the end.
fileclose(p) ==
  /\ pc[p] = "run"
  /\ open' = open \ {p}
  /\ Goto(p, IF open' \cap SameEnd(p) = {} THEN "close" ELSE "gone")
  /\ UNCHANGED <<ring, readopen, writeopen, freed, lock, killed, todo, want, got>>

\* Mutant: the pipe is freed with its read end.
LastEnd_Read == readopen' = 0

\* Nobody can use the pipe any more.
LastEnd == readopen' = 0 /\ writeopen' = 0

pipeclose(p) ==
  /\ pc[p] = "close" /\ lock = NoProc
  /\ IF p \in Writer
     THEN /\ writeopen' = 0 /\ UNCHANGED readopen
          /\ pc' = WakeReaders([pc EXCEPT ![p] = "gone"])
     ELSE /\ readopen' = 0 /\ UNCHANGED writeopen
          /\ pc' = WakeWriters([pc EXCEPT ![p] = "gone"])
  /\ freed' = IF LastEnd THEN 1 ELSE freed
  /\ UNCHANGED <<ring, open, lock, killed, todo, want, got>>

\* fork: the child holds what the parent holds.
fork(p, q) ==
  /\ pc[p] = "run" /\ p \notin killed
  /\ pc[q] = "unborn" /\ SameEnd(p) = SameEnd(q)
  /\ Goto(q, "run")
  /\ open' = open \cup {q}
  /\ UNCHANGED <<ring, readopen, writeopen, freed, lock, killed, todo, want, got>>

\* kill: set proc->killed, and wake the process if it sleeps.
kill(p) ==
  /\ pc[p] \notin {"unborn", "gone"} /\ p \notin killed
  /\ killed' = killed \cup {p}
  /\ pc' = [pc EXCEPT ![p] = IF @ = "wsleep" THEN "wlock"
                             ELSE IF @ = "rsleep" THEN "rlock" ELSE @]
  /\ UNCHANGED <<ring, ends, lock, todo, want, got>>

Step(p) ==
  \/ Acquire(p)
  \/ WriteByte(p) \/ WriteFull(p) \/ WriteSleep(p) \/ WriteDone(p)
  \/ ReadTest(p) \/ ReadSleep(p) \/ ReadByte(p) \/ ReadDone(p)
  \/ pipeclose(p)

Next == \E p \in Proc :
          \/ Step(p) \/ WriteCall(p) \/ ReadCall(p)
          \/ fileclose(p) \/ kill(p)
          \/ \E q \in Proc : fork(p, q)

Spec == Init /\ [][Next]_vars

\* A process that can run is scheduled again, p->lock is handed to every
\* process that spins on it, and a program goes on using its end of the pipe
\* until it closes it.
Fairness ==
  \A p \in Proc :
    /\ SF_vars(Acquire(p) \/ pipeclose(p))
    /\ WF_vars(WriteByte(p) \/ WriteFull(p) \/ WriteSleep(p) \/ WriteDone(p))
    /\ WF_vars(ReadTest(p) \/ ReadSleep(p) \/ ReadByte(p) \/ ReadDone(p))
    /\ WF_vars(WriteCall(p) \/ ReadCall(p) \/ fileclose(p))

FairSpec == Spec /\ Fairness

(***************************************************************************)
(* Properties.                                                             *)
(***************************************************************************)
\* Bytes in the pipe: nwrite - nread in a uint.
Count == IF nwrite >= nread THEN nwrite - nread ELSE nwrite + UINT - nread

\* Who holds p->lock, and what its holder has tested under it.
LockInv ==
  \A p \in Proc :
    /\ lock = p <=> pc[p] \in {"write", "wfull", "read", "rempty", "copy"}
    /\ pc[p] \in {"wlock", "write", "wfull", "wsleep"} => p \in Writer
    /\ pc[p] \in {"rlock", "read", "rempty", "rsleep", "copy"} => p \in Reader
    /\ pc[p] = "wfull" => Full /\ readopen = 1
    /\ pc[p] = "rempty" => Empty /\ writeopen = 1
    /\ pc[p] = "copy" => \A q \in Writer : lock # q

\* No wakeup is lost: a writer sleeps while the pipe is full and has readers,
\* a reader while it is empty and has writers, except while a process that
\* holds p->lock has changed that and is about to call wakeup.  One wakeup is
\* missing in the code: a writer that is killed while the pipe is full leaves
\* without waking the readers of what it has written.
WaitInv ==
  \A p \in Proc :
    /\ pc[p] = "wsleep" =>
         /\ readopen = 1
         /\ Full \/ \E q \in Proc : pc[q] = "copy"
    /\ pc[p] = "rsleep" =>
         /\ writeopen = 1
         /\ Empty \/ \E q \in Writer : pc[q] = "write" \/ q \in killed

\* An end is open exactly while a descriptor of it is, or its last holder is
\* on its way to pipeclose; the pipe is freed with its second end.
EndInv ==
  /\ \A p \in Proc : p \in open <=> pc[p] \notin {"unborn", "gone", "close"}
  /\ readopen = 1 <=> \E p \in Reader : p \in open \/ pc[p] = "close"
  /\ writeopen = 1 <=> \E p \in Writer : p \in open \/ pc[p] = "close"
  /\ \A p \in Proc : pc[p] = "close" =>
       \A q \in SameEnd(p) : q \notin open /\ (pc[q] = "close" => q = p)
  /\ freed = 1 <=> readopen = 0 /\ writeopen = 0

(* The pipe works: at most PIPESIZE bytes are under way whatever the       *)
(* counters have wrapped to, its lock is held by whom the code says, no    *)
(* wakeup is lost, and its ends follow the descriptors.                    *)
PipeInv == TypeOK /\ Count <= PIPESIZE /\ LockInv /\ WaitInv /\ EndInv

(* pipeclose gives the page of the pipe back only when no process is in,   *)
(* or can come into, pipewrite, piperead or pipeclose.                     *)
NoUseAfterFree ==
  freed = 1 => \A p \in Proc : p \notin open /\ pc[p] \in {"unborn", "gone"}

\* The bytes between nread and nwrite.
Queue == [i \in 1..Count |-> data[Plus(nread, i - 1) % PIPESIZE]]

Stream == INSTANCE ByteStream WITH
  Capacity <- PIPESIZE, queue <- Queue, todo <- todo, got <- got

(* Readers get the bytes that were written, each once and in order,        *)
(* although several readers and writers share the ring and the counters    *)
(* wrap.                                                                   *)
ByteStreamSpec == Stream!Spec

(* A process that sleeps in the pipe is woken: by the other end, by the    *)
(* last close of the other end, or by kill.                                *)
SleeperWoken ==
  \A p \in Proc : (pc[p] \in {"wsleep", "rsleep"}) ~> (pc[p] \notin {"wsleep", "rsleep"})
=============================================================================
