---------------------------- MODULE BufferCache ----------------------------
(***************************************************************************)
(* The buffer cache of bio.c over the disk driver of ide.c: bread, bwrite  *)
(* and brelse called by several processes, the request queue, the two IDE  *)
(* channels and their interrupts.                                          *)
(*                                                                         *)
(* One step is one critical section of bcache.lock or of idelock.  A       *)
(* process that sleeps on a buffer may be woken by wakeup(b), from brelse  *)
(* or from ideintr, or by kill, and then tests its condition again.        *)
(***************************************************************************)
EXTENDS Naturals, Sequences, FiniteSets, Functions

CONSTANTS Proc,     \* processes
          Sector,   \* pairs of a device and a sector number
          Data,     \* contents of a sector
          NBUF,     \* number of buffers (param.h)
          Channel,  \* the IDE channels
          ChannelOf,\* the channel of a sector: channels[dev >> 1]
          Nest,     \* pairs <<s, t>>: t may be read while s is held
          TransNest,\* the same, within a transaction only
          Writable, \* the sectors the callers write
          NoProc, NoSector, NoBuf, NoData

Buf == 1..NBUF

ASSUME BufferAssumption ==
  /\ NBUF \in Nat \ {0}
  /\ ChannelOf \in [Sector -> Channel]
  /\ Nest \cup TransNest \subseteq Sector \X Sector /\ Writable \subseteq Sector
  /\ NoProc \notin Proc /\ NoSector \notin Sector
  /\ NoBuf \notin Buf /\ NoData \notin Data

VARIABLES
  sector,    \* b->dev and b->sector
  busy,      \* buffers with B_BUSY
  valid,     \* buffers with B_VALID
  dirty,     \* buffers with B_DIRTY
  data,      \* b->data, NoData when it is not that of the sector
  lru,       \* the list of bcache.head, most recently used first
  idequeue,  \* buffers waiting for the disk, the active one first
  drive,     \* per channel: the command in progress (external)
  datareg,   \* per channel: the data the drive has ready (external)
  irq,       \* channels with an interrupt pending (external)
  disk,      \* the sectors on the platters (external)
  pc,        \* where each process is
  want,      \* the sector a process is reading
  chan,      \* the buffer a process works or sleeps on
  hold       \* the buffers that bread has returned to a process

bufvars == <<sector, busy, valid, dirty, data, lru>>
idevars == <<idequeue, drive, datareg, irq, disk>>
procvars == <<pc, want, chan, hold>>
vars == <<bufvars, idevars, procvars>>

Idle == [op |-> "idle"]
ReadCmd(s) == [op |-> "read", sector |-> s]
WriteCmd(s, d) == [op |-> "write", sector |-> s, data |-> d]
Command == {Idle} \cup {ReadCmd(s) : s \in Sector}
                  \cup {WriteCmd(s, d) : s \in Sector, d \in Data}

TypeOK ==
  /\ sector \in [Buf -> Sector \cup {NoSector}]
  /\ busy \in SUBSET Buf /\ valid \in SUBSET Buf /\ dirty \in SUBSET Buf
  /\ data \in [Buf -> Data \cup {NoData}]
  /\ \A b \in valid \cup dirty : data[b] \in Data
  /\ lru \in Seq(Buf) /\ Len(lru) = NBUF /\ IsInjective(lru)
  /\ idequeue \in Seq(Buf) /\ IsInjective(idequeue)
  /\ drive \in [Channel -> Command]
  /\ datareg \in [Channel -> Data \cup {NoData}]
  /\ irq \in SUBSET Channel
  /\ disk \in [Sector -> Data]
  /\ pc \in [Proc -> {"run", "bget", "bsleep", "iderw", "iosleep", "iotest"}]
  /\ want \in [Proc -> Sector \cup {NoSector}]
  /\ chan \in [Proc -> Buf \cup {NoBuf}]
  /\ hold \in [Proc -> SUBSET Buf]

\* binit, on a formatted disk.
Init ==
  /\ sector = [b \in Buf |-> NoSector]
  /\ busy = {} /\ valid = {} /\ dirty = {}
  /\ \E d \in Data : disk = [s \in Sector |-> d]
  /\ data = [b \in Buf |-> NoData]
  /\ datareg = [c \in Channel |-> NoData]
  /\ lru = [i \in Buf |-> NBUF + 1 - i]
  /\ idequeue = <<>>
  /\ drive = [c \in Channel |-> Idle]
  /\ irq = {}
  /\ pc = [p \in Proc |-> "run"]
  /\ want = [p \in Proc |-> NoSector]
  /\ chan = [p \in Proc |-> NoBuf]
  /\ hold = [p \in Proc |-> {}]

\* wakeup(b): every process that sleeps on b tests its condition again.
Woken(f, b) ==
  [p \in Proc |-> IF chan[p] = b /\ f[p] = "bsleep" THEN "bget"
                  ELSE IF chan[p] = b /\ f[p] = "iosleep" THEN "iotest"
                  ELSE f[p]]

(***************************************************************************)
(* bio.c                                                                   *)
(***************************************************************************)
Owns(p, b) == b \in hold[p] \/ (chan[p] = b /\ pc[p] \in {"iderw", "iosleep", "iotest"})

\* Mutant: begin_trans lets everybody in.
InTrans_Never(q) == FALSE

\* q has, or waits for, two sectors that only a transaction reads together:
\* begin_trans lets one process at a time do so.
InTrans(q) ==
  LET S == {sector[b] : b \in {c \in Buf : Owns(q, c)}} \cup {want[q]}
  IN  \E s, t \in S : <<s, t>> \in TransNest

\* A caller asks for a sector.
bread(p, s) ==
  /\ pc[p] = "run"
  /\ \A b \in hold[p] :
       \/ <<sector[b], s>> \in Nest
       \/ <<sector[b], s>> \in TransNest /\ \A q \in Proc \ {p} : ~InTrans(q)
  /\ pc' = [pc EXCEPT ![p] = "bget"]
  /\ want' = [want EXCEPT ![p] = s]
  /\ UNCHANGED <<bufvars, idevars, chan, hold>>

\* The buffer is the caller's; bread calls iderw if it is not valid.
Take(p, b) ==
  /\ busy' = busy \cup {b}
  /\ IF b \in valid'
     THEN /\ pc' = [pc EXCEPT ![p] = "run"]
          /\ chan' = [chan EXCEPT ![p] = NoBuf]
          /\ hold' = [hold EXCEPT ![p] = @ \cup {b}]
     ELSE /\ pc' = [pc EXCEPT ![p] = "iderw"]
          /\ chan' = [chan EXCEPT ![p] = b]
          /\ UNCHANGED hold
  /\ want' = [want EXCEPT ![p] = NoSector]

\* The buffers that bget finds for a sector.
Cached(s) == {b \in Buf : sector[b] = s}

Free(b) == b \notin busy

\* The sector is cached and free.
BgetHit(p) ==
  /\ pc[p] = "bget"
  /\ \E b \in Cached(want[p]) :
       /\ Free(b)
       /\ UNCHANGED <<sector, valid, dirty, data, lru>>
       /\ Take(p, b)
  /\ UNCHANGED <<idevars>>

\* The sector is cached and busy: sleep(b), then look again.
BgetSleep(p) ==
  /\ pc[p] = "bget"
  /\ \E b \in Cached(want[p]) :
       /\ ~Free(b)
       /\ chan' = [chan EXCEPT ![p] = b]
  /\ pc' = [pc EXCEPT ![p] = "bsleep"]
  /\ UNCHANGED <<bufvars, idevars, want, hold>>

\* Mutant: a buffer that holds unwritten data may be recycled.
Recyclable_Dirty == {i \in 1..NBUF : lru[i] \notin busy}

Recyclable == {i \in 1..NBUF : lru[i] \notin busy /\ lru[i] \notin dirty}

\* Not cached: recycle the least recently used buffer that is free and clean.
BgetRecycle(p) ==
  /\ pc[p] = "bget"
  /\ Cached(want[p]) = {}
  /\ \E i \in Recyclable :
       /\ \A j \in Recyclable : j <= i
       /\ sector' = [sector EXCEPT ![lru[i]] = want[p]]
       /\ valid' = valid \ {lru[i]}
       /\ dirty' = dirty \ {lru[i]}
       /\ data' = [data EXCEPT ![lru[i]] = NoData]
       /\ UNCHANGED lru
       /\ Take(p, lru[i])
  /\ UNCHANGED <<idevars>>

\* panic("bget: no buffers")
BgetPanics(p) == pc[p] = "bget" /\ Cached(want[p]) = {} /\ Recyclable = {}

\* The caller modifies the buffer and writes it.
bwrite(p, b, d) ==
  /\ pc[p] = "run"
  /\ b \in hold[p] /\ sector[b] \in Writable
  /\ data' = [data EXCEPT ![b] = d]
  /\ dirty' = dirty \cup {b}
  /\ pc' = [pc EXCEPT ![p] = "iderw"]
  /\ chan' = [chan EXCEPT ![p] = b]
  /\ hold' = [hold EXCEPT ![p] = @ \ {b}]
  /\ UNCHANGED <<sector, busy, valid, lru, idevars, want>>

\* Mutant: log_write does not mark the buffer.
Pinned_Not(b) == dirty

\* b->flags |= B_DIRTY in log_write.
Pinned(b) == dirty \cup {b}

\* The caller modifies the buffer, and log_write (Log) marks it dirty so that it
\* stays in the cache until install_trans writes it.
log_pin(p, b, d) ==
  /\ pc[p] = "run"
  /\ b \in hold[p] /\ sector[b] \in Writable
  /\ data' = [data EXCEPT ![b] = d]
  /\ dirty' = Pinned(b)
  /\ UNCHANGED <<sector, busy, valid, lru, idevars, procvars>>

\* b is taken out of the list and put at its head.
MovedToFront(b) ==
  LET i == CHOOSE j \in 1..NBUF : lru[j] = b
  IN  <<b>> \o (SubSeq(lru, 1, i - 1) \o SubSeq(lru, i + 1, Len(lru)))

Released(b) == busy \ {b}

brelse(p, b) ==
  /\ pc[p] = "run"
  /\ b \in hold[p]
  /\ lru' = MovedToFront(b)
  /\ busy' = Released(b)
  /\ hold' = [hold EXCEPT ![p] = @ \ {b}]
  /\ pc' = Woken(pc, b)
  /\ UNCHANGED <<sector, valid, dirty, data, idevars, want, chan>>

(***************************************************************************)
(* ide.c                                                                   *)
(***************************************************************************)
\* idestart: idewait spins until the channel of the buffer has no command in
\* progress, then the command, and the data of a write, go to the drive.
CanStart(b) == drive[ChannelOf[sector[b]]] = Idle
Started(b) ==
  [drive EXCEPT ![ChannelOf[sector[b]]] =
     IF b \in dirty THEN WriteCmd(sector[b], data[b]) ELSE ReadCmd(sector[b])]

\* panic("iderw: buf not busy") and panic("iderw: nothing to do")
IderwPanics(b) == b \notin busy \/ (b \in valid /\ b \notin dirty)

\* idequeue == b once b is appended.
IsFirst == idequeue = <<>>

\* iderw up to the sleep: queue the buffer, start the disk if it is the first.
iderw(p) ==
  LET b == chan[p]
  IN  /\ pc[p] = "iderw"
      /\ ~IderwPanics(b)
      /\ idequeue' = Append(idequeue, b)
      /\ IF IsFirst
         THEN CanStart(b) /\ drive' = Started(b)
         ELSE UNCHANGED drive
      /\ pc' = [pc EXCEPT ![p] = "iosleep"]
      /\ UNCHANGED <<bufvars, datareg, irq, disk, want, chan, hold>>

\* The loop of iderw after a wakeup, then the return to bread or bwrite.
IderwTest(p) ==
  LET b == chan[p]
  IN  /\ pc[p] = "iotest"
      /\ IF b \in valid /\ b \notin dirty
         THEN /\ pc' = [pc EXCEPT ![p] = "run"]
              /\ chan' = [chan EXCEPT ![p] = NoBuf]
              /\ hold' = [hold EXCEPT ![p] = @ \cup {b}]
         ELSE /\ pc' = [pc EXCEPT ![p] = "iosleep"]
              /\ UNCHANGED <<chan, hold>>
      /\ UNCHANGED <<bufvars, idevars, want>>

\* Mutant: B_DIRTY stays set.
Cleaned_Not(b) == dirty

Cleaned(b) == dirty \ {b}

\* ideintr with an empty queue returns.  Otherwise it completes the first
\* request: the data of a read is fetched when idewait has seen the channel
\* free, the flags change, the sleepers wake, and the next request starts.
ideintr ==
  IF idequeue = <<>>
  THEN UNCHANGED <<bufvars, idequeue, drive, datareg, procvars>>
  ELSE LET b == Head(idequeue)
           c == ChannelOf[sector[b]]
       IN  /\ idequeue' = Tail(idequeue)
           /\ IF b \in dirty
              THEN UNCHANGED <<data, datareg>>
              ELSE /\ drive[c] = Idle
                   /\ data' = [data EXCEPT ![b] = datareg[c]]
                   /\ datareg' = [datareg EXCEPT ![c] = NoData]
           /\ valid' = valid \cup {b}
           /\ dirty' = Cleaned(b)
           /\ pc' = Woken(pc, b)
           /\ IF idequeue' = <<>>
              THEN UNCHANGED drive
              ELSE CanStart(Head(idequeue')) /\ drive' = Started(Head(idequeue'))
           /\ UNCHANGED <<sector, busy, lru, want, chan, hold>>

\* The interrupt of a drive, IRQ_IDE0 or IRQ_IDE1.
Interrupt(c) ==
  /\ c \in irq
  /\ irq' = irq \ {c}
  /\ ideintr
  /\ UNCHANGED <<disk>>

\* An interrupt that no drive raised: trap.c knows of some on IDE1.
Spurious ==
  /\ ideintr
  /\ UNCHANGED <<irq, disk>>

\* A drive ends its command and raises its interrupt (external).
DriveDone(c) ==
  /\ drive[c] # Idle
  /\ drive' = [drive EXCEPT ![c] = Idle]
  /\ irq' = irq \cup {c}
  /\ IF drive[c].op = "write"
     THEN disk' = [disk EXCEPT ![drive[c].sector] = drive[c].data] /\ UNCHANGED datareg
     ELSE datareg' = [datareg EXCEPT ![c] = disk[drive[c].sector]] /\ UNCHANGED disk
  /\ UNCHANGED <<bufvars, idequeue, procvars>>

\* kill (proc.c) makes a sleeping process run: its loop tests again.
KillWakes(p) ==
  /\ \/ pc[p] = "bsleep" /\ pc' = [pc EXCEPT ![p] = "bget"]
     \/ pc[p] = "iosleep" /\ pc' = [pc EXCEPT ![p] = "iotest"]
  /\ UNCHANGED <<bufvars, idevars, want, chan, hold>>

Next ==
  \/ \E p \in Proc :
       \/ \E s \in Sector : bread(p, s)
       \/ BgetHit(p) \/ BgetSleep(p) \/ BgetRecycle(p)
       \/ \E b \in Buf : brelse(p, b)
       \/ \E b \in Buf, d \in Data : bwrite(p, b, d) \/ log_pin(p, b, d)
       \/ iderw(p) \/ IderwTest(p) \/ KillWakes(p)
  \/ \E c \in Channel : Interrupt(c) \/ DriveDone(c)

Spec == Init /\ [][Next]_vars

\* The same system where an interrupt may also come from nowhere.
SpuriousNext == Next \/ Spurious
SpuriousSpec == Init /\ [][SpuriousNext]_vars

(***************************************************************************)
(* Properties.                                                             *)
(***************************************************************************)
(* bget never gives two buffers to one sector, although it decides under   *)
(* bcache.lock and may sleep in between.                                   *)
OneBufferPerSector ==
  \A a, b \in Buf : sector[a] = sector[b] /\ sector[a] # NoSector => a = b

(* B_BUSY is a lock: a buffer has it exactly while one process is between  *)
(* bget and brelse of it.                                                  *)
BusyIsOwned ==
  \A b \in Buf : /\ b \in busy <=> \E p \in Proc : Owns(p, b)
                 /\ \A p, q \in Proc : Owns(p, b) /\ Owns(q, b) => p = q

(* idequeue holds exactly the buffers whose owner waits in iderw for a     *)
(* transfer that has not been done, and the panics of iderw never happen.  *)
QueueIsWaiting ==
  /\ \A b \in Buf : (b \in Range(idequeue)) <=>
       \E p \in Proc : /\ chan[p] = b /\ pc[p] \in {"iosleep", "iotest"}
                      /\ (b \notin valid \/ b \in dirty)
  /\ \A p \in Proc : pc[p] = "iderw" => ~IderwPanics(chan[p])

\* The disk with the write that a drive has accepted.
Accepted == [s \in Sector |->
  LET cmd == drive[ChannelOf[s]]
  IN  IF cmd.op = "write" /\ cmd.sector = s THEN cmd.data ELSE disk[s]]

(* A clean buffer has what the disk has, or will have when the drive ends  *)
(* the write it has accepted, also when interrupts come too early.         *)
CleanIsAccepted ==
  \A b \in valid \ dirty : data[b] = Accepted[sector[b]]

(* With interrupts that no drive raised, ideintr still completes each      *)
(* request once, and what is clean is what the drive will have written.    *)
DriverCoherent == QueueIsWaiting /\ CleanIsAccepted

(* Writes are synchronous: B_DIRTY is cleared, and bwrite returns, only    *)
(* when the sector is on the disk (log.c relies on it).                    *)
CleanIsOnDisk ==
  \A b \in valid \ dirty : data[b] = disk[sector[b]]

(* The cache is coherent: one buffer per sector, one owner per busy       *)
(* buffer, and a clean one equal to its sector, whatever bget interleaves. *)
CacheCoherent == OneBufferPerSector /\ BusyIsOwned /\ CleanIsOnDisk

\* The store that the callers of bio.c see.
Contents == [s \in Sector |->
  IF \E b \in valid \cup dirty : sector[b] = s
  THEN data[CHOOSE b \in valid \cup dirty : sector[b] = s] ELSE Accepted[s]]
Holder == [s \in Sector |->
  IF \E p \in Proc, b \in Buf : sector[b] = s /\ Owns(p, b)
  THEN CHOOSE p \in Proc : \E b \in Buf : sector[b] = s /\ Owns(p, b) ELSE NoProc]
Store == INSTANCE SectorStore WITH contents <- Contents, holder <- Holder

(* The cache and the driver implement a store of sectors, each with a      *)
(* lock: reads return what was last written, recycling loses nothing.      *)
SectorStoreSpec == Store!Spec

(***************************************************************************)
(* Liveness: processes are scheduled, the drives end their commands, the   *)
(* interrupts are delivered (WF), who got a buffer from bread calls brelse *)
(* in the end, and iderw spins in idewait with idelock held, so that only  *)
(* the drive moves until the channel is free (SF).                         *)
(***************************************************************************)
Fairness ==
  /\ \A p \in Proc :
       /\ WF_vars(BgetHit(p) \/ BgetSleep(p) \/ BgetRecycle(p))
       /\ SF_vars(iderw(p)) /\ WF_vars(IderwTest(p))
       /\ \A b \in Buf : SF_vars(brelse(p, b))
  /\ \A c \in Channel : WF_vars(Interrupt(c)) /\ WF_vars(DriveDone(c))

LiveSpec == Spec /\ Fairness

(* Every transfer ends: who calls iderw comes back with the buffer.        *)
TransferEnds ==
  \A p \in Proc : (pc[p] = "iderw") ~> (pc[p] = "run")

(* Who sleeps on a busy buffer is woken to look again, though its owner    *)
(* may wait for another buffer, unless bget panics before.                 *)
SleeperWoken ==
  \A p \in Proc : (pc[p] = "bsleep") ~> (pc[p] # "bsleep" \/ \E q \in Proc : BgetPanics(q))

(* Nobody waits for ever for the disk or for a buffer: ideintr starts the  *)
(* next request, and brelse wakes who sleeps in bget.                      *)
RequestsEnd == TransferEnds /\ SleeperWoken

(***************************************************************************)
(* The inductive strengthening: CacheInv whatever interrupts come, and     *)
(* DriverInv when each is that of a drive.                                 *)
(***************************************************************************)
\* Every buffer is in the list, and a buffer with a flag set has a sector.
ListInv ==
  /\ \A b \in Buf : \E i \in 1..NBUF : lru[i] = b
  /\ \A b \in busy \cup valid : sector[b] \in Sector
  /\ dirty \subseteq valid

\* What a process holds has been read; it is not what it waits for in iderw.
HoldInv ==
  \A p \in Proc :
    /\ hold[p] \subseteq valid
    /\ pc[p] \in {"bget", "bsleep"} => want[p] \in Sector
    /\ pc[p] \in {"iderw", "iosleep", "iotest"} => chan[p] \in Buf /\ chan[p] \notin hold[p]

\* The owner of a queued buffer waits in iderw.
QueueInv ==
  \A i \in 1..Len(idequeue) :
    /\ idequeue[i] \notin valid \/ idequeue[i] \in dirty
    /\ \E p \in Proc : chan[p] = idequeue[i] /\ pc[p] \in {"iosleep", "iotest"}

\* Who waits in iderw has a buffer to transfer, queued until that is done.
WaitInv ==
  \A p \in Proc :
    /\ pc[p] = "iderw" => chan[p] \notin valid \/ chan[p] \in dirty
    /\ pc[p] \in {"iosleep", "iotest"} =>
         \/ chan[p] \in valid \ dirty
         \/ \E i \in 1..Len(idequeue) : idequeue[i] = chan[p]

\* The command for a buffer.
CommandFor(b) == IF b \in dirty THEN WriteCmd(sector[b], data[b]) ELSE ReadCmd(sector[b])

\* A drive may be at work on a write that ideintr has ended already, but a
\* read is that of the first request, whose drive has its command or has
\* done it.
AcceptInv ==
  /\ \A c \in Channel :
       \/ drive[c] = Idle
       \/ \E s \in Sector, d \in Data : drive[c] = WriteCmd(s, d) /\ ChannelOf[s] = c
       \/ /\ idequeue # <<>> /\ drive[c] = ReadCmd(sector[idequeue[1]])
          /\ ChannelOf[sector[idequeue[1]]] = c
  /\ idequeue # <<>> =>
       LET b == idequeue[1]
           c == ChannelOf[sector[b]]
       IN  \/ drive[c] = CommandFor(b)
           \/ drive[c] = Idle /\ disk[sector[b]] = IF b \in dirty THEN data[b] ELSE datareg[c]

CacheInv ==
  /\ TypeOK /\ ListInv /\ HoldInv /\ QueueInv /\ WaitInv /\ AcceptInv
  /\ OneBufferPerSector /\ BusyIsOwned /\ CleanIsAccepted

\* Only the channel of the first request is at work: its drive has the
\* command, or has done it and raised its interrupt.
DriverInv ==
  /\ idequeue = <<>> => irq = {} /\ \A c \in Channel : drive[c] = Idle
  /\ idequeue # <<>> =>
       LET b == idequeue[1]
           c == ChannelOf[sector[b]]
       IN  /\ \A d \in Channel \ {c} : drive[d] = Idle /\ d \notin irq
           /\ \/ c \notin irq /\ drive[c] = CommandFor(b)
              \/ /\ c \in irq /\ drive[c] = Idle
                 /\ disk[sector[b]] = IF b \in dirty THEN data[b] ELSE datareg[c]

BufferInv == CacheInv /\ DriverInv
=============================================================================
