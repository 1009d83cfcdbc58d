-------------------------- MODULE BufferCacheProofs --------------------------
(***************************************************************************)
(* Proofs about the buffer cache and the disk driver, for any number of    *)
(* processes, buffers, sectors and channels.                               *)
(***************************************************************************)
EXTENDS BufferCache, FiniteSetTheorems, TLAPS

\* A step is proved by SMT or Zenon unless it names another prover; a prover named
\* twice is tried again.
USE SMT, Zenon, SMTT(6), SMTT(7)

Places == {"run", "bget", "bsleep", "iderw", "iosleep", "iotest"}

\* What a drive has accepted for sector t, which holds e, is d.
IsAccepted(x, t, d, e) == (IF x.op = "write" /\ x.sector = t THEN x.data ELSE e) = d

(* A drive has accepted d that is to write d, or is idle and has done it.   *)
LEMMA Commands ==
  ASSUME NEW x, NEW t, NEW d, NEW e, x = WriteCmd(t, d) \/ (x = Idle /\ e = d)
  PROVE  IsAccepted(x, t, d, e)
BY SMT DEF Idle, WriteCmd, IsAccepted

(* The first buffer of a queue that was empty.                             *)
LEMMA FirstOf == \A q, b : q = <<>> => Append(q, b)[1] = b /\ Append(q, b) # <<>>
OBVIOUS

(* wakeup makes sleepers test again, and changes nobody else.              *)
LEMMA WokenFacts ==
  ASSUME TypeOK, NEW b
  PROVE  /\ Woken(pc, b) \in [Proc -> Places]
         /\ \A q \in Proc :
              /\ Woken(pc, b)[q] \in {"bget", "bsleep"} <=> pc[q] \in {"bget", "bsleep"}
              /\ Woken(pc, b)[q] \in {"iosleep", "iotest"} <=> pc[q] \in {"iosleep", "iotest"}
              /\ Woken(pc, b)[q] = "iderw" <=> pc[q] = "iderw"
              /\ Woken(pc, b)[q] = "run" <=> pc[q] = "run"
BY DEF TypeOK, Woken, Places

(* brelse keeps every buffer once in the list.                             *)
LEMMA MovedFacts ==
  ASSUME TypeOK, ListInv, NEW b \in Buf
  PROVE  /\ MovedToFront(b) \in Seq(Buf) /\ Len(MovedToFront(b)) = NBUF
         /\ IsInjective(MovedToFront(b))
         /\ \A a \in Buf : \E i \in 1..NBUF : MovedToFront(b)[i] = a
<1> DEFINE k == CHOOSE i \in 1..NBUF : lru[i] = b
           m == MovedToFront(b)
<1>1. k \in 1..NBUF /\ lru[k] = b
  BY DEF ListInv
<1>2. m = <<b>> \o (SubSeq(lru, 1, k - 1) \o SubSeq(lru, k + 1, Len(lru)))
  BY DEF MovedToFront
<1> HIDE DEF k, m
<1>3. NBUF \in Nat /\ lru \in Seq(Buf) /\ Len(lru) = NBUF
  BY BufferAssumption DEF TypeOK
<1>4. m \in Seq(Buf) /\ Len(m) = NBUF
  BY <1>1, <1>2, <1>3
<1>5. ASSUME NEW i \in 1..NBUF
      PROVE  m[i] = IF i = 1 THEN b ELSE IF i <= k THEN lru[i - 1] ELSE lru[i]
  <2> DEFINE x == SubSeq(lru, 1, k - 1)
             y == SubSeq(lru, k + 1, Len(lru))
  <2>1. x \in Seq(Buf) /\ Len(x) = k - 1 /\ \A j \in 1..(k - 1) : x[j] = lru[j]
    BY <1>1, <1>3
  <2>2. y \in Seq(Buf) /\ Len(y) = NBUF - k /\ \A j \in 1..(NBUF - k) : y[j] = lru[k + j]
    BY <1>1, <1>3
  <2>3. m = <<b>> \o (x \o y)
    BY <1>2
  <2> HIDE DEF x, y
  <2>4. /\ x \o y \in Seq(Buf) /\ Len(x \o y) = Len(x) + Len(y)
        /\ \A j \in 1..(Len(x) + Len(y)) :
             (x \o y)[j] = IF j <= Len(x) THEN x[j] ELSE y[j - Len(x)]
    BY <2>1, <2>2
  <2>5. Len(x) + Len(y) = NBUF - 1
    BY <1>1, <1>3, <2>1, <2>2
  <2>6. ASSUME NEW j \in 1..(NBUF - 1)
        PROVE  (x \o y)[j] = IF j < k THEN lru[j] ELSE lru[j + 1]
    <3>1. CASE j < k
      BY <1>1, <1>3, <2>1, <2>4, <2>5, <3>1
    <3>2. CASE j >= k
      <4>1. j - (k - 1) \in 1..(NBUF - k) /\ k + (j - (k - 1)) = j + 1
        BY <1>1, <1>3, <3>2
      <4>2. (x \o y)[j] = y[j - (k - 1)]
        BY <1>1, <1>3, <2>1, <2>4, <2>5, <3>2
      <4>3. y[j - (k - 1)] = lru[j + 1]
        BY <2>2, <4>1
      <4> QED
        BY <1>1, <1>3, <3>2, <4>2, <4>3
    <3>3. j < k \/ j >= k
      BY <1>1, <1>3
    <3> QED
      BY Zenon, <3>1, <3>2, <3>3
  <2> HIDE DEF k
  <2> DEFINE z == x \o y
  <2>7. z \in Seq(Buf) /\ Len(z) = NBUF - 1
    BY <2>4, <2>5
  <2>8. \A j \in 1..(NBUF - 1) : z[j] = IF j < k THEN lru[j] ELSE lru[j + 1]
    BY Zenon, <2>6
  <2> HIDE DEF z
  <2>9. m = <<b>> \o z
    BY <2>3 DEF z
  <2>10. CASE i = 1
    BY <2>7, <2>9, <2>10
  <2>11. CASE i # 1
    <3>1. i - 1 \in 1..(NBUF - 1) /\ (i - 1) + 1 = i
      BY <1>3, <2>11
    <3>2. m[i] = z[i - 1]
      BY <1>3, <2>7, <2>9, <3>1
    <3>3. z[i - 1] = IF i - 1 < k THEN lru[i - 1] ELSE lru[i]
      BY <2>8, <3>1
    <3> QED
      BY <1>1, <1>3, <2>11, <3>2, <3>3
  <2> QED
    BY <2>10, <2>11
<1>6. \A i, j \in 1..NBUF : lru[i] = lru[j] => i = j
  BY <1>3 DEF TypeOK, IsInjective
<1>7. \A i, j \in 1..NBUF : m[i] = m[j] => i = j
  BY <1>1, <1>3, <1>5, <1>6
<1>8. IsInjective(m)
  BY <1>4, <1>7 DEF IsInjective
<1>9. ASSUME NEW a \in Buf PROVE \E i \in 1..NBUF : m[i] = a
  <2>1. PICK j \in 1..NBUF : lru[j] = a
    BY DEF ListInv
  <2>2. CASE j = k
    BY <1>1, <1>3, <1>5, <2>1, <2>2
  <2>3. CASE j < k
    BY SMTT(30), SMTT(31), SMTT(32), <1>1, <1>3, <1>5, <2>1, <2>3
  <2>4. CASE j > k
    BY <1>1, <1>3, <1>5, <2>1, <2>4
  <2> QED
    BY <1>1, <1>3, <2>2, <2>3, <2>4
<1> QED
  BY <1>4, <1>8, <1>9 DEF m

(***************************************************************************)
(* The actions with several outcomes, for each of them.                    *)
(***************************************************************************)
HitAt(p, b) ==
  /\ pc[p] = "bget" /\ b \notin busy /\ b \in valid /\ sector[b] = want[p]
  /\ busy' = busy \cup {b} /\ hold' = [hold EXCEPT ![p] = @ \cup {b}]
  /\ pc' = [pc EXCEPT ![p] = "run"] /\ chan' = [chan EXCEPT ![p] = NoBuf]
  /\ want' = [want EXCEPT ![p] = NoSector]
  /\ UNCHANGED <<sector, valid, dirty, data, lru, idevars>>

MissAt(p, b) ==
  /\ pc[p] = "bget" /\ b \notin busy /\ b \notin valid /\ sector[b] = want[p]
  /\ busy' = busy \cup {b}
  /\ pc' = [pc EXCEPT ![p] = "iderw"] /\ chan' = [chan EXCEPT ![p] = b]
  /\ want' = [want EXCEPT ![p] = NoSector]
  /\ UNCHANGED <<sector, valid, dirty, data, lru, idevars, hold>>

RecycleAt(p, b) ==
  /\ pc[p] = "bget" /\ b \notin busy /\ b \notin dirty
  /\ \A a \in Buf : sector[a] # want[p]
  /\ busy' = busy \cup {b} /\ sector' = [sector EXCEPT ![b] = want[p]]
  /\ valid' = valid \ {b} /\ dirty' = dirty /\ data' = [data EXCEPT ![b] = NoData]
  /\ pc' = [pc EXCEPT ![p] = "iderw"] /\ chan' = [chan EXCEPT ![p] = b]
  /\ want' = [want EXCEPT ![p] = NoSector]
  /\ UNCHANGED <<lru, idevars, hold>>

StartAt(p, b) ==
  /\ pc[p] = "iderw" /\ b = chan[p] /\ b \in busy /\ (b \notin valid \/ b \in dirty)
  /\ idequeue' = Append(idequeue, b)
  /\ \/ idequeue # <<>> /\ drive' = drive
     \/ /\ idequeue = <<>> /\ drive[ChannelOf[sector[b]]] = Idle
        /\ drive' = [drive EXCEPT ![ChannelOf[sector[b]]] = CommandFor(b)]
  /\ pc' = [pc EXCEPT ![p] = "iosleep"]
  /\ UNCHANGED <<bufvars, datareg, irq, disk, want, chan, hold>>

TestAt(p, b) ==
  /\ pc[p] = "iotest" /\ b = chan[p] /\ b \in valid /\ b \notin dirty
  /\ pc' = [pc EXCEPT ![p] = "run"] /\ chan' = [chan EXCEPT ![p] = NoBuf]
  /\ hold' = [hold EXCEPT ![p] = @ \cup {b}]
  /\ UNCHANGED <<bufvars, idevars, want>>

\* iderw or bget goes to sleep, or is made to test again.
Dozes(p) ==
  /\ \/ pc[p] = "iotest" /\ pc' = [pc EXCEPT ![p] = "iosleep"] /\ chan' = chan
     \/ pc[p] = "iosleep" /\ pc' = [pc EXCEPT ![p] = "iotest"] /\ chan' = chan
     \/ pc[p] = "bsleep" /\ pc' = [pc EXCEPT ![p] = "bget"] /\ chan' = chan
     \/ /\ pc[p] = "bget" /\ pc' = [pc EXCEPT ![p] = "bsleep"]
        /\ \E b \in Buf : chan' = [chan EXCEPT ![p] = b]
  /\ UNCHANGED <<bufvars, idevars, want, hold>>

\* ideintr has nothing to do.
Ignored ==
  /\ idequeue = <<>> /\ irq' \subseteq irq
  /\ UNCHANGED <<bufvars, idequeue, drive, datareg, disk, procvars>>

\* The first request is done, and the next one started.
DoneAt(b) ==
  /\ idequeue # <<>> /\ b = idequeue[1]
  /\ b \notin dirty => drive[ChannelOf[sector[b]]] = Idle
  /\ idequeue' = Tail(idequeue) /\ irq' \subseteq irq
  /\ data' = [data EXCEPT ![b] = Accepted[sector[b]]]
  /\ valid' = valid \cup {b} /\ dirty' = dirty \ {b}
  /\ pc' = Woken(pc, b)
  /\ datareg' \in [Channel -> Data \cup {NoData}]
  /\ \/ Tail(idequeue) = <<>> /\ drive' = drive
     \/ /\ Tail(idequeue) # <<>> /\ drive[ChannelOf[sector[idequeue[2]]]] = Idle
        /\ drive' = [drive EXCEPT ![ChannelOf[sector[idequeue[2]]]] = CommandFor(idequeue[2])]
  /\ UNCHANGED <<sector, busy, lru, disk, want, chan, hold>>

OtherStep ==
  \/ \E p \in Proc : Dozes(p) \/ \E s \in Sector : bread(p, s)
  \/ \E p \in Proc, b \in Buf :
       \/ HitAt(p, b) \/ MissAt(p, b) \/ RecycleAt(p, b) \/ brelse(p, b)
       \/ StartAt(p, b) \/ TestAt(p, b)
  \/ \E p \in Proc, b \in Buf, d \in Data : bwrite(p, b, d) \/ log_pin(p, b, d)
  \/ \E c \in Channel : DriveDone(c)

(* Who goes to sleep, or tests again, changes no buffer and no request.    *)
LEMMA DozesFacts ==
  ASSUME TypeOK, NEW p \in Proc, Dozes(p)
  PROVE  /\ UNCHANGED <<sector, busy, valid, dirty, data, lru>>
         /\ UNCHANGED <<idequeue, drive, datareg, irq, disk, want, hold>>
         /\ \A q \in Proc :
              \/ /\ pc[q] \in {"iosleep", "iotest"} /\ pc'[q] \in {"iosleep", "iotest"}
                 /\ chan'[q] = chan[q]
              \/ pc[q] \in {"bget", "bsleep"} /\ pc'[q] \in {"bget", "bsleep"}
              \/ pc'[q] = pc[q] /\ chan'[q] = chan[q]
<1>1. /\ UNCHANGED <<sector, busy, valid, dirty, data, lru>>
      /\ UNCHANGED <<idequeue, drive, datareg, irq, disk, want, hold>>
  BY Zenon DEF Dozes, bufvars, idevars
<1>2. /\ pc \in [Proc -> Places] /\ chan \in [Proc -> Buf \cup {NoBuf}]
  BY Zenon DEF TypeOK, Places
<1>3. ASSUME NEW q \in Proc, q # p PROVE pc'[q] = pc[q] /\ chan'[q] = chan[q]
  BY <1>2, <1>3 DEF Dozes
<1>4. \/ /\ pc[p] \in {"iosleep", "iotest"} /\ pc'[p] \in {"iosleep", "iotest"}
         /\ chan'[p] = chan[p]
      \/ pc[p] \in {"bget", "bsleep"} /\ pc'[p] \in {"bget", "bsleep"}
  BY <1>2 DEF Dozes
<1> QED
  BY Zenon, <1>1, <1>3, <1>4

(* bget of a cached buffer that is free.                                   *)
LEMMA HitEffect ==
  ASSUME NEW p \in Proc, BgetHit(p)
  PROVE  \E b \in Buf : HitAt(p, b) \/ MissAt(p, b)
<1>1. PICK b \in Cached(want[p]) : /\ Free(b)
                                   /\ UNCHANGED <<sector, valid, dirty, data, lru>>
                                   /\ Take(p, b)
  BY DEF BgetHit
<1>2. b \in Buf /\ sector[b] = want[p] /\ b \notin busy
  BY <1>1 DEF Cached, Free
<1>3. CASE b \in valid
  BY <1>1, <1>2, <1>3 DEF BgetHit, Take, HitAt
<1>4. CASE b \notin valid
  BY <1>1, <1>2, <1>4 DEF BgetHit, Take, MissAt
<1> QED
  BY <1>2, <1>3, <1>4

(* bget of a buffer that it recycles.                                      *)
LEMMA RecycleEffect ==
  ASSUME TypeOK, NEW p \in Proc, BgetRecycle(p)
  PROVE  \E b \in Buf : RecycleAt(p, b)
<1>1. PICK i \in Recyclable :
        /\ sector' = [sector EXCEPT ![lru[i]] = want[p]]
        /\ valid' = valid \ {lru[i]}
        /\ dirty' = dirty \ {lru[i]}
        /\ data' = [data EXCEPT ![lru[i]] = NoData]
        /\ UNCHANGED lru
        /\ Take(p, lru[i])
  BY Zenon DEF BgetRecycle
<1>2. lru[i] \in Buf /\ lru[i] \notin busy /\ lru[i] \notin dirty
  BY <1>1 DEF Recyclable, TypeOK
<1>3. \A a \in Buf : sector[a] # want[p]
  BY DEF BgetRecycle, Cached
<1>4. dirty' = dirty /\ lru[i] \notin valid'
  BY <1>1, <1>2
<1> QED
  BY Zenon, <1>1, <1>2, <1>3, <1>4 DEF BgetRecycle, Take, RecycleAt

(* iderw starts the disk if its request is the only one.                   *)
LEMMA StartEffect ==
  ASSUME HoldInv, NEW p \in Proc, iderw(p)
  PROVE  \E b \in Buf : StartAt(p, b)
<1>1. chan[p] \in Buf
  BY DEF HoldInv, iderw
<1> QED
  BY <1>1 DEF iderw, StartAt, IderwPanics, IsFirst, Started, CanStart, CommandFor

(* The test of iderw ends the wait, or puts the process to sleep again.    *)
LEMMA TestEffect ==
  ASSUME HoldInv, NEW p \in Proc, IderwTest(p)
  PROVE  Dozes(p) \/ \E b \in Buf : TestAt(p, b)
<1>1. chan[p] \in Buf
  BY DEF HoldInv, IderwTest
<1> QED
  BY <1>1 DEF IderwTest, TestAt, Dozes

(* bget on a busy buffer goes to sleep.                                    *)
LEMMA SleepEffect ==
  ASSUME NEW p \in Proc, BgetSleep(p)
  PROVE  Dozes(p)
BY Zenon DEF BgetSleep, Cached, Dozes

(* A queued buffer is busy, and its owner is neither free to change it nor *)
(* about to queue it again.                                                *)
LEMMA QueuedFacts ==
  ASSUME TypeOK, HoldInv, QueueInv, BusyIsOwned, NEW i \in 1..Len(idequeue)
  PROVE  /\ idequeue[i] \in busy
         /\ \A p \in Proc : /\ idequeue[i] \notin hold[p]
                            /\ pc[p] = "iderw" => chan[p] # idequeue[i]
<1>1. idequeue[i] \in Buf
  BY DEF TypeOK
<1>2. PICK q \in Proc : chan[q] = idequeue[i] /\ pc[q] \in {"iosleep", "iotest"}
  BY DEF QueueInv
<1>3. Owns(q, idequeue[i])
  BY <1>2 DEF Owns
<1>4. \A p \in Proc : Owns(p, idequeue[i]) => p = q
  BY <1>1, <1>3 DEF BusyIsOwned
<1>5. idequeue[i] \in busy
  BY <1>1, <1>3 DEF BusyIsOwned
<1>6. ASSUME NEW p \in Proc PROVE idequeue[i] \notin hold[p]
  BY <1>2, <1>4 DEF Owns, HoldInv
<1>7. ASSUME NEW p \in Proc, pc[p] = "iderw" PROVE chan[p] # idequeue[i]
  BY <1>2, <1>4, <1>7 DEF Owns
<1> QED
  BY <1>5, <1>6, <1>7

(* ideintr ends the first request: its drive has the command or has done   *)
(* it, so that the buffer gets what the drive has accepted.                *)
LEMMA CompleteEffect ==
  ASSUME TypeOK, ListInv, HoldInv, QueueInv, BusyIsOwned, AcceptInv,
         ideintr, irq' \subseteq irq, disk' = disk
  PROVE  Ignored \/ \E b \in Buf : DoneAt(b)
<1>1. CASE idequeue = <<>>
  BY <1>1 DEF ideintr, Ignored
<1>2. CASE idequeue # <<>>
  <2> DEFINE b == idequeue[1]
             c == ChannelOf[sector[b]]
  <2>1. b \in Buf /\ Head(idequeue) = b /\ 1 \in 1..Len(idequeue)
    BY <1>2 DEF TypeOK
  <2>2. sector[b] \in Sector /\ c \in Channel
    BY <2>1, QueuedFacts, BufferAssumption DEF ListInv
  <2>3. \/ drive[c] = CommandFor(b)
        \/ drive[c] = Idle /\ disk[sector[b]] = IF b \in dirty THEN data[b] ELSE datareg[c]
    BY <1>2 DEF AcceptInv
  <2>4. Accepted[sector[b]] =
          IF drive[c].op = "write" /\ drive[c].sector = sector[b]
          THEN drive[c].data ELSE disk[sector[b]]
    BY <2>2 DEF Accepted
  <2>5. b \notin dirty => drive[c] = Idle
    BY <1>2, <2>1 DEF ideintr
  <2> HIDE DEF b, c
  <2>6. data' = [data EXCEPT ![b] = Accepted[sector[b]]]
    <3>1. CASE b \in dirty
      <4>1. Accepted[sector[b]] = data[b]
        BY <2>3, <2>4, <3>1 DEF CommandFor, WriteCmd, Idle
      <4>2. data' = data
        BY <1>2, <2>1, <3>1 DEF ideintr
      <4> QED
        BY <2>1, <4>1, <4>2 DEF TypeOK
    <3>2. CASE b \notin dirty
      <4>1. drive[c] = Idle /\ drive[c] # CommandFor(b)
        BY <2>5, <3>2 DEF CommandFor, ReadCmd, Idle
      <4>2. Accepted[sector[b]] = datareg[c]
        BY <2>3, <2>4, <3>2, <4>1 DEF Idle
      <4> QED
        BY <1>2, <2>1, <3>2, <4>2 DEF ideintr, c
    <3> QED
      BY <3>1, <3>2
  <2>7. datareg' \in [Channel -> Data \cup {NoData}]
    BY <1>2 DEF ideintr, TypeOK
  <2>8. \/ Tail(idequeue) = <<>> /\ drive' = drive
        \/ /\ Tail(idequeue) # <<>> /\ drive[ChannelOf[sector[idequeue[2]]]] = Idle
           /\ drive' = [drive EXCEPT ![ChannelOf[sector[idequeue[2]]]] = CommandFor(idequeue[2])]
    <3>1. idequeue' = Tail(idequeue)
      BY <1>2 DEF ideintr
    <3>2. ASSUME Tail(idequeue) # <<>> PROVE Head(Tail(idequeue)) = idequeue[2]
      BY <1>2, <3>2 DEF TypeOK
    <3>3. /\ sector' = sector
          /\ IF idequeue' = <<>>
             THEN drive' = drive
             ELSE CanStart(Head(idequeue')) /\ drive' = Started(Head(idequeue'))
      BY <1>2 DEF ideintr
    <3> QED
      BY <3>1, <3>2, <3>3 DEF Started, CanStart, CommandFor
  <2>9. /\ idequeue' = Tail(idequeue) /\ valid' = valid \cup {b} /\ dirty' = dirty \ {b}
        /\ pc' = Woken(pc, b) /\ UNCHANGED <<sector, busy, lru, want, chan, hold>>
    BY <1>2, <2>1 DEF ideintr, Cleaned
  <2>10. DoneAt(b)
    BY <1>2, <2>1, <2>5, <2>6, <2>7, <2>8, <2>9 DEF DoneAt, b, c
  <2> QED
    BY <2>1, <2>10
<1> QED
  BY <1>1, <1>2

(* A step of the system is one of these, also when an interrupt is none of *)
(* a drive.                                                                *)
LEMMA NextCases ==
  ASSUME TypeOK, ListInv, HoldInv, QueueInv, BusyIsOwned, AcceptInv, SpuriousNext
  PROVE  OtherStep \/ Ignored \/ \E b \in Buf : DoneAt(b)
<1>1. ASSUME NEW p \in Proc, KillWakes(p) PROVE Dozes(p)
  BY <1>1 DEF KillWakes, Dozes
<1>2. ASSUME (\E c \in Channel : Interrupt(c)) \/ Spurious
      PROVE  Ignored \/ \E b \in Buf : DoneAt(b)
  <2>1. ideintr /\ irq' \subseteq irq /\ disk' = disk
    BY <1>2 DEF Interrupt, Spurious
  <2> QED
    BY <2>1, CompleteEffect
<1> QED
  BY <1>1, <1>2, HitEffect, RecycleEffect, StartEffect, TestEffect, SleepEffect
     DEF Next, SpuriousNext, OtherStep

(* The command for a buffer with a sector is a command. *)
LEMMA CommandType ==
  ASSUME TypeOK, NEW b \in Buf, sector[b] \in Sector
  PROVE  CommandFor(b) \in Command
BY DEF TypeOK, CommandFor, Command

(* A command started on an idle channel leaves what the drives have        *)
(* accepted alone, but for the sector that it writes.                      *)
LEMMA StartAccepted ==
  ASSUME TypeOK, NEW b \in Buf, sector[b] \in Sector, drive[ChannelOf[sector[b]]] = Idle,
         drive' = [drive EXCEPT ![ChannelOf[sector[b]]] = CommandFor(b)], disk' = disk
  PROVE  \A s \in Sector :
           Accepted'[s] = IF b \in dirty /\ s = sector[b] THEN data[b] ELSE Accepted[s]
<1> TAKE s \in Sector
<1> DEFINE A(x, y) == IF x.op = "write" /\ x.sector = s THEN x.data ELSE y
<1>1. Accepted[s] = A(drive[ChannelOf[s]], disk[s])
  BY DEF Accepted
<1>2. Accepted'[s] = A(drive'[ChannelOf[s]], disk[s])
  BY DEF Accepted
<1>3. ChannelOf[s] \in Channel /\ ChannelOf[sector[b]] \in Channel
  BY BufferAssumption
<1>4. CASE ChannelOf[s] # ChannelOf[sector[b]]
  <2>1. drive'[ChannelOf[s]] = drive[ChannelOf[s]]
    BY <1>3, <1>4 DEF TypeOK
  <2> QED
    BY <1>1, <1>2, <1>4, <2>1
<1>5. CASE ChannelOf[s] = ChannelOf[sector[b]]
  <2>1. drive'[ChannelOf[s]] = CommandFor(b) /\ drive[ChannelOf[s]] = Idle
    BY <1>3, <1>5 DEF TypeOK
  <2>2. A(Idle, disk[s]) = disk[s]
    BY DEF Idle
  <2>3. A(CommandFor(b), disk[s]) = IF b \in dirty /\ s = sector[b] THEN data[b] ELSE disk[s]
    BY DEF CommandFor, WriteCmd, ReadCmd
  <2> HIDE DEF A
  <2> QED
    BY <1>1, <1>2, <2>1, <2>2, <2>3
<1> QED
  BY <1>4, <1>5

(* A drive that ends its command has done what it had accepted.            *)
LEMMA DoneAccepted ==
  ASSUME TypeOK, AcceptInv, NEW c \in Channel, DriveDone(c)
  PROVE  \A s \in Sector : Accepted'[s] = Accepted[s]
<1> TAKE s \in Sector
<1> DEFINE A(x, y) == IF x.op = "write" /\ x.sector = s THEN x.data ELSE y
<1>1. Accepted[s] = A(drive[ChannelOf[s]], disk[s])
  BY DEF Accepted
<1>2. Accepted'[s] = A(drive'[ChannelOf[s]], disk'[s])
  BY DEF Accepted
<1>3. ChannelOf[s] \in Channel
  BY BufferAssumption
<1>4. A(Idle, disk'[s]) = disk'[s]
  BY DEF Idle
<1>5. drive' = [drive EXCEPT ![c] = Idle]
  BY DEF DriveDone
<1>6. CASE \E t \in Sector, d \in Data : drive[c] = WriteCmd(t, d) /\ ChannelOf[t] = c
  <2>1. PICK t \in Sector, d \in Data : drive[c] = WriteCmd(t, d) /\ ChannelOf[t] = c
    BY <1>6
  <2>2. disk' = [disk EXCEPT ![t] = d]
    BY <2>1 DEF DriveDone, WriteCmd
  <2>3. CASE ChannelOf[s] # c
    BY <1>1, <1>2, <1>3, <1>5, <2>1, <2>2, <2>3 DEF TypeOK
  <2>4. CASE ChannelOf[s] = c
    <3>1. Accepted'[s] = disk'[s]
      BY <1>2, <1>4, <1>5, <2>4 DEF TypeOK
    <3>2. Accepted[s] = IF t = s THEN d ELSE disk[s]
      BY <1>1, <2>1, <2>4 DEF WriteCmd
    <3> QED
      BY <2>2, <3>1, <3>2 DEF TypeOK
  <2> QED
    BY <2>3, <2>4
<1>7. CASE drive[c] = ReadCmd(sector[idequeue[1]])
  <2>1. disk' = disk
    BY <1>7 DEF DriveDone, ReadCmd
  <2>2. CASE ChannelOf[s] # c
    BY <1>1, <1>2, <1>3, <1>5, <2>1, <2>2 DEF TypeOK
  <2>3. CASE ChannelOf[s] = c
    <3>1. Accepted'[s] = disk'[s]
      BY <1>2, <1>4, <1>5, <2>3 DEF TypeOK
    <3>2. Accepted[s] = disk[s]
      BY <1>1, <1>7, <2>3 DEF ReadCmd
    <3> QED
      BY <2>1, <3>1, <3>2
  <2> QED
    BY <2>2, <2>3
<1> QED
  BY <1>6, <1>7 DEF AcceptInv, DriveDone

(* What a drive has accepted is data. *)
LEMMA AcceptedType ==
  ASSUME TypeOK
  PROVE  \A s \in Sector : Accepted[s] \in Data
<1> TAKE s \in Sector
<1>1. Accepted[s] = IF drive[ChannelOf[s]].op = "write" /\ drive[ChannelOf[s]].sector = s
                    THEN drive[ChannelOf[s]].data ELSE disk[s]
  BY DEF Accepted
<1>2. drive[ChannelOf[s]] \in Command
  BY BufferAssumption DEF TypeOK
<1>3. ASSUME drive[ChannelOf[s]].op = "write" PROVE drive[ChannelOf[s]].data \in Data
  <2>1. drive[ChannelOf[s]] # Idle
    BY <1>3 DEF Idle
  <2>2. \A t \in Sector : drive[ChannelOf[s]] # ReadCmd(t)
    BY <1>3 DEF ReadCmd
  <2>3. PICK t \in Sector, d \in Data : drive[ChannelOf[s]] = WriteCmd(t, d)
    BY <1>2, <2>1, <2>2 DEF Command
  <2> QED
    BY <2>3 DEF WriteCmd
<1> QED
  BY <1>1, <1>3 DEF TypeOK

(* Every step keeps the types. *)
LEMMA TypeStep ==
  ASSUME TypeOK, ListInv, HoldInv, QueueInv, BusyIsOwned, AcceptInv, [SpuriousNext]_vars
  PROVE  TypeOK'
<1> USE BufferAssumption DEF TypeOK, bufvars, idevars, procvars
<1>1. ASSUME NEW p \in Proc, Dozes(p) PROVE TypeOK'
  BY ZenonT(60), <1>1 DEF Dozes
<1>2. ASSUME NEW p \in Proc, NEW s \in Sector, bread(p, s) PROVE TypeOK'
  BY <1>2 DEF bread
<1>3. ASSUME NEW p \in Proc, NEW b \in Buf, HitAt(p, b) PROVE TypeOK'
  BY <1>3 DEF HitAt
<1>4. ASSUME NEW p \in Proc, NEW b \in Buf, MissAt(p, b) PROVE TypeOK'
  BY <1>4 DEF MissAt
<1>5. ASSUME NEW p \in Proc, NEW b \in Buf, RecycleAt(p, b) PROVE TypeOK'
  BY <1>5 DEF RecycleAt
<1>6. ASSUME NEW p \in Proc, NEW b \in Buf, brelse(p, b) PROVE TypeOK'
  BY Zenon, <1>6, WokenFacts, MovedFacts DEF brelse, Released, Places
<1>7. ASSUME NEW p \in Proc, NEW b \in Buf, StartAt(p, b) PROVE TypeOK'
  <2>1. \A i \in 1..Len(idequeue) : idequeue[i] # b
    BY <1>7, QueuedFacts DEF StartAt
  <2>2. idequeue' = Append(idequeue, b) /\ idequeue \in Seq(Buf) /\ IsInjective(idequeue)
    BY <1>7 DEF StartAt
  <2>3. idequeue' \in Seq(Buf) /\ IsInjective(idequeue')
    BY <2>1, <2>2 DEF IsInjective
  <2>4. CommandFor(b) \in Command /\ ChannelOf[sector[b]] \in Channel
    BY <1>7, CommandType DEF StartAt, ListInv
  <2>5. drive' \in [Channel -> Command]
    BY Zenon, <1>7, <2>4 DEF StartAt
  <2> QED
    BY <1>7, <2>3, <2>5 DEF StartAt
<1>8. ASSUME NEW p \in Proc, NEW b \in Buf, TestAt(p, b) PROVE TypeOK'
  BY <1>8 DEF TestAt
<1>9. ASSUME NEW p \in Proc, NEW b \in Buf, NEW d \in Data, bwrite(p, b, d) PROVE TypeOK'
  BY <1>9 DEF bwrite
<1>10. ASSUME NEW p \in Proc, NEW b \in Buf, NEW d \in Data, log_pin(p, b, d) PROVE TypeOK'
  BY <1>10 DEF log_pin, Pinned
<1>11. ASSUME NEW c \in Channel, DriveDone(c) PROVE TypeOK'
  <2>0. /\ drive' = [drive EXCEPT ![c] = Idle] /\ irq' = irq \cup {c}
        /\ UNCHANGED <<bufvars, idequeue, procvars>>
    BY Zenon, <1>11 DEF DriveDone
  <2>b. drive \in [Channel -> Command] /\ irq \in SUBSET Channel
    BY Zenon
  <2>a. drive' \in [Channel -> Command] /\ irq' \in SUBSET Channel
    <3> HIDE DEF TypeOK
    <3>1. Idle \in Command
      BY SMTT(20) DEF Command
    <3> QED
      BY <2>0, <2>b, <3>1
  <2>1. CASE \E s \in Sector : drive[c] = ReadCmd(s)
    <3>1. PICK s \in Sector : drive[c] = ReadCmd(s)
      BY <2>1
    <3>2. drive[c].op # "write" /\ drive[c].sector = s
      BY <3>1 DEF ReadCmd
    <3>3. datareg' = [datareg EXCEPT ![c] = disk[s]] /\ disk' = disk
      BY Zenon, <1>11, <3>2 DEF DriveDone
    <3> QED
      BY <2>0, <2>a, <3>3
  <2>2. CASE \E s \in Sector, d \in Data : drive[c] = WriteCmd(s, d)
    <3>1. PICK s \in Sector, d \in Data : drive[c] = WriteCmd(s, d)
      BY <2>2
    <3>2. drive[c].op = "write" /\ drive[c].sector = s /\ drive[c].data = d
      BY <3>1 DEF WriteCmd
    <3>3. disk' = [disk EXCEPT ![s] = d] /\ datareg' = datareg
      BY <1>11, <3>2 DEF DriveDone
    <3> QED
      BY <2>0, <2>a, <3>3
  <2>3. drive[c] \in Command /\ drive[c] # Idle
    BY Zenon, <1>11, <2>b DEF DriveDone
  <2> QED
    <3> HIDE DEF TypeOK
    <3>1. (\E s \in Sector : drive[c] = ReadCmd(s)) \/ \E s \in Sector, d \in Data : drive[c] = WriteCmd(s, d)
      BY SMT, <2>3 DEF Command
    <3> QED
      BY Zenon, <2>1, <2>2, <3>1
<1>12. ASSUME Ignored PROVE TypeOK'
  BY Zenon, <1>12 DEF Ignored
<1>13. ASSUME NEW b \in Buf, DoneAt(b) PROVE TypeOK'
  <2>1. idequeue' = Tail(idequeue) /\ idequeue # <<>>
    BY <1>13 DEF DoneAt
  <2>2. idequeue' \in Seq(Buf) /\ IsInjective(idequeue')
    BY <2>1 DEF IsInjective
  <2>3. drive' \in [Channel -> Command]
    <3>1. CASE Tail(idequeue) = <<>>
      BY Zenon, <1>13, <3>1 DEF DoneAt
    <3>2. CASE Tail(idequeue) # <<>>
      <4> DEFINE e == idequeue[2]
      <4>1. 2 \in 1..Len(idequeue) /\ e \in Buf
        BY <2>1, <3>2
      <4>2. e \in busy /\ (e \notin valid \/ e \in dirty)
        BY Zenon, <4>1, QueuedFacts DEF QueueInv
      <4>3. CommandFor(e) \in Command /\ ChannelOf[sector[e]] \in Channel
        BY Zenon, <4>1, <4>2, CommandType DEF ListInv
      <4> QED
        BY <1>13, <3>2, <4>3 DEF DoneAt
    <3> QED
      BY Zenon, <3>1, <3>2
  <2>4. 1 \in 1..Len(idequeue) /\ b = idequeue[1]
    BY <1>13 DEF DoneAt
  <2>5. Accepted[sector[b]] \in Data
    BY Zenon, <2>4, QueuedFacts, AcceptedType DEF ListInv
  <2>6. data' \in [Buf -> Data \cup {NoData}] /\ \A a \in valid' \cup dirty' : data'[a] \in Data
    BY SMTT(30), SMTT(31), SMTT(32), <1>13, <2>5 DEF DoneAt
  <2>7. pc' \in [Proc -> Places]
    BY <1>13, WokenFacts DEF DoneAt
  <2> QED
    BY Zenon, <1>13, <2>2, <2>3, <2>6, <2>7 DEF DoneAt, Places
<1>14. ASSUME UNCHANGED vars PROVE TypeOK'
  BY <1>14 DEF vars
<1> QED
  BY ZenonT(60), <1>1, <1>2, <1>3, <1>4, <1>5, <1>6, <1>7, <1>8, <1>9, <1>10, <1>11, <1>12,
     <1>13, <1>14, NextCases DEF OtherStep

(* Every buffer stays in the list, and a buffer in use has a sector. *)
LEMMA ListStep ==
  ASSUME TypeOK, ListInv, HoldInv, QueueInv, BusyIsOwned, AcceptInv, [SpuriousNext]_vars
  PROVE  ListInv'
<1> USE DEF TypeOK, ListInv, HoldInv, bufvars, idevars, procvars
<1>1. ASSUME NEW p \in Proc, Dozes(p) PROVE ListInv'
  BY <1>1 DEF Dozes
<1>2. ASSUME NEW p \in Proc, NEW s \in Sector, bread(p, s) PROVE ListInv'
  BY Zenon, <1>2 DEF bread
<1>3. ASSUME NEW p \in Proc, NEW b \in Buf, HitAt(p, b) PROVE ListInv'
  BY <1>3 DEF HitAt
<1>4. ASSUME NEW p \in Proc, NEW b \in Buf, MissAt(p, b) PROVE ListInv'
  BY <1>4 DEF MissAt
<1>5. ASSUME NEW p \in Proc, NEW b \in Buf, RecycleAt(p, b) PROVE ListInv'
  BY <1>5 DEF RecycleAt
<1>6. ASSUME NEW p \in Proc, NEW b \in Buf, brelse(p, b) PROVE ListInv'
  BY ZenonT(60), <1>6, MovedFacts DEF brelse, Released
<1>7. ASSUME NEW p \in Proc, NEW b \in Buf, StartAt(p, b) PROVE ListInv'
  BY <1>7 DEF StartAt
<1>8. ASSUME NEW p \in Proc, NEW b \in Buf, TestAt(p, b) PROVE ListInv'
  BY <1>8 DEF TestAt
<1>9. ASSUME NEW p \in Proc, NEW b \in Buf, NEW d \in Data, bwrite(p, b, d) PROVE ListInv'
  BY <1>9 DEF bwrite
<1>10. ASSUME NEW p \in Proc, NEW b \in Buf, NEW d \in Data, log_pin(p, b, d) PROVE ListInv'
  BY <1>10 DEF log_pin, Pinned
<1>11. ASSUME NEW c \in Channel, DriveDone(c) PROVE ListInv'
  BY <1>11 DEF DriveDone
<1>12. ASSUME Ignored PROVE ListInv'
  BY <1>12 DEF Ignored
<1>13. ASSUME NEW b \in Buf, DoneAt(b) PROVE ListInv'
  <2>1. 1 \in 1..Len(idequeue) /\ b = idequeue[1]
    BY <1>13 DEF DoneAt
  <2>2. b \in busy
    BY Zenon, <2>1, QueuedFacts
  <2> QED
    BY Zenon, <1>13, <2>2 DEF DoneAt
<1>14. ASSUME UNCHANGED vars PROVE ListInv'
  BY <1>14 DEF vars
<1> QED
  BY ZenonT(60), <1>1, <1>2, <1>3, <1>4, <1>5, <1>6, <1>7, <1>8, <1>9, <1>10, <1>11, <1>12,
     <1>13, <1>14, NextCases DEF OtherStep

(* A process keeps what bread gave it until it lets go of it. *)
LEMMA HoldStep ==
  ASSUME TypeOK, ListInv, HoldInv, QueueInv, BusyIsOwned, AcceptInv, [SpuriousNext]_vars
  PROVE  HoldInv'
<1> USE DEF TypeOK, HoldInv, bufvars, idevars, procvars
<1>1. ASSUME NEW p \in Proc, Dozes(p) PROVE HoldInv'
  BY <1>1 DEF Dozes
<1>2. ASSUME NEW p \in Proc, NEW s \in Sector, bread(p, s) PROVE HoldInv'
  BY <1>2 DEF bread
<1>3. ASSUME NEW p \in Proc, NEW b \in Buf, HitAt(p, b) PROVE HoldInv'
  BY <1>3 DEF HitAt
<1>4. ASSUME NEW p \in Proc, NEW b \in Buf, MissAt(p, b) PROVE HoldInv'
  BY <1>4 DEF MissAt, BusyIsOwned, Owns
<1>5. ASSUME NEW p \in Proc, NEW b \in Buf, RecycleAt(p, b) PROVE HoldInv'
  BY <1>5 DEF RecycleAt, BusyIsOwned, Owns
<1>6. ASSUME NEW p \in Proc, NEW b \in Buf, brelse(p, b) PROVE HoldInv'
  BY <1>6, WokenFacts DEF brelse, BusyIsOwned, Owns
<1>7. ASSUME NEW p \in Proc, NEW b \in Buf, StartAt(p, b) PROVE HoldInv'
  BY <1>7 DEF StartAt
<1>8. ASSUME NEW p \in Proc, NEW b \in Buf, TestAt(p, b) PROVE HoldInv'
  BY <1>8 DEF TestAt
<1>9. ASSUME NEW p \in Proc, NEW b \in Buf, NEW d \in Data, bwrite(p, b, d) PROVE HoldInv'
  BY <1>9 DEF bwrite
<1>10. ASSUME NEW p \in Proc, NEW b \in Buf, NEW d \in Data, log_pin(p, b, d) PROVE HoldInv'
  BY <1>10 DEF log_pin, Pinned
<1>11. ASSUME NEW c \in Channel, DriveDone(c) PROVE HoldInv'
  BY <1>11 DEF DriveDone
<1>12. ASSUME Ignored PROVE HoldInv'
  BY Zenon, <1>12 DEF Ignored
<1>13. ASSUME NEW b \in Buf, DoneAt(b) PROVE HoldInv'
  BY <1>13, WokenFacts DEF DoneAt
<1>14. ASSUME UNCHANGED vars PROVE HoldInv'
  BY Zenon, <1>14 DEF vars
<1> QED
  BY ZenonT(60), <1>1, <1>2, <1>3, <1>4, <1>5, <1>6, <1>7, <1>8, <1>9, <1>10, <1>11, <1>12,
     <1>13, <1>14, NextCases DEF OtherStep

(* bget gives a sector no second buffer. *)
LEMMA OneStep ==
  ASSUME TypeOK, ListInv, HoldInv, QueueInv, BusyIsOwned, AcceptInv, OneBufferPerSector,
  [SpuriousNext]_vars
  PROVE  OneBufferPerSector'
<1> USE DEF TypeOK, OneBufferPerSector, bufvars, idevars, procvars
<1>1. ASSUME NEW p \in Proc, Dozes(p) PROVE OneBufferPerSector'
  BY <1>1 DEF Dozes
<1>2. ASSUME NEW p \in Proc, NEW s \in Sector, bread(p, s) PROVE OneBufferPerSector'
  BY <1>2 DEF bread
<1>3. ASSUME NEW p \in Proc, NEW b \in Buf, HitAt(p, b) PROVE OneBufferPerSector'
  BY <1>3 DEF HitAt
<1>4. ASSUME NEW p \in Proc, NEW b \in Buf, MissAt(p, b) PROVE OneBufferPerSector'
  BY <1>4 DEF MissAt
<1>5. ASSUME NEW p \in Proc, NEW b \in Buf, RecycleAt(p, b) PROVE OneBufferPerSector'
  BY <1>5 DEF RecycleAt
<1>6. ASSUME NEW p \in Proc, NEW b \in Buf, brelse(p, b) PROVE OneBufferPerSector'
  BY <1>6 DEF brelse
<1>7. ASSUME NEW p \in Proc, NEW b \in Buf, StartAt(p, b) PROVE OneBufferPerSector'
  BY <1>7 DEF StartAt
<1>8. ASSUME NEW p \in Proc, NEW b \in Buf, TestAt(p, b) PROVE OneBufferPerSector'
  BY <1>8 DEF TestAt
<1>9. ASSUME NEW p \in Proc, NEW b \in Buf, NEW d \in Data, bwrite(p, b,
d) PROVE OneBufferPerSector'
  BY <1>9 DEF bwrite
<1>10. ASSUME NEW p \in Proc, NEW b \in Buf, NEW d \in Data, log_pin(p, b,
d) PROVE OneBufferPerSector'
  BY <1>10 DEF log_pin
<1>11. ASSUME NEW c \in Channel, DriveDone(c) PROVE OneBufferPerSector'
  BY <1>11 DEF DriveDone
<1>12. ASSUME Ignored PROVE OneBufferPerSector'
  BY Zenon, <1>12 DEF Ignored
<1>13. ASSUME NEW b \in Buf, DoneAt(b) PROVE OneBufferPerSector'
  BY <1>13 DEF DoneAt
<1>14. ASSUME UNCHANGED vars PROVE OneBufferPerSector'
  BY <1>14 DEF vars
<1> QED
  BY Zenon, <1>1, <1>2, <1>3, <1>4, <1>5, <1>6, <1>7, <1>8, <1>9, <1>10, <1>11, <1>12, <1>13,
     <1>14, NextCases DEF OtherStep

(* B_BUSY is set and cleared by the owner only. *)
LEMMA OwnStep ==
  ASSUME TypeOK, ListInv, HoldInv, QueueInv, BusyIsOwned, AcceptInv, [SpuriousNext]_vars
  PROVE  BusyIsOwned'
<1> USE DEF TypeOK, BusyIsOwned, Owns, bufvars, idevars, procvars
<1>1. ASSUME NEW p \in Proc, Dozes(p) PROVE BusyIsOwned'
  <2>1. \A q \in Proc, b \in Buf : Owns(q, b)' <=> Owns(q, b)
    BY <1>1, DozesFacts
  <2>2. busy' = busy
    BY Zenon, <1>1, DozesFacts
  <2> HIDE DEF TypeOK, Owns
  <2> QED
    BY Zenon, <2>1, <2>2
<1>2. ASSUME NEW p \in Proc, NEW s \in Sector, bread(p, s) PROVE BusyIsOwned'
  <2>1. \A q \in Proc, a \in Buf : Owns(q, a)' <=> Owns(q, a)
    BY <1>2 DEF bread
  <2>2. busy' = busy
    BY <1>2 DEF bread
  <2> HIDE DEF Owns
  <2> QED
    BY <2>1, <2>2
<1>3. ASSUME NEW p \in Proc, NEW b \in Buf, HitAt(p, b) PROVE BusyIsOwned'
  BY SMTT(30), SMTT(31), SMTT(32), <1>3 DEF HitAt
<1>4. ASSUME NEW p \in Proc, NEW b \in Buf, MissAt(p, b) PROVE BusyIsOwned'
  BY <1>4 DEF MissAt
<1>5. ASSUME NEW p \in Proc, NEW b \in Buf, RecycleAt(p, b) PROVE BusyIsOwned'
  BY SMTT(30), SMTT(31), SMTT(32), <1>5 DEF RecycleAt
<1>6. ASSUME NEW p \in Proc, NEW b \in Buf, brelse(p, b) PROVE BusyIsOwned'
  BY <1>6, WokenFacts DEF brelse, Released, HoldInv
<1>7. ASSUME NEW p \in Proc, NEW b \in Buf, StartAt(p, b) PROVE BusyIsOwned'
  BY <1>7 DEF StartAt, HoldInv
<1>8. ASSUME NEW p \in Proc, NEW b \in Buf, TestAt(p, b) PROVE BusyIsOwned'
  BY <1>8 DEF TestAt, HoldInv
<1>9. ASSUME NEW p \in Proc, NEW b \in Buf, NEW d \in Data, bwrite(p, b, d) PROVE BusyIsOwned'
  BY <1>9 DEF bwrite, HoldInv
<1>10. ASSUME NEW p \in Proc, NEW b \in Buf, NEW d \in Data, log_pin(p, b, d) PROVE BusyIsOwned'
  BY Zenon, <1>10 DEF log_pin
<1>11. ASSUME NEW c \in Channel, DriveDone(c) PROVE BusyIsOwned'
  BY <1>11 DEF DriveDone
<1>12. ASSUME Ignored PROVE BusyIsOwned'
  BY ZenonT(60), <1>12 DEF Ignored
<1>13. ASSUME NEW b \in Buf, DoneAt(b) PROVE BusyIsOwned'
  BY <1>13, WokenFacts DEF DoneAt
<1>14. ASSUME UNCHANGED vars PROVE BusyIsOwned'
  BY <1>14 DEF vars
<1> QED
  BY ZenonT(60), <1>1, <1>2, <1>3, <1>4, <1>5, <1>6, <1>7, <1>8, <1>9, <1>10, <1>11, <1>12,
     <1>13, <1>14, NextCases DEF OtherStep

(* A buffer is queued by its owner, which waits until its request is done. *)
LEMMA QueueStep ==
  ASSUME TypeOK, ListInv, HoldInv, QueueInv, BusyIsOwned, AcceptInv, [SpuriousNext]_vars
  PROVE  QueueInv'
<1> USE DEF TypeOK, QueueInv, bufvars, idevars, procvars
<1>1. ASSUME NEW p \in Proc, Dozes(p) PROVE QueueInv'
  <2>1. idequeue' = idequeue /\ valid' = valid /\ dirty' = dirty
    BY ZenonT(60), <1>1, DozesFacts
  <2>2. \A q \in Proc : pc[q] \in {"iosleep", "iotest"} =>
          pc'[q] \in {"iosleep", "iotest"} /\ chan'[q] = chan[q]
    BY <1>1, DozesFacts
  <2> HIDE DEF TypeOK
  <2> QED
    BY <2>1, <2>2
<1>2. ASSUME NEW p \in Proc, NEW s \in Sector, bread(p, s) PROVE QueueInv'
  BY ZenonT(20), <1>2 DEF bread
<1>3. ASSUME NEW p \in Proc, NEW b \in Buf, HitAt(p, b) PROVE QueueInv'
  BY SMTT(30), SMTT(31), SMTT(32), <1>3 DEF HitAt
<1>4. ASSUME NEW p \in Proc, NEW b \in Buf, MissAt(p, b) PROVE QueueInv'
  BY Zenon, <1>4 DEF MissAt
<1>5. ASSUME NEW p \in Proc, NEW b \in Buf, RecycleAt(p, b) PROVE QueueInv'
  BY Zenon, <1>5 DEF RecycleAt, BusyIsOwned, Owns
<1>6. ASSUME NEW p \in Proc, NEW b \in Buf, brelse(p, b) PROVE QueueInv'
  BY ZenonT(60), <1>6, WokenFacts DEF brelse, BusyIsOwned, Owns, HoldInv
<1>7. ASSUME NEW p \in Proc, NEW b \in Buf, StartAt(p, b) PROVE QueueInv'
  <2>1. /\ idequeue' = Append(idequeue, b) /\ valid' = valid /\ dirty' = dirty /\ chan' = chan
        /\ b = chan[p] /\ (b \notin valid \/ b \in dirty)
    BY <1>7 DEF StartAt
  <2>2. pc[p] = "iderw" /\ pc' = [pc EXCEPT ![p] = "iosleep"]
    BY <1>7 DEF StartAt
  <2>3. ASSUME NEW i \in 1..Len(idequeue)
        PROVE  /\ idequeue'[i] \notin valid' \/ idequeue'[i] \in dirty'
               /\ \E q \in Proc : chan'[q] = idequeue'[i] /\ pc'[q] \in {"iosleep", "iotest"}
    <3>1. PICK q \in Proc : chan[q] = idequeue[i] /\ pc[q] \in {"iosleep", "iotest"}
      OBVIOUS
    <3>2. chan'[q] = idequeue'[i] /\ pc'[q] \in {"iosleep", "iotest"}
      BY <2>1, <2>2, <3>1
    <3>3. idequeue'[i] = idequeue[i]
      BY <2>1
    <3> QED
      BY <2>1, <3>2, <3>3
  <2>4. Len(idequeue') = Len(idequeue) + 1 /\ idequeue'[Len(idequeue) + 1] = b
    BY <2>1
  <2>5. /\ b \notin valid' \/ b \in dirty'
        /\ chan'[p] = b /\ pc'[p] \in {"iosleep", "iotest"}
    BY <2>1, <2>2
  <2> QED
    BY <2>3, <2>4, <2>5
<1>8. ASSUME NEW p \in Proc, NEW b \in Buf, TestAt(p, b) PROVE QueueInv'
  BY <1>8 DEF TestAt
<1>9. ASSUME NEW p \in Proc, NEW b \in Buf, NEW d \in Data, bwrite(p, b, d) PROVE QueueInv'
  BY ZenonT(60), <1>9 DEF bwrite, HoldInv
<1>10. ASSUME NEW p \in Proc, NEW b \in Buf, NEW d \in Data, log_pin(p, b, d) PROVE QueueInv'
  BY <1>10 DEF log_pin, Pinned
<1>11. ASSUME NEW c \in Channel, DriveDone(c) PROVE QueueInv'
  BY <1>11 DEF DriveDone
<1>12. ASSUME Ignored PROVE QueueInv'
  BY Zenon, <1>12 DEF Ignored
<1>13. ASSUME NEW b \in Buf, DoneAt(b) PROVE QueueInv'
  BY SMTT(30), SMTT(31), SMTT(32), <1>13, WokenFacts DEF DoneAt, IsInjective
<1>14. ASSUME UNCHANGED vars PROVE QueueInv'
  BY <1>14 DEF vars
<1> QED
  BY Zenon, <1>1, <1>2, <1>3, <1>4, <1>5, <1>6, <1>7, <1>8, <1>9, <1>10, <1>11, <1>12, <1>13,
     <1>14, NextCases DEF OtherStep

(* Who waits in iderw waits for a request in the queue, or has it done. *)
LEMMA WaitStep ==
  ASSUME TypeOK, ListInv, HoldInv, QueueInv, BusyIsOwned, AcceptInv, WaitInv, [SpuriousNext]_vars
  PROVE  WaitInv'
<1> USE DEF TypeOK, WaitInv, bufvars, idevars, procvars
<1>1. ASSUME NEW p \in Proc, Dozes(p) PROVE WaitInv'
  BY <1>1 DEF Dozes
<1>2. ASSUME NEW p \in Proc, NEW s \in Sector, bread(p, s) PROVE WaitInv'
  BY Zenon, <1>2 DEF bread
<1>3. ASSUME NEW p \in Proc, NEW b \in Buf, HitAt(p, b) PROVE WaitInv'
  BY <1>3 DEF HitAt
<1>4. ASSUME NEW p \in Proc, NEW b \in Buf, MissAt(p, b) PROVE WaitInv'
  BY Zenon, <1>4 DEF MissAt
<1>5. ASSUME NEW p \in Proc, NEW b \in Buf, RecycleAt(p, b) PROVE WaitInv'
  BY <1>5 DEF RecycleAt, BusyIsOwned, Owns
<1>6. ASSUME NEW p \in Proc, NEW b \in Buf, brelse(p, b) PROVE WaitInv'
  BY Zenon, <1>6, WokenFacts DEF brelse
<1>7. ASSUME NEW p \in Proc, NEW b \in Buf, StartAt(p, b) PROVE WaitInv'
  <2>1. /\ idequeue' = Append(idequeue, b) /\ valid' = valid /\ dirty' = dirty /\ chan' = chan
        /\ b = chan[p] /\ pc[p] = "iderw" /\ pc' = [pc EXCEPT ![p] = "iosleep"]
    BY <1>7 DEF StartAt
  <2>2. Len(idequeue') = Len(idequeue) + 1 /\ idequeue'[Len(idequeue) + 1] = b
    BY <2>1
  <2>3. \A i \in 1..Len(idequeue) : idequeue'[i] = idequeue[i] /\ i \in 1..Len(idequeue')
    BY SMTT(30), SMTT(31), SMTT(32), <2>1, <2>2
  <2>4. Len(idequeue) + 1 \in 1..Len(idequeue')
    BY <2>2
  <2> HIDE DEF TypeOK
  <2>5. ASSUME NEW q \in Proc, pc'[q] \in {"iosleep", "iotest"}
        PROVE  \/ chan'[q] \in valid' \ dirty'
               \/ \E i \in 1..Len(idequeue') : idequeue'[i] = chan'[q]
    <3>1. CASE q = p
      BY <2>1, <2>2, <2>4, <3>1
    <3>2. CASE q # p
      <4>1. pc[q] \in {"iosleep", "iotest"}
        BY <2>1, <2>5, <3>2 DEF TypeOK
      <4> QED
        BY <2>1, <2>3, <4>1
    <3> QED
      BY <3>1, <3>2
  <2>6. ASSUME NEW q \in Proc, pc'[q] = "iderw" PROVE pc[q] = "iderw"
    BY <2>1, <2>6 DEF TypeOK
  <2> QED
    BY <2>1, <2>5, <2>6
<1>8. ASSUME NEW p \in Proc, NEW b \in Buf, TestAt(p, b) PROVE WaitInv'
  BY Zenon, <1>8 DEF TestAt
<1>9. ASSUME NEW p \in Proc, NEW b \in Buf, NEW d \in Data, bwrite(p, b, d) PROVE WaitInv'
  BY <1>9 DEF bwrite, HoldInv, BusyIsOwned, Owns
<1>10. ASSUME NEW p \in Proc, NEW b \in Buf, NEW d \in Data, log_pin(p, b, d) PROVE WaitInv'
  BY Zenon, <1>10 DEF log_pin, Pinned, HoldInv, BusyIsOwned, Owns
<1>11. ASSUME NEW c \in Channel, DriveDone(c) PROVE WaitInv'
  BY <1>11 DEF DriveDone
<1>12. ASSUME Ignored PROVE WaitInv'
  BY Zenon, <1>12 DEF Ignored
<1>13. ASSUME NEW b \in Buf, DoneAt(b) PROVE WaitInv'
  <2>1. /\ idequeue # <<>> /\ b = idequeue[1] /\ idequeue' = Tail(idequeue) /\ chan' = chan
        /\ valid' = valid \cup {b} /\ dirty' = dirty \ {b} /\ pc' = Woken(pc, b)
    BY ZenonT(60), <1>13 DEF DoneAt
  <2>2. \A i \in 1..Len(idequeue) : i # 1 => /\ i - 1 \in 1..Len(idequeue')
                                             /\ idequeue'[i - 1] = idequeue[i]
    BY <2>1
  <2>3. 1 \in 1..Len(idequeue)
    BY <2>1
  <2>4. ASSUME NEW q \in Proc, pc[q] = "iderw" PROVE chan[q] # b
    BY <2>1, <2>3, <2>4, QueuedFacts
  <2> HIDE DEF TypeOK
  <2>5. ASSUME NEW q \in Proc, pc'[q] \in {"iosleep", "iotest"}
        PROVE  \/ chan'[q] \in valid' \ dirty'
               \/ \E i \in 1..Len(idequeue') : idequeue'[i] = chan'[q]
    <3>1. pc[q] \in {"iosleep", "iotest"}
      BY Zenon, <2>1, <2>5, WokenFacts
    <3>2. CASE chan[q] \in valid \ dirty
      BY <2>1, <3>2
    <3>3. CASE \E i \in 1..Len(idequeue) : idequeue[i] = chan[q]
      BY ZenonT(60), <2>1, <2>2, <3>3
    <3> QED
      BY ZenonT(60), <3>1, <3>2, <3>3
  <2>6. ASSUME NEW q \in Proc,
  pc'[q] = "iderw" PROVE chan'[q] \notin valid' \/ chan'[q] \in dirty'
    <3>1. pc[q] = "iderw"
      BY <2>1, <2>6, WokenFacts
    <3> QED
      BY <2>1, <2>4, <3>1
  <2> QED
    BY <2>5, <2>6
<1>14. ASSUME UNCHANGED vars PROVE WaitInv'
  BY <1>14 DEF vars
<1> QED
  BY ZenonT(60), <1>1, <1>2, <1>3, <1>4, <1>5, <1>6, <1>7, <1>8, <1>9, <1>10, <1>11, <1>12,
     <1>13, <1>14, NextCases DEF OtherStep

(* What leaves the queue, the drives and the first request alone keeps      *)
(* AcceptInv.                                                               *)
LEMMA SameAccept ==
  ASSUME AcceptInv, UNCHANGED <<idequeue, drive, disk, datareg>>,
         idequeue # <<>> => /\ sector'[idequeue[1]] = sector[idequeue[1]]
                            /\ data'[idequeue[1]] = data[idequeue[1]]
                            /\ idequeue[1] \in dirty' <=> idequeue[1] \in dirty
  PROVE  AcceptInv'
BY DEF AcceptInv, CommandFor

(* Each drive has at most a write that is on its way, or the first request. *)
LEMMA AcceptStep ==
  ASSUME TypeOK, ListInv, HoldInv, QueueInv, BusyIsOwned, AcceptInv, [SpuriousNext]_vars
  PROVE  AcceptInv'
<1> USE BufferAssumption DEF bufvars, idevars, procvars
<1>1. ASSUME NEW p \in Proc, Dozes(p) PROVE AcceptInv'
  BY Zenon, <1>1, DozesFacts, SameAccept
<1>2. ASSUME NEW p \in Proc, NEW s \in Sector, bread(p, s) PROVE AcceptInv'
  BY Zenon, <1>2, SameAccept DEF bread
<1>3. ASSUME NEW p \in Proc, NEW b \in Buf, HitAt(p, b) PROVE AcceptInv'
  BY <1>3, SameAccept DEF HitAt
<1>4. ASSUME NEW p \in Proc, NEW b \in Buf, MissAt(p, b) PROVE AcceptInv'
  BY Zenon, <1>4, SameAccept DEF MissAt
<1>5. ASSUME NEW p \in Proc, NEW b \in Buf, RecycleAt(p, b) PROVE AcceptInv'
  <2>1. ASSUME idequeue # <<>> PROVE idequeue[1] # b /\ idequeue[1] \in Buf
    <3>1. 1 \in 1..Len(idequeue)
      BY <2>1 DEF TypeOK
    <3> QED
      BY <1>5, <2>1, <3>1, QueuedFacts DEF RecycleAt, TypeOK
  <2> QED
    BY Zenon, <1>5, <2>1, SameAccept DEF RecycleAt, TypeOK
<1>6. ASSUME NEW p \in Proc, NEW b \in Buf, brelse(p, b) PROVE AcceptInv'
  BY <1>6, SameAccept DEF brelse
<1>7. ASSUME NEW p \in Proc, NEW b \in Buf, StartAt(p, b) PROVE AcceptInv'
  <2>1. sector[b] \in Sector /\ ChannelOf[sector[b]] \in Channel
    BY Zenon, <1>7 DEF StartAt, ListInv
  <2>2. UNCHANGED <<sector, dirty, data, disk, datareg>> /\ idequeue' = Append(idequeue, b)
    BY <1>7 DEF StartAt
  <2>3. idequeue \in Seq(Buf) /\ drive \in [Channel -> Command]
    BY ZenonT(20), SMTT(30) DEF TypeOK
  <2>4. CASE idequeue # <<>>
    <3>1. idequeue'[1] = idequeue[1] /\ idequeue' # <<>>
      BY <2>2, <2>3, <2>4
    <3>2. drive' = drive
      BY Zenon, <1>7, <2>4 DEF StartAt
    <3> QED
      BY <2>2, <2>4, <3>1, <3>2 DEF AcceptInv, CommandFor
  <2>5. CASE idequeue = <<>>
    <3>1. idequeue'[1] = b /\ idequeue' # <<>>
      BY <2>2, <2>3, <2>5
    <3>2. drive' = [drive EXCEPT ![ChannelOf[sector[b]]] = CommandFor(b)]
      BY Zenon, <1>7, <2>5 DEF StartAt
    <3>3. CommandFor(b)' = CommandFor(b) /\ sector' = sector
      BY <2>2 DEF CommandFor
    <3>4. b \in dirty => data[b] \in Data
      BY DEF TypeOK
    <3>5. ASSUME NEW c \in Channel
          PROVE  \/ drive'[c] = Idle
                 \/ \E s \in Sector, d \in Data : drive'[c] = WriteCmd(s, d) /\ ChannelOf[s] = c
                 \/ drive'[c] = ReadCmd(sector[b]) /\ ChannelOf[sector[b]] = c
      <4>1. CASE c = ChannelOf[sector[b]]
        BY Zenon, <2>1, <2>3, <3>2, <3>4, <4>1 DEF CommandFor
      <4>2. CASE c # ChannelOf[sector[b]]
        BY <2>3, <2>5, <3>2, <4>2 DEF AcceptInv
      <4> QED
        BY <4>1, <4>2
    <3>6. drive'[ChannelOf[sector[b]]] = CommandFor(b)
      BY <2>1, <2>3, <3>2
    <3> QED
      BY <3>1, <3>3, <3>5, <3>6 DEF AcceptInv
  <2> QED
    BY Zenon, <2>4, <2>5
<1>8. ASSUME NEW p \in Proc, NEW b \in Buf, TestAt(p, b) PROVE AcceptInv'
  BY Zenon, <1>8, SameAccept DEF TestAt
<1>9. ASSUME NEW p \in Proc, NEW b \in Buf, NEW d \in Data, bwrite(p, b, d) PROVE AcceptInv'
  <2>1. ASSUME idequeue # <<>> PROVE idequeue[1] # b /\ idequeue[1] \in Buf
    <3>1. 1 \in 1..Len(idequeue)
      BY <2>1 DEF TypeOK
    <3> QED
      BY Zenon, <1>9, <2>1, <3>1, QueuedFacts DEF bwrite, TypeOK
  <2> QED
    BY Zenon, <1>9, <2>1, SameAccept DEF bwrite, TypeOK
<1>10. ASSUME NEW p \in Proc, NEW b \in Buf, NEW d \in Data, log_pin(p, b, d) PROVE AcceptInv'
  <2>1. ASSUME idequeue # <<>> PROVE idequeue[1] # b /\ idequeue[1] \in Buf
    <3>1. 1 \in 1..Len(idequeue)
      BY <2>1 DEF TypeOK
    <3> QED
      BY ZenonT(60), <1>10, <2>1, <3>1, QueuedFacts DEF log_pin, Pinned, TypeOK
  <2> QED
    BY Zenon, <1>10, <2>1, SameAccept DEF log_pin, Pinned, TypeOK
<1>11. ASSUME NEW c \in Channel, DriveDone(c) PROVE AcceptInv'
  <2>1. drive' = [drive EXCEPT ![c] = Idle] /\ drive \in [Channel -> Command]
        /\ UNCHANGED <<sector, dirty, data, idequeue>> /\ drive[c] # Idle
    BY ZenonT(60), <1>11 DEF DriveDone, TypeOK
  <2>2. ASSUME NEW e \in Channel
        PROVE  \/ drive'[e] = Idle
               \/ \E s \in Sector, d \in Data : drive'[e] = WriteCmd(s, d) /\ ChannelOf[s] = e
               \/ /\ idequeue # <<>> /\ drive'[e] = ReadCmd(sector[idequeue[1]])
                  /\ ChannelOf[sector[idequeue[1]]] = e
    <3>1. drive'[e] = Idle \/ drive'[e] = drive[e]
      BY <2>1
    <3> QED
      BY ZenonT(60), <3>1 DEF AcceptInv
  <2>3. ASSUME idequeue # <<>>
        PROVE  LET b == idequeue[1]
                   e == ChannelOf[sector[b]]
               IN  \/ drive'[e] = CommandFor(b)
                   \/ /\ drive'[e] = Idle
                      /\ disk'[sector[b]] = IF b \in dirty THEN data[b] ELSE datareg'[e]
    <3> DEFINE b == idequeue[1]
               e == ChannelOf[sector[b]]
    <3>1. b \in Buf /\ 1 \in 1..Len(idequeue)
      BY <2>3 DEF TypeOK
    <3>2. sector[b] \in Sector /\ e \in Channel
      BY Zenon, <3>1, QueuedFacts DEF ListInv
    <3>3. \/ drive[e] = CommandFor(b)
          \/ drive[e] = Idle /\ disk[sector[b]] = IF b \in dirty THEN data[b] ELSE datareg[e]
      BY Zenon, <2>3 DEF AcceptInv
    <3>4. \/ \E s \in Sector, d \in Data : drive[c] = WriteCmd(s, d) /\ ChannelOf[s] = c
          \/ drive[c] = ReadCmd(sector[b]) /\ ChannelOf[sector[b]] = c
      BY <2>1, <2>3 DEF AcceptInv
    <3> HIDE DEF b, e
    <3>5. CASE c = e
      <4>1. drive'[e] = Idle /\ drive[e] = CommandFor(b)
        BY Zenon, <2>1, <3>3, <3>5
      <4>2. CASE b \in dirty
        <5>1. drive[c].op = "write" /\ drive[c].sector = sector[b] /\ drive[c].data = data[b]
          BY <3>5, <4>1, <4>2 DEF CommandFor, WriteCmd
        <5>2. disk' = [disk EXCEPT ![sector[b]] = data[b]]
          BY Zenon, <1>11, <5>1 DEF DriveDone
        <5> QED
          BY ZenonT(60), <3>2, <4>1, <4>2, <5>2 DEF TypeOK, b, e
      <4>3. CASE b \notin dirty
        <5>1. drive[c].op # "write" /\ drive[c].sector = sector[b]
          BY <3>5, <4>1, <4>3 DEF CommandFor, ReadCmd
        <5>2. datareg' = [datareg EXCEPT ![e] = disk[sector[b]]] /\ disk' = disk
          BY Zenon, <1>11, <3>5, <5>1 DEF DriveDone
        <5> QED
          BY Zenon, <3>2, <4>1, <4>3, <5>2 DEF TypeOK, b, e
      <4> QED
        BY ZenonT(60), <4>2, <4>3
    <3>6. CASE c # e
      <4>1. PICK s \in Sector, d \in Data : drive[c] = WriteCmd(s, d) /\ ChannelOf[s] = c
        BY Zenon, <3>4, <3>6 DEF e
      <4>2. disk' = [disk EXCEPT ![s] = d] /\ datareg' = datareg
        BY <1>11, <4>1 DEF DriveDone, WriteCmd
      <4>3. s # sector[b]
        BY Zenon, <3>6, <4>1 DEF e
      <4>4. disk'[sector[b]] = disk[sector[b]] /\ drive'[e] = drive[e]
        BY Zenon, <2>1, <3>2, <3>6, <4>2, <4>3 DEF TypeOK
      <4> QED
        BY <3>3, <4>2, <4>4 DEF b, e
    <3> QED
      BY <3>5, <3>6
  <2>4. \A b : CommandFor(b)' = CommandFor(b)
    BY <2>1 DEF CommandFor
  <2> QED
    BY <2>1, <2>2, <2>3, <2>4 DEF AcceptInv
<1>12. ASSUME Ignored PROVE AcceptInv'
  BY <1>12, SameAccept DEF Ignored
<1>13. ASSUME NEW b \in Buf, DoneAt(b) PROVE AcceptInv'
  <2>1. /\ idequeue # <<>> /\ b = idequeue[1] /\ idequeue' = Tail(idequeue)
        /\ UNCHANGED <<sector, disk>> /\ drive \in [Channel -> Command] /\ idequeue \in Seq(Buf)
    BY ZenonT(60), <1>13 DEF DoneAt, TypeOK
  <2>2. ASSUME NEW c \in Channel
        PROVE  \/ drive[c] = Idle
               \/ \E s \in Sector, d \in Data : drive[c] = WriteCmd(s, d) /\ ChannelOf[s] = c
    <3>1. CASE drive[c] = ReadCmd(sector[b]) /\ ChannelOf[sector[b]] = c
      <4>1. \/ drive[c] = CommandFor(b)
            \/ drive[c] = Idle
        BY Zenon, <2>1, <3>1 DEF AcceptInv
      <4>2. CASE b \in dirty
        BY <3>1, <4>1, <4>2 DEF CommandFor, ReadCmd, WriteCmd, Idle
      <4>3. CASE b \notin dirty
        BY Zenon, <1>13, <3>1, <4>3 DEF DoneAt
      <4> QED
        BY Zenon, <4>2, <4>3
    <3> QED
      BY ZenonT(60), <2>1, <3>1 DEF AcceptInv
  <2>3. CASE Tail(idequeue) = <<>>
    <3>1. drive' = drive /\ idequeue' = <<>>
      BY <1>13, <2>1, <2>3 DEF DoneAt
    <3> QED
      BY Zenon, <2>2, <3>1 DEF AcceptInv
  <2>4. CASE Tail(idequeue) # <<>>
    <3>1. PICK e \in Buf : /\ 2 \in 1..Len(idequeue) /\ e = idequeue[2] /\ e # b
                           /\ idequeue' # <<>> /\ idequeue'[1] = e
      BY <2>1, <2>4 DEF TypeOK, IsInjective
    <3>2. sector[e] \in Sector /\ ChannelOf[sector[e]] \in Channel
      BY ZenonT(60), <3>1, QueuedFacts DEF ListInv
    <3>3. drive' = [drive EXCEPT ![ChannelOf[sector[e]]] = CommandFor(e)]
      BY Zenon, <1>13, <2>4, <3>1 DEF DoneAt
    <3>4. CommandFor(e)' = CommandFor(e)
      <4>1. (e \in dirty' <=> e \in dirty) /\ data'[e] = data[e] /\ sector' = sector
        BY ZenonT(60), <1>13, <3>1 DEF DoneAt, TypeOK
      <4> QED
        BY Zenon, <4>1 DEF CommandFor
    <3>5. e \in dirty => data[e] \in Data
      BY DEF TypeOK
    <3>6. ASSUME NEW c \in Channel
          PROVE  \/ drive'[c] = Idle
                 \/ \E s \in Sector, d \in Data : drive'[c] = WriteCmd(s, d) /\ ChannelOf[s] = c
                 \/ drive'[c] = ReadCmd(sector[e]) /\ ChannelOf[sector[e]] = c
      <4>1. CASE c = ChannelOf[sector[e]]
        BY ZenonT(60), <2>1, <3>2, <3>3, <3>5, <4>1 DEF CommandFor
      <4>2. CASE c # ChannelOf[sector[e]]
        BY <2>1, <2>2, <3>3, <4>2
      <4> QED
        BY <4>1, <4>2
    <3>7. drive'[ChannelOf[sector[e]]] = CommandFor(e)
      BY <2>1, <3>2, <3>3
    <3> QED
      BY ZenonT(60), <2>1, <3>1, <3>4, <3>6, <3>7 DEF AcceptInv
  <2> QED
    BY <2>3, <2>4
<1>14. ASSUME UNCHANGED vars PROVE AcceptInv'
  BY <1>14, SameAccept DEF vars
<1> QED
  BY Zenon, <1>1, <1>2, <1>3, <1>4, <1>5, <1>6, <1>7, <1>8, <1>9, <1>10, <1>11, <1>12, <1>13, <1>14,
     NextCases DEF OtherStep

(* What leaves the drives alone, and changes no buffer that stays clean,    *)
(* keeps CleanIsAccepted.                                                   *)
LEMMA SameClean ==
  ASSUME CleanIsAccepted, UNCHANGED <<drive, disk>>, valid' \ dirty' \subseteq valid \ dirty,
         \A b \in valid' \ dirty' : sector'[b] = sector[b] /\ data'[b] = data[b]
  PROVE  CleanIsAccepted'
<1>1. Accepted' = Accepted
  BY DEF Accepted
<1> QED
  BY <1>1 DEF CleanIsAccepted

(* What is clean in the cache is what the drives have accepted. *)
LEMMA CleanStep ==
  ASSUME TypeOK, ListInv, HoldInv, QueueInv, BusyIsOwned, AcceptInv, OneBufferPerSector,
  CleanIsAccepted, [SpuriousNext]_vars
  PROVE  CleanIsAccepted'
<1> USE BufferAssumption DEF bufvars, idevars, procvars
<1>1. ASSUME NEW p \in Proc, Dozes(p) PROVE CleanIsAccepted'
  BY Zenon, <1>1, SameClean DEF Dozes, TypeOK
<1>2. ASSUME NEW p \in Proc, NEW s \in Sector, bread(p, s) PROVE CleanIsAccepted'
  BY Zenon, <1>2, SameClean DEF bread, TypeOK
<1>3. ASSUME NEW p \in Proc, NEW b \in Buf, HitAt(p, b) PROVE CleanIsAccepted'
  BY Zenon, <1>3, SameClean DEF HitAt, TypeOK
<1>4. ASSUME NEW p \in Proc, NEW b \in Buf, MissAt(p, b) PROVE CleanIsAccepted'
  BY Zenon, <1>4, SameClean DEF MissAt, TypeOK
<1>5. ASSUME NEW p \in Proc, NEW b \in Buf, RecycleAt(p, b) PROVE CleanIsAccepted'
  BY Zenon, <1>5, SameClean DEF RecycleAt, TypeOK
<1>6. ASSUME NEW p \in Proc, NEW b \in Buf, brelse(p, b) PROVE CleanIsAccepted'
  BY <1>6, SameClean DEF brelse, TypeOK
<1>7. ASSUME NEW p \in Proc, NEW b \in Buf, StartAt(p, b) PROVE CleanIsAccepted'
  <2>1. sector[b] \in Sector
    BY Zenon, <1>7 DEF StartAt, ListInv
  <2>2. UNCHANGED <<sector, valid, dirty, data, disk>>
    BY ZenonT(60), <1>7 DEF StartAt
  <2>3. CASE idequeue # <<>>
    <3>1. drive' = drive
      BY Zenon, <1>7, <2>3 DEF StartAt
    <3> QED
      BY Zenon, <2>2, <3>1, SameClean
  <2>4. CASE idequeue = <<>>
    <3>0. /\ drive[ChannelOf[sector[b]]] = Idle
          /\ drive' = [drive EXCEPT ![ChannelOf[sector[b]]] = CommandFor(b)]
      BY Zenon, <1>7, <2>4 DEF StartAt
    <3>1. \A s \in Sector :
            Accepted'[s] = IF b \in dirty /\ s = sector[b] THEN data[b] ELSE Accepted[s]
      BY Zenon, <2>1, <2>2, <3>0, StartAccepted
    <3>2. ASSUME NEW a \in valid \ dirty PROVE sector[a] \in Sector /\ (b \in dirty => sector[a] # sector[b])
      BY ZenonT(60), <2>1 DEF ListInv, OneBufferPerSector, TypeOK
    <3> QED
      BY ZenonT(60), <2>2, <3>1, <3>2 DEF CleanIsAccepted
  <2> QED
    BY Zenon, <2>3, <2>4
<1>8. ASSUME NEW p \in Proc, NEW b \in Buf, TestAt(p, b) PROVE CleanIsAccepted'
  BY Zenon, <1>8, SameClean DEF TestAt, TypeOK
<1>9. ASSUME NEW p \in Proc, NEW b \in Buf, NEW d \in Data, bwrite(p, b,
d) PROVE CleanIsAccepted'
  BY Zenon, <1>9, SameClean DEF bwrite, TypeOK
<1>10. ASSUME NEW p \in Proc, NEW b \in Buf, NEW d \in Data, log_pin(p, b,
d) PROVE CleanIsAccepted'
  BY <1>10, SameClean DEF log_pin, Pinned, TypeOK
<1>11. ASSUME NEW c \in Channel, DriveDone(c) PROVE CleanIsAccepted'
  <2>1. \A s \in Sector : Accepted'[s] = Accepted[s]
    BY Zenon, <1>11, DoneAccepted
  <2>2. UNCHANGED <<sector, valid, dirty, data>>
    BY <1>11 DEF DriveDone
  <2>3. \A a \in valid \ dirty : sector[a] \in Sector
    BY DEF ListInv
  <2> QED
    BY ZenonT(60), <2>1, <2>2, <2>3 DEF CleanIsAccepted
<1>12. ASSUME Ignored PROVE CleanIsAccepted'
  BY Zenon, <1>12, SameClean DEF Ignored, TypeOK
<1>13. ASSUME NEW b \in Buf, DoneAt(b) PROVE CleanIsAccepted'
  <2>1. /\ idequeue # <<>> /\ b = idequeue[1] /\ sector' = sector /\ disk' = disk
        /\ valid' = valid \cup {b} /\ dirty' = dirty \ {b}
        /\ data' = [data EXCEPT ![b] = Accepted[sector[b]]]
    BY ZenonT(60), <1>13 DEF DoneAt
  <2>2. 1 \in 1..Len(idequeue)
    BY <2>1 DEF TypeOK
  <2>3. sector[b] \in Sector
    BY Zenon, <2>1, <2>2, QueuedFacts DEF ListInv
  <2>4. ASSUME NEW a \in valid' \ dirty' PROVE Accepted'[sector[a]] = Accepted[sector[a]]
    <3>1. a \in Buf /\ sector[a] \in Sector
      BY Zenon, <2>1, <2>3 DEF ListInv, TypeOK
    <3>2. CASE Tail(idequeue) = <<>>
      <4>1. drive' = drive
        BY <1>13, <3>2 DEF DoneAt
      <4> QED
        BY Zenon, <2>1, <4>1 DEF Accepted
    <3>3. CASE Tail(idequeue) # <<>>
      <4>1. PICK e \in Buf : 2 \in 1..Len(idequeue) /\ e = idequeue[2] /\ e # b
        BY <2>1, <3>3 DEF TypeOK, IsInjective
      <4>2. sector[e] \in Sector
        BY ZenonT(60), <4>1, QueuedFacts DEF ListInv
      <4>3. \A s \in Sector : Accepted'[s] = IF e \in dirty /\ s = sector[e] THEN data[e] ELSE Accepted[s]
        BY ZenonT(60), <1>13, <2>1, <3>3, <4>1, <4>2, StartAccepted DEF DoneAt
      <4>4. e \in dirty => e # a
        BY Zenon, <2>1, <4>1
      <4>5. e \in dirty => sector[a] # sector[e]
        BY <3>1, <4>2, <4>4 DEF OneBufferPerSector
      <4> QED
        BY Zenon, <3>1, <4>3, <4>5
    <3> QED
      BY Zenon, <3>2, <3>3
  <2>5. ASSUME NEW a \in valid' \ dirty' PROVE data'[a] = Accepted[sector[a]]
    <3>1. CASE a = b
      BY Zenon, <2>1, <3>1 DEF TypeOK
    <3>2. CASE a # b
      BY Zenon, <2>1, <3>2 DEF TypeOK, CleanIsAccepted
    <3> QED
      BY Zenon, <3>1, <3>2
  <2> QED
    BY <2>1, <2>4, <2>5 DEF CleanIsAccepted
<1>14. ASSUME UNCHANGED vars PROVE CleanIsAccepted'
  BY <1>14, SameClean DEF vars
<1> QED
  BY Zenon, <1>1, <1>2, <1>3, <1>4, <1>5, <1>6, <1>7, <1>8, <1>9, <1>10, <1>11, <1>12, <1>13,
     <1>14, NextCases DEF OtherStep

(* The empty cache that binit leaves satisfies the invariant.              *)
LEMMA InitInv == ASSUME Init PROVE CacheInv
<1> USE BufferAssumption DEF Init, Buf
<1>1. TypeOK
  BY DEF TypeOK, IsInjective, Command
<1>2. ListInv
  <2>1. ASSUME NEW b \in Buf PROVE NBUF + 1 - b \in 1..NBUF /\ lru[NBUF + 1 - b] = b
    OBVIOUS
  <2> QED
    BY <2>1 DEF ListInv
<1>3. HoldInv /\ QueueInv /\ WaitInv
  BY DEF HoldInv, QueueInv, WaitInv
<1>4. AcceptInv
  BY DEF AcceptInv
<1>6. OneBufferPerSector /\ CleanIsAccepted
  BY DEF OneBufferPerSector, CleanIsAccepted
<1>7. BusyIsOwned
  BY DEF BusyIsOwned, Owns
<1> QED
  BY Zenon, <1>1, <1>2, <1>3, <1>4, <1>6, <1>7 DEF CacheInv

(* Every step of the cache, the driver and the drives keeps CacheInv, also  *)
(* one that begins with an interrupt from nowhere.                          *)
LEMMA StepInv == ASSUME CacheInv, [SpuriousNext]_vars PROVE CacheInv'
<1>1. /\ TypeOK /\ ListInv /\ HoldInv /\ QueueInv /\ WaitInv /\ AcceptInv
      /\ OneBufferPerSector /\ BusyIsOwned /\ CleanIsAccepted
  BY DEF CacheInv
<1> QED
  BY <1>1, TypeStep, ListStep, HoldStep, QueueStep, WaitStep, AcceptStep, OneStep, OwnStep,
     CleanStep DEF CacheInv

(* CacheInv holds at all times, whatever interrupts come. *)
THEOREM CacheInvariant == SpuriousSpec => []CacheInv
<1>1. Init => CacheInv
  BY InitInv DEF BufferInv
<1>2. CacheInv /\ [SpuriousNext]_vars => CacheInv'
  BY StepInv
<1> QED
  BY <1>1, <1>2, PTL DEF SpuriousSpec

(* ideintr ends each request once and in the order of idequeue, iderw never *)
(* panics, and a clean buffer is what the drive will have written, although *)
(* interrupts may come that no drive raised.                                *)
THEOREM DriverIsCoherent == SpuriousSpec => []DriverCoherent
<1>1. CacheInv => DriverCoherent
  <2> SUFFICES ASSUME CacheInv PROVE DriverCoherent
    OBVIOUS
  <2>1. TypeOK /\ ListInv /\ HoldInv /\ QueueInv /\ WaitInv /\ BusyIsOwned /\ CleanIsAccepted
    BY ZenonT(20), SMTT(30) DEF CacheInv
  <2>2. ASSUME NEW b \in Buf
        PROVE  (b \in Range(idequeue)) <=> \E i \in 1..Len(idequeue) : idequeue[i] = b
    BY <2>1 DEF TypeOK, Range
  <2>3. ASSUME NEW b \in Buf, NEW i \in 1..Len(idequeue), idequeue[i] = b
        PROVE  \E p \in Proc : /\ chan[p] = b /\ pc[p] \in {"iosleep", "iotest"}
                               /\ (b \notin valid \/ b \in dirty)
    BY <2>1, <2>3 DEF QueueInv
  <2>4. ASSUME NEW b \in Buf, NEW p \in Proc, chan[p] = b, pc[p] \in {"iosleep", "iotest"},
               b \notin valid \/ b \in dirty
        PROVE  \E i \in 1..Len(idequeue) : idequeue[i] = b
    BY Zenon, <2>1, <2>4 DEF WaitInv
  <2>5. ASSUME NEW p \in Proc, pc[p] = "iderw" PROVE ~IderwPanics(chan[p])
    <3>1. chan[p] \in Buf /\ Owns(p, chan[p])
      BY <2>1, <2>5 DEF HoldInv, Owns
    <3> QED
      BY <2>1, <2>5, <3>1 DEF BusyIsOwned, WaitInv, IderwPanics
  <2> QED
    BY <2>1, <2>2, <2>3, <2>4, <2>5 DEF DriverCoherent, QueueIsWaiting
<1> QED
  BY <1>1, CacheInvariant, PTL

(***************************************************************************)
(* What follows from the invariant: with interrupts of the drives alone a  *)
(* clean buffer is on the disk, the cache and the driver implement         *)
(* SectorStore, step by step, and bget does not run out of buffers.        *)
(***************************************************************************)
\* ideintr has done the request of b, at the interrupt of the drive of b.
InterruptAt(c, b) ==
  /\ DoneAt(b) /\ c = ChannelOf[sector[b]]
  /\ c \in irq /\ irq' = irq \ {c} /\ drive[c] = Idle

(* When every interrupt is that of a drive, it ends the request of that    *)
(* drive.                                                                  *)
LEMMA DriverCases ==
  ASSUME CacheInv, DriverInv, Next
  PROVE  OtherStep \/ \E c \in Channel, b \in Buf : InterruptAt(c, b)
<1>1. TypeOK /\ ListInv /\ HoldInv /\ QueueInv /\ BusyIsOwned /\ AcceptInv
  BY DEF CacheInv
<1>2. ASSUME NEW p \in Proc, KillWakes(p) PROVE Dozes(p)
  BY <1>2 DEF KillWakes, Dozes
<1>3. ASSUME NEW c \in Channel, Interrupt(c) PROVE \E b \in Buf : InterruptAt(c, b)
  <2>1. c \in irq /\ irq' = irq \ {c} /\ ideintr /\ disk' = disk
    BY <1>3 DEF Interrupt
  <2>2. idequeue # <<>> /\ c = ChannelOf[sector[idequeue[1]]] /\ drive[c] = Idle
    BY <2>1 DEF DriverInv
  <2>3. PICK b \in Buf : DoneAt(b)
    BY <1>1, <2>1, <2>2, CompleteEffect DEF Ignored
  <2> QED
    BY Zenon, <2>1, <2>2, <2>3 DEF InterruptAt, DoneAt
<1> QED
  BY <1>1, <1>2, <1>3, HitEffect, RecycleEffect, StartEffect, TestEffect, SleepEffect
     DEF Next, OtherStep

(* Only the channel of the first request is at work. *)
LEMMA DriverStep ==
  ASSUME CacheInv, DriverInv, [Next]_vars
  PROVE  DriverInv'
<1>0. TypeOK /\ ListInv /\ HoldInv /\ QueueInv /\ BusyIsOwned
  BY DEF CacheInv
<1> USE <1>0, BufferAssumption DEF TypeOK, DriverInv, CommandFor, bufvars, idevars, procvars
<1>1. ASSUME NEW p \in Proc, Dozes(p) PROVE DriverInv'
  BY Zenon, <1>1 DEF Dozes
<1>2. ASSUME NEW p \in Proc, NEW s \in Sector, bread(p, s) PROVE DriverInv'
  BY Zenon, <1>2 DEF bread
<1>3. ASSUME NEW p \in Proc, NEW b \in Buf, HitAt(p, b) PROVE DriverInv'
  BY Zenon, <1>3 DEF HitAt
<1>4. ASSUME NEW p \in Proc, NEW b \in Buf, MissAt(p, b) PROVE DriverInv'
  BY ZenonT(30), <1>4 DEF MissAt
<1>5. ASSUME NEW p \in Proc, NEW b \in Buf, RecycleAt(p, b) PROVE DriverInv'
  BY SMTT(30), SMTT(31), SMTT(32), <1>5 DEF RecycleAt, QueueInv, BusyIsOwned, Owns
<1>6. ASSUME NEW p \in Proc, NEW b \in Buf, brelse(p, b) PROVE DriverInv'
  BY <1>6 DEF brelse
<1>7. ASSUME NEW p \in Proc, NEW b \in Buf, StartAt(p, b) PROVE DriverInv'
  <2>1. CASE idequeue = <<>>
    <3>1. sector[b] \in Sector
      BY ZenonT(20), <1>7 DEF StartAt, ListInv
    <3>2. Append(idequeue, b)[1] = b /\ Append(idequeue, b) # <<>>
      BY Zenon, <2>1, FirstOf
    <3> QED
      BY SMTT(30), SMTT(31), SMTT(32), <1>7, <2>1, <3>1, <3>2 DEF StartAt
  <2>2. CASE idequeue # <<>>
    <3>1. Append(idequeue, b)[1] = idequeue[1] /\ Append(idequeue, b) # <<>>
      BY <2>2
    <3> QED
      BY ZenonT(20), <1>7, <2>2, <3>1 DEF StartAt
  <2> QED
    BY ZenonT(60), <2>1, <2>2
<1>8. ASSUME NEW p \in Proc, NEW b \in Buf, TestAt(p, b) PROVE DriverInv'
  BY Zenon, <1>8 DEF TestAt
<1>9. ASSUME NEW p \in Proc, NEW b \in Buf, NEW d \in Data, bwrite(p, b, d) PROVE DriverInv'
  <2>1. ASSUME idequeue # <<>> PROVE idequeue[1] # b
    <3>1. 1 \in 1..Len(idequeue)
      BY SMTT(30), SMTT(31), SMTT(32), <2>1
    <3> QED
      BY Zenon, <1>9, <3>1, QueuedFacts DEF bwrite
  <2> QED
    BY <1>9, <2>1 DEF bwrite
<1>10. ASSUME NEW p \in Proc, NEW b \in Buf, NEW d \in Data, log_pin(p, b, d) PROVE DriverInv'
  <2>1. ASSUME idequeue # <<>> PROVE idequeue[1] # b
    <3>1. 1 \in 1..Len(idequeue)
      BY <2>1
    <3> QED
      BY ZenonT(30), <1>10, <3>1, QueuedFacts DEF log_pin
  <2> QED
    BY <1>10, <2>1 DEF log_pin, Pinned
<1>11. ASSUME NEW c \in Channel, DriveDone(c) PROVE DriverInv'
  <2> DEFINE b == idequeue[1]
  <2>1. idequeue # <<>> /\ b \in Buf
    BY SMTT(30), SMTT(31), SMTT(32), <1>11 DEF DriveDone
  <2>2. 1 \in 1..Len(idequeue)
    BY <2>1
  <2>3. sector[b] \in Sector
    BY Zenon, <2>2, QueuedFacts DEF ListInv
  <2>4. c = ChannelOf[sector[b]] /\ c \notin irq /\ drive[c] = CommandFor(b)
    BY <1>11, <2>1 DEF DriveDone
  <2>5. CASE b \in dirty
    <3>1. drive[c].op = "write" /\ drive[c].sector = sector[b] /\ drive[c].data = data[b]
      BY SMTT(30), SMTT(31), SMTT(32), <2>4, <2>5 DEF WriteCmd
    <3>2. disk' = [disk EXCEPT ![sector[b]] = data[b]]
      BY <1>11, <3>1 DEF DriveDone
    <3> QED
      BY ZenonT(60), <1>11, <2>1, <2>3, <2>4, <2>5, <3>2 DEF DriveDone
  <2>6. CASE b \notin dirty
    <3>1. drive[c].op # "write" /\ drive[c].sector = sector[b]
      BY SMTT(30), SMTT(31), SMTT(32), <2>4, <2>6 DEF ReadCmd
    <3>2. datareg' = [datareg EXCEPT ![c] = disk[sector[b]]] /\ disk' = disk
      BY <1>11, <3>1 DEF DriveDone
    <3> QED
      BY ZenonT(60), <1>11, <2>1, <2>3, <2>4, <2>6, <3>2 DEF DriveDone
  <2> QED
    BY ZenonT(60), <2>5, <2>6
<1>12. ASSUME NEW c \in Channel, NEW b \in Buf, InterruptAt(c, b) PROVE DriverInv'
  <2>1. DoneAt(b) /\ drive[c] = Idle /\ irq' = {} /\ \A d \in Channel : drive[d] = Idle
    BY <1>12 DEF InterruptAt, DoneAt
  <2>2. CASE Tail(idequeue) = <<>>
    BY ZenonT(60), <2>1, <2>2 DEF DoneAt
  <2>3. CASE Tail(idequeue) # <<>>
    <3>1. PICK e \in Buf : /\ 2 \in 1..Len(idequeue) /\ e = idequeue[2] /\ e # b
                           /\ Tail(idequeue)[1] = e
      BY <2>1, <2>3 DEF DoneAt, IsInjective
    <3>2. sector[e] \in Sector
      BY Zenon, <3>1, QueuedFacts DEF ListInv
    <3>3. /\ drive' = [drive EXCEPT ![ChannelOf[sector[e]]] = CommandFor(e)]
          /\ idequeue' # <<>> /\ idequeue'[1] = e
      BY <2>1, <2>3, <3>1 DEF DoneAt
    <3>4. sector' = sector /\ CommandFor(e)' = CommandFor(e)
      <4>1. sector' = sector /\ (e \in dirty' <=> e \in dirty) /\ data'[e] = data[e]
        BY Zenon, <2>1, <3>1 DEF DoneAt
      <4> QED
        BY Zenon, <4>1 DEF WriteCmd, ReadCmd
    <3> HIDE DEF CommandFor
    <3>5. ChannelOf[sector[e]] \in Channel
      BY Zenon, <3>2
    <3>6. /\ drive'[ChannelOf[sector[e]]] = CommandFor(e)
          /\ \A d \in Channel \ {ChannelOf[sector[e]]} : drive'[d] = Idle
      BY Zenon, <2>1, <3>3, <3>5
    <3> HIDE DEF TypeOK
    <3> QED
      BY Zenon, <2>1, <3>3, <3>4, <3>6
  <2> QED
    BY ZenonT(60), <2>2, <2>3
<1>13. ASSUME UNCHANGED vars PROVE DriverInv'
  BY <1>13 DEF vars
<1> QED
  BY ZenonT(60), <1>1, <1>2, <1>3, <1>4, <1>5, <1>6, <1>7, <1>8, <1>9, <1>10, <1>11, <1>12,
     <1>13, DriverCases DEF OtherStep

(* BufferInv holds at all times when the drives raise the interrupts. *)
THEOREM BufferInvariant == Spec => []BufferInv
<1>1. Init => BufferInv
  BY InitInv DEF BufferInv, DriverInv, Init
<1>2. BufferInv /\ [Next]_vars => BufferInv'
  <2>1. [Next]_vars => [SpuriousNext]_vars
    BY SMTT(30), SMTT(31), SMTT(32) DEF SpuriousNext
  <2> QED
    BY <2>1, StepInv, DriverStep DEF BufferInv
<1> QED
  BY <1>1, <1>2, PTL DEF Spec

(* The cache is coherent: one buffer per sector, one owner per busy buffer, *)
(* and bwrite returns, or a buffer is clean, only when the disk has it.     *)
THEOREM CacheIsCoherent == Spec => []CacheCoherent
<1>1. BufferInv => CacheCoherent
  <2> SUFFICES ASSUME BufferInv PROVE CacheCoherent
    OBVIOUS
  <2>1. /\ TypeOK /\ ListInv /\ OneBufferPerSector /\ BusyIsOwned /\ CleanIsAccepted /\ DriverInv
    BY DEF BufferInv, CacheInv
  <2>2. ASSUME NEW b \in valid \ dirty PROVE Accepted[sector[b]] = disk[sector[b]]
    <3>1. b \in Buf /\ sector[b] \in Sector /\ ChannelOf[sector[b]] \in Channel
      BY ZenonT(20), <2>1, BufferAssumption DEF TypeOK, ListInv
    <3> DEFINE cmd == drive[ChannelOf[sector[b]]]
    <3>2. Accepted[sector[b]] = IF cmd.op = "write" /\ cmd.sector = sector[b]
                                THEN cmd.data ELSE disk[sector[b]]
      BY <3>1 DEF Accepted
    <3>3. cmd = Idle \/ (idequeue # <<>> /\ cmd = CommandFor(idequeue[1]))
      BY <2>1, <3>1 DEF DriverInv
    <3> HIDE DEF cmd
    <3>4. ASSUME cmd.op = "write", cmd.sector = sector[b] PROVE FALSE
      <4>1. cmd # Idle
        BY <3>4 DEF Idle
      <4>2. idequeue[1] \in dirty /\ sector[idequeue[1]] = sector[b]
        BY <3>3, <3>4, <4>1 DEF CommandFor, WriteCmd, ReadCmd
      <4> QED
        BY Zenon, <2>1, <3>1, <4>2, BufferAssumption DEF OneBufferPerSector, TypeOK
    <3> QED
      BY ZenonT(20), <3>2, <3>4
  <2> QED
    BY ZenonT(60), <2>1, <2>2 DEF CacheCoherent, CleanIsAccepted, CleanIsOnDisk
<1> QED
  BY <1>1, BufferInvariant, PTL

(***************************************************************************)
(* The refinement of SectorStore.                                          *)
(***************************************************************************)
\* A sector has the contents of its buffer, if it has one with data.
ContentsIs ==
  /\ Contents \in [Sector -> Data]
  /\ \A s \in Sector : /\ \A b \in valid : sector[b] = s => Contents[s] = data[b]
                       /\ (\A b \in valid : sector[b] # s) => Contents[s] = Accepted[s]

\* A sector belongs to the owner of its buffer.
HolderIs ==
  /\ Holder \in [Sector -> Proc \cup {NoProc}]
  /\ \A s \in Sector : /\ \A b \in Buf, p \in Proc : sector[b] = s /\ Owns(p, b) => Holder[s] = p
                       /\ (\A b \in busy : sector[b] # s) => Holder[s] = NoProc

(* A sector has one buffer at most, and only a valid one has data. *)
LEMMA MappedContents == CacheInv => ContentsIs
<1> SUFFICES ASSUME CacheInv PROVE ContentsIs
  OBVIOUS
<1>1. TypeOK /\ ListInv /\ OneBufferPerSector
  BY DEF CacheInv
<1>2. valid \cup dirty = valid
  BY <1>1 DEF ListInv
<1>3. ASSUME NEW s \in Sector, NEW b \in valid, sector[b] = s
      PROVE  Contents[s] = data[b]
  <2>1. b \in valid \cup dirty
    OBVIOUS
  <2>2. \A a \in valid \cup dirty : sector[a] = s => a = b
    BY <1>1, <1>2, <1>3, BufferAssumption DEF OneBufferPerSector, TypeOK
  <2>3. (CHOOSE a \in valid \cup dirty : sector[a] = s) = b
    BY <1>3, <2>1, <2>2
  <2> QED
    BY Zenon, <1>3, <2>1, <2>3 DEF Contents
<1>4. ASSUME NEW s \in Sector, \A b \in valid : sector[b] # s
      PROVE  Contents[s] = Accepted[s]
  BY ZenonT(20), <1>2, <1>4 DEF Contents
<1>5. ASSUME NEW s \in Sector PROVE Contents[s] \in Data
  BY <1>1, <1>3, <1>4, AcceptedType DEF TypeOK
<1>6. Contents \in [Sector -> Data]
  BY <1>5 DEF Contents
<1> QED
  BY <1>3, <1>4, <1>6 DEF ContentsIs

(* B_BUSY names one owner. *)
LEMMA MappedHolder == CacheInv => HolderIs
<1> SUFFICES ASSUME CacheInv PROVE HolderIs
  OBVIOUS
<1>1. TypeOK /\ OneBufferPerSector /\ BusyIsOwned
  BY DEF CacheInv
<1>2. ASSUME NEW s \in Sector, NEW b \in Buf, NEW p \in Proc, sector[b] = s, Owns(p, b)
      PROVE  Holder[s] = p
  <2>1. ASSUME NEW q \in Proc, NEW a \in Buf, sector[a] = s, Owns(q, a) PROVE q = p
    BY <1>1, <1>2, <2>1, BufferAssumption DEF OneBufferPerSector, BusyIsOwned
  <2>2. (CHOOSE q \in Proc : \E a \in Buf : sector[a] = s /\ Owns(q, a)) = p
    BY <1>2, <2>1
  <2> QED
    BY <1>2, <2>2 DEF Holder
<1>3. ASSUME NEW s \in Sector, \A b \in busy : sector[b] # s
      PROVE  Holder[s] = NoProc
  BY <1>1, <1>3 DEF Holder, BusyIsOwned
<1>4. ASSUME NEW s \in Sector PROVE Holder[s] \in Proc \cup {NoProc}
  <2>1. CASE \E p \in Proc, b \in Buf : sector[b] = s /\ Owns(p, b)
    BY <1>2, <2>1
  <2>2. CASE ~ \E p \in Proc, b \in Buf : sector[b] = s /\ Owns(p, b)
    BY <2>2 DEF Holder
  <2> QED
    BY <2>1, <2>2
<1>5. Holder \in [Sector -> Proc \cup {NoProc}]
  BY <1>4 DEF Holder
<1> QED
  BY <1>2, <1>3, <1>5 DEF HolderIs

(* The owners of the sectors change only with those of the buffers. *)
LEMMA SameHolder ==
  ASSUME BusyIsOwned, HolderIs, HolderIs', sector' = sector, busy' = busy,
         busy \subseteq Buf, \A q \in Proc, a \in Buf : Owns(q, a)' <=> Owns(q, a)
  PROVE  Holder' = Holder
<1>1. ASSUME NEW s \in Sector PROVE Holder'[s] = Holder[s]
  <2>1. CASE \E b \in busy : sector[b] = s
    <3>1. PICK b \in busy : sector[b] = s
      BY <2>1
    <3>2. PICK p \in Proc : Owns(p, b)
      BY <3>1 DEF BusyIsOwned
    <3>3. b \in Buf /\ sector'[b] = s /\ Owns(p, b)'
      BY <3>1, <3>2
    <3> QED
      BY <3>1, <3>2, <3>3 DEF HolderIs
  <2>2. CASE \A b \in busy : sector[b] # s
    BY <2>2 DEF HolderIs
  <2> QED
    BY <2>1, <2>2
<1> QED
  BY <1>1 DEF HolderIs

(* The contents of the sectors change only with those of the buffers. *)
LEMMA SameContents ==
  ASSUME ContentsIs, ContentsIs', sector' = sector, valid' = valid, data' = data,
         \A s \in Sector : (\A b \in valid : sector[b] # s) => Accepted'[s] = Accepted[s]
  PROVE  Contents' = Contents
<1>1. ASSUME NEW s \in Sector PROVE Contents'[s] = Contents[s]
  <2>1. CASE \E b \in valid : sector[b] = s
    <3>1. PICK b \in valid : sector[b] = s
      BY <2>1
    <3>2. b \in valid' /\ sector'[b] = s /\ data'[b] = data[b]
      BY <3>1
    <3> QED
      BY <3>1, <3>2 DEF ContentsIs
  <2>2. CASE \A b \in valid : sector[b] # s
    BY ZenonT(20), <2>2 DEF ContentsIs
  <2> QED
    BY <2>1, <2>2
<1> QED
  BY <1>1 DEF ContentsIs

(* When a process becomes the owner of a buffer, it gets the sector. *)
LEMMA Acquired ==
  ASSUME BusyIsOwned, HolderIs, HolderIs', NEW p \in Proc, NEW b \in Buf,
         busy \subseteq Buf, b \notin busy, sector'[b] \in Sector,
         \A a \in busy : sector[a] # sector'[b],
         busy' = busy \cup {b}, \A a \in Buf \ {b} : sector'[a] = sector[a],
         \A q \in Proc, a \in Buf : Owns(q, a)' <=> Owns(q, a) \/ (q = p /\ a = b)
  PROVE  /\ Holder[sector'[b]] = NoProc
         /\ Holder' = [Holder EXCEPT ![sector'[b]] = p]
<1>1. Holder[sector'[b]] = NoProc
  BY ZenonT(20) DEF HolderIs
<1>2. Holder'[sector'[b]] = p
  BY ZenonT(20), SMTT(30) DEF HolderIs
<1>3. ASSUME NEW s \in Sector, s # sector'[b] PROVE Holder'[s] = Holder[s]
  <2>1. CASE \E a \in busy : sector[a] = s
    <3>1. PICK a \in busy : sector[a] = s
      BY ZenonT(20), <2>1
    <3>2. PICK q \in Proc : Owns(q, a)
      BY <3>1 DEF BusyIsOwned
    <3>3. a \in Buf /\ sector'[a] = s /\ Owns(q, a)'
      BY ZenonT(20), <3>1, <3>2
    <3> QED
      BY ZenonT(20), <3>1, <3>2, <3>3 DEF HolderIs
  <2>2. CASE \A a \in busy : sector[a] # s
    <3>1. \A a \in busy' : sector'[a] # s
      BY ZenonT(20), <1>3, <2>2
    <3> QED
      BY ZenonT(20), <2>2, <3>1 DEF HolderIs
  <2> QED
    BY ZenonT(20), <2>1, <2>2
<1> QED
  BY ZenonT(20), <1>1, <1>2, <1>3 DEF HolderIs

(* What CacheInv says, one part to a conjunct.                              *)
LEMMA InvFacts ==
  ASSUME CacheInv
  PROVE  /\ TypeOK /\ ListInv /\ HoldInv /\ QueueInv /\ AcceptInv
         /\ OneBufferPerSector /\ BusyIsOwned /\ CleanIsAccepted
         /\ busy \subseteq Buf /\ valid \subseteq Buf
BY DEF CacheInv, TypeOK

(* What neither moves the cache nor the disk, nor changes owners, is no     *)
(* step of the store.                                                       *)
LEMMA SameStore ==
  ASSUME CacheInv, ContentsIs, ContentsIs', HolderIs, HolderIs',
         UNCHANGED <<sector, valid, data, drive, disk, busy>>,
         \A q \in Proc, a \in Buf : Owns(q, a)' <=> Owns(q, a)
  PROVE  UNCHANGED <<Contents, Holder>>
<1> USE BufferAssumption DEF bufvars, idevars, procvars
<1>1. Contents' = Contents
  BY SameContents DEF Accepted
<1>2. Holder' = Holder
  BY ZenonT(20), InvFacts, SameHolder
<1> QED
  BY ZenonT(20), <1>1, <1>2

(* Taking a buffer that nobody holds acquires its sector.                   *)
LEMMA StoreAcquire ==
  ASSUME CacheInv, ContentsIs, ContentsIs', HolderIs, HolderIs',
         NEW p \in Proc, NEW b \in Buf, b \notin busy, sector'[b] \in Sector,
         \A a \in busy : sector[a] # sector'[b], busy' = busy \cup {b},
         \A a \in Buf \ {b} : sector'[a] = sector[a],
         \A q \in Proc, a \in Buf : Owns(q, a)' <=> Owns(q, a) \/ (q = p /\ a = b),
         Contents' = Contents
  PROVE  Store!Next
<1> USE BufferAssumption DEF bufvars, idevars, procvars
<1>1. Holder[sector'[b]] = NoProc /\ Holder' = [Holder EXCEPT ![sector'[b]] = p]
  BY ZenonT(20), InvFacts, Acquired
<1>2. Store!Acquire(p, sector'[b])
  BY <1>1 DEF Store!Acquire
<1> QED
  BY ZenonT(20), <1>2 DEF Store!Next

(* bget recycling a clean buffer acquires the sector that it takes the      *)
(* buffer for: what the buffer held is on the disk.                         *)
LEMMA StoreRecycle ==
  ASSUME CacheInv, ContentsIs, ContentsIs', HolderIs, HolderIs',
         NEW p \in Proc, NEW b \in Buf, RecycleAt(p, b)
  PROVE  Store!Next
<1> USE BufferAssumption DEF bufvars, idevars, procvars
<1>1. \A q \in Proc, a \in Buf : Owns(q, a)' <=> Owns(q, a) \/ (q = p /\ a = b)
  BY Zenon, InvFacts DEF RecycleAt, Owns, TypeOK
<1>2. /\ want[p] \in Sector /\ sector'[b] = want[p]
      /\ \A a \in Buf \ {b} : sector'[a] = sector[a] /\ data'[a] = data[a]
      /\ valid' = valid \ {b} /\ Accepted' = Accepted
  BY Zenon, InvFacts DEF RecycleAt, HoldInv, TypeOK, Accepted
<1>3. ASSUME NEW s \in Sector PROVE Contents'[s] = Contents[s]
  <2>1. CASE \E a \in valid \ {b} : sector[a] = s
    <3>1. PICK a \in valid \ {b} : sector[a] = s
      BY <2>1
    <3>2. a \in valid' /\ sector'[a] = s /\ data'[a] = data[a]
      BY Zenon, InvFacts, <1>2, <3>1
    <3> QED
      BY <3>1, <3>2 DEF ContentsIs
  <2>2. CASE \A a \in valid \ {b} : sector[a] # s
    <3>1. Contents'[s] = Accepted[s]
      <4>1. \A a \in valid' : sector'[a] # s
        BY ZenonT(20), InvFacts, <1>2, <2>2
      <4> QED
        BY <1>2, <4>1 DEF ContentsIs
    <3>2. CASE b \in valid /\ sector[b] = s
      <4>1. Contents[s] = data[b]
        BY <3>2 DEF ContentsIs
      <4>2. data[b] = Accepted[s]
        BY Zenon, InvFacts, <3>2 DEF RecycleAt, CleanIsAccepted
      <4> QED
        BY ZenonT(20), <3>1, <4>1, <4>2
    <3>3. CASE ~(b \in valid /\ sector[b] = s)
      <4>1. \A a \in valid : sector[a] # s
        BY ZenonT(20), <2>2, <3>3
      <4> QED
        BY <3>1, <4>1 DEF ContentsIs
    <3> QED
      BY ZenonT(20), <3>2, <3>3
  <2> QED
    BY ZenonT(20), <2>1, <2>2
<1>4. Contents' = Contents
  BY <1>3 DEF ContentsIs
<1>5. \A a \in busy : sector[a] # sector'[b]
  BY InvFacts, <1>2 DEF RecycleAt
<1> QED
  BY Zenon, StoreAcquire, <1>1, <1>2, <1>4, <1>5 DEF RecycleAt

(* brelse releases the sector of the buffer.                                *)
LEMMA StoreRelease ==
  ASSUME CacheInv, ContentsIs, ContentsIs', HolderIs, HolderIs',
         NEW p \in Proc, NEW b \in Buf, brelse(p, b)
  PROVE  Store!Next
<1> USE BufferAssumption DEF bufvars, idevars, procvars
<1>1. Owns(p, b) /\ b \in busy /\ sector[b] \in Sector
  BY Zenon, InvFacts DEF brelse, Owns, BusyIsOwned, ListInv
<1>2. ASSUME NEW q \in Proc, NEW a \in Buf, a # b PROVE Owns(q, a)' <=> Owns(q, a)
  BY Zenon, InvFacts, <1>2, WokenFacts DEF brelse, Owns, TypeOK
<1>3. Contents' = Contents
  BY ZenonT(20), SameContents DEF brelse, Accepted
<1>4. Holder[sector[b]] = p
  BY ZenonT(20), <1>1 DEF HolderIs
<1>5. ASSUME NEW s \in Sector
      PROVE  Holder'[s] = IF s = sector[b] THEN NoProc ELSE Holder[s]
  <2>1. busy' = busy \ {b} /\ sector' = sector
    BY DEF brelse, Released
  <2>2. CASE \E a \in busy \ {b} : sector[a] = s
    <3>1. PICK a \in busy \ {b} : sector[a] = s
      BY <2>2
    <3>2. PICK q \in Proc : Owns(q, a)
      BY InvFacts, <3>1 DEF BusyIsOwned
    <3>3. Owns(q, a)' /\ a \in Buf
      BY InvFacts, <1>2, <3>1, <3>2
    <3>4. s # sector[b]
      BY ZenonT(20), InvFacts, <1>1, <3>1 DEF OneBufferPerSector
    <3> QED
      BY <2>1, <3>1, <3>2, <3>3, <3>4 DEF HolderIs
  <2>3. CASE \A a \in busy \ {b} : sector[a] # s
    <3>1. Holder'[s] = NoProc
      BY <2>1, <2>3 DEF HolderIs
    <3>2. ASSUME s # sector[b] PROVE Holder[s] = NoProc
      BY Zenon, <2>3, <3>2 DEF HolderIs
    <3> QED
      BY <3>1, <3>2
  <2> QED
    BY ZenonT(20), <2>2, <2>3
<1>6. Holder' = [Holder EXCEPT ![sector[b]] = NoProc]
  BY <1>5 DEF HolderIs
<1>7. Store!Release(p, sector[b])
  BY Zenon, <1>3, <1>4, <1>6 DEF Store!Release
<1> QED
  BY Zenon, <1>1, <1>7 DEF Store!Next

(* New data in a buffer that a process holds are a write to its sector.     *)
LEMMA StoreWrite ==
  ASSUME CacheInv, ContentsIs, ContentsIs', HolderIs, HolderIs',
         NEW p \in Proc, NEW b \in Buf, NEW d \in Data, b \in hold[p],
         data' = [data EXCEPT ![b] = d], UNCHANGED <<sector, valid, busy, drive, disk>>,
         \A q \in Proc, a \in Buf : Owns(q, a)' <=> Owns(q, a)
  PROVE  Store!Next
<1> USE BufferAssumption DEF bufvars, idevars, procvars
<1>1. Holder' = Holder
  BY ZenonT(60), InvFacts, SameHolder
<1>2. Owns(p, b) /\ b \in valid /\ sector[b] \in Sector
  BY Zenon, InvFacts DEF Owns, HoldInv, ListInv
<1>3. Holder[sector[b]] = p
  BY Zenon, <1>2 DEF HolderIs
<1>4. ASSUME NEW s \in Sector
      PROVE  Contents'[s] = IF s = sector[b] THEN d ELSE Contents[s]
  <2>1. data'[b] = d /\ \A a \in Buf \ {b} : data'[a] = data[a]
    BY Zenon, InvFacts DEF TypeOK
  <2>2. CASE s = sector[b]
    BY Zenon, <1>2, <2>1, <2>2 DEF ContentsIs
  <2>3. CASE s # sector[b] /\ \E a \in valid : sector[a] = s
    <3>1. PICK a \in valid : sector[a] = s
      BY Zenon, <2>3
    <3>2. a \in Buf \ {b}
      BY Zenon, InvFacts, <2>3, <3>1
    <3> QED
      BY ZenonT(30), <2>1, <2>3, <3>1, <3>2 DEF ContentsIs
  <2>4. CASE s # sector[b] /\ \A a \in valid : sector[a] # s
    <3>1. Accepted' = Accepted
      BY ZenonT(20), SMTT(30) DEF Accepted
    <3> QED
      BY ZenonT(20), <2>4, <3>1 DEF ContentsIs
  <2> QED
    BY Zenon, <2>2, <2>3, <2>4
<1>5. Contents' = [Contents EXCEPT ![sector[b]] = d]
  BY ZenonT(20), <1>4 DEF ContentsIs
<1>6. Store!Write(p, sector[b], d)
  BY <1>1, <1>3, <1>5 DEF Store!Write
<1> QED
  BY ZenonT(30), <1>2, <1>6 DEF Store!Next

(* A drive that ends its command changes nothing that a caller can see.     *)
LEMMA StoreDrive ==
  ASSUME CacheInv, ContentsIs, ContentsIs', HolderIs, HolderIs',
         NEW c \in Channel, DriveDone(c)
  PROVE  UNCHANGED <<Contents, Holder>>
<1> USE BufferAssumption DEF bufvars, idevars, procvars
<1>1. \A s \in Sector : Accepted'[s] = Accepted[s]
  BY ZenonT(20), InvFacts, DoneAccepted
<1>2. Contents' = Contents
  BY ZenonT(20), <1>1, SameContents DEF DriveDone
<1>3. \A q \in Proc, a \in Buf : Owns(q, a)' <=> Owns(q, a)
  BY ZenonT(20), SMTT(30) DEF DriveDone, Owns
<1>4. Holder' = Holder
  BY InvFacts, <1>3, SameHolder DEF DriveDone
<1> QED
  BY ZenonT(20), <1>2, <1>4

(* Neither does iderw.                                                      *)
LEMMA StoreStart ==
  ASSUME CacheInv, ContentsIs, ContentsIs', HolderIs, HolderIs',
         NEW p \in Proc, NEW b \in Buf, StartAt(p, b)
  PROVE  UNCHANGED <<Contents, Holder>>
<1> USE BufferAssumption DEF bufvars, idevars, procvars
<1>1. \A q \in Proc, a \in Buf : Owns(q, a)' <=> Owns(q, a)
  BY Zenon, InvFacts DEF StartAt, Owns, TypeOK
<1>2. CASE idequeue # <<>>
  BY <1>1, <1>2, SameStore DEF StartAt
<1>3. CASE idequeue = <<>>
  <2>1. sector[b] \in Sector
    BY Zenon, InvFacts DEF StartAt, ListInv
  <2>2. \A s \in Sector : Accepted'[s] = IF b \in dirty /\ s = sector[b] THEN data[b] ELSE Accepted[s]
    BY Zenon, InvFacts, <1>3, <2>1, StartAccepted DEF StartAt
  <2>3. b \in dirty => b \in valid
    BY InvFacts DEF ListInv
  <2>4. \A s \in Sector : (\A a \in valid : sector[a] # s) => Accepted'[s] = Accepted[s]
    BY Zenon, <2>2, <2>3
  <2>5. Contents' = Contents
    BY Zenon, <2>4, SameContents DEF StartAt
  <2>6. Holder' = Holder
    BY InvFacts, <1>1, SameHolder DEF StartAt
  <2> QED
    BY Zenon, <2>5, <2>6
<1> QED
  BY Zenon, <1>2, <1>3

(* ideintr leaves in the buffer what the drive has accepted.                *)
LEMMA StoreDone ==
  ASSUME CacheInv, ContentsIs, ContentsIs', HolderIs, HolderIs',
         NEW b \in Buf, DoneAt(b)
  PROVE  UNCHANGED <<Contents, Holder>>
<1> USE BufferAssumption DEF bufvars, idevars, procvars
<1>1. \A q \in Proc, a \in Buf : Owns(q, a)' <=> Owns(q, a)
  BY Zenon, InvFacts, WokenFacts DEF DoneAt, Owns
<1>2. Holder' = Holder
  BY ZenonT(30), InvFacts, <1>1, SameHolder DEF DoneAt
<1>3. 1 \in 1..Len(idequeue) /\ b = idequeue[1]
  BY InvFacts DEF DoneAt, TypeOK
<1>4. b \in busy
  BY Zenon, InvFacts, <1>3, QueuedFacts
<1>5. sector[b] \in Sector
  BY ZenonT(30), InvFacts, <1>4 DEF ListInv
<1>6. ASSUME b \in valid PROVE data[b] = Accepted[sector[b]]
  <2> DEFINE c == ChannelOf[sector[b]]
  <2>1. b \in dirty
    BY Zenon, InvFacts, <1>3, <1>6 DEF QueueInv
  <2>2. drive[c] = WriteCmd(sector[b], data[b]) \/ (drive[c] = Idle /\ disk[sector[b]] = data[b])
    BY Zenon, InvFacts, <1>3, <2>1 DEF AcceptInv, DoneAt, CommandFor
  <2>3. Accepted[sector[b]] =
          IF drive[c].op = "write" /\ drive[c].sector = sector[b]
          THEN drive[c].data ELSE disk[sector[b]]
    BY Zenon, <1>5 DEF Accepted
  <2> HIDE DEF c
  <2> QED
    <3>1. IsAccepted(drive[c], sector[b], data[b], disk[sector[b]])
      BY Zenon, <2>2, Commands
    <3> QED
      BY Zenon, <2>3, <3>1 DEF IsAccepted
<1>7. /\ data'[b] = Accepted[sector[b]] /\ \A a \in Buf \ {b} : data'[a] = data[a]
      /\ sector' = sector /\ valid' = valid \cup {b} /\ disk' = disk
  BY Zenon, InvFacts DEF DoneAt, TypeOK
<1>8. ASSUME NEW s \in Sector, \A a \in valid : sector[a] # s PROVE Accepted'[s] = Accepted[s]
  <2>1. CASE Tail(idequeue) = <<>>
    BY ZenonT(60), <1>7, <2>1 DEF DoneAt, Accepted
  <2>2. CASE Tail(idequeue) # <<>>
    <3>1. PICK e \in Buf : 2 \in 1..Len(idequeue) /\ e = idequeue[2]
      BY InvFacts, <2>2 DEF DoneAt, TypeOK
    <3>2. sector[e] \in Sector
      BY ZenonT(30), InvFacts, <3>1, QueuedFacts DEF ListInv
    <3>3. /\ drive[ChannelOf[sector[e]]] = Idle
          /\ drive' = [drive EXCEPT ![ChannelOf[sector[e]]] = CommandFor(e)]
      BY ZenonT(60), <2>2, <3>1 DEF DoneAt
    <3>5. Accepted'[s] = IF e \in dirty /\ s = sector[e] THEN data[e] ELSE Accepted[s]
      BY ZenonT(60), InvFacts, <1>7, <3>2, <3>3, StartAccepted
    <3>4. e \in dirty => e \in valid
      BY Zenon, InvFacts DEF ListInv
    <3> QED
      BY ZenonT(30), <1>8, <3>4, <3>5
  <2> QED
    BY ZenonT(60), <2>1, <2>2
<1>9. ASSUME NEW s \in Sector PROVE Contents'[s] = Contents[s]
  <2>1. CASE s = sector[b]
    <3>1. Contents'[s] = Accepted[s]
      BY Zenon, <1>7, <2>1 DEF ContentsIs
    <3>2. CASE b \in valid
      BY Zenon, <1>6, <2>1, <3>1, <3>2 DEF ContentsIs
    <3>3. CASE b \notin valid
      <4>1. \A a \in valid : sector[a] # s
        BY Zenon, InvFacts, <1>5, <2>1, <3>3 DEF OneBufferPerSector
      <4> QED
        BY ZenonT(20), <3>1, <4>1 DEF ContentsIs
    <3> QED
      BY Zenon, <3>2, <3>3
  <2>2. CASE s # sector[b] /\ \E a \in valid : sector[a] = s
    <3>1. PICK a \in valid : sector[a] = s
      BY <2>2
    <3>2. a \in valid' /\ data'[a] = data[a] /\ sector'[a] = s
      BY Zenon, InvFacts, <1>7, <2>2, <3>1
    <3> QED
      BY <3>1, <3>2 DEF ContentsIs
  <2>3. CASE s # sector[b] /\ \A a \in valid : sector[a] # s
    <3>1. \A a \in valid' : sector'[a] # s
      BY Zenon, <1>7, <2>3
    <3> QED
      BY Zenon, <1>7, <1>8, <2>3, <3>1 DEF ContentsIs
  <2> QED
    BY ZenonT(60), <2>1, <2>2, <2>3
<1>10. Contents' = Contents
  BY <1>9 DEF ContentsIs
<1> QED
  BY Zenon, <1>2, <1>10

(* A step of the cache is a step of the store of sectors, or none of its    *)
(* callers can see it.                                                     *)
LEMMA StoreStep ==
  ASSUME CacheInv, ContentsIs, ContentsIs', HolderIs, HolderIs', [SpuriousNext]_vars
  PROVE  [Store!Next]_(Store!vars)
<1> USE BufferAssumption DEF bufvars, idevars, procvars
<1>1. ASSUME NEW p \in Proc, Dozes(p) PROVE UNCHANGED <<Contents, Holder>>
  <2>1. \A q \in Proc, a \in Buf : Owns(q, a)' <=> Owns(q, a)
    BY ZenonT(30), InvFacts, <1>1 DEF Dozes, Owns, TypeOK
  <2> QED
    BY Zenon, SameStore, <1>1, <2>1 DEF Dozes
<1>2. ASSUME NEW p \in Proc, NEW s \in Sector, bread(p, s) PROVE UNCHANGED <<Contents, Holder>>
  <2>1. \A q \in Proc, a \in Buf : Owns(q, a)' <=> Owns(q, a)
    BY Zenon, InvFacts, <1>2 DEF bread, Owns, TypeOK
  <2> QED
    BY Zenon, SameStore, <1>2, <2>1 DEF bread
<1>3. ASSUME NEW p \in Proc, NEW b \in Buf, HitAt(p, b) PROVE Store!Next
  <2>1. \A q \in Proc, a \in Buf : Owns(q, a)' <=> Owns(q, a) \/ (q = p /\ a = b)
    BY Zenon, InvFacts, <1>3 DEF HitAt, Owns, TypeOK
  <2>2. Contents' = Contents
    BY Zenon, <1>3, SameContents DEF HitAt, Accepted
  <2>3. sector[b] \in Sector /\ \A a \in busy : sector[a] # sector[b]
    BY ZenonT(30), InvFacts, <1>3 DEF HitAt, ListInv, OneBufferPerSector
  <2> QED
    <3>1. b \notin busy /\ busy' = busy \cup {b} /\ sector' = sector
      BY Zenon, <1>3 DEF HitAt
    <3>2. /\ sector'[b] \in Sector /\ \A a \in busy : sector[a] # sector'[b]
          /\ \A a \in Buf \ {b} : sector'[a] = sector[a]
      BY Zenon, <2>3, <3>1
    <3> QED
      BY ZenonT(60), StoreAcquire, <2>1, <2>2, <3>1, <3>2
<1>4. ASSUME NEW p \in Proc, NEW b \in Buf, MissAt(p, b) PROVE Store!Next
  <2>1. \A q \in Proc, a \in Buf : Owns(q, a)' <=> Owns(q, a) \/ (q = p /\ a = b)
    BY Zenon, InvFacts, <1>4 DEF MissAt, Owns, TypeOK
  <2>2. Contents' = Contents
    BY Zenon, <1>4, SameContents DEF MissAt, Accepted
  <2>3. sector[b] \in Sector /\ \A a \in busy : sector[a] # sector[b]
    BY InvFacts, <1>4 DEF MissAt, HoldInv, OneBufferPerSector
  <2> QED
    <3>1. b \notin busy /\ busy' = busy \cup {b}
      BY Zenon, <1>4 DEF MissAt
    <3>2. /\ sector'[b] \in Sector /\ \A a \in busy : sector[a] # sector'[b]
          /\ \A a \in Buf \ {b} : sector'[a] = sector[a]
      BY Zenon, <1>4, <2>3 DEF MissAt
    <3> QED
      BY ZenonT(60), StoreAcquire, <2>1, <2>2, <3>1, <3>2
<1>5. ASSUME Ignored PROVE UNCHANGED <<Contents, Holder>>
  <2>1. \A q \in Proc, a \in Buf : Owns(q, a)' <=> Owns(q, a)
    BY <1>5 DEF Ignored, Owns
  <2> QED
    BY Zenon, SameStore, <1>5, <2>1 DEF Ignored
<1>6. ASSUME NEW p \in Proc, NEW b \in Buf, TestAt(p, b) PROVE UNCHANGED <<Contents, Holder>>
  <2>1. \A q \in Proc, a \in Buf : Owns(q, a)' <=> Owns(q, a)
    BY InvFacts, <1>6 DEF TestAt, Owns, TypeOK
  <2> QED
    BY Zenon, SameStore, <1>6, <2>1 DEF TestAt
<1>7. ASSUME NEW p \in Proc, NEW b \in Buf, NEW d \in Data, bwrite(p, b, d) PROVE Store!Next
  <2>1. \A q \in Proc, a \in Buf : Owns(q, a)' <=> Owns(q, a)
    BY InvFacts, <1>7 DEF bwrite, Owns, TypeOK
  <2> QED
    BY Zenon, StoreWrite, <1>7, <2>1 DEF bwrite
<1>8. ASSUME NEW p \in Proc, NEW b \in Buf, NEW d \in Data, log_pin(p, b, d) PROVE Store!Next
  <2>1. \A q \in Proc, a \in Buf : Owns(q, a)' <=> Owns(q, a)
    BY Zenon, <1>8 DEF log_pin, Owns
  <2> QED
    BY ZenonT(60), StoreWrite, <1>8, <2>1 DEF log_pin
<1>9. ASSUME UNCHANGED vars PROVE UNCHANGED <<Contents, Holder>>
  <2>1. \A q \in Proc, a \in Buf : Owns(q, a)' <=> Owns(q, a)
    BY <1>9 DEF vars, Owns
  <2> QED
    BY Zenon, SameStore, <1>9, <2>1 DEF vars
<1>10. ASSUME UNCHANGED <<Contents, Holder>> PROVE UNCHANGED Store!vars
  BY <1>10 DEF Store!vars
<1>11. ASSUME OtherStep PROVE Store!Next \/ UNCHANGED <<Contents, Holder>>
  BY Zenon, <1>1, <1>2, <1>3, <1>4, <1>6, <1>7, <1>8, <1>11, StoreRecycle, StoreRelease, StoreStart,
     StoreDrive, Zenon DEF OtherStep
<1>12. SpuriousNext \/ UNCHANGED vars
  OBVIOUS
<1>13. OtherStep \/ Ignored \/ (\E b \in Buf : DoneAt(b)) \/ UNCHANGED vars
  BY <1>12, InvFacts, NextCases, Zenon
<1>14. Store!Next \/ UNCHANGED <<Contents, Holder>>
  BY <1>5, <1>9, <1>11, <1>13, StoreDone, Zenon
<1> QED
  BY Zenon, <1>10, <1>14

(* The cache and the driver implement the store of locked sectors: what    *)
(* bread returns is what was last written, whoever wrote it, and whether   *)
(* or not the buffer has been recycled in between.  An interrupt that no   *)
(* drive raised does not change that.                                      *)
THEOREM SpuriousIsSectorStore == SpuriousSpec => SectorStoreSpec
<1>1. Init => Store!Init
  <2> SUFFICES ASSUME Init PROVE Store!Init
    OBVIOUS
  <2>1. CacheInv
    BY InitInv
  <2>2. ContentsIs /\ HolderIs
    BY Zenon, <2>1, MappedContents, MappedHolder
  <2>3. Contents \in [Sector -> Data] /\ Holder \in [Sector -> Proc \cup {NoProc}]
    BY <2>2 DEF ContentsIs, HolderIs
  <2>4. \A s \in Sector : Holder[s] = NoProc
    BY <2>2 DEF HolderIs, Init
  <2> QED
    BY <2>3, <2>4 DEF Store!Init
<1>2. CacheInv /\ CacheInv' /\ [SpuriousNext]_vars => [Store!Next]_(Store!vars)
  <2>1. CacheInv => ContentsIs /\ HolderIs
    BY MappedContents, MappedHolder
  <2>2. CacheInv' => ContentsIs' /\ HolderIs'
    BY MappedContents, MappedHolder, PTL
  <2> QED
    BY <2>1, <2>2, StoreStep
<1> QED
  BY <1>1, <1>2, CacheInvariant, PTL DEF SpuriousSpec, SectorStoreSpec, Store!Spec

(* The same for the interrupts of the drives alone.                        *)
THEOREM CacheIsSectorStore == Spec => SectorStoreSpec
<1>1. [Next]_vars => [SpuriousNext]_vars
  BY DEF SpuriousNext
<1> QED
  BY <1>1, SpuriousIsSectorStore, PTL DEF Spec, SpuriousSpec
=============================================================================
