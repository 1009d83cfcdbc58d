----------------------------- MODULE PipeProofs -----------------------------
(***************************************************************************)
(* Proofs about the pipe, for any number of readers and writers, any       *)
(* PIPESIZE and any width of the counters.                                 *)
(***************************************************************************)
EXTENDS Pipe, SequenceTheorems, TLAPS

(* The empty sequence is a sequence of bytes. *)
LEMMA EmptyType == <<>> \in Seq(Byte)
OBVIOUS

(* Every step keeps the types: the place of a counter is in data[]. *)
LEMMA TypeStep == PipeInv /\ [Next]_vars => TypeOK'
<1> SUFFICES ASSUME PipeInv, [Next]_vars PROVE TypeOK'
  OBVIOUS
<1> USE PipeAssumption DEF PipeInv, TypeOK, Proc, Goto, ring, ends, Inc, WakeReaders,
     WakeWriters
<1>1. ASSUME NEW p \in Proc, Acquire(p) PROVE TypeOK'
  BY Zenon, <1>1 DEF Acquire
<1>2. ASSUME NEW p \in Proc, WriteCall(p) PROVE TypeOK'
  BY ZenonT(60), <1>2 DEF WriteCall
<1>3. ASSUME NEW p \in Proc, WriteByte(p) PROVE TypeOK'
  BY <1>3 DEF WriteByte
<1>4. ASSUME NEW p \in Proc, WriteFull(p) PROVE TypeOK'
  <2>1. todo' \in [Proc -> Seq(Byte)]
    BY ZenonT(60), <1>4, EmptyType DEF WriteFull
  <2> QED
    BY SMTT(60), <1>4, <2>1 DEF WriteFull
<1>5. ASSUME NEW p \in Proc, WriteSleep(p) PROVE TypeOK'
  BY <1>5 DEF WriteSleep
<1>6. ASSUME NEW p \in Proc, WriteDone(p) PROVE TypeOK'
  BY <1>6 DEF WriteDone
<1>7. ASSUME NEW p \in Proc, ReadCall(p) PROVE TypeOK'
  <2>1. got' \in [Proc -> Seq(Byte)]
    BY <1>7, EmptyType DEF ReadCall
  <2>2. PICK n \in ReadSize : want' = [want EXCEPT ![p] = n]
    BY <1>7 DEF ReadCall
  <2> QED
    BY <1>7, <2>1, <2>2 DEF ReadCall
<1>8. ASSUME NEW p \in Proc, ReadTest(p) PROVE TypeOK'
  BY Zenon, <1>8 DEF ReadTest
<1>9. ASSUME NEW p \in Proc, ReadSleep(p) PROVE TypeOK'
  BY <1>9 DEF ReadSleep
<1>10. ASSUME NEW p \in Proc, ReadByte(p) PROVE TypeOK'
  <2>0. nread % PIPESIZE \in 0..(PIPESIZE - 1)
    BY Zenon, PlaceAssumption
  <2>1. Oldest \in Byte
    BY <2>0 DEF Oldest
  <2>2. got' \in [Proc -> Seq(Byte)]
    BY <1>10, <2>1 DEF ReadByte
  <2> QED
    BY <1>10, <2>2 DEF ReadByte
<1>11. ASSUME NEW p \in Proc, ReadDone(p) PROVE TypeOK'
  BY <1>11 DEF ReadDone
<1>12. ASSUME NEW p \in Proc, fileclose(p) PROVE TypeOK'
  BY <1>12 DEF fileclose
<1>13. ASSUME NEW p \in Proc, pipeclose(p) PROVE TypeOK'
  BY SMTT(60), <1>13 DEF pipeclose
<1>14. ASSUME NEW p \in Proc, kill(p) PROVE TypeOK'
  BY <1>14 DEF kill
<1>15. ASSUME NEW p \in Proc, NEW q \in Proc, fork(p, q) PROVE TypeOK'
  BY <1>15 DEF fork
<1>16. CASE UNCHANGED vars
  BY <1>16 DEF vars
<1> HIDE PipeAssumption DEF PipeInv, TypeOK, Proc, Goto, ring, ends, Inc, WakeReaders,
     WakeWriters
<1> QED
  BY Zenon, <1>1, <1>2, <1>3, <1>4, <1>5, <1>6, <1>7, <1>8, <1>9, <1>10, <1>11, <1>12,
       <1>13, <1>14, <1>15, <1>16 DEF Next, Step

(* Every step keeps at most PIPESIZE bytes in the ring. *)
LEMMA CountStep == PipeInv /\ [Next]_vars => (Count <= PIPESIZE)'
<1> SUFFICES ASSUME PipeInv, [Next]_vars PROVE (Count <= PIPESIZE)'
  OBVIOUS
<1> USE PipeAssumption DEF PipeInv, TypeOK, Proc, Goto, ring, ends, Inc, Plus, Count,
     Full, Empty
<1>1. ASSUME NEW p \in Proc, Acquire(p) PROVE (Count <= PIPESIZE)'
  BY <1>1 DEF Acquire
<1>2. ASSUME NEW p \in Proc, WriteCall(p) PROVE (Count <= PIPESIZE)'
  BY <1>2 DEF WriteCall
<1>3. ASSUME NEW p \in Proc, WriteByte(p) PROVE (Count <= PIPESIZE)'
  BY <1>3 DEF WriteByte
<1>4. ASSUME NEW p \in Proc, WriteFull(p) PROVE (Count <= PIPESIZE)'
  BY <1>4 DEF WriteFull
<1>5. ASSUME NEW p \in Proc, WriteSleep(p) PROVE (Count <= PIPESIZE)'
  BY <1>5 DEF WriteSleep
<1>6. ASSUME NEW p \in Proc, WriteDone(p) PROVE (Count <= PIPESIZE)'
  BY <1>6 DEF WriteDone
<1>7. ASSUME NEW p \in Proc, ReadCall(p) PROVE (Count <= PIPESIZE)'
  BY <1>7 DEF ReadCall
<1>8. ASSUME NEW p \in Proc, ReadTest(p) PROVE (Count <= PIPESIZE)'
  BY <1>8 DEF ReadTest
<1>9. ASSUME NEW p \in Proc, ReadSleep(p) PROVE (Count <= PIPESIZE)'
  BY <1>9 DEF ReadSleep
<1>10. ASSUME NEW p \in Proc, ReadByte(p) PROVE (Count <= PIPESIZE)'
  BY <1>10 DEF ReadByte
<1>11. ASSUME NEW p \in Proc, ReadDone(p) PROVE (Count <= PIPESIZE)'
  BY <1>11 DEF ReadDone
<1>12. ASSUME NEW p \in Proc, fileclose(p) PROVE (Count <= PIPESIZE)'
  BY <1>12 DEF fileclose
<1>13. ASSUME NEW p \in Proc, pipeclose(p) PROVE (Count <= PIPESIZE)'
  BY <1>13 DEF pipeclose
<1>14. ASSUME NEW p \in Proc, kill(p) PROVE (Count <= PIPESIZE)'
  BY <1>14 DEF kill
<1>15. ASSUME NEW p \in Proc, NEW q \in Proc, fork(p, q) PROVE (Count <= PIPESIZE)'
  BY <1>15 DEF fork
<1>16. CASE UNCHANGED vars
  BY SMTT(60), <1>16 DEF vars
<1> HIDE PipeAssumption DEF PipeInv, TypeOK, Proc, Goto, ring, ends, Inc, Plus, Count,
     Full, Empty
<1> QED
  BY <1>1, <1>2, <1>3, <1>4, <1>5, <1>6, <1>7, <1>8, <1>9, <1>10, <1>11, <1>12, <1>13,
       <1>14, <1>15, <1>16 DEF Next, Step

(* Every step keeps p->lock with the process the code says. *)
LEMMA LockStep == PipeInv /\ [Next]_vars => LockInv'
<1> SUFFICES ASSUME PipeInv, [Next]_vars PROVE LockInv'
  OBVIOUS
<1> USE PipeAssumption DEF PipeInv, TypeOK, Proc, Goto, ring, ends, LockInv, Inc, Plus,
     Count, Full, Empty, WakeReaders, WakeWriters
<1>1. ASSUME NEW p \in Proc, Acquire(p) PROVE LockInv'
  BY ZenonT(60), <1>1 DEF Acquire
<1>2. ASSUME NEW p \in Proc, WriteCall(p) PROVE LockInv'
  BY SMTT(60), <1>2 DEF WriteCall
<1>3. ASSUME NEW p \in Proc, WriteByte(p) PROVE LockInv'
  BY <1>3 DEF WriteByte
<1>4. ASSUME NEW p \in Proc, WriteFull(p) PROVE LockInv'
  BY <1>4 DEF WriteFull
<1>5. ASSUME NEW p \in Proc, WriteSleep(p) PROVE LockInv'
  BY <1>5 DEF WriteSleep
<1>6. ASSUME NEW p \in Proc, WriteDone(p) PROVE LockInv'
  BY <1>6 DEF WriteDone
<1>7. ASSUME NEW p \in Proc, ReadCall(p) PROVE LockInv'
  BY SMTT(60), <1>7 DEF ReadCall
<1>8. ASSUME NEW p \in Proc, ReadTest(p) PROVE LockInv'
  BY <1>8 DEF ReadTest
<1>9. ASSUME NEW p \in Proc, ReadSleep(p) PROVE LockInv'
  BY <1>9 DEF ReadSleep
<1>10. ASSUME NEW p \in Proc, ReadByte(p) PROVE LockInv'
  BY <1>10 DEF ReadByte
<1>11. ASSUME NEW p \in Proc, ReadDone(p) PROVE LockInv'
  BY <1>11 DEF ReadDone
<1>12. ASSUME NEW p \in Proc, fileclose(p) PROVE LockInv'
  BY <1>12 DEF fileclose
<1>13. ASSUME NEW p \in Proc, pipeclose(p) PROVE LockInv'
  BY <1>13 DEF pipeclose
<1>14. ASSUME NEW p \in Proc, kill(p) PROVE LockInv'
  BY <1>14 DEF kill
<1>15. ASSUME NEW p \in Proc, NEW q \in Proc, fork(p, q) PROVE LockInv'
  BY SMTT(60), <1>15 DEF fork
<1>16. CASE UNCHANGED vars
  BY <1>16 DEF vars
<1> HIDE PipeAssumption DEF PipeInv, TypeOK, Proc, Goto, ring, ends, LockInv, Inc, Plus,
     Count, Full, Empty, WakeReaders, WakeWriters
<1> QED
  BY <1>1, <1>2, <1>3, <1>4, <1>5, <1>6, <1>7, <1>8, <1>9, <1>10, <1>11, <1>12, <1>13,
       <1>14, <1>15, <1>16 DEF Next, Step

(* pipeclose wakes the sleepers of the other end and puts nobody to sleep. *)
LEMMA CloseWakes ==
  ASSUME NEW p \in Proc, TypeOK, pipeclose(p)
  PROVE  \A x \in Proc :
           /\ p \in Writer => pc'[x] # "rsleep"
           /\ p \notin Writer => pc'[x] # "wsleep"
           /\ pc'[x] = "wsleep" => pc[x] = "wsleep"
           /\ pc'[x] = "rsleep" => pc[x] = "rsleep"
<1> DEFINE f == [pc EXCEPT ![p] = "gone"]
<1>1. \A x \in Proc : f[x] = IF x = p THEN "gone" ELSE pc[x]
  BY DEF TypeOK
<1>2. CASE p \in Writer
  <2>1. pc' = [q \in Proc |-> IF f[q] = "rsleep" THEN "rlock" ELSE f[q]]
    BY <1>2 DEF pipeclose, WakeReaders
  <2> HIDE DEF f
  <2> QED
    BY <1>1, <1>2, <2>1
<1>3. CASE p \notin Writer
  <2>1. pc' = [q \in Proc |-> IF f[q] = "wsleep" THEN "wlock" ELSE f[q]]
    BY SMTT(60), <1>3 DEF pipeclose, WakeWriters
  <2> HIDE DEF f
  <2> QED
    BY <1>1, <1>3, <2>1
<1> QED
  BY <1>2, <1>3

(* No step loses a wakeup, but the one that WaitInv names. *)
LEMMA WaitStep == PipeInv /\ [Next]_vars => WaitInv'
<1> SUFFICES ASSUME PipeInv, [Next]_vars PROVE WaitInv'
  OBVIOUS
<1> USE PipeAssumption DEF PipeInv, TypeOK, Proc, Goto, ring, ends, LockInv, WaitInv,
     EndInv, SameEnd, Inc, Plus, Count, Full, Empty, WakeReaders, WakeWriters
<1>1. ASSUME NEW p \in Proc, Acquire(p) PROVE WaitInv'
  BY <1>1 DEF Acquire
<1>2. ASSUME NEW p \in Proc, WriteCall(p) PROVE WaitInv'
  BY <1>2 DEF WriteCall
<1>3. ASSUME NEW p \in Proc, WriteByte(p) PROVE WaitInv'
  BY SMTT(60), <1>3 DEF WriteByte
<1>4. ASSUME NEW p \in Proc, WriteFull(p) PROVE WaitInv'
  <2>1. CASE readopen = 0
    <3>1. \A x \in Proc : pc[x] # "wsleep"
      BY <2>1
    <3>2. ASSUME NEW x \in Proc, pc[x] = "rsleep" PROVE FALSE
      <4>1. x \in Reader /\ x \in open
        BY Zenon, <3>2
      <4> QED
        BY <2>1, <4>1
    <3> QED
      BY <1>4, <2>1, <3>1, <3>2 DEF WriteFull
  <2>2. CASE readopen = 1 /\ p \in killed
    BY <1>4, <2>2 DEF WriteFull
  <2>3. CASE readopen = 1 /\ p \notin killed
    <3>1. \A x \in Proc : /\ pc'[x] # "rsleep"
                          /\ pc'[x] = "wsleep" => pc[x] = "wsleep"
      <4>1. pc' = WakeReaders([pc EXCEPT ![p] = "wfull"])
        BY <1>4, <2>3 DEF WriteFull
      <4>2. pc \in [Proc -> {pc[x] : x \in Proc}]
        OBVIOUS
      <4> HIDE DEF PipeInv, TypeOK, LockInv, WaitInv, EndInv
      <4> QED
        BY <4>1, <4>2
    <3> QED
      BY <1>4, <2>3, <3>1 DEF WriteFull
  <2> QED
    BY <2>1, <2>2, <2>3
<1>5. ASSUME NEW p \in Proc, WriteSleep(p) PROVE WaitInv'
  BY <1>5 DEF WriteSleep
<1>6. ASSUME NEW p \in Proc, WriteDone(p) PROVE WaitInv'
  BY <1>6 DEF WriteDone
<1>7. ASSUME NEW p \in Proc, ReadCall(p) PROVE WaitInv'
  BY <1>7 DEF ReadCall
<1>8. ASSUME NEW p \in Proc, ReadTest(p) PROVE WaitInv'
  BY <1>8 DEF ReadTest
<1>9. ASSUME NEW p \in Proc, ReadSleep(p) PROVE WaitInv'
  BY <1>9 DEF ReadSleep
<1>10. ASSUME NEW p \in Proc, ReadByte(p) PROVE WaitInv'
  BY SMTT(60), <1>10 DEF ReadByte
<1>11. ASSUME NEW p \in Proc, ReadDone(p) PROVE WaitInv'
  BY <1>11 DEF ReadDone
<1>12. ASSUME NEW p \in Proc, fileclose(p) PROVE WaitInv'
  BY <1>12 DEF fileclose
<1>13. ASSUME NEW p \in Proc, pipeclose(p) PROVE WaitInv'
  <2>1. \A x \in Proc : pc[x] \notin {"copy", "write"}
    BY <1>13 DEF pipeclose
  <2>2. \A x \in Proc : /\ p \in Writer => pc'[x] # "rsleep"
                        /\ p \notin Writer => pc'[x] # "wsleep"
                        /\ pc'[x] = "wsleep" => pc[x] = "wsleep"
                        /\ pc'[x] = "rsleep" => pc[x] = "rsleep"
    BY Zenon, <1>13, CloseWakes
  <2>3. CASE p \in Writer
    BY SMTT(60), <1>13, <2>1, <2>2, <2>3 DEF pipeclose
  <2>4. CASE p \notin Writer
    BY SMTT(60), <1>13, <2>1, <2>2, <2>4 DEF pipeclose
  <2> QED
    BY Zenon, <2>3, <2>4
<1>14. ASSUME NEW p \in Proc, kill(p) PROVE WaitInv'
  BY <1>14 DEF kill
<1>15. ASSUME NEW p \in Proc, NEW q \in Proc, fork(p, q) PROVE WaitInv'
  BY <1>15 DEF fork
<1>16. CASE UNCHANGED vars
  BY <1>16 DEF vars
<1> HIDE PipeAssumption DEF PipeInv, TypeOK, Proc, Goto, ring, ends, LockInv, WaitInv,
     EndInv, SameEnd, Inc, Plus, Count, Full, Empty, WakeReaders, WakeWriters
<1> QED
  BY SMTT(60), <1>1, <1>2, <1>3, <1>4, <1>5, <1>6, <1>7, <1>8, <1>9, <1>10, <1>11, <1>12,
       <1>13, <1>14, <1>15, <1>16 DEF Next, Step

(* A step that moves processes only between places inside the pipe, or     *)
(* between them and user space, keeps the ends. *)
LEMMA EndKept ==
  ASSUME TypeOK, EndInv, UNCHANGED ends,
         \A x \in Proc : \/ pc'[x] = pc[x]
                         \/ /\ pc[x] \notin {"unborn", "gone", "close"}
                            /\ pc'[x] \notin {"unborn", "gone", "close"}
  PROVE  EndInv'
<1> USE DEF EndInv, ends, Proc, SameEnd
<1>1. \A x \in Proc : pc'[x] = "close" <=> pc[x] = "close"
  OBVIOUS
<1>2. (\A x \in Proc : x \in open <=> pc[x] \notin {"unborn", "gone", "close"})'
  OBVIOUS
<1>3. (readopen = 1 <=> \E x \in Reader : x \in open \/ pc[x] = "close")'
  BY <1>1
<1>4. (writeopen = 1 <=> \E x \in Writer : x \in open \/ pc[x] = "close")'
  BY <1>1
<1>5. (\A x \in Proc : pc[x] = "close" =>
         \A y \in SameEnd(x) : y \notin open /\ (pc[y] = "close" => y = x))'
  BY <1>1
<1> QED
  BY <1>2, <1>3, <1>4, <1>5

(* Every step keeps the ends in accord with the descriptors. *)
LEMMA EndStep == PipeInv /\ [Next]_vars => EndInv'
<1> SUFFICES ASSUME PipeInv, [Next]_vars PROVE EndInv'
  OBVIOUS
<1> USE PipeAssumption DEF PipeInv, TypeOK, Goto, ring, ends, Proc
<1>1. ASSUME NEW p \in Proc, Acquire(p) PROVE EndInv'
  <2>1. \A x \in Proc : \/ pc'[x] = pc[x]
                        \/ /\ pc[x] \notin {"unborn", "gone", "close"}
                           /\ pc'[x] \notin {"unborn", "gone", "close"}
    BY <1>1 DEF Acquire, WakeReaders, WakeWriters
  <2> QED
    BY <1>1, <2>1, EndKept DEF Acquire
<1>2. ASSUME NEW p \in Proc, WriteCall(p) PROVE EndInv'
  <2>1. \A x \in Proc : \/ pc'[x] = pc[x]
                        \/ /\ pc[x] \notin {"unborn", "gone", "close"}
                           /\ pc'[x] \notin {"unborn", "gone", "close"}
    BY <1>2 DEF WriteCall, WakeReaders, WakeWriters
  <2> QED
    BY <1>2, <2>1, EndKept DEF WriteCall
<1>3. ASSUME NEW p \in Proc, WriteByte(p) PROVE EndInv'
  <2>1. \A x \in Proc : \/ pc'[x] = pc[x]
                        \/ /\ pc[x] \notin {"unborn", "gone", "close"}
                           /\ pc'[x] \notin {"unborn", "gone", "close"}
    BY <1>3 DEF WriteByte, WakeReaders, WakeWriters
  <2> QED
    BY <1>3, <2>1, EndKept DEF WriteByte
<1>4. ASSUME NEW p \in Proc, WriteFull(p) PROVE EndInv'
  <2>1. \A x \in Proc : \/ pc'[x] = pc[x]
                        \/ /\ pc[x] \notin {"unborn", "gone", "close"}
                           /\ pc'[x] \notin {"unborn", "gone", "close"}
    BY ZenonT(60), <1>4 DEF WriteFull, WakeReaders, WakeWriters
  <2> QED
    BY <1>4, <2>1, EndKept DEF WriteFull
<1>5. ASSUME NEW p \in Proc, WriteSleep(p) PROVE EndInv'
  <2>1. \A x \in Proc : \/ pc'[x] = pc[x]
                        \/ /\ pc[x] \notin {"unborn", "gone", "close"}
                           /\ pc'[x] \notin {"unborn", "gone", "close"}
    BY <1>5 DEF WriteSleep, WakeReaders, WakeWriters
  <2> QED
    BY <1>5, <2>1, EndKept DEF WriteSleep
<1>6. ASSUME NEW p \in Proc, WriteDone(p) PROVE EndInv'
  <2>1. \A x \in Proc : \/ pc'[x] = pc[x]
                        \/ /\ pc[x] \notin {"unborn", "gone", "close"}
                           /\ pc'[x] \notin {"unborn", "gone", "close"}
    BY SMTT(60), <1>6 DEF WriteDone, WakeReaders, WakeWriters
  <2> QED
    BY Zenon, <1>6, <2>1, EndKept DEF WriteDone
<1>7. ASSUME NEW p \in Proc, ReadCall(p) PROVE EndInv'
  <2>1. \A x \in Proc : \/ pc'[x] = pc[x]
                        \/ /\ pc[x] \notin {"unborn", "gone", "close"}
                           /\ pc'[x] \notin {"unborn", "gone", "close"}
    BY <1>7 DEF ReadCall, WakeReaders, WakeWriters
  <2> QED
    BY <1>7, <2>1, EndKept DEF ReadCall
<1>8. ASSUME NEW p \in Proc, ReadTest(p) PROVE EndInv'
  <2>1. \A x \in Proc : \/ pc'[x] = pc[x]
                        \/ /\ pc[x] \notin {"unborn", "gone", "close"}
                           /\ pc'[x] \notin {"unborn", "gone", "close"}
    BY <1>8 DEF ReadTest, WakeReaders, WakeWriters
  <2> QED
    BY <1>8, <2>1, EndKept DEF ReadTest
<1>9. ASSUME NEW p \in Proc, ReadSleep(p) PROVE EndInv'
  <2>1. \A x \in Proc : \/ pc'[x] = pc[x]
                        \/ /\ pc[x] \notin {"unborn", "gone", "close"}
                           /\ pc'[x] \notin {"unborn", "gone", "close"}
    BY <1>9 DEF ReadSleep, WakeReaders, WakeWriters
  <2> QED
    BY <1>9, <2>1, EndKept DEF ReadSleep
<1>10. ASSUME NEW p \in Proc, ReadByte(p) PROVE EndInv'
  <2>1. \A x \in Proc : \/ pc'[x] = pc[x]
                        \/ /\ pc[x] \notin {"unborn", "gone", "close"}
                           /\ pc'[x] \notin {"unborn", "gone", "close"}
    BY <1>10 DEF ReadByte, WakeReaders, WakeWriters
  <2> QED
    BY <1>10, <2>1, EndKept DEF ReadByte
<1>11. ASSUME NEW p \in Proc, ReadDone(p) PROVE EndInv'
  <2>1. \A x \in Proc : \/ pc'[x] = pc[x]
                        \/ /\ pc[x] \notin {"unborn", "gone", "close"}
                           /\ pc'[x] \notin {"unborn", "gone", "close"}
    BY <1>11 DEF ReadDone, WakeReaders, WakeWriters
  <2> QED
    BY ZenonT(60), <1>11, <2>1, EndKept DEF ReadDone
<1>12. ASSUME NEW p \in Proc, fileclose(p) PROVE EndInv'
  <2>1. (\A x \in Proc : x \in open <=> pc[x] \notin {"unborn", "gone", "close"})'
    BY SMTT(60), <1>12 DEF fileclose, EndInv, SameEnd
  <2>2. (readopen = 1 <=> \E x \in Reader : x \in open \/ pc[x] = "close")'
    BY ZenonT(60), <1>12 DEF fileclose, EndInv, SameEnd
  <2>3. (writeopen = 1 <=> \E x \in Writer : x \in open \/ pc[x] = "close")'
    BY <1>12 DEF fileclose, EndInv, SameEnd
  <2>4. (\A x \in Proc : pc[x] = "close" =>
           \A y \in SameEnd(x) : y \notin open /\ (pc[y] = "close" => y = x))'
    BY SMTT(60), <1>12 DEF fileclose, EndInv, SameEnd
  <2>5. (freed = 1 <=> readopen = 0 /\ writeopen = 0)'
    BY <1>12 DEF fileclose, EndInv, SameEnd
  <2> QED
    BY SMTT(60), <2>1, <2>2, <2>3, <2>4, <2>5 DEF EndInv
<1>13. ASSUME NEW p \in Proc, pipeclose(p) PROVE EndInv'
  <2>1. \A x \in Proc : pc'[x] = "close" <=> pc[x] = "close" /\ x # p
    BY <1>13 DEF pipeclose, WakeReaders, WakeWriters
  <2>2. (\A x \in Proc : x \in open <=> pc[x] \notin {"unborn", "gone", "close"})'
    <3>1. \A x \in Proc : \/ pc'[x] = pc[x]
                          \/ x = p /\ pc'[x] = "gone" /\ pc[x] = "close"
                          \/ pc'[x] = "rlock" /\ pc[x] = "rsleep"
                          \/ pc'[x] = "wlock" /\ pc[x] = "wsleep"
      BY <1>13 DEF pipeclose, WakeReaders, WakeWriters
    <3> QED
      BY ZenonT(60), <1>13, <3>1 DEF pipeclose, EndInv
  <2>3. (readopen = 1 <=> \E x \in Reader : x \in open \/ pc[x] = "close")'
    BY <1>13, <2>1 DEF pipeclose, EndInv, SameEnd, LastEnd, WakeReaders, WakeWriters
  <2>4. (writeopen = 1 <=> \E x \in Writer : x \in open \/ pc[x] = "close")'
    BY <1>13, <2>1 DEF pipeclose, EndInv, SameEnd, LastEnd, WakeReaders, WakeWriters
  <2>5. (\A x \in Proc : pc[x] = "close" =>
           \A y \in SameEnd(x) : y \notin open /\ (pc[y] = "close" => y = x))'
    BY <1>13, <2>1 DEF pipeclose, EndInv, SameEnd, LastEnd, WakeReaders, WakeWriters
  <2>6. (freed = 1 <=> readopen = 0 /\ writeopen = 0)'
    BY <1>13, <2>1 DEF pipeclose, EndInv, SameEnd, LastEnd, WakeReaders, WakeWriters
  <2> QED
    BY <2>2, <2>3, <2>4, <2>5, <2>6 DEF EndInv
<1>14. ASSUME NEW p \in Proc, kill(p) PROVE EndInv'
  <2>1. \A x \in Proc : \/ pc'[x] = pc[x]
                        \/ /\ pc[x] \notin {"unborn", "gone", "close"}
                           /\ pc'[x] \notin {"unborn", "gone", "close"}
    BY <1>14 DEF kill, WakeReaders, WakeWriters
  <2> QED
    BY <1>14, <2>1, EndKept DEF kill
<1>15. ASSUME NEW p \in Proc, NEW q \in Proc, fork(p, q) PROVE EndInv'
  <2>0. /\ p \in Reader <=> q \in Reader
        /\ \A x \in Proc : pc'[x] = "close" <=> pc[x] = "close"
        /\ open' = open \cup {q} /\ p \in open
        /\ UNCHANGED <<readopen, writeopen, freed>>
    BY Zenon, <1>15 DEF fork, SameEnd, EndInv
  <2>9. \A x \in Proc : p \in SameEnd(x) <=> q \in SameEnd(x)
    BY <2>0 DEF SameEnd
  <2>1. (\A x \in Proc : x \in open <=> pc[x] \notin {"unborn", "gone", "close"})'
    BY SMTT(60), <1>15, <2>0 DEF fork, EndInv
  <2>2. (readopen = 1 <=> \E x \in Reader : x \in open \/ pc[x] = "close")'
    BY <2>0, <2>9 DEF EndInv
  <2>3. (writeopen = 1 <=> \E x \in Writer : x \in open \/ pc[x] = "close")'
    BY <2>0, <2>9 DEF EndInv
  <2>4. (\A x \in Proc : pc[x] = "close" =>
           \A y \in SameEnd(x) : y \notin open /\ (pc[y] = "close" => y = x))'
    <3> SUFFICES ASSUME NEW x \in Proc, pc[x] = "close", NEW y \in SameEnd(x)
                 PROVE  y \notin open \cup {q} /\ (pc[y] = "close" => y = x)
      BY SMTT(60), <2>0 DEF SameEnd
    <3> QED
      BY <2>0, <2>9 DEF EndInv
  <2>5. (freed = 1 <=> readopen = 0 /\ writeopen = 0)'
    BY <2>0, <2>9 DEF EndInv
  <2> QED
    BY SMTT(60), <2>1, <2>2, <2>3, <2>4, <2>5 DEF EndInv
<1>16. CASE UNCHANGED vars
  <2>1. \A x \in Proc : \/ pc'[x] = pc[x]
                        \/ /\ pc[x] \notin {"unborn", "gone", "close"}
                           /\ pc'[x] \notin {"unborn", "gone", "close"}
    BY <1>16 DEF vars, WakeReaders, WakeWriters
  <2> QED
    BY <1>16, <2>1, EndKept DEF vars
<1> HIDE PipeAssumption DEF PipeInv, TypeOK, Goto, ring, ends, Proc
<1> QED
  BY <1>1, <1>2, <1>3, <1>4, <1>5, <1>6, <1>7, <1>8, <1>9, <1>10, <1>11,
     <1>12, <1>13, <1>14, <1>15, <1>16 DEF Next, Step

(* A new pipe satisfies the invariant.                                     *)
LEMMA InitInv == Init => PipeInv
<1> SUFFICES ASSUME Init PROVE PipeInv
  OBVIOUS
<1>1. TypeOK
  BY PipeAssumption, EmptyType DEF Init, TypeOK, Proc
<1>2. Count <= PIPESIZE
  BY PipeAssumption DEF Init, Count
<1>3. LockInv
  BY PipeAssumption DEF Init, LockInv, Proc
<1>4. WaitInv
  BY DEF Init, WaitInv
<1>5. EndInv
  BY Zenon DEF Init, EndInv, SameEnd, Proc
<1> QED
  BY <1>1, <1>2, <1>3, <1>4, <1>5 DEF PipeInv

(* The pipe works, for any processes, payloads, size and counter width: at *)
(* most PIPESIZE bytes are under way, p->lock is held by whom the code     *)
(* says, pipewrite, piperead and pipeclose lose no wakeup (but the one of  *)
(* a killed writer), and the ends follow the descriptors.                  *)
THEOREM PipeInvariant == Spec => []PipeInv
<1>1. PipeInv /\ [Next]_vars => PipeInv'
  BY TypeStep, CountStep, LockStep, WaitStep, EndStep DEF PipeInv
<1> QED
  BY InitInv, <1>1, PTL DEF Spec

(* pipeclose frees the page of the pipe only when no process can use it.   *)
THEOREM PipeFreedOnce == Spec => []NoUseAfterFree
<1>1. PipeInv => NoUseAfterFree
  <2> SUFFICES ASSUME PipeInv, freed = 1, NEW p \in Proc
               PROVE  p \notin open /\ pc[p] \in {"unborn", "gone"}
    BY DEF NoUseAfterFree
  <2>1. readopen # 1 /\ writeopen # 1
    BY DEF PipeInv, EndInv
  <2>2. p \notin open /\ pc[p] # "close"
    BY <2>1 DEF PipeInv, EndInv, Proc
  <2> QED
    BY <2>2 DEF PipeInv, EndInv
<1> QED
  BY PipeInvariant, <1>1, PTL

(* The bytes between the counters are a sequence of Count bytes, and       *)
(* nwrite is Count numbers after nread.                                    *)
LEMMA QueueType ==
  ASSUME PipeInv
  PROVE  /\ Count \in Nat /\ Plus(nread, Count) = nwrite
         /\ Queue \in Seq(Byte) /\ Len(Queue) = Count
<1> USE PipeAssumption DEF PipeInv, TypeOK
<1>1. Count \in Nat /\ Plus(nread, Count) = nwrite
  BY DEF Count, Plus
<1>2. \A i \in 1..Count : Plus(nread, i - 1) \in 0..(UINT - 1)
  BY <1>1 DEF Plus
<1>3. \A i \in 1..Count : data[Plus(nread, i - 1) % PIPESIZE] \in Byte
  BY Zenon, <1>2, PlaceAssumption
<1> QED
  BY <1>1, <1>3 DEF Queue

(* WriteByte appends its byte: the place of nwrite is none of the places   *)
(* of the bytes that are under way.                                        *)
LEMMA QueueAppend ==
  ASSUME PipeInv, NEW p \in Proc, WriteByte(p)
  PROVE  Count < PIPESIZE /\ Queue' = Append(Queue, Head(todo[p]))
<1> USE PipeAssumption DEF PipeInv, TypeOK
<1>1. Count \in Nat /\ Plus(nread, Count) = nwrite /\ Queue \in Seq(Byte) /\ Len(Queue) = Count
  BY QueueType
<1>2. Count < PIPESIZE /\ Count' = Count + 1
  BY <1>1 DEF WriteByte, Full, Inc, Plus, Count
<1>3. \A i \in 1..Count : /\ Plus(nread, i - 1) \in 0..(UINT - 1)
                          /\ Plus(Plus(nread, i - 1), Count - i + 1) = nwrite
  BY <1>1, <1>2 DEF Plus
<1>4. \A i \in 1..Count : nwrite % PIPESIZE # Plus(nread, i - 1) % PIPESIZE
  <2> SUFFICES ASSUME NEW i \in 1..Count
               PROVE  nwrite % PIPESIZE # Plus(nread, i - 1) % PIPESIZE
    OBVIOUS
  <2>1. Count - i + 1 \in 1..(PIPESIZE - 1)
    BY <1>1, <1>2
  <2> QED
    BY Zenon, <1>3, <2>1, PlaceAssumption
<1>5. \A i \in 1..Count : Plus(nread, i - 1) % PIPESIZE \in 0..(PIPESIZE - 1)
  BY Zenon, <1>3, PlaceAssumption
<1>6. nwrite % PIPESIZE \in 0..(PIPESIZE - 1)
  BY Zenon, PlaceAssumption
<1>7. \A i \in 1..Count : data'[Plus(nread, i - 1) % PIPESIZE] = Queue[i]
  BY <1>4, <1>5, <1>6 DEF WriteByte, Queue
<1>8. data'[Plus(nread, Count) % PIPESIZE] = Head(todo[p])
  BY <1>1, <1>6 DEF WriteByte
<1>9. Queue' = [i \in 1..(Count + 1) |-> data'[Plus(nread, i - 1) % PIPESIZE]]
  BY <1>2 DEF Queue, WriteByte
<1>10. Append(Queue, Head(todo[p])) =
         [i \in 1..(Count + 1) |-> IF i = Count + 1 THEN Head(todo[p]) ELSE Queue[i]]
  BY <1>1
<1> QED
  BY SMTT(60), <1>1, <1>2, <1>7, <1>8, <1>9, <1>10

(* The tail of a sequence as a function. *)
LEMMA TailFunction ==
  ASSUME NEW S, NEW s \in Seq(S), Len(s) > 0
  PROVE  Tail(s) = [i \in 1..(Len(s) - 1) |-> s[i + 1]]
<1>1. s # <<>>
  OBVIOUS
<1>2. Tail(s) \in Seq(S) /\ Len(Tail(s)) = Len(s) - 1
      /\ \A i \in 1..Len(Tail(s)) : Tail(s)[i] = s[i + 1]
  BY <1>1, HeadTailProperties
<1>3. Tail(s) = [i \in 1..(Len(s) - 1) |-> Tail(s)[i]]
  BY Zenon, <1>2, LenProperties
<1> QED
  BY <1>2, <1>3

(* ReadByte takes the oldest byte away and moves the others one place up.  *)
LEMMA QueueTail ==
  ASSUME PipeInv, NEW p \in Proc, ReadByte(p)
  PROVE  Queue # <<>> /\ Oldest = Head(Queue) /\ Queue' = Tail(Queue)
<1> USE PipeAssumption DEF PipeInv, TypeOK
<1>1. Count \in Nat /\ Queue \in Seq(Byte) /\ Len(Queue) = Count
  BY QueueType
<1>2. Count > 0 /\ Count' = Count - 1
  BY <1>1 DEF ReadByte, Empty, Inc, Count
<1>3. \A i \in 1..(Count - 1) : Plus(nread', i - 1) = Plus(nread, i)
  BY <1>1, <1>2 DEF ReadByte, Inc, Plus
<1>4. Queue' = [i \in 1..(Count - 1) |-> data[Plus(nread, i) % PIPESIZE]]
  BY <1>2, <1>3 DEF Queue, ReadByte
<1>5. Tail(Queue) = [i \in 1..(Count - 1) |-> Queue[i + 1]]
  <2>1. Len(Queue) > 0
    BY <1>1, <1>2
  <2> HIDE DEF PipeInv
  <2> QED
    BY <1>1, <2>1, TailFunction
<1>6. \A i \in 1..(Count - 1) : Queue[i + 1] = data[Plus(nread, i) % PIPESIZE]
  <2> SUFFICES ASSUME NEW i \in 1..(Count - 1)
               PROVE  Queue[i + 1] = data[Plus(nread, i) % PIPESIZE]
    OBVIOUS
  <2>1. i + 1 \in 1..Count /\ (i + 1) - 1 = i
    BY <1>1, <1>2
  <2> QED
    BY <2>1 DEF Queue
<1>7. Plus(nread, 0) = nread
  BY DEF Plus
<1>8. Queue[1] = Oldest
  BY <1>1, <1>2, <1>7 DEF Queue, Oldest
<1> QED
  BY <1>1, <1>2, <1>4, <1>5, <1>6, <1>8

(* The pipe implements the byte stream: readers get the bytes that were    *)
(* written, each once and in order, for any number of readers and writers  *)
(* and although nread and nwrite wrap.                                     *)
THEOREM PipeIsByteStream == Spec => ByteStreamSpec
<1> USE DEF Stream!vars
<1>1. Init => Stream!Init
  BY PipeAssumption DEF Init, Stream!Init, Queue, Count
<1>2. PipeInv /\ [Next]_vars => [Stream!Next]_(Stream!vars)
  <2> SUFFICES ASSUME PipeInv, [Next]_vars PROVE [Stream!Next]_(Stream!vars)
    OBVIOUS
  <2>1. ASSUME UNCHANGED <<ring, todo, got>> PROVE UNCHANGED Stream!vars
    BY <2>1 DEF ring, Queue, Count
  <2>2. ASSUME UNCHANGED ring PROVE Queue' = Queue
    BY <2>2 DEF ring, Queue, Count
  <2>3. ASSUME NEW p \in Proc, WriteCall(p) PROVE Stream!Next
    BY <2>3, <2>2 DEF WriteCall, Stream!Next, Stream!Offer
  <2>4. ASSUME NEW p \in Proc, WriteByte(p) PROVE Stream!Next
    BY Zenon, <2>4, QueueAppend, QueueType DEF WriteByte, Stream!Next, Stream!Send
  <2>5. ASSUME NEW p \in Proc, WriteFull(p) PROVE [Stream!Next]_(Stream!vars)
    <3>1. CASE UNCHANGED todo
      BY <2>5, <2>1, <3>1 DEF WriteFull
    <3>2. CASE todo' = [todo EXCEPT ![p] = <<>>]
      BY Zenon, <2>5, <2>2, <3>2 DEF WriteFull, Stream!Next, Stream!Offer
    <3> QED
      BY <2>5, <3>1, <3>2 DEF WriteFull
  <2>6. ASSUME NEW p \in Proc, ReadCall(p) PROVE Stream!Next
    BY Zenon, <2>6, <2>2 DEF ReadCall, Stream!Next, Stream!Reset
  <2>7. ASSUME NEW p \in Proc, ReadByte(p) PROVE Stream!Next
    BY Zenon, <2>7, QueueTail DEF ReadByte, Stream!Next, Stream!Receive
  <2>8. ASSUME NEW p \in Proc,
               \/ Acquire(p) \/ WriteSleep(p) \/ WriteDone(p)
               \/ ReadTest(p) \/ ReadSleep(p) \/ ReadDone(p)
               \/ pipeclose(p) \/ fileclose(p) \/ kill(p)
               \/ \E q \in Proc : fork(p, q)
        PROVE  UNCHANGED Stream!vars
    <3>1. UNCHANGED <<ring, todo, got>>
      BY <2>8 DEF Acquire, WriteSleep, WriteDone, ReadTest, ReadSleep, ReadDone,
                  pipeclose, fileclose, kill, fork, ring
    <3> QED
      BY SMTT(60), <2>1, <3>1
  <2>9. CASE UNCHANGED vars
    BY <2>1, <2>9 DEF vars
  <2> QED
    BY <2>3, <2>4, <2>5, <2>6, <2>7, <2>8, <2>9 DEF Next, Step
<1> QED
  BY <1>1, <1>2, PipeInvariant, PTL DEF Spec, ByteStreamSpec, Stream!Spec
=============================================================================
