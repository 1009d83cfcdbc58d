----------------------------- MODULE LogProofs -----------------------------
(***************************************************************************)
(* Proofs about the log, for any number of processes and blocks and any    *)
(* size of the log.                                                        *)
(***************************************************************************)
EXTENDS Log, TLAPS

(* The limit that log_write enforces leaves room for at least one block. *)
LEMMA LogLimitType == LogLimit \in Nat \ {0} /\ LogLimit <= LOGSIZE
BY SizeAssumption DEF LogLimit

(* A block that is appended only when it is not logged yet is logged once. *)
LEMMA AppendDistinct ==
  ASSUME NEW s \in Seq(Block), NEW e \in Block, Distinct(s),
         \A j \in 1..Len(s) : s[j] # e
  PROVE  Distinct(Append(s, e))
<1>1. /\ Len(s) \in Nat
      /\ Len(Append(s, e)) = Len(s) + 1
      /\ Append(s, e)[Len(s) + 1] = e
      /\ \A j \in 1..Len(s) : Append(s, e)[j] = s[j]
  OBVIOUS
<1> SUFFICES ASSUME NEW i \in 1..(Len(s) + 1), NEW j \in 1..(Len(s) + 1),
                    Append(s, e)[i] = Append(s, e)[j]
             PROVE  i = j
  BY <1>1 DEF Distinct
<1>2. CASE i = Len(s) + 1 /\ j = Len(s) + 1
  BY <1>2
<1>3. CASE i \in 1..Len(s) /\ j \in 1..Len(s)
  BY <1>1, <1>3 DEF Distinct
<1>4. CASE i = Len(s) + 1 /\ j \in 1..Len(s)
  BY <1>1, <1>4
<1>5. CASE i \in 1..Len(s) /\ j = Len(s) + 1
  BY <1>1, <1>5
<1> QED
  BY <1>1, <1>2, <1>3, <1>4, <1>5

(* log_write finds the block in the log, or takes the next free entry. *)
LEMMA LogIndexFacts ==
  ASSUME TypeOK, NEW b \in Block, Len(lh) < LogLimit
  PROVE  /\ LogIndex(b) \in 1..LogLimit
         /\ \/ /\ LogIndex(b) \in 1..Len(lh)
               /\ lh[LogIndex(b)] = b
            \/ /\ LogIndex(b) = Len(lh) + 1
               /\ \A i \in 1..Len(lh) : lh[i] # b
<1>1. CASE \E i \in 1..Len(lh) : lh[i] = b
  <2>1. LogIndex(b) \in 1..Len(lh) /\ lh[LogIndex(b)] = b
    BY <1>1 DEF LogIndex
  <2> QED
    BY <2>1, LogLimitType DEF TypeOK
<1>2. CASE ~ \E i \in 1..Len(lh) : lh[i] = b
  BY <1>2, LogLimitType DEF LogIndex, TypeOK
<1> QED
  BY <1>1, <1>2

(* The state at boot satisfies the invariant. *)
LEMMA InitInv == Init => LogInv
<1> SUFFICES ASSUME Init PROVE LogInv
  OBVIOUS
<1>1. TypeOK
  BY LogLimitType DEF Init, TypeOK
<1>2. ControlInv
  BY NoneAssumption DEF Init, ControlInv, Owner, Running
<1>3. HeadInv
  BY DEF Init, HeadInv, Distinct, Running
<1>4. ContentsInv
  BY DEF Init, ContentsInv, Running
<1> QED
  BY <1>1, <1>2, <1>3, <1>4 DEF LogInv

(* Every step of log.c keeps the types: in particular log_write never      *)
(* passes the end of sector[] or of the log on the disk. *)
LEMMA TypeStep == LogInv /\ [Next]_vars => TypeOK'
<1> SUFFICES ASSUME TypeOK, ControlInv, ContentsInv, [Next]_vars PROVE TypeOK'
  BY DEF LogInv
<1> USE LogLimitType DEF TypeOK, Room, Pin, Woken
<1>1. CASE read_head
  BY <1>1 DEF read_head, diskvars
<1>2. CASE RecoverInstall
  BY <1>2 DEF RecoverInstall, install_block
<1>3. CASE RecoverClear
  BY <1>3 DEF RecoverClear, clear_head
<1>4. ASSUME NEW p \in Proc, KillWakes(p) PROVE TypeOK'
  BY <1>4 DEF KillWakes, diskvars
<1>5. ASSUME NEW p \in Proc, begin_trans(p) PROVE TypeOK'
  BY <1>5 DEF begin_trans, diskvars
<1>6. ASSUME NEW p \in Proc, NEW b \in Block, NEW d \in Data, Modify(p, b, d) PROVE TypeOK'
  BY <1>6 DEF Modify, diskvars
<1>7. ASSUME NEW p \in Proc, log_write(p) PROVE TypeOK'
  <2>1. cur[p] \in Block /\ buf[cur[p]] \in Data
    BY <1>7, NoneAssumption DEF log_write, ControlInv, ContentsInv
  <2>2. LogIndex(cur[p]) \in 1..LogLimit
    BY <1>7, <2>1, LogIndexFacts DEF log_write
  <2> QED
    BY <1>7, <2>1, <2>2 DEF log_write
<1>8. ASSUME NEW p \in Proc, LogPanic(p) PROVE TypeOK'
  BY <1>8 DEF LogPanic, diskvars
<1>9. ASSUME NEW p \in Proc, CommitHead(p) PROVE TypeOK'
  BY SMTT(60), <1>9 DEF CommitHead
<1>10. ASSUME NEW p \in Proc, CommitInstall(p) PROVE TypeOK'
  BY <1>10 DEF CommitInstall, install_block
<1>11. ASSUME NEW p \in Proc, CommitClear(p) PROVE TypeOK'
  BY <1>11 DEF CommitClear, clear_head
<1>12. ASSUME NEW p \in Proc, CommitRelease(p) PROVE TypeOK'
  BY <1>12 DEF CommitRelease, diskvars
<1>13. ASSUME NEW b \in Block, bread(b) PROVE TypeOK'
  BY <1>13 DEF bread, diskvars
<1>14. ASSUME NEW b \in Block, Recycle(b) PROVE TypeOK'
  BY <1>14 DEF Recycle, diskvars
<1>15. CASE Crash
  BY <1>15 DEF Crash, diskvars
<1>16. CASE UNCHANGED vars
  BY <1>16 DEF vars
<1> HIDE LogLimitType DEF TypeOK, Room, Pin, Woken
<1> QED
  BY <1>1, <1>2, <1>3, <1>4, <1>5, <1>6, <1>7, <1>8, <1>9, <1>10, <1>11,
     <1>12, <1>13, <1>14, <1>15, <1>16 DEF Next

(* Every step keeps log.busy in accord with where the processes are. *)
LEMMA ControlStep == LogInv /\ [Next]_vars => ControlInv'
<1> SUFFICES ASSUME TypeOK, ControlInv, [Next]_vars PROVE ControlInv'
  BY DEF LogInv
<1> USE NoneAssumption DEF TypeOK, ControlInv, Owner, Running, Room, Pin, Woken
<1>1. CASE read_head
  BY <1>1 DEF read_head, diskvars
<1>2. CASE RecoverInstall
  BY <1>2 DEF RecoverInstall, install_block
<1>3. CASE RecoverClear
  BY <1>3 DEF RecoverClear, clear_head
<1>4. ASSUME NEW p \in Proc, KillWakes(p) PROVE ControlInv'
  BY <1>4 DEF KillWakes, diskvars
<1>5. ASSUME NEW p \in Proc, begin_trans(p) PROVE ControlInv'
  BY <1>5 DEF begin_trans, diskvars
<1>6. ASSUME NEW p \in Proc, NEW b \in Block, NEW d \in Data, Modify(p, b, d) PROVE ControlInv'
  BY <1>6 DEF Modify, diskvars
<1>7. ASSUME NEW p \in Proc, log_write(p) PROVE ControlInv'
  BY <1>7 DEF log_write
<1>8. ASSUME NEW p \in Proc, LogPanic(p) PROVE ControlInv'
  BY <1>8 DEF LogPanic, diskvars
<1>9. ASSUME NEW p \in Proc, CommitHead(p) PROVE ControlInv'
  BY ZenonT(60), <1>9 DEF CommitHead
<1>10. ASSUME NEW p \in Proc, CommitInstall(p) PROVE ControlInv'
  BY <1>10 DEF CommitInstall, install_block
<1>11. ASSUME NEW p \in Proc, CommitClear(p) PROVE ControlInv'
  BY <1>11 DEF CommitClear, clear_head
<1>12. ASSUME NEW p \in Proc, CommitRelease(p) PROVE ControlInv'
  BY <1>12 DEF CommitRelease, diskvars
<1>13. ASSUME NEW b \in Block, bread(b) PROVE ControlInv'
  BY <1>13 DEF bread, diskvars
<1>14. ASSUME NEW b \in Block, Recycle(b) PROVE ControlInv'
  BY <1>14 DEF Recycle, diskvars
<1>15. CASE Crash
  BY <1>15 DEF Crash, diskvars
<1>16. CASE UNCHANGED vars
  BY <1>16 DEF vars
<1> HIDE NoneAssumption DEF TypeOK, ControlInv, Owner, Running, Room, Pin, Woken
<1> QED
  BY <1>1, <1>2, <1>3, <1>4, <1>5, <1>6, <1>7, <1>8, <1>9, <1>10, <1>11,
     <1>12, <1>13, <1>14, <1>15, <1>16 DEF Next

(* Every step keeps log.lh and the header on the disk in accord: they are   *)
(* equal while blocks are installed, and the one on the disk is empty       *)
(* while a transaction runs. *)
LEMMA HeadStep == LogInv /\ [Next]_vars => HeadInv'
<1> SUFFICES ASSUME TypeOK, ControlInv, HeadInv, [Next]_vars PROVE HeadInv'
  BY DEF LogInv
<1> USE NoneAssumption DEF TypeOK, ControlInv, Owner, HeadInv, Distinct, Running, Room,
     Pin, Woken
<1>1. CASE read_head
  BY <1>1 DEF read_head, diskvars
<1>2. CASE RecoverInstall
  BY <1>2 DEF RecoverInstall, install_block
<1>3. CASE RecoverClear
  BY <1>3 DEF RecoverClear, clear_head
<1>4. ASSUME NEW p \in Proc, KillWakes(p) PROVE HeadInv'
  BY <1>4 DEF KillWakes, diskvars
<1>5. ASSUME NEW p \in Proc, begin_trans(p) PROVE HeadInv'
  BY <1>5 DEF begin_trans, diskvars
<1>6. ASSUME NEW p \in Proc, NEW b \in Block, NEW d \in Data, Modify(p, b, d) PROVE HeadInv'
  BY <1>6 DEF Modify, diskvars
<1>7. ASSUME NEW p \in Proc, log_write(p) PROVE HeadInv'
  <2> DEFINE b == cur[p]
             i == LogIndex(b)
  <2>1. b \in Block /\ Len(lh) < LogLimit
    BY <1>7 DEF log_write
  <2>2. \/ i \in 1..Len(lh) /\ lh[i] = b /\ lh' = lh
        \/ /\ i = Len(lh) + 1 /\ lh' = Append(lh, b)
           /\ \A j \in 1..Len(lh) : lh[j] # b
    BY <1>7, <2>1, LogIndexFacts DEF log_write
  <2>3. Distinct(lh')
    <3>1. lh \in Seq(Block) /\ Distinct(lh)
      OBVIOUS
    <3>2. CASE lh' = lh
      BY <3>1, <3>2
    <3>3. CASE lh' = Append(lh, b) /\ \A j \in 1..Len(lh) : lh[j] # b
      <4> HIDE DEF b, Distinct
      <4> QED
        BY <2>1, <3>1, <3>3, AppendDistinct
    <3> QED
      BY <2>2, <3>2, <3>3
  <2> QED
    BY <1>7, <2>1, <2>2, <2>3 DEF log_write
<1>8. ASSUME NEW p \in Proc, LogPanic(p) PROVE HeadInv'
  BY <1>8 DEF LogPanic, diskvars
<1>9. ASSUME NEW p \in Proc, CommitHead(p) PROVE HeadInv'
  BY <1>9 DEF CommitHead
<1>10. ASSUME NEW p \in Proc, CommitInstall(p) PROVE HeadInv'
  BY <1>10 DEF CommitInstall, install_block
<1>11. ASSUME NEW p \in Proc, CommitClear(p) PROVE HeadInv'
  BY <1>11 DEF CommitClear, clear_head
<1>12. ASSUME NEW p \in Proc, CommitRelease(p) PROVE HeadInv'
  BY <1>12 DEF CommitRelease, diskvars
<1>13. ASSUME NEW b \in Block, bread(b) PROVE HeadInv'
  BY <1>13 DEF bread, diskvars
<1>14. ASSUME NEW b \in Block, Recycle(b) PROVE HeadInv'
  BY <1>14 DEF Recycle, diskvars
<1>15. CASE Crash
  BY <1>15 DEF Crash, diskvars
<1>16. CASE UNCHANGED vars
  BY SMTT(60), <1>16 DEF vars
<1> HIDE NoneAssumption DEF TypeOK, ControlInv, Owner, HeadInv, Distinct, Running, Room,
     Pin, Woken
<1> QED
  BY <1>1, <1>2, <1>3, <1>4, <1>5, <1>6, <1>7, <1>8, <1>9, <1>10, <1>11,
     <1>12, <1>13, <1>14, <1>15, <1>16 DEF Next

(* Every step keeps the disk, the log blocks and the buffers in accord. *)
LEMMA ContentsStep == LogInv /\ [Next]_vars => ContentsInv'
<1> SUFFICES ASSUME TypeOK, ControlInv, HeadInv, ContentsInv, [Next]_vars PROVE ContentsInv'
  BY DEF LogInv
<1> USE NoneAssumption DEF TypeOK, ControlInv, Owner, HeadInv, ContentsInv, Distinct,
     Running, Room, Pin, Woken
<1>1. CASE read_head
  BY <1>1 DEF read_head, diskvars
<1>2. CASE RecoverInstall
  <2>1. dirty = {} /\ (\A p \in Proc : cur[p] = NoBlock) /\ lh[tail + 1] \in Block
    BY <1>2 DEF RecoverInstall, install_block
  <2>2. \A i \in 1..tail' : disk'[lh'[i]] = logblk'[i]
    BY <1>2, <2>1 DEF RecoverInstall, install_block
  <2> QED
    BY <1>2, <2>1, <2>2 DEF RecoverInstall, install_block
<1>3. CASE RecoverClear
  BY <1>3 DEF RecoverClear, clear_head
<1>4. ASSUME NEW p \in Proc, KillWakes(p) PROVE ContentsInv'
  BY <1>4 DEF KillWakes, diskvars
<1>5. ASSUME NEW p \in Proc, begin_trans(p) PROVE ContentsInv'
  BY <1>5 DEF begin_trans, diskvars
<1>6. ASSUME NEW p \in Proc, NEW b \in Block, NEW d \in Data, Modify(p, b, d) PROVE ContentsInv'
  BY <1>6 DEF Modify, diskvars
<1>7. ASSUME NEW p \in Proc, log_write(p) PROVE ContentsInv'
  <2> DEFINE b == cur[p]
             i == LogIndex(b)
  <2>1. b \in Block /\ Len(lh) < LogLimit
    BY <1>7 DEF log_write
  <2>2. \/ i \in 1..Len(lh) /\ lh[i] = b /\ lh' = lh
        \/ /\ i = Len(lh) + 1 /\ lh' = Append(lh, b)
           /\ \A j \in 1..Len(lh) : lh[j] # b
    BY <1>7, <2>1, LogIndexFacts DEF log_write
  <2>3. \A j \in 1..Len(lh') : j # i => lh'[j] # b /\ lh'[j] = lh[j] /\ j \in 1..Len(lh)
    BY <2>1, <2>2
  <2>4. i \in 1..Len(lh') /\ lh'[i] = b
    BY <2>1, <2>2
  <2>5. tail = 0 /\ tail' = 0 /\ \A q \in Proc : cur'[q] = NoBlock
    BY <1>7 DEF log_write
  <2>6. \A j \in 1..Len(lh') : lh'[j] \in dirty' /\ buf'[lh'[j]] = logblk'[j]
    <3>1. i \in 1..LogLimit /\ logblk' = [logblk EXCEPT ![i] = buf[b]]
      BY <1>7, <2>1, LogIndexFacts DEF log_write
    <3>2. dirty' = dirty \cup {b} /\ buf' = buf /\ kernel = "up"
      BY <1>7 DEF log_write
    <3>3. \A q \in Proc : cur[q] = b \/ cur[q] = NoBlock
      BY <1>7, <2>1 DEF log_write
    <3>4. ASSUME NEW j \in 1..Len(lh'), j # i
          PROVE  lh'[j] \in dirty' /\ buf'[lh'[j]] = logblk'[j]
      <4>1. j \in (tail + 1)..Len(lh) /\ lh'[j] = lh[j] /\ lh[j] # b /\ lh[j] \in Block
        BY <2>3, <2>5, <3>4
      <4>2. \A q \in Proc : cur[q] # lh[j]
        BY <3>3, <4>1
      <4> QED
        BY SMTT(60), <3>1, <3>2, <3>4, <4>1, <4>2
    <3> QED
      BY <2>1, <2>4, <3>1, <3>2, <3>4
  <2>7. \A x \in dirty' : \E j \in 1..Len(lh') : lh'[j] = x
    BY <1>7, <2>1, <2>2, <2>3, <2>4, <2>5 DEF log_write
  <2>8. /\ \A x \in Block : x \notin dirty' => buf'[x] \in {NoBuf, disk'[x]}
        /\ \A x \in dirty' : buf'[x] # NoBuf
        /\ Running'
    BY <1>7, <2>1 DEF log_write
  <2>9. \A q \in Proc : pc'[q] # "write"
    BY <1>7 DEF log_write
  <2> QED
    BY <2>5, <2>6, <2>7, <2>8, <2>9
<1>8. ASSUME NEW p \in Proc, LogPanic(p) PROVE ContentsInv'
  BY <1>8 DEF LogPanic, diskvars
<1>9. ASSUME NEW p \in Proc, CommitHead(p) PROVE ContentsInv'
  BY <1>9 DEF CommitHead
<1>10. ASSUME NEW p \in Proc, CommitInstall(p) PROVE ContentsInv'
  BY <1>10 DEF CommitInstall, install_block
<1>11. ASSUME NEW p \in Proc, CommitClear(p) PROVE ContentsInv'
  BY <1>11 DEF CommitClear, clear_head
<1>12. ASSUME NEW p \in Proc, CommitRelease(p) PROVE ContentsInv'
  BY <1>12 DEF CommitRelease, diskvars
<1>13. ASSUME NEW b \in Block, bread(b) PROVE ContentsInv'
  BY <1>13 DEF bread, diskvars
<1>14. ASSUME NEW b \in Block, Recycle(b) PROVE ContentsInv'
  BY <1>14 DEF Recycle, diskvars
<1>15. CASE Crash
  BY <1>15 DEF Crash, diskvars
<1>16. CASE UNCHANGED vars
  BY <1>16 DEF vars
<1> HIDE NoneAssumption DEF TypeOK, ControlInv, Owner, HeadInv, ContentsInv, Distinct,
     Running, Room, Pin, Woken
<1> QED
  BY Zenon, <1>1, <1>2, <1>3, <1>4, <1>5, <1>6, <1>7, <1>8, <1>9, <1>10, <1>11,
     <1>12, <1>13, <1>14, <1>15, <1>16 DEF Next

(* The bookkeeping of log.c holds in every reachable state. *)
THEOREM LogInvariant == Spec => []LogInv
<1>1. LogInv /\ [Next]_vars => LogInv'
  BY TypeStep, ControlStep, HeadStep, ContentsStep DEF LogInv
<1> QED
  BY InitInv, <1>1, PTL DEF Spec

(* Type correctness of the variables of log.c and of the disk. *)
THEOREM TypeCorrect == Spec => []TypeOK
<1>1. LogInv => TypeOK
  BY DEF LogInv
<1> QED
  BY LogInvariant, <1>1, PTL

(* begin_trans admits one transaction at a time and log.lh is empty        *)
(* outside transactions; no wakeup of a waiting process is lost.           *)
THEOREM TransactionsExclude == Spec => []OneTransaction
<1>1. LogInv => OneTransaction
  BY DEF LogInv, TypeOK, ControlInv, HeadInv, OneTransaction, Owner, Running
<1> QED
  BY LogInvariant, <1>1, PTL

(* What the kernel has changed but not yet put on the disk is pinned in    *)
(* the cache and is in the log, or is still in the hands of its writer.    *)
THEOREM NewerLogged == Spec => []NewerBlocksAreLogged
<1>1. ASSUME LogInv PROVE NewerBlocksAreLogged
  <2> SUFFICES ASSUME NEW b \in Block, View[b] # disk[b], Running,
                      \A p \in Proc : cur[p] # b
               PROVE  /\ b \in dirty
                      /\ \E i \in 1..Len(lh) : lh[i] = b /\ logblk[i] = View[b]
    BY DEF NewerBlocksAreLogged, Running
  <2>1. buf[b] # NoBuf /\ buf[b] # disk[b] /\ View[b] = buf[b]
    BY DEF View
  <2>2. b \in dirty
    BY <1>1, <2>1 DEF LogInv, ContentsInv
  <2>3. PICK i \in (tail + 1)..Len(lh) : lh[i] = b
    BY <1>1, <2>2 DEF LogInv, ContentsInv
  <2>4. i \in 1..Len(lh) /\ logblk[i] = buf[b]
    BY <1>1, <2>3 DEF LogInv, ContentsInv, TypeOK
  <2> QED
    BY <2>1, <2>2, <2>3, <2>4
<1> QED
  BY LogInvariant, <1>1, PTL

-----------------------------------------------------------------------------
(***************************************************************************)
(* What recovery would install, as the disk changes.                       *)
(***************************************************************************)
(* A block named by the header gets the contents of its log block. *)
LEMMA InstalledAt ==
  ASSUME NEW h \in Seq(Block), Distinct(h), NEW blks, NEW d,
         NEW i \in 1..Len(h)
  PROVE  Installed(h, blks, d)[h[i]] = blks[i]
<1>1. h[i] \in Block /\ \E j \in 1..Len(h) : h[j] = h[i]
  OBVIOUS
<1>2. (CHOOSE j \in 1..Len(h) : h[j] = h[i]) = i
  BY DEF Distinct
<1> QED
  BY SMTT(60), <1>1, <1>2 DEF Installed

(* A block that the header does not name keeps its contents. *)
LEMMA InstalledElse ==
  ASSUME NEW h, NEW blks, NEW d, NEW b \in Block, \A i \in 1..Len(h) : h[i] # b
  PROVE  Installed(h, blks, d)[b] = d[b]
BY DEF Installed

(* An empty header installs nothing. *)
LEMMA InstalledEmpty ==
  ASSUME NEW blks, NEW d \in [Block -> Data]
  PROVE  Installed(<<>>, blks, d) = d
BY DEF Installed

(* Installing a block, which recovery and commit_trans do alike, does not  *)
(* change what recovery would bring back. *)
LEMMA InstallKeepsRecovered ==
  ASSUME LogInv, install_block, lh = head, UNCHANGED <<head, logblk>>
  PROVE  Recovered' = Recovered
<1> DEFINE b == lh[tail + 1]
<1>1. /\ tail + 1 \in 1..Len(head) /\ b = head[tail + 1] /\ b \in Block
      /\ disk' = [disk EXCEPT ![b] = logblk[tail + 1]]
      /\ head \in Seq(Block) /\ Distinct(head) /\ disk \in [Block -> Data]
  BY DEF install_block, LogInv, TypeOK, HeadInv
<1>2. ASSUME NEW x \in Block
      PROVE  Installed(head, logblk, disk')[x] = Installed(head, logblk, disk)[x]
  <2>1. CASE \E i \in 1..Len(head) : head[i] = x
    BY <1>1, <2>1, InstalledAt
  <2>2. CASE \A i \in 1..Len(head) : head[i] # x
    <3>1. disk'[x] = disk[x]
      BY <1>1, <2>2
    <3> QED
      BY <2>2, <3>1, InstalledElse
  <2> QED
    BY <2>1, <2>2
<1> QED
  BY <1>2 DEF Recovered, Installed

(* Once every block is installed, the disk is what recovery would bring    *)
(* back: the header can be cleared. *)
LEMMA AllInstalled ==
  ASSUME LogInv, lh = head, tail = Len(lh)
  PROVE  disk = Recovered
<1>1. head \in Seq(Block) /\ Distinct(head) /\ disk \in [Block -> Data]
  BY DEF LogInv, TypeOK, HeadInv
<1>2. \A i \in 1..Len(head) : disk[head[i]] = logblk[i]
  BY DEF LogInv, ContentsInv
<1>3. ASSUME NEW x \in Block PROVE Recovered[x] = disk[x]
  <2>1. CASE \E i \in 1..Len(head) : head[i] = x
    BY <1>1, <1>2, <2>1, InstalledAt DEF Recovered
  <2>2. CASE \A i \in 1..Len(head) : head[i] # x
    BY <1>1, <2>2, InstalledElse DEF Recovered
  <2> QED
    BY <2>1, <2>2
<1>4. Recovered = [x \in Block |-> Recovered[x]]
  BY SMTT(60) DEF Recovered, Installed
<1> QED
  BY <1>1, <1>3, <1>4

(* A committed log is read-only until its blocks are at home. *)
THEOREM CommittedLog == Spec => CommittedLogKept
<1> DEFINE Kept == head # <<>> => /\ logblk' = logblk
                                  /\ head' # head => head' = <<>> /\ disk = Recovered
<1>1. ASSUME LogInv, [Next]_vars, head # <<>>
      PROVE  logblk' = logblk /\ (head' # head => head' = <<>> /\ disk = Recovered)
  <2>1. ASSUME NEW p \in Proc, log_write(p) PROVE FALSE
    BY <1>1, <2>1 DEF log_write, LogInv, HeadInv, ControlInv, Owner, Running, TypeOK
  <2>2. ASSUME NEW p \in Proc, CommitHead(p) PROVE FALSE
    BY <1>1, <2>2 DEF CommitHead, LogInv, HeadInv, ControlInv, Owner, Running, TypeOK
  <2>3. CASE RecoverClear
    BY <1>1, <2>3, AllInstalled DEF RecoverClear, clear_head, LogInv, HeadInv
  <2>4. ASSUME NEW p \in Proc, CommitClear(p) PROVE logblk' = logblk /\ head' = <<>> /\ disk = Recovered
    BY <1>1, <2>4, AllInstalled DEF CommitClear, clear_head, LogInv, HeadInv, Running
  <2>5. CASE UNCHANGED <<head, logblk>>
    BY <2>5
  <2> QED
    BY <1>1, <2>1, <2>2, <2>3, <2>4, <2>5
    DEF Next, vars, diskvars, read_head, RecoverInstall, KillWakes, begin_trans,
        Modify, LogPanic, CommitInstall, CommitRelease, bread, Recycle, Crash
<1>2. LogInv /\ [Next]_vars => [Kept]_vars
  BY <1>1
<1> QED
  BY <1>2, LogInvariant, PTL DEF CommittedLogKept, Spec

-----------------------------------------------------------------------------
(***************************************************************************)
(* Refinement of the atomic disk.                                          *)
(***************************************************************************)
(* The process inside a transaction is the owner of the atomic disk. *)
LEMMA OwnerIs ==
  LogInv => /\ \A p \in Proc : pc[p] \in {"trans", "write"} => AbsOwner = p
            /\ (\A p \in Proc : pc[p] \notin {"trans", "write"}) => AbsOwner = NoProc
BY Zenon DEF LogInv, ControlInv, Owner, InTrans, AbsOwner

(* At the commit point the log holds all that the kernel has changed. *)
LEMMA CommitPoint ==
  ASSUME LogInv, NEW p \in Proc, CommitHead(p)
  PROVE  Recovered' = View
<1>1. /\ kernel = "up" /\ Running /\ head = <<>> /\ tail = 0
      /\ \A q \in Proc : cur[q] = NoBlock
      /\ lh \in Seq(Block) /\ Distinct(lh) /\ disk \in [Block -> Data]
      /\ disk' = disk /\ logblk' = logblk
  BY DEF CommitHead, LogInv, TypeOK, ControlInv, HeadInv, Owner, Running
<1>2. head' = lh
  BY <1>1 DEF CommitHead
<1>3. ASSUME NEW x \in Block PROVE Installed(lh, logblk, disk)[x] = View[x]
  <2>1. ASSUME NEW i \in 1..Len(lh), lh[i] = x PROVE Installed(lh, logblk, disk)[x] = View[x]
    <3>1. i \in (tail + 1)..Len(lh) /\ (\A q \in Proc : cur[q] # x)
      BY <1>1, NoneAssumption
    <3>2. buf[x] = logblk[i] /\ buf[x] # NoBuf
      BY <1>1, <2>1, <3>1 DEF LogInv, ContentsInv
    <3> QED
      BY <1>1, <2>1, <3>2, InstalledAt DEF View
  <2>2. CASE \A i \in 1..Len(lh) : lh[i] # x
    <3>1. x \notin dirty /\ (\A q \in Proc : cur[q] # x)
      BY <1>1, <2>2, NoneAssumption DEF LogInv, ContentsInv
    <3>2. View[x] = disk[x]
      BY <3>1 DEF LogInv, ContentsInv, View
    <3> QED
      BY <2>2, <3>2, InstalledElse
  <2> QED
    BY SMTT(60), <2>1, <2>2
<1>4. Installed(lh, logblk, disk) = View
  BY ZenonT(60), <1>3 DEF Installed, View
<1> QED
  BY <1>1, <1>2, <1>4 DEF Recovered

(* The log implements the atomic disk: after a crash at any point, also    *)
(* during recovery, the disk that comes back is the one of the last        *)
(* transaction that passed its write_head, with all of its writes.         *)
THEOREM CrashAtomicity == Spec => AtomicDiskSpec
<1>1. Init => Abstract!Init
  <2> SUFFICES ASSUME Init PROVE Abstract!Init
    OBVIOUS
  <2>1. Recovered = disk
    BY InstalledEmpty DEF Init, Recovered
  <2>2. AbsOwner = NoProc
    BY DEF Init, AbsOwner, InTrans
  <2> QED
    BY <2>1, <2>2 DEF Init, Abstract!Init, AbsWorking
<1>2. ASSUME LogInv, LogInv', [Next]_vars
      PROVE  [Abstract!Next]_(Abstract!vars)
  <2> USE <1>2
  <2>1. /\ (LogInv => /\ \A p \in Proc : pc[p] \in {"trans", "write"} => AbsOwner = p
                      /\ (\A p \in Proc : pc[p] \notin {"trans", "write"}) => AbsOwner = NoProc)'
    BY OwnerIs, PTL
  <2>2. /\ \A p \in Proc : pc'[p] \in {"trans", "write"} => AbsOwner' = p
        /\ (\A p \in Proc : pc'[p] \notin {"trans", "write"}) => AbsOwner' = NoProc
    BY <2>1
  <2>3. /\ \A p \in Proc : pc[p] \in {"trans", "write"} => AbsOwner = p
        /\ (\A p \in Proc : pc[p] \notin {"trans", "write"}) => AbsOwner = NoProc
    BY OwnerIs
  <2>4. TypeOK /\ ControlInv /\ HeadInv /\ ContentsInv
    BY DEF LogInv
  <2>5. ASSUME UNCHANGED <<diskvars, buf, kernel, pc>> PROVE UNCHANGED Abstract!vars
    BY <2>5 DEF diskvars, Abstract!vars, Recovered, AbsWorking, View, AbsOwner, InTrans
  <2>6. CASE read_head
    BY <2>6 DEF read_head, diskvars, Abstract!vars, Recovered, AbsWorking, AbsOwner, InTrans
  <2>7. CASE RecoverInstall
    <3>1. Recovered' = Recovered
      BY <2>4, <2>7, InstallKeepsRecovered DEF RecoverInstall, HeadInv
    <3> QED
      BY <2>7, <3>1 DEF RecoverInstall, Abstract!vars, AbsWorking, AbsOwner, InTrans
  <2>8. CASE RecoverClear
    <3>1. disk = Recovered
      BY <2>4, <2>8, AllInstalled DEF RecoverClear, clear_head, HeadInv
    <3>2. Recovered' = disk
      BY <2>4, <2>8, InstalledEmpty DEF RecoverClear, clear_head, Recovered, TypeOK
    <3>3. View' = disk
      BY <2>4, <2>8, NoneAssumption
      DEF RecoverClear, clear_head, View, ContentsInv, TypeOK, ControlInv, Running
    <3> QED
      BY <2>8, <3>1, <3>2, <3>3 DEF RecoverClear, Abstract!vars, AbsWorking, AbsOwner, InTrans
  <2>9. ASSUME NEW p \in Proc, KillWakes(p) PROVE UNCHANGED Abstract!vars
    <3>1. InTrans' = InTrans
      BY <2>4, <2>9 DEF KillWakes, InTrans, TypeOK
    <3> QED
      BY <2>9, <3>1 DEF KillWakes, diskvars, Abstract!vars, Recovered, AbsWorking, View,
           AbsOwner
  <2>10. ASSUME NEW p \in Proc, begin_trans(p) PROVE [Abstract!Next]_(Abstract!vars)
    <3>1. CASE busy = 1
      <4>1. InTrans' = InTrans
        BY <2>4, <2>10, <3>1 DEF begin_trans, InTrans, TypeOK
      <4> QED
        BY <2>10, <3>1, <4>1
        DEF begin_trans, diskvars, Abstract!vars, Recovered, AbsWorking, View, AbsOwner
    <3>2. CASE busy = 0
      <4>1. AbsOwner = NoProc /\ AbsOwner' = p
        BY <2>2, <2>3, <2>4, <2>10, <3>2 DEF begin_trans, ControlInv, Owner, TypeOK
      <4>2. Abstract!Begin(p)
        BY <2>10, <4>1 DEF begin_trans, diskvars, Abstract!Begin, Recovered, AbsWorking, View
      <4> QED
        BY <4>2 DEF Abstract!Next
    <3> QED
      BY <2>4, <3>1, <3>2 DEF TypeOK
  <2>11. ASSUME NEW p \in Proc, NEW b \in Block, NEW d \in Data, Modify(p, b, d)
         PROVE  Abstract!Next
    <3>1. AbsOwner = p /\ AbsOwner' = p
      BY <2>2, <2>3, <2>4, <2>11 DEF Modify, TypeOK
    <3>2. View' = [View EXCEPT ![b] = d]
      BY Zenon, <2>4, <2>11, NoneAssumption DEF Modify, diskvars, View, TypeOK
    <3>3. Abstract!Write(p, b, d)
      BY <2>11, <3>1, <3>2 DEF Modify, diskvars, Abstract!Write, Recovered, AbsWorking
    <3> QED
      BY <3>3 DEF Abstract!Next
  <2>12. ASSUME NEW p \in Proc, log_write(p) PROVE UNCHANGED Abstract!vars
    <3>1. AbsOwner = p /\ AbsOwner' = p
      BY <2>2, <2>3, <2>4, <2>12 DEF log_write, TypeOK
    <3>2. head = <<>> /\ head' = <<>> /\ disk' = disk /\ buf' = buf
      BY <2>4, <2>12 DEF log_write, HeadInv, Running, ControlInv, Owner, TypeOK
    <3>3. Recovered' = disk /\ Recovered = disk
      BY <2>4, <3>2, InstalledEmpty DEF Recovered, TypeOK
    <3> QED
      BY <2>12, <3>1, <3>2, <3>3 DEF log_write, Abstract!vars, AbsWorking, View
  <2>13. ASSUME NEW p \in Proc, LogPanic(p) PROVE UNCHANGED Abstract!vars
    BY <2>13 DEF LogPanic, diskvars, Abstract!vars, Recovered, AbsWorking, View, AbsOwner,
         InTrans
  <2>14. ASSUME NEW p \in Proc, CommitHead(p) PROVE Abstract!Next
    <3>1. AbsOwner = p /\ AbsOwner' = NoProc
      BY SMTT(60), <2>2, <2>3, <2>4, <2>14 DEF CommitHead, ControlInv, Owner, TypeOK
    <3>2. Recovered' = View /\ View' = View
      BY <2>14, CommitPoint DEF CommitHead, View
    <3>3. Abstract!Commit(p)
      BY <2>14, <3>1, <3>2 DEF CommitHead, Abstract!Commit, AbsWorking
    <3> QED
      BY <3>3 DEF Abstract!Next
  <2>15. ASSUME NEW p \in Proc, CommitInstall(p) PROVE UNCHANGED Abstract!vars
    <3>1. lh = head /\ kernel = "up" /\ Running
      BY <2>4, <2>15 DEF CommitInstall, HeadInv, Running
    <3>2. Recovered' = Recovered
      BY <2>15, <3>1, InstallKeepsRecovered DEF CommitInstall
    <3>3. View' = View
      <4> DEFINE b == lh[tail + 1]
      <4>1. /\ tail + 1 \in (tail + 1)..Len(lh) /\ b \in Block
            /\ disk' = [disk EXCEPT ![b] = logblk[tail + 1]]
            /\ buf' = [buf EXCEPT ![b] = logblk[tail + 1]]
        BY <2>4, <2>15 DEF CommitInstall, install_block, TypeOK
      <4>2. \A q \in Proc : cur[q] # b
        BY SMTT(60), <2>4, <2>15, <4>1, NoneAssumption DEF CommitInstall, ControlInv,
             Owner, TypeOK
      <4>3. buf[b] = logblk[tail + 1] /\ buf[b] # NoBuf
        BY <2>4, <3>1, <4>1, <4>2 DEF ContentsInv
      <4> QED
        BY <2>4, <4>1, <4>3 DEF View, TypeOK
    <3> QED
      BY <2>15, <3>2, <3>3 DEF CommitInstall, Abstract!vars, AbsWorking, AbsOwner, InTrans
  <2>16. ASSUME NEW p \in Proc, CommitClear(p) PROVE UNCHANGED Abstract!vars
    <3>1. disk = Recovered
      BY <2>4, <2>16, AllInstalled DEF CommitClear, clear_head, HeadInv, Running
    <3>2. Recovered' = disk /\ View' = View
      BY <2>4, <2>16, InstalledEmpty DEF CommitClear, clear_head, Recovered, View, TypeOK
    <3>3. AbsOwner' = AbsOwner
      BY SMTT(60), <2>2, <2>3, <2>4, <2>16 DEF CommitClear, ControlInv, Owner, TypeOK
    <3> QED
      BY <2>16, <3>1, <3>2, <3>3 DEF CommitClear, Abstract!vars, AbsWorking
  <2>17. ASSUME NEW p \in Proc, CommitRelease(p) PROVE UNCHANGED Abstract!vars
    <3>1. AbsOwner' = AbsOwner
      BY SMTT(60), <2>2, <2>3, <2>4, <2>17 DEF CommitRelease, Woken, ControlInv, Owner, TypeOK
    <3> QED
      BY <2>17, <3>1 DEF CommitRelease, diskvars, Abstract!vars, Recovered, AbsWorking, View
  <2>18. ASSUME NEW b \in Block, bread(b) PROVE UNCHANGED Abstract!vars
    <3>1. View' = View
      BY SMTT(60), <2>4, <2>18 DEF bread, diskvars, View, TypeOK
    <3> QED
      BY <2>18, <3>1 DEF bread, diskvars, Abstract!vars, Recovered, AbsWorking, AbsOwner,
           InTrans
  <2>19. ASSUME NEW b \in Block, Recycle(b) PROVE UNCHANGED Abstract!vars
    <3>1. View' = View
      BY <2>4, <2>19 DEF Recycle, diskvars, View, TypeOK, ContentsInv
    <3> QED
      BY <2>19, <3>1 DEF Recycle, diskvars, Abstract!vars, Recovered, AbsWorking,
           AbsOwner, InTrans
  <2>20. CASE Crash
    <3>1. AbsOwner' = NoProc
      BY <2>20 DEF Crash, AbsOwner, InTrans
    <3>2. Abstract!Crash
      BY <2>20, <3>1 DEF Crash, diskvars, Abstract!Crash, Recovered, AbsWorking
    <3> QED
      BY <3>2 DEF Abstract!Next
  <2>21. CASE UNCHANGED vars
    BY <2>5, <2>21 DEF vars, diskvars
  <2> QED
    BY <2>6, <2>7, <2>8, <2>9, <2>10, <2>11, <2>12, <2>13, <2>14, <2>15, <2>16,
       <2>17, <2>18, <2>19, <2>20, <2>21 DEF Next
<1> QED
  BY <1>1, <1>2, LogInvariant, PTL DEF Spec, AtomicDiskSpec, Abstract!Spec
=============================================================================
