# Verification of xv6_fs

xv6_fs is the xv6 teaching kernel with a virtual file system layer (VFS) over
two file systems, the original logged one (SFS) and FAT32.  This directory holds
TLA+ models of the kernel's concurrent and persistent parts and of its shell, the
TLC configurations that check them on small instances, and TLAPS proofs, for
every value of the constants, of the properties that matter most.  Every
definition is translated from the source under `src/xv6/`; `PROJECT.json` maps
each one to its lines.

## 1. The system

| Part | State | Operations | What is hard about it |
|---|---|---|---|
| Redo log, `log.c` | header and log blocks on the disk, `log.lh`, `log.busy` | `begin_trans`, `log_write`, `commit_trans`, recovery in `initlog` | a crash between any two sector writes, also in recovery; dirty buffers must stay cached |
| Buffer cache, `bio.c` | `NBUF` buffers on an LRU list, `B_BUSY/B_VALID/B_DIRTY` | `bread`, `bwrite`, `brelse` (`bget` inside) | sleeping for a busy buffer that is recycled meanwhile |
| IDE driver, `ide.c` | `idequeue`, two channels | `iderw`, `idestart`, `ideintr` | interrupts that belong to another request |
| Pipes, `pipe.c` | ring, wrapping counters, two open flags | `pipewrite`, `piperead`, `pipeclose` | sleep and wakeup, kill, last close, counters that wrap |
| Processes, `proc.c`, `trap.c`, `sysproc.c` | `ptable`, one stack per process, the CPUs | `fork`, `exit`, `wait`, `kill`, `sleep`, `wakeup`, `sched`, `scheduler`, the clock | `ptable.lock` held across `swtch`; orphans; kill of a sleeper |
| SFS inodes, `sfs_inode.c` | `icache`, inodes on the disk | `sfs_iget`, `sfs_ialloc`, `sfs_idup`, `sfs_ilock`, `sfs_iput` | entries published before they are complete; freeing with the lock released |
| Names, `sysfile.c`, `sfs_inode.c`, `vfs.c` | directories, link counts, current directories, open files | `open`, `mkdir`, `link`, `unlink`, `chdir`, `close`, `exit` | several locks and transactions in one call, error paths, removed directories, crashes |
| Files, `file.c`, `sfs_inode.c` | descriptors, the file table, free map, block maps | `open`, `dup`, `pipe`, `fork`, `read`, `write`, `unlink`, `close`, `exit` | shared offsets, a write cut into transactions, the last close, full tables and disks |
| FAT32, `fat_inode.c` | the FAT and its copy, FSInfo, entries found by first cluster | `open`, `mkdir`, `touch`, `write`, `unlink`, `copy`, `move`, `remove` | nothing is logged; a crash leaves any prefix of the writes |
| Memory, `kalloc.c`, `vm.c`, `exec.c` | free pages, two-level page tables | `exec`, `fork`, `sbrk`, `exit`, `wait` | a `kalloc` that fails anywhere in a call |
| Console and shell, `console.c`, `sh.c` | the input ring, a tree of processes | key interrupts, `consoleread`, the parser, `runcmd` | a ring with three wrapping indices, pipes and forks that fail |

The layers rest on each other.  A system call on a name (FileTree) uses the
inode cache (InodeCache) and transactions (Log); the log uses buffers
(BufferCache), which use the driver; everything that waits uses sleep and wakeup
(Proc).  Each model takes from the layer below only what that layer's model is
shown to provide:

* `BufferCache` is shown to implement `SectorStore` (a store of locked sectors),
  and its `CacheCoherent` is why `Log` may take a `bwrite` as one step;
* `Log` is shown to implement `AtomicDisk`, and `FileTree` and `Files` use the log
  as that: what a transaction changed reaches the disk in one step at its commit;
* `InodeCache` shows one entry per inode, exact counts and exclusive locks until
  two lookups race; `FileTree` and `Files` take inode fields as variables of the
  inode, and so speak of the system up to that race;
* `Proc` shows that no wakeup is lost; the other models take `wakeup` as the
  step that makes a sleeper look at its condition again;
* `Terminal` uses fork, wait, exit, dup and pipes with the meaning that `Proc`,
  `Files` and `Pipe` establish.

Two of these steps have limits, shown under "Known divergences" in section 4:
spurious interrupts break the synchronous write, and two lookups of an inode that
is not cached can break the exclusive lock.

## 2. Modules

**AtomicDisk** (abstract): a `stable` disk, a `working` copy, at most one owner;
a commit makes the working copy stable, a crash throws it away.

**Log**: `disk`, `head`, `logblk` are the disk; `buf` and `dirty` what the buffer
cache knows of the home sectors; `lh`, `busy`, `tail` the variables of `log.c`.
One step writes at most one sector: `CommitHead` is the first `write_head`,
`CommitInstall` one round of `install_trans`, `CommitClear` the second
`write_head`; `read_head`, `RecoverInstall` and `RecoverClear` are recovery.
`Modify` and `log_write` are the caller's change of a buffer and its logging,
`LogPanic` the panic of a transaction that is too big.  `bread` and `Recycle`
let the cache take and drop buffers at any time; `Crash` (external) can fall
anywhere.

**SectorStore** (abstract) and **BufferCache**: one step is one critical section
of `bcache.lock` or `idelock`.  `bget` is the three actions `BgetHit`,
`BgetSleep`, `BgetRecycle`; `iderw` appends and starts, `IderwTest` is the test
after each wakeup, `Interrupt` is `ideintr` called for a drive, `Spurious` the
call for an interrupt that no drive raised (`trap.c:63` names Bochs for this).
The drives are external.  `log_pin` is the part of `log_write` that leaves a
buffer dirty.  `Nest` says which sector a process may read while it holds another
one (the FAT's sector and a data sector), `TransNest` which one only within a
transaction: `log_write` reads a log sector while it holds the home sector,
`install_trans` the other way round (`log.c:76-77`), and `begin_trans` is why two
processes never do both at once.  `BgetPanics` is the panic of a `bget` that finds
every buffer busy or dirty; its process stops.

**ByteStream** (abstract) and **Pipe**: one step is one round of a loop under
`p->lock`.  `proc->killed` is read under that lock and written without it, so
`kill` may fall between test and sleep.

**Proc**: a step is what is done under one hold of `ptable.lock`, except that the
lock is kept across `swtch`: the change of `state` and `Swtch`, which leaves the
stack, are two steps.  `on[c]` is the process on whose kernel stack a CPU runs.

**InodeCache**: one step is one hold of `icache.lock`, or what is done under
`I_BUSY` between two.  The directories are counts of names.  A process has at
most one reference.  The table starts as zeroed memory, and the FAT volume takes
and leaves entries of it (`fat_iget`, `fat_iput`).  `sfs_iget` recognises its entries
by an `fstype` that it sets after it has released `icache.lock`; the history variable
`raced` records that a process has asked for an inode within that window.

**FileTree**: one step is what a process does between two points where it may
wait.  A path is not chosen beforehand: each round of `namex` picks the next
element.  `sfs_ilock(p)` is the panic of a lock that reads a free inode from the
disk; the other actions are guarded by `CanLock`.  `lost` is a history variable:
inodes the code gives up (unlinked but in use at a crash, or named in a directory
that is itself removed).

**Files**: `vol` is the volume (inodes, blocks, bitmap), `ino` and `iref` the inode
cache, `ftable` and `ofile` the tables of `file.c` and of the processes.  A chunk of
`filewrite` is one step, since the inode is locked and a transaction open; between
two chunks, and between the release of a slot in `fileclose` and the put of its
inode, other processes run.  Block operations work on a record `v` that is
thrown away when the operation panics.

**Fat**: `mem` is what `bread` returns, `disk` what the disk holds; they differ where
a buffer is changed and released without `bwrite`.  A call is one action, as
`begin_trans` excludes the others, and yields its writes in order; `Reboot` cuts
them after any one.  `fault` holds the panic, hang or stray pointer of a call.  A
name has a number of long entries, a stem of its short name, the stems it begins,
and its short name a check sum that others may share.  The history variable `harm`
records what the code does to a volume that it may not survive: a deleted entry
taken for a live one (stale), entries of another file erased because of an equal
check sum (collision), new entries over old ones (overlap), a name that opens the
file whose short name it begins (prefix), a cluster past the end of the data area
(beyond), a directory removed with entries in it (nonempty).

**Memory**: a call is one action over the pages it takes and gives back; `F` is the
set of its `kalloc`s that fail.  A page directory records its tables and pages, so
that losing, sharing and freeing twice are visible.  `sbrk` of minus the whole size
leaves a process without a page (`Hollow`), for which it only remains to be killed.

**LineEditor** (abstract), **Console**, **ShellParser** and **Terminal**: `Console` is the
ring of `console.c`, `ShellParser` the recursive descent of `sh.c` beside a
reference grammar (`Readings`), `Terminal` the shell, its children and the programs
they run, one system call a step, composed with both.  `consoleread` tests `killed`
and falls asleep in two steps, and `kill` comes at any time.

`MC*` modules only give constants and symmetry for TLC.

## 3. Checked properties

Each property is stated in words above its definition, and for each
`PROJECT.json` names a mutant, a plausible bug in a mapped definition, that TLC
shows it to catch.

* Log: `CommittedLogKept` (action), `AtomicDiskSpec` (refinement), `RecoveryEnds`,
  `SleeperWoken` (liveness).
* BufferCache: `CacheCoherent` (one buffer per sector, one owner per busy buffer, a
  clean buffer is on the disk), `DriverCoherent` (the queue is what somebody waits for,
  a clean buffer is what the drive has accepted), `SectorStoreSpec` (refinement),
  `RequestsEnd` (liveness: transfers end, sleepers are woken unless `bget` panics).
* Pipe: `NoUseAfterFree`, `ByteStreamSpec` (refinement), `SleeperWoken` (liveness).
* Proc: `OneCPU`, `NoLostWakeup`, `Family`, `KilledExits`, `OrphanReaped` (liveness).
* InodeCache: `EntriesExact` (one entry per inode, exact counts, contents, locks),
  `FreedAtLastUse`, both until the first race.
* FileTree: `LinksExact`, `DiskExact`, `RefsPaired`.
* Files: `BlocksExact`, `FitsLog`, `RefsExact`, `OpenKept` (action).
* Fat: `ChainsSound`, `FreeIsZero`, `Accounting` until a stale entry or a cluster
  beyond the end is used; `FilesOwn`, and `EntryCurrent` (the entry of a file says how
  long it is, but for the one byte file that reads back as empty), until any harm.
* Memory: `OneOwner`, `NothingLost`, `ImageWhole`, `FailureKeeps` (action); the last
  two except the process whose `sbrk` gave back everything.
* Terminal: `ParsesGrammar`, `InOrder`, `NoOversleep`, `EditorSpec` (refinement),
  `Settles` (liveness).

## 4. Runs

| Run | Configuration | Bounds | Distinct states |
|---|---|---|---|
| log | MCLog | 2 processes, 3 home sectors, 2 contents, a log of 2 blocks | 57,664 |
| cache | MCBufferCache | 2 processes, 4 sectors on 2 channels, 2 buffers, reads nested both ways, fairness | 133,604 |
| pipe | MCPipe | 1 reader, 2 writers, ring of 2, counters modulo 4, writes of 3 bytes | 188,108 |
| proc | MCProc | 2 CPUs, 4 slots, 4 pids | 967,855 |
| scheduling | MCProcLive | 1 CPU, 3 slots, `sys_sleep`, fairness | 31,217 |
| icache | MCInodeCache | 3 processes, 3 inodes, 2 entries, cold at first, at most 2 links (the root 1), up to the race | 2,263,331 |
| icache_cold | MCInodeCold | the same table with 2 processes; violated, see below | |
| filetree | MCFileTree | 2 processes, 3 inodes, 2 names, 1 open file, paths of 2 elements, at most 1 inode given up | 1,351,683 |
| fat | MCFat | 4 clusters of 5 entries or units and one number beyond, 2 entries in a FAT sector, 4 paths, names of 1 and 2 long entries, 1 open file, writes up to units 1 and 6, 2 new files, 1 crash | 474,849 |
| files | MCFiles | 2 processes, 2 descriptors each, 2 slots, 2 inodes, 3 blocks of 2 units, 1 direct and 1 indirect block number, a log of 6, 1 crash | 1,130,232 |
| memory | MCMemory | 17 frames, 2 process slots, 2 programs, growth by -2, 1 and 3, 6 calls, 1 of them with failing `kalloc`s | 199,018 |
| terminal | MCTerminal | ring of 4, all lines of up to 3 characters, those of 4 over `a \| ( )`, scripts of editing and of trees, 6 slots, 1 failing fork or pipe, 1 kill | 374,911 |

Every run but icache_cold holds.  Counts are up to symmetry where the configuration uses it; no
run that checks liveness does.

Why the bounds are enough for the interesting cases.

* *log*: three blocks and room for two give transactions that fit, that absorb a
  second write of a block, and that panic; every crash point and crashes in
  recovery are reached.
* *cache*: fewer buffers than sectors forces recycling, two processes contend for a
  sector, a pinned buffer stays out of the pool, two channels let an interrupt meet
  a request of the other channel, and with two buffers `bget` also runs out of them.
  That panic is in reach of the kernel too: `NBUF` is 10, and one transaction can
  pin 9 buffers (`LOGSIZE` is 10, one block of it the header) while others hold theirs.
* *pipe*: a write longer than the ring sleeps in its middle, and the counters wrap
  after four bytes.
* *proc*: four slots give a grandparent, a parent and a child that exit in every
  order; `MaxPid` bounds the forks.
* *icache*: three processes and two entries recycle entries under use, between the
  file systems and from the zeroed table.  The constraint `BeforeRace` stops at the
  race; what comes after it is the run icache_cold.
* *filetree*: a directory in a directory, a link beside the original, and one
  process in a directory that the other removes; `MaxLost` bounds how many inodes
  crashes and removed directories may give up.  Four inodes are needed for a file
  in a directory in a directory; that instance is too big for a run beside the
  others and is covered by the proof of section 6.
* *fat*: files that grow into a second cluster, a volume without free clusters, a
  subdirectory, a file that another system left, the FAT on more than one sector,
  equal check sums, a name that is the beginning of another, a file of one byte, and
  a crash after each write of a call.  The constraint `Usable` stops where an entry
  is stale, a cluster beyond or a name a prefix: the first two are what the
  properties exclude, and without the last one TLC needs twice the time and finds
  the same.  `overlap` needs more files than `MaxNew` allows.
* *files*: a write of three units crosses from the direct to the indirect block and
  is cut into two transactions, the disk and both tables fill up, an unlinked file
  is open in two processes.
* *memory*: shrinking by 2 takes a small process to no page at all; user parts with
  two page tables, programs of one and two segments, and any `kalloc` of any one call
  refused, be it a page, a table or a directory.
* *terminal*: every line that fits the bound is parsed and compared with the
  grammar, also one with too many arguments and a redirection after a block; the
  ring wraps while a line is edited, and C and Q overrun it when it is full.

`CHECK_DEADLOCK FALSE` is set where the system may stop: after a panic or when an
operation waits for itself as the code does (icache, filetree, fat), when all
processes are gone (pipe), when the pids, calls or keys are used up (proc,
scheduling, memory, terminal).

`MCBufferInv`, `MCInodeInv`, `MCTreeInv` and `MCFilesInv` check the inductive
invariants of the proofs on the same instances.

### Known divergences

Where the code does not do what one of its comments, or its callers, expect, TLC
gives the trace.  The first is a run of `PROJECT.json`; the other three are
configurations to be run by hand, each with one violated property.

* **icache_cold**, MCInodeCold (`LockExcludes`): `sfs_iget` releases `icache.lock` before
  `vop_init` sets the `fstype` that its search tests (`sfs_inode.c:267-280`).  In an entry
  never used, or used by FAT, that value is another one, so a second process does
  not find the entry, makes one of its own, and both lock "the" inode, against
  "a place for synchronizing access to inodes used by multiple processes"
  (`sfs_inode.c:123-125`).
* MCSpurious with `MCBufferCache` (`CleanIsOnDisk`): `ideintr` takes the first request of the
  queue as done whatever raised the interrupt.  A spurious interrupt, which
  `trap.c:63-66` expects, completes a write that the drive has accepted and not done, so
  `bwrite` returns early, against "Log appends are synchronous" (`log.c:33`).  The
  queue and the coherence of the cache survive (theorems `DriverIsCoherent` and
  `SpuriousIsSectorStore`).
* MCBornAlive with `Proc` (`BornAlive`): `kill` looks at `p->pid` only, so `kill(0)` or the
  pid left by a failed fork marks an unused slot, and `allocproc` does not clear the
  mark.
* MCLookup with `MCFileTree` (`NoLookupDeadlock`): `sfs_iget` locks an inode it has just
  cached while the caller holds the directory; a lookup of ".." and an unlink in the
  parent wait for each other.

Other behaviour of the code that the models keep and no property forbids: `bget`
can run out of buffers (`bio.c:91`); a reader killed between its test of `killed` and
its sleep sleeps on until the next line (`console.c:251-256`); `sbrk` of minus the
whole size fails and frees every page (`proc.c:117-119`); `allocuvm`, `setupkvm` and
`copyuvm` lose pages when a later `kalloc` fails; the harms and faults of `Fat`.

## 5. Fairness

Liveness is checked under these assumptions only, and never used for safety.

* Weak fairness for a process that can run: the scheduler goes through the whole
  table (`Proc`, `Candidates`).  Terminal states it once for all of them,
  `WF_vars(Kernel)`: some process that can run is run.
* Log: strong fairness of `CommitHead`: a system call makes finitely many
  `log_write`s, between which the commit is not enabled.
* BufferCache: drives end their commands and their interrupts are delivered
  (weak).  Strong fairness of `iderw`: it spins in `idewait` with `idelock` held,
  so once in, only the drive moves.  Strong fairness of `brelse` for each buffer: who
  got a buffer gives it back, also while nested reads go on.
* Pipe: strong fairness of taking `p->lock`, which a spinning CPU gets in the end;
  a program goes on using its end until it closes it.
* Proc: strong fairness of `SchedLock` (a spinning CPU gets `ptable.lock`), of the
  kernel steps of a process, and of the clock, which reaches every process that
  stays on its CPU; init waits again and again (`init.c`).

The spinlock is `xchg` in a loop and gives no such guarantee by itself; the
strong fairness of locks is an assumption on the hardware.

## 6. What is proved

TLAPS checks 19,062 proof obligations in eight modules, for every value of the
constants that satisfies the assumptions named beside the constants.  Each proof
has an inductive invariant; the property that a run checks follows from it.  The
invariants were checked with TLC first.

**LogProofs** (assumptions: `LOGSIZE >= 1`, `Size >= 2`, the null values are
distinct).  `LogInv` has three parts: `ControlInv` (who is where, and that `busy` is
set exactly while someone owns the log), `HeadInv` (the header on the disk is empty
except while a transaction or recovery installs, when it equals `log.lh`, and names
each block once), and `ContentsInv` (the first `tail` blocks are at home, the others
are pinned with their logged contents, and a clean buffer equals the disk).  One
transaction at a time is not inductive alone, since it does not say what the header
holds while a transaction is open.  From it follow `TypeCorrect`,
`TransactionsExclude`, `NewerLogged`, `CommittedLog` and `CrashAtomicity`, the
refinement of `AtomicDisk`.  The central lemmas: installing a block does not change
what recovery would give (`InstallKeepsRecovered`), clearing the header after the
last block does not either (`AllInstalled`), and `CommitHead` makes the working disk
stable in one step (`CommitPoint`).

**BufferCacheProofs**.  `CacheInv` holds whatever interrupts come: the LRU list has
every buffer once, one buffer per sector, one owner per busy buffer, the queue is
what somebody waits for, a clean buffer is what the drive has accepted.  It gives
`DriverIsCoherent` and `SpuriousIsSectorStore`.  `DriverInv`, for interrupts of drives
only, adds that the drive at work has the command of the first request; it gives
`CacheIsCoherent` (a clean buffer is on the disk) and `CacheIsSectorStore`.  Nothing is
assumed of the nesting of reads.

**PipeProofs** (assumptions: disjoint ends, `0 < PIPESIZE < UINT`, and
`PlaceAssumption`: up to `PIPESIZE` consecutive counters modulo `UINT` have
different places in the ring, which holds because 512 divides 2^32).  `PipeInv` says,
besides the bound on the bytes, what the holder of the lock has tested (`LockInv`),
when a process may sleep (`WaitInv`), and that the ends follow the descriptors
(`EndInv`).  From it follow `PipeFreedOnce` and `PipeIsByteStream`; the lemmas
`QueueAppend` and `QueueTail` say how a write and a read change the queue between
the two counters.

**ProcProofs**.  `ProcInv`: who runs on which stack and holds `ptable.lock` across
`swtch` (`CpuInv`), which slot a fork has allocated (`ForkInv`), parents and pids
(`FamilyInv`), sleepers of `sys_sleep` (`NapInv`).  From it follow `ProcessOnOneCPU`,
`WakeupsKept` and `FamilyKept`, for any number of CPUs and slots.

**InodeCacheProofs**.  `EntryInv`: where each process is and what it points to, which
entry is whose, references as the number of pointers, who set `I_BUSY`, which entry
agrees with the disk, who is making or freeing an inode, and names as the link
count.  It starts from the zeroed table, with FAT taking entries, and holds as long
as no two processes have met in the window of `sfs_iget` (`~raced => ...`).  The part
that this takes is `ColdInv`: an entry in use without the `fstype` of SFS has a process
in the window that is about to set it, so whoever misses the entry races with it.  From it follow `EntriesAreExact` and
`InodesFreed`, with the same condition; without it they are false (icache_cold).

**FileTreeProofs** and **LinkCountProofs** (assumptions: finitely many processes,
inodes and names).  `PointerInv` says for each place in a call which inodes it
points to, locks and must put, and that counts are numbers of those pointers; it
gives `RefsArePaired`.  `TreeInv` says, of the cache and of the disk, that only
directories have entries, that a directory is entered once and where its ".." says,
that what is left in a removed directory is given up, and that only the holder of
the log changes the tree; `Due` is the name that a `sys_link` in progress has counted
and not entered yet.  It gives `LinksAreExact` and `DiskIsExact`.  The link counts
alone are not inductive: `sfs_unlink` of a directory takes one link from the parent
that its ".." names, which is only right if that is the directory it is in.

**FilesProofs** (assumptions: finitely many processes, chunks and tables that are not
empty, `LOGSIZE >= 6`, an indirect block with room for its numbers).  `FilesInv`: the
shape of every record, what a process in the middle of a close or a write holds,
inodes in memory that agree with the volume, offsets within files, and counts as
cardinalities of the sets of descriptors, open files and puts.  It gives
`RefsAreExact` and `OpenFilesKept`.  `BlocksInv` adds the blocks: the map from inode
and pointer to block is injective, and the bitmap is its range; every unit below a
file's size is one that was written to it; a free inode has no block; the block
numbers in memory are those on the volume.  It gives `BlocksAreExact` and
`FitsTheLog`.  The argument follows the code: `balloc` takes a block that nothing
points to, `bmap` enters it at one place (directly, or in the indirect block), a
round of `sfs_writei` fills a part of it, the rounds together fill the chunk (the
loop is a recursive function, and the first round that went wrong would
contradict the one before), and `sfs_itrunc` takes all of an inode's blocks out of
the map.  The log: a chunk of `filewrite` lies in at most `(LOGSIZE-1-1-2)/2 + 1`
blocks; with the indirect block, the bitmap's and the inode's that is fewer than
`log_write` allows.

## 7. What is model-checked only, and why

* All liveness: `RecoveryEnds`, `SleeperWoken` (Log, Pipe), `RequestsEnd`,
  `KilledExits`, `OrphanReaped`, `Settles`.  Fairness and `ENABLED` are out of the
  prover's reach.
* Fat, Memory, Console, ShellParser and Terminal: they follow chains, tables and the
  grammar with recursive operators, which the prover cannot use; what a recursion
  computes for every input would need induction over data.
* Negative results (section 4, known divergences) are traces of TLC.

## 8. Limits, and what is not modelled

Limits of the models, each named at the definition it concerns:

* Log and file systems: drive errors are left out; a sector write is atomic.
* FileTree: links across devices, `mknod` and device files, `sys_rmdir` (an unlink
  after another test), `sys_getcwd`.
* Files: a read is one step; the volume has one bitmap block, as that of `mkfs.c` has.
  A set of blocks is freed at once, since `BlocksExact` says that none occurs twice.
* BufferCache: a drive never reports an error, so `idewait(1)` in `ideintr` succeeds, and
  both disks are there (the panic of `iderw` without disk 1 is left out).
* Fat: one level of directories; one sector a cluster; in the run a directory has at
  most two clusters.  What the code does is kept: `fat_writei`
  changes a FAT buffer and releases it without `bwrite` (`fat_inode.c:843-847`), growth of a
  directory waits for its own buffer (1322-1325, the fault "hang"), the second
  unlink of an open unlinked file panics (1616), `sys_copy` and `sys_move` put the
  destination before writing to it (`sysfile.c:465`), `sys_move` unlinks the whole
  path as a name (568), and `sys_remove` may leave the log busy or an inode locked
  (896-899), which only a reboot ends.  Not modelled: `mapAttr`, `mapType`,
  `copyshortname`, the clock, `fat_inumtoname`, `fat_getpath`, `fat_skipelem`, `fat_stati`.
* FileTree: the put after a failed `filealloc` or `fdalloc` (`sysfile.c:249-254`) is part of
  the transaction before it.  Files: a `pipe` that fails takes no step.
* Terminal: the copy of a name into `cmdstr` (`sh.c:66`, `83`) is left out.
* Memory: pages that
  `setupkvm`, `copyuvm` and `allocuvm` lose when a later `kalloc` fails are counted as
  lost at these lines; `filesz = memsz`; the free list gives its lowest page.

Not modelled:

* spinlocks (a critical section is one step), interrupt controllers,
  multiprocessor start, boot code, the keyboard, serial and screen hardware;
* `string.c`, `syscall.c`, `fs.c`: sequential, without state that several actors share;
* `memide.c`: not linked into the default kernel;
* user programs other than the shell, init and cat, `mkfs` beyond the empty root,
  and the tests: sequential programs above or beside the kernel.
