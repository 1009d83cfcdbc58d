------------------------------ MODULE FileTree ------------------------------
(***************************************************************************)
(* The file system calls of sysfile.c over the directories of sfs_inode.c: *)
(* path lookup, open, create, mkdir, link, unlink, chdir, close and exit,  *)
(* by processes that interleave, with transactions and crashes.            *)
(*                                                                         *)
(* The inode cache is abstracted to what InodeCache shows of it: an inode  *)
(* has one entry, with an exact count and an exclusive lock, so that type, *)
(* nlink and content are variables of the inode.  An inode with ref = 0 is *)
(* not cached, and sfs_iget locks it to read it.  The log is abstracted to *)
(* AtomicDisk: the writes of a transaction reach the disk with its commit. *)
(* A path is not chosen beforehand: each step of namex picks an element.   *)
(* A step is what a process does between two points where it may wait, for *)
(* an inode or for the log; the commit is part of the last one of a call.  *)
(***************************************************************************)
EXTENDS Integers, FiniteSets

CONSTANTS Proc, Inode, Root, Name,
          NFILE,            \* size of the file table
          MaxPath,          \* bound: elements of a path before the last
          MaxLink,          \* bound: link count of a file
          MaxLost,          \* bound: inodes given up
          NoProc, NoInode, NoName

ASSUME TreeAssumption ==
  /\ Root \in Inode /\ NoInode \notin Inode /\ NoProc \notin Proc
  /\ {"..", NoName} \cap Name = {} /\ MaxPath \in Nat /\ NFILE \in Nat /\ MaxLink \in Nat
  /\ MaxLost \in Nat /\ IsFiniteSet(Proc) /\ Proc # {}
  /\ IsFiniteSet(Inode) /\ IsFiniteSet(Name)

VARIABLES fs,      \* the inodes as the cache has them
          disk,    \* the inodes as of the last commit
          busy,    \* I_BUSY: the process that has locked an inode
          log,     \* log.busy: the process whose transaction is open
          pc,      \* per process: its place
          call,    \* its system call and the locals of it
          cwd, file,
          lost     \* history: inodes that the code gives up, see GivenUp

vars == <<fs, disk, busy, log, pc, call, cwd, file, lost>>

Free == "free"
Dir == "dir"
File == "file"
Entries == Name \cup {".."}
NoEntries == [n \in Entries |-> NoInode]
MaybeInode == Inode \cup {NoInode}

Trees == [type : [Inode -> {Free, Dir, File}], nlink : [Inode -> Nat],
          ents : [Inode -> [Entries -> MaybeInode]]]

\* node: the inode that the lookup has reached, dp once it has ended; next:
\* what dirlookup returned; old: the inode that sys_link gives another name;
\* name: the last element; left: elements the path may still have.
Calls == [op : {"none", "namei", "unlink", "create", "link", "link2"},
          node : MaybeInode, next : MaybeInode, old : MaybeInode,
          name : Entries \cup {NoName}, left : 0..MaxPath]

NoCall == [op |-> "none", node |-> NoInode, next |-> NoInode, old |-> NoInode,
           name |-> NoName, left |-> 0]

TypeOK ==
  /\ [type |-> fs.type, nlink |-> fs.nlink, ents |-> fs.ents] \in Trees
  /\ fs.ref \in [Inode -> Nat] /\ disk \in Trees
  /\ busy \in [Inode -> Proc \cup {NoProc}] /\ log \in Proc \cup {NoProc}
  /\ pc \in [Proc -> {"idle", "begin", "walk", "fill", "got", "fillname", "found", "exists",
                      "undo", "panic"}]
  /\ call \in [Proc -> Calls]
  /\ cwd \in [Proc -> MaybeInode] /\ file \in [Proc -> MaybeInode]
  /\ lost \subseteq Inode

\* userinit: the root is the current directory of init as well.
Booted == [i \in Inode |-> IF i = Root THEN Cardinality(Proc) + 1 ELSE 0]

\* mkfs makes a root directory, whose ".." is the root.
Init ==
  /\ disk = [type |-> [i \in Inode |-> IF i = Root THEN Dir ELSE Free],
             nlink |-> [i \in Inode |-> IF i = Root THEN 1 ELSE 0],
             ents |-> [i \in Inode |-> IF i = Root THEN [NoEntries EXCEPT ![".."] = Root]
                                                   ELSE NoEntries]]
  /\ fs = [type |-> disk.type, nlink |-> disk.nlink, ents |-> disk.ents,
           ref |-> Booted]
  /\ busy = [i \in Inode |-> NoProc] /\ log = NoProc
  /\ pc = [p \in Proc |-> "idle"] /\ call = [p \in Proc |-> NoCall]
  /\ cwd = [p \in Proc |-> Root] /\ file = [p \in Proc |-> NoInode]
  /\ lost = {}

(***************************************************************************)
(* References, locks and transactions.                                     *)
(***************************************************************************)
Set(v, p, x) == [v EXCEPT ![p] = x]

\* p goes to l, with the locals c.
Go(p, l, c) == pc' = Set(pc, p, l) /\ call' = Set(call, p, IF l = "idle" THEN NoCall ELSE c)

Goto(p, l) == Go(p, l, call[p])

\* panic freezes the other CPUs as well.
Panic == pc' = [p \in Proc |-> "panic"] /\ UNCHANGED call

idup(f, i) == [f EXCEPT !.ref[i] = @ + 1]

link_inc(f, i) == [f EXCEPT !.nlink[i] = @ + 1]

link_dec(f, i) == [f EXCEPT !.nlink[i] = @ - 1]

dirlink(f, d, n, i) == [f EXCEPT !.ents[d][n] = i]

\* sfs_iput frees the inode with its last reference if it has no name.
Frees(f, i) == f.ref[i] = 1 /\ f.nlink[i] = 0

iput(f, i) ==
  IF Frees(f, i)
  THEN [f EXCEPT !.ref[i] = 0, !.type[i] = Free, !.ents[i] = NoEntries]
  ELSE [f EXCEPT !.ref[i] = @ - 1]

\* p drops its reference to i and goes on at l.  log_write panics when no
\* transaction is open, and adds to that of another process if there is one.
PutThen(p, i, l, c) ==
  IF Frees(fs, i) /\ log = NoProc
  THEN fs' = fs /\ Panic
  ELSE fs' = iput(fs, i) /\ Go(p, l, c)

Image(f) == [type |-> f.type, nlink |-> f.nlink, ents |-> f.ents]

\* commit_trans: everything that the transaction has changed, on the disk.
Commit == log' = NoProc /\ disk' = Image(fs')

Uncommitted == UNCHANGED <<log, disk>>

\* The directory entries of the tree t, with a name in E, that are those of j.
Entered(t, j, E) == {e \in Inode \X E : t.type[e[1]] = Dir /\ t.ents[e[1]][e[2]] = j}

\* The name of the directory d has been erased.
Removed(t, d) == d # Root /\ Entered(t, d, Name) = {}

\* A name of i in a directory that has itself been removed goes with it.
GivenUp(d, i) == IF Removed(fs, d) THEN lost \cup {i} ELSE lost

(***************************************************************************)
(* Locks: sfs_ilock waits, reads an inode that is only entered in the      *)
(* cache, and panics if it turns out to be free.                           *)
(***************************************************************************)
CanLock(i) == busy[i] = NoProc /\ fs.type[i] # Free

\* The inode that p locks next and may have found by a stale "..".
ToLock(p) ==
  CASE pc[p] \in {"walk", "exists"} -> call[p].node
    [] pc[p] \in {"fill", "fillname"} -> call[p].next
    [] pc[p] = "got" -> call[p].old
    [] OTHER -> NoInode

sfs_ilock(p) ==
  /\ ToLock(p) # NoInode
  /\ busy[ToLock(p)] = NoProc /\ fs.type[ToLock(p)] = Free
  /\ Panic
  /\ UNCHANGED <<fs, disk, busy, log, cwd, file, lost>>

(***************************************************************************)
(* Path lookup: get_device, namex, sfs_dirlookup and sfs_iget.             *)
(***************************************************************************)
\* The call c of p starts its lookup where the path does.
Lookup(p, f, c) ==
  \E start \in {Root, cwd[p]} :
    fs' = idup(f, start) /\ Go(p, "walk", [c EXCEPT !.node = start, !.left = MaxPath])

\* A system call that takes a path: create, which sys_open and sys_mkdir call
\* in a transaction, sys_unlink, or one of those that begin with vfs_lookup.
Call(p, o) ==
  /\ pc[p] = "idle" /\ (o = "create" => log = NoProc)
  /\ log' = IF o = "create" THEN p ELSE log
  /\ Lookup(p, fs, [NoCall EXCEPT !.op = o])
  /\ UNCHANGED <<disk, busy, cwd, file, lost>>

\* The transaction of sys_link and sys_unlink, which have looked a path up.
begin_trans(p) ==
  /\ pc[p] = "begin" /\ log = NoProc
  /\ log' = p
  /\ Goto(p, "got")
  /\ UNCHANGED <<fs, disk, busy, cwd, file, lost>>

\* The lookup has failed, and put the inode that it had reached.
Fails(p) ==
  LET i == call[p].node
  IN  IF log # p THEN PutThen(p, i, "idle", NoCall) /\ Uncommitted
      ELSE IF call[p].op = "link2"
      THEN /\ PutThen(p, i, "undo", [call[p] EXCEPT !.node = NoInode, !.left = 0])
           /\ Uncommitted
      ELSE PutThen(p, i, "idle", NoCall) /\ Commit

\* Mutant: an entry that is already cached is not counted again.
iget_Uncounted(i) == IF fs.ref[i] > 0 THEN fs ELSE idup(fs, i)

iget(i) == idup(fs, i)

\* sfs_iunlockput(ip); ip = next, where f already counts next.
Next_ip(p, f, next) ==
  LET c == [call[p] EXCEPT !.node = next, !.next = NoInode, !.left = @ - 1]
  IN  IF Frees(f, call[p].node) /\ log = NoProc
      THEN fs' = f /\ Panic
      ELSE fs' = iput(f, call[p].node) /\ Go(p, "walk", c)

\* An element that is not the last one.  An inode that is not cached has to
\* be read first, with the directory locked.
dirlookup(p, n) ==
  /\ pc[p] = "walk" /\ call[p].left > 0 /\ CanLock(call[p].node)
  /\ LET d == call[p].node
         i == fs.ents[d][n]
     IN  IF fs.type[d] # Dir \/ i = NoInode THEN Fails(p) /\ UNCHANGED busy
         ELSE IF fs.ref[i] > 0 THEN Next_ip(p, iget(i), i) /\ UNCHANGED busy /\ Uncommitted
         ELSE /\ busy' = Set(busy, d, p) /\ fs' = iget(i)
              /\ Go(p, "fill", [call[p] EXCEPT !.next = i])
              /\ Uncommitted
  /\ UNCHANGED <<cwd, file, lost>>

\* The rest of sfs_iget, which locks the inode to read it.
Fill(p) ==
  /\ pc[p] \in {"fill", "fillname"} /\ CanLock(call[p].next)
  /\ IF pc[p] = "fillname" THEN Goto(p, "found") /\ UNCHANGED <<fs, busy>>
     ELSE Next_ip(p, fs, call[p].next) /\ busy' = Set(busy, call[p].node, NoProc)
  /\ UNCHANGED <<disk, log, cwd, file, lost>>

\* namei has returned the inode that sys_link gives another name.
LinkOld(p) ==
  /\ pc[p] = "walk" /\ call[p].op = "namei"
  /\ Go(p, "begin", [call[p] EXCEPT !.op = "link", !.old = call[p].node, !.node = NoInode,
                                    !.left = 0])
  /\ UNCHANGED <<fs, disk, busy, log, cwd, file, lost>>

\* nameiparent stops at the directory and unlocks it; it fails if there is no
\* element.  sys_unlink has still to wait for its transaction.
nameiparent(p) ==
  /\ pc[p] = "walk" /\ call[p].op \in {"create", "unlink", "link2"}
  /\ \/ call[p].left = MaxPath /\ Fails(p)
     \/ CanLock(call[p].node) /\ fs.type[call[p].node] # Dir /\ Fails(p)
     \/ /\ CanLock(call[p].node) /\ fs.type[call[p].node] = Dir
        /\ call[p].op = "unlink"
        /\ Go(p, "begin", [call[p] EXCEPT !.left = 0])
        /\ UNCHANGED fs /\ Uncommitted
  /\ UNCHANGED <<busy, cwd, file, lost>>

\* The last element is looked up in dp, in a transaction.
AtParent(p) ==
  /\ \/ pc[p] = "got" /\ call[p].op = "unlink"
     \/ pc[p] = "walk" /\ call[p].op \in {"create", "link2"} /\ fs.type[call[p].node] = Dir
  /\ CanLock(call[p].node)

NameAbsent(p, n) == AtParent(p) /\ fs.ents[call[p].node][n] = NoInode

NameFound(p, n) ==
  /\ AtParent(p)
  /\ LET d == call[p].node
         i == fs.ents[d][n]
     IN  /\ i # NoInode /\ ~(call[p].op = "unlink" /\ n = "..")
         /\ busy' = Set(busy, d, p)
         /\ fs' = iget(i)
         /\ Go(p, IF fs.ref[i] > 0 THEN "found" ELSE "fillname",
               [call[p] EXCEPT !.next = i, !.name = n, !.left = 0])
  /\ UNCHANGED <<disk, log, cwd, file, lost>>

(***************************************************************************)
(* sys_unlink and sfs_unlink                                               *)
(***************************************************************************)
UnlinkAbsent(p, n) ==
  /\ call[p].op = "unlink" /\ AtParent(p) /\ (n = ".." \/ NameAbsent(p, n))
  /\ fs' = iput(fs, call[p].node) /\ Commit
  /\ Goto(p, "idle")
  /\ UNCHANGED <<busy, cwd, file, lost>>

\* Mutant: one free entry is enough.
isdirempty_Any(i) == \E n \in Name : fs.ents[i][n] = NoInode

isdirempty(i) == \A n \in Name : fs.ents[i][n] = NoInode

\* The name n of i is erased in d, and if i is a directory its "..".
Erased(d, n, i) ==
  LET f == link_dec([fs EXCEPT !.ents[d][n] = NoInode], i)
  IN  IF fs.type[i] = Dir THEN link_dec(f, d) ELSE f

UnlinkFound(p) ==
  /\ pc[p] = "found" /\ call[p].op = "unlink" /\ CanLock(call[p].next)
  /\ LET d == call[p].node
         i == call[p].next
         f == IF fs.type[i] = Dir /\ ~isdirempty(i) THEN fs ELSE Erased(d, call[p].name, i)
     IN  /\ fs' = iput(iput(f, d), i)
         /\ busy' = Set(busy, d, NoProc)
  /\ Goto(p, "idle") /\ Commit
  /\ UNCHANGED <<cwd, file, lost>>

(***************************************************************************)
(* create (sys_open with O_CREATE, sys_mkdir) and sfs_create_inode         *)
(***************************************************************************)
\* The new inode i in d; a directory has an entry "..", which counts.
Made(d, n, i, t) ==
  LET f == dirlink([fs EXCEPT !.type[i] = t, !.nlink[i] = 1, !.ref[i] = @ + 1], d, n, i)
  IN  IF t = Dir THEN link_inc(dirlink(f, i, "..", d), d) ELSE f

\* filealloc and fdalloc succeed.
CanOpen(p) == file[p] = NoInode /\ Cardinality({q \in Proc : file[q] # NoInode}) < NFILE

\* The rest of sys_open, with the file in f: a descriptor, if there is one.
Opened(p, f, i) ==
  IF CanOpen(p) THEN fs' = f /\ file' = Set(file, p, i)
                ELSE fs' = iput(f, i) /\ UNCHANGED file

\* sfs_ialloc panics if no inode is free.  sys_open keeps the file that it has
\* created, sys_mkdir puts the directory.
CreateAbsent(p, n, t) ==
  /\ call[p].op = "create" /\ NameAbsent(p, n)
  /\ LET d == call[p].node
     IN  \/ \E i \in Inode :
              /\ fs.type[i] = Free
              /\ lost' = GivenUp(d, i) /\ Cardinality(lost') <= MaxLost
              /\ IF t = File
                 THEN Opened(p, iput(Made(d, n, i, File), d), i)
                 ELSE fs' = iput(iput(Made(d, n, i, Dir), d), i) /\ UNCHANGED file
              /\ Goto(p, "idle") /\ Commit /\ UNCHANGED busy
         \/ /\ \A i \in Inode : fs.type[i] # Free
            /\ busy' = Set(busy, d, p) /\ Panic
            /\ UNCHANGED <<fs, file, lost>> /\ Uncommitted
  /\ UNCHANGED cwd

\* The name exists: dp is put, and the inode locked in its turn.
CreateFound(p) ==
  /\ pc[p] = "found" /\ call[p].op = "create"
  /\ fs' = iput(fs, call[p].node)
  /\ busy' = Set(busy, call[p].node, NoProc)
  /\ Go(p, "exists", [call[p] EXCEPT !.node = call[p].next, !.next = NoInode, !.name = NoName])
  /\ UNCHANGED <<disk, log, cwd, file, lost>>

CreateExists(p, t) ==
  /\ pc[p] = "exists" /\ CanLock(call[p].node)
  /\ IF t = File /\ fs.type[call[p].node] = File
     THEN Opened(p, fs, call[p].node)
     ELSE fs' = iput(fs, call[p].node) /\ UNCHANGED file
  /\ Goto(p, "idle") /\ Commit
  /\ UNCHANGED <<busy, cwd, lost>>

(***************************************************************************)
(* sys_link: nlink is incremented first, and decremented again at bad.     *)
(***************************************************************************)
LinkInc(p) ==
  /\ pc[p] = "got" /\ call[p].op = "link" /\ CanLock(call[p].old)
  /\ IF fs.type[call[p].old] = Dir
     THEN fs' = iput(fs, call[p].old) /\ Goto(p, "idle") /\ Commit
     ELSE /\ fs.nlink[call[p].old] < MaxLink
          /\ Lookup(p, link_inc(fs, call[p].old), [call[p] EXCEPT !.op = "link2"])
          /\ Uncommitted
  /\ UNCHANGED <<busy, cwd, file, lost>>

LinkAbsent(p, n) ==
  /\ call[p].op = "link2" /\ NameAbsent(p, n)
  /\ LET d == call[p].node
         i == call[p].old
     IN  /\ fs' = iput(iput(dirlink(fs, d, n, i), d), i)
         /\ lost' = GivenUp(d, i) /\ Cardinality(lost') <= MaxLost
  /\ Goto(p, "idle") /\ Commit
  /\ UNCHANGED <<busy, cwd, file>>

LinkFound(p) ==
  /\ pc[p] = "found" /\ call[p].op = "link2"
  /\ fs' = iput(iput(fs, call[p].next), call[p].node)
  /\ busy' = Set(busy, call[p].node, NoProc)
  /\ Go(p, "undo", [call[p] EXCEPT !.node = NoInode, !.next = NoInode, !.name = NoName])
  /\ UNCHANGED <<disk, log, cwd, file, lost>>

\* Mutant: the count is left incremented.
Undone_Not(i) == iput(fs, i)

Undone(i) == iput(link_dec(fs, i), i)

LinkUndo(p) ==
  /\ pc[p] = "undo" /\ CanLock(call[p].old)
  /\ fs' = Undone(call[p].old)
  /\ Goto(p, "idle") /\ Commit
  /\ UNCHANGED <<busy, cwd, file, lost>>

(***************************************************************************)
(* sys_open, sys_chdir, sys_close, exit                                    *)
(***************************************************************************)
\* vop_open refuses a directory opened for writing; all descriptors may be used.
OpenNode(p) ==
  /\ pc[p] = "walk" /\ call[p].op = "namei" /\ CanLock(call[p].node)
  /\ \/ /\ CanOpen(p)
        /\ file' = Set(file, p, call[p].node) /\ Goto(p, "idle") /\ UNCHANGED fs
     \/ /\ ~CanOpen(p) \/ fs.type[call[p].node] = Dir
        /\ PutThen(p, call[p].node, "idle", NoCall) /\ UNCHANGED file
  /\ UNCHANGED <<disk, busy, log, cwd, lost>>

chdir(p) ==
  /\ pc[p] = "walk" /\ call[p].op = "namei" /\ CanLock(call[p].node)
  /\ IF fs.type[call[p].node] # Dir
     THEN PutThen(p, call[p].node, "idle", NoCall) /\ UNCHANGED cwd
     ELSE PutThen(p, cwd[p], "idle", NoCall) /\ cwd' = Set(cwd, p, call[p].node)
  /\ UNCHANGED <<disk, busy, log, file, lost>>

\* fileclose, a transaction of its own.
fileclose(p) ==
  /\ pc[p] = "idle" /\ file[p] # NoInode /\ log = NoProc
  /\ fs' = iput(fs, file[p]) /\ disk' = Image(fs')
  /\ file' = Set(file, p, NoInode)
  /\ UNCHANGED <<busy, log, pc, call, cwd, lost>>

\* exit puts cwd outside a transaction, once it has closed the files; init,
\* whose directory is the root, starts another program.
exit(p) ==
  /\ pc[p] = "idle" /\ file[p] = NoInode
  /\ IF Frees(fs, cwd[p]) /\ log = NoProc
     THEN Panic /\ UNCHANGED <<fs, cwd>>
     ELSE /\ fs' = idup(iput(fs, cwd[p]), Root) /\ cwd' = Set(cwd, p, Root)
          /\ Goto(p, "idle")
  /\ UNCHANGED <<disk, busy, log, file, lost>>

\* A crash and a reboot: log recovery keeps what has been committed.  An
\* inode that was only still open or a current directory is given up.
Crash ==
  /\ fs' = [type |-> disk.type, nlink |-> disk.nlink, ents |-> disk.ents,
            ref |-> Booted]
  /\ busy' = [i \in Inode |-> NoProc] /\ log' = NoProc
  /\ pc' = [p \in Proc |-> "idle"] /\ call' = [p \in Proc |-> NoCall]
  /\ cwd' = [p \in Proc |-> Root] /\ file' = [p \in Proc |-> NoInode]
  /\ lost' = lost \cup {i \in Inode : disk.type[i] # Free /\ disk.nlink[i] = 0}
  /\ Cardinality(lost') <= MaxLost
  /\ UNCHANGED disk

Next ==
  \/ \E p \in Proc :
       \/ \E o \in {"namei", "unlink", "create"} : Call(p, o)
       \/ \E n \in Entries : dirlookup(p, n) \/ NameFound(p, n) \/ UnlinkAbsent(p, n)
       \/ \E n \in Name : LinkAbsent(p, n)
       \/ \E t \in {File, Dir} : CreateExists(p, t) \/ \E n \in Name : CreateAbsent(p, n, t)
       \/ nameiparent(p) \/ begin_trans(p) \/ sfs_ilock(p) \/ Fill(p) \/ LinkOld(p)
       \/ UnlinkFound(p) \/ CreateFound(p)
       \/ LinkInc(p) \/ LinkFound(p) \/ LinkUndo(p)
       \/ OpenNode(p) \/ chdir(p) \/ fileclose(p) \/ exit(p)
  \/ Crash

Spec == Init /\ [][Next]_vars

(***************************************************************************)
(* Properties.                                                             *)
(***************************************************************************)
\* The directory entries of the tree t that name i; ".." of a removed
\* directory does not count, "." never does.
Names(t, i) ==
  Entered(t, i, Name) \cup {e \in Entered(t, i, {".."}) : ~Removed(t, e[1])}

\* Processes whose sys_link has counted a name of i and not entered it yet.
Pending(i) == {p \in Proc : call[p].op = "link2" /\ call[p].old = i}

Linked(t, gone, i, pending) ==
  LET n == Cardinality(Names(t, i)) + pending
  IN  /\ n <= t.nlink[i] /\ (i \notin gone => n = t.nlink[i])
      /\ t.type[i] = Free => t.nlink[i] = 0

(* The link count of an inode is the number of its names, sys_link in      *)
(* progress included, and an inode with a name is allocated, whatever the  *)
(* other calls do between two locks.  The count of an inode given up may   *)
(* be too high, never too low.                                             *)
LinksExact == TypeOK /\ \A i \in Inode : Linked(fs, lost, i, Cardinality(Pending(i)))

(* The tree on the disk has exact link counts after every commit: no crash *)
(* leaves a name of a free inode, or half of a call.                       *)
DiskExact == \A i \in Inode : Linked(disk, lost, i, 0)

\* The variables of p that refer to an inode, and who refers to i.
Slots == {"cwd", "file", "node", "next", "old"}
Pointers(p) == {<<"cwd", cwd[p]>>, <<"file", file[p]>>, <<"node", call[p].node>>,
                <<"next", call[p].next>>, <<"old", call[p].old>>}
Holders(i) == {e \in Proc \X Slots : <<e[2], i>> \in Pointers(e[1])}

\* The kernel itself has a reference to the root.
Counted ==
  \A i \in Inode : fs.ref[i] = (IF i = Root THEN 1 ELSE 0) + Cardinality(Holders(i))

\* An inode that nothing refers to and that has no name is free.
Reclaimed(f, gone) ==
  \A i \in Inode : f.ref[i] = 0 /\ f.nlink[i] = 0 /\ i \notin gone => f.type[i] = Free

Running == \A p \in Proc : pc[p] # "panic"

(* Every call pairs its iget, idup and iput: the count of an inode is the  *)
(* number of pointers to it on every path through the calls, error paths   *)
(* included; and an inode without a name is freed with its last pointer.   *)
RefsPaired == Running => Counted /\ Reclaimed(fs, lost)

\* p has locked d and waits for i.
WaitsFor(p, d, i) ==
  /\ busy[d] = p /\ call[p].next = i /\ busy[i] # NoProc
  /\ \/ pc[p] \in {"fill", "fillname"}
     \/ pc[p] = "found" /\ call[p].op = "unlink"

(* "The separation also helps avoid deadlock and races during pathname     *)
(* lookup" (sfs_inode.c:166): no two processes wait for each other's lock. *)
NoLookupDeadlock ==
  \A p, q \in Proc : \A d, i \in Inode : ~(WaitsFor(p, d, i) /\ WaitsFor(q, i, d))

(***************************************************************************)
(* The inductive invariant of RefsPaired: which pointers a process has at  *)
(* each place of a call, and where it has the log.                         *)
(***************************************************************************)
Placed(l, c) ==
  /\ c.node # NoInode <=> \/ l \in {"walk", "fill", "fillname", "found", "exists"}
                          \/ l \in {"begin", "got"} /\ c.op = "unlink"
  /\ c.next # NoInode <=> l \in {"fill", "fillname", "found"}
  /\ c.old # NoInode <=> c.op \in {"link", "link2"}
  /\ l = "idle" => c = NoCall
  /\ l \in {"begin", "got"} => c.op \in {"link", "unlink"}
  /\ l \in {"walk", "fill"} => c.op \in {"namei", "unlink", "create", "link2"}
  /\ l \in {"fillname", "found"} => c.op \in {"unlink", "create", "link2"} /\ c.name \in Entries
  /\ l = "exists" => c.op = "create"
  /\ l = "undo" => c.op = "link2"
  /\ l = "fill" => c.left > 0

\* A link count may be any number here: that it is exact is not needed.
Disks == [type : [Inode -> {Free, Dir, File}], nlink : [Inode -> Int],
          ents : [Inode -> [Entries -> MaybeInode]]]
Caches == [type : [Inode -> {Free, Dir, File}], nlink : [Inode -> Int],
           ents : [Inode -> [Entries -> MaybeInode]], ref : [Inode -> Nat]]
Places == {"idle", "begin", "walk", "fill", "got", "fillname", "found", "exists", "undo"}

\* Where a call has a transaction open.
InTrans(l, c) ==
  \/ c.op \in {"create", "link2"} \/ l = "got" \/ l \in {"fillname", "found"}

Sound ==
  /\ fs \in Caches /\ pc \in [Proc -> Places] /\ call \in [Proc -> Calls]
  /\ cwd \in [Proc -> Inode] /\ file \in [Proc -> MaybeInode]
  /\ \A p \in Proc : Placed(pc[p], call[p]) /\ (InTrans(pc[p], call[p]) => log = p)
  /\ Counted /\ Reclaimed(fs, lost)

PointerInv == disk \in Disks /\ (pc = [p \in Proc |-> "panic"] \/ Sound)

(***************************************************************************)
(* The inductive invariant of LinksExact and DiskExact.  Only a directory  *)
(* has entries.  A directory is entered once, in the directory that its    *)
(* ".." names, and the root nowhere.  What is entered in a removed         *)
(* directory has been given up.                                            *)
(***************************************************************************)
OnlyDirs(t) ==
  /\ t.type[Root] = Dir /\ t.ents[Root][".."] = Root
  /\ \A i \in Inode : t.type[i] # Dir => t.ents[i] = NoEntries

Once(t, i, d, n) ==
  i # Root /\ t.ents[i][".."] = d /\ \A m \in Name : t.ents[d][m] = i => m = n

EnteredOnce(t) ==
  \A i, d \in Inode : \A n \in Name :
    t.type[i] = Dir /\ t.ents[d][n] = i => Once(t, i, d, n)

Forsaken(t, gone) ==
  \A d \in Inode : \A n \in Name :
    Removed(t, d) => t.ents[d][n] \in gone \cup {NoInode}

\* sys_link has counted one more name of due.
Extra(i, due) == IF i = due THEN 1 ELSE 0

TreeOK(t, gone, due) ==
  /\ OnlyDirs(t) /\ EnteredOnce(t) /\ Forsaken(t, gone)
  /\ \A i \in Inode : Linked(t, gone, i, Extra(i, due))

\* Only the process that has the log is between two changes of the tree.
Due == IF log \in Proc /\ call[log].op = "link2" THEN call[log].old ELSE NoInode

Changing(p) ==
  /\ call[p].op = "link2" => fs.type[call[p].old] = File
  /\ pc[p] \in {"fillname", "found"} /\ call[p].op = "unlink" =>
       call[p].name \in Name /\ fs.ents[call[p].node][call[p].name] = call[p].next

TreeInv ==
  /\ TypeOK /\ TreeOK(fs, lost, Due) /\ TreeOK(disk, lost, NoInode)
  /\ \A p \in Proc : (call[p].op = "link2" => log = p) /\ Changing(p)
=============================================================================
