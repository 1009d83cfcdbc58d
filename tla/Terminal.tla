------------------------------ MODULE Terminal ------------------------------
(***************************************************************************)
(* The shell at the console: keys go through the ring of Console, sh.c     *)
(* reads lines from it, a child parses a line with ShellParser and runs    *)
(* the command as a tree of processes, which may read from the console or  *)
(* from a pipe themselves.  Of the programs that are run, r reads its      *)
(* standard input to the end, as cat does; the others just end.  The       *)
(* kernel's fork, wait, exit, dup and pipe are used with the meaning that  *)
(* Proc, Files and Pipe establish; init reaps what is passed to it.        *)
(***************************************************************************)
EXTENDS Console, ShellParser

CONSTANTS
  Scripts,      \* what may be typed
  NPROC, NOFILE,
  BUFSZ,        \* sizeof(buf) in main
  NREAD,        \* what a program asks of read
  MaxFail,      \* forks that fail
  MaxKill       \* readers that are killed

VARIABLES
  keys,         \* still to be typed
  proc,         \* the processes
  lineno,       \* prompts so far
  fails,        \* forks that have failed
  kills         \* kills so far

vars == <<consoleVars, keys, proc, lineno, fails, kills>>

Pid == 1..NPROC
sh == 1
init == 0

Shut == <<"none", 0>>
Console0 == [i \in 0..NOFILE - 1 |-> IF i < 3 THEN <<"console", 0>> ELSE Shut]

\* path tells which part of which line a process runs.
Unused ==
  [at |-> "free", cmd |-> execcmd(<<>>), line |-> <<>>, ends |-> {}, fd |-> Console0, pp |-> <<0, 0>>,
   parent |-> init, path |-> <<>>, n |-> 0, target |-> 0, killed |-> FALSE]
Prompt(k) == [Unused EXCEPT !.at = "read", !.n = 1, !.target = 1, !.path = <<<<"line", k>>>>]

(***************************************************************************)
(* File descriptors.                                                       *)
(***************************************************************************)
Unopened(fd) == {i \in DOMAIN fd : fd[i] = Shut}
open(fd, x) == [fd EXCEPT ![Min(Unopened(fd))] = x]
close(fd, i) == [fd EXCEPT ![i] = Shut]
dup(fd, i) == open(fd, fd[i])
Holds(p, x) == proc[p].at \notin {"free", "zombie"} /\ \E i \in DOMAIN proc[p].fd : proc[p].fd[i] = x
NewPipe == Min({k \in Pid : ~\E p \in Pid : Holds(p, <<"r", k>>) \/ Holds(p, <<"w", k>>)})

(***************************************************************************)
(* Processes.  ps is proc or what an action has made of it.                *)
(***************************************************************************)
Exited(ps, p) ==
  [q \in Pid |->
     IF q = p THEN IF ps[p].parent = init THEN Unused
                   ELSE [Unused EXCEPT !.at = "zombie", !.parent = ps[p].parent]
     ELSE IF ps[q].parent # p THEN ps[q]
     ELSE IF ps[q].at = "zombie" THEN Unused ELSE [ps[q] EXCEPT !.parent = init]]
exit(p) == proc' = Exited(proc, p) /\ UNCHANGED <<consoleVars, keys, lineno, fails, kills>>
Goes(p, rec) == proc' = [proc EXCEPT ![p] = rec] /\ UNCHANGED <<consoleVars, keys, lineno, fails, kills>>

\* fork1: the parent goes on as rec and the child as child, or the parent panics.
fork1(p, rec, child) ==
  LET slots == {q \in Pid : proc[q].at = "free"} IN
  /\ \/ /\ slots # {}
        /\ proc' = [proc EXCEPT ![p] = rec, ![Min(slots)] = [child EXCEPT !.parent = p]]
        /\ UNCHANGED fails
     \/ /\ slots = {} \/ fails < MaxFail
        /\ fails' = fails + 1
        /\ proc' = Exited(proc, p)
  /\ UNCHANGED <<consoleVars, keys, lineno, kills>>

Runs(rec, cmd, step) == [rec EXCEPT !.at = "run", !.cmd = cmd, !.path = Append(@, step)]

\* wait: one dead child, or none when there are no children.
wait(p) ==
  LET mine == {q \in Pid : proc[q].at # "free" /\ proc[q].parent = p}
      on == [proc[p] EXCEPT !.n = @ - 1]
  IN  /\ proc[p].at = "wait" /\ proc[p].n > 0
      /\ \/ mine = {} /\ proc' = [proc EXCEPT ![p] = on]
         \/ \E q \in mine : proc[q].at = "zombie" /\ proc' = [proc EXCEPT ![p] = on, ![q] = Unused]
      /\ UNCHANGED <<consoleVars, keys, lineno, fails, kills>>

(***************************************************************************)
(* runcmd.  pp holds the two descriptors of a pipe.                        *)
(***************************************************************************)
\* The command names are short enough for cmdstr.
RunExec(p) ==
  /\ proc[p].cmd.type = "EXEC"
  /\ \/ exit(p)                                      \* no argv[0], or exec fails
     \/ proc[p].cmd.argv # <<>> /\ Goes(p, [proc[p] EXCEPT !.at = "prog"])
RunRedir(p) ==
  /\ proc[p].cmd.type = "REDIR"
  /\ \/ exit(p)                                      \* open fails
     \/ Goes(p, [proc[p] EXCEPT !.fd = open(close(@, proc[p].cmd.fd), <<"file", 0>>), !.cmd = @.cmd])
\* Mutant: the left side is not waited for.
RunList_NoWait(p) ==
  /\ proc[p].cmd.type = "LIST"
  /\ fork1(p, Runs(proc[p], proc[p].cmd.right, <<"list", 2>>), Runs(proc[p], proc[p].cmd.left, <<"list", 1>>))
RunList(p) ==
  /\ proc[p].cmd.type = "LIST"
  /\ fork1(p, [proc[p] EXCEPT !.at = "wait", !.n = 1], Runs(proc[p], proc[p].cmd.left, <<"list", 1>>))
PipeFails(p) == Cardinality(Unopened(proc[p].fd)) < 2
RunPipe(p) ==
  LET p0 == Min(Unopened(proc[p].fd))
      p1 == Min(Unopened(proc[p].fd) \ {p0})
      both == [proc[p] EXCEPT !.fd = open(open(@, <<"r", NewPipe>>), <<"w", NewPipe>>), !.pp = <<p0, p1>>]
  IN  /\ proc[p].cmd.type = "PIPE"
      /\ IF PipeFails(p) THEN exit(p)
         ELSE fork1(p, [both EXCEPT !.at = "fork2"], [both EXCEPT !.at = "left", !.path = Append(@, <<"pipe", 1>>)])
RunBack(p) ==
  /\ proc[p].cmd.type = "BACK"
  /\ fork1(p, [proc[p] EXCEPT !.at = "exit"], Runs(proc[p], proc[p].cmd.cmd, <<"back", 1>>))
runcmd(p) ==
  /\ proc[p].at = "run"
  /\ RunExec(p) \/ RunRedir(p) \/ RunList(p) \/ RunPipe(p) \/ RunBack(p)

\* Mutant: the write end stays open.
ClosePair_Read(fd, pp) == close(fd, pp[1])
ClosePair(fd, pp) == close(close(fd, pp[1]), pp[2])
PipeLeft(p) ==
  /\ proc[p].at = "left"
  /\ Goes(p, [proc[p] EXCEPT !.at = "run", !.cmd = @.left,
                             !.fd = ClosePair(dup(close(@, 1), proc[p].pp[2]), proc[p].pp)])
PipeFork(p) ==
  /\ proc[p].at = "fork2"
  /\ fork1(p, [proc[p] EXCEPT !.at = "close"],
              [proc[p] EXCEPT !.at = "right", !.path = Append(@, <<"pipe", 2>>)])
PipeRight(p) ==
  /\ proc[p].at = "right"
  /\ Goes(p, [proc[p] EXCEPT !.at = "run", !.cmd = @.right,
                             !.fd = ClosePair(dup(close(@, 0), proc[p].pp[1]), proc[p].pp)])
PipeClose(p) ==
  /\ proc[p].at = "close"
  /\ Goes(p, [proc[p] EXCEPT !.at = "wait", !.n = 2, !.fd = ClosePair(@, proc[p].pp)])
Waited(p) ==
  /\ p # sh /\ proc[p].at = "wait" /\ proc[p].n = 0
  /\ IF proc[p].cmd.type = "LIST" THEN Goes(p, Runs(proc[p], proc[p].cmd.right, <<"list", 2>>))
     ELSE exit(p)
RunExit(p) == proc[p].at = "exit" /\ exit(p)

(***************************************************************************)
(* Programs.                                                               *)
(***************************************************************************)
Reads(p) == String(proc[p].line, proc[p].ends, proc[p].cmd.argv[1][1]) = <<"r">>
Stdin(p) == proc[p].fd[0]
ReadsConsole(p) ==
  /\ proc[p].at = "prog" /\ Reads(p) /\ Stdin(p)[1] = "console"
  /\ Goes(p, [proc[p] EXCEPT !.at = "read", !.n = NREAD, !.target = NREAD])
Ends(p) ==
  /\ proc[p].at = "prog"
  /\ Reads(p) => \/ Stdin(p)[1] \in {"file", "none"}
                 \/ Stdin(p)[1] = "r" /\ ~\E q \in Pid : Holds(q, <<"w", Stdin(p)[2]>>)
  /\ exit(p)

(***************************************************************************)
(* The shell: getcmd with gets, the loop of main, and init, which starts   *)
(* another shell when one has ended.                                       *)
(***************************************************************************)
LineDone(buf, got) == got = <<>> \/ got[1] = "\n" \/ Len(buf) + 2 >= BUFSZ
IsCd(buf) == Len(buf) >= 3 /\ SubSeq(buf, 1, 3) = <<"c", "d", " ">>
NextPrompt == lineno' = lineno + 1 /\ proc' = [proc EXCEPT ![sh] = Prompt(lineno + 1)]

main ==
  /\ proc[sh].at = "cmd"
  /\ LET buf == proc[sh].line IN
     \/ buf = <<>> /\ exit(sh)
     \/ IsCd(buf) /\ NextPrompt /\ UNCHANGED <<consoleVars, keys, fails, kills>>
     \/ /\ buf # <<>> /\ ~IsCd(buf)
        /\ fork1(sh, [proc[sh] EXCEPT !.at = "wait", !.n = 1], [proc[sh] EXCEPT !.at = "parse"])
Parse(p) ==
  /\ proc[p].at = "parse"
  /\ \E r \in {parsecmd(proc[p].line)} :
       IF r.ok THEN Goes(p, [proc[p] EXCEPT !.at = "run", !.cmd = r.cmd, !.ends = nulterminate(r.cmd)])
       ELSE exit(p)
Again ==
  /\ proc[sh].at = "free" \/ (proc[sh].at = "wait" /\ proc[sh].n = 0)
  /\ NextPrompt /\ UNCHANGED <<consoleVars, keys, fails, kills>>

(***************************************************************************)
(* Keys and readers.  A reader that has found nothing to read and itself   *)
(* not killed goes to sleep holding input.lock (nap), which sleep gives up *)
(* under ptable.lock only (asleep); kill takes ptable.lock alone.  A kill  *)
(* of a process that does something else is left to Proc.                  *)
(***************************************************************************)
\* Mutant: input.lock is released before the process sleeps.
Locked_Not == FALSE
Locked == \E q \in Pid : proc[q].at = "nap"
Woken(ps) == [q \in Pid |-> IF ps[q].at = "asleep" THEN [ps[q] EXCEPT !.at = "read"] ELSE ps[q]]
Type ==
  /\ keys # <<>> /\ ~Locked
  /\ keys' = Tail(keys)
  /\ input' = consoleintr(input, Head(keys))
  /\ proc' = IF input'.w # input.w THEN Woken(proc) ELSE proc
  /\ UNCHANGED <<dst, lineno, fails, kills>>

\* After the read: the shell has a character or the end, a program asks again;
\* trap ends a process that was killed.
AfterRead(p, got, n) ==
  IF proc[p].killed THEN Exited(proc, p)
  ELSE IF p = sh THEN [proc EXCEPT ![p].line = @ \o got, ![p].at = IF LineDone(proc[p].line, got) THEN "cmd" ELSE "read"]
  ELSE IF n = proc[p].target THEN Exited(proc, p)
  ELSE [proc EXCEPT ![p].at = "prog"]
Read(p) ==
  /\ proc[p].at = "read" /\ ~Locked
  /\ \E v \in {consoleread(input, proc[p].n, proc[p].target, <<>>)} :
       /\ input' = v.in /\ dst' = v.got
       /\ proc' = IF ~v.sleeps THEN AfterRead(p, v.got, v.n)
                  ELSE IF proc[p].killed THEN Exited(proc, p)
                  ELSE [proc EXCEPT ![p].at = "nap", ![p].n = v.n]
  /\ UNCHANGED <<keys, lineno, fails, kills>>
sleep(p) == proc[p].at = "nap" /\ Goes(p, [proc[p] EXCEPT !.at = "asleep"])
kill(p) ==
  /\ proc[p].at \in {"read", "nap", "asleep"} /\ kills < MaxKill
  /\ kills' = kills + 1
  /\ proc' = [proc EXCEPT ![p].killed = TRUE, ![p].at = IF @ = "asleep" THEN "read" ELSE @]
  /\ UNCHANGED <<consoleVars, keys, lineno, fails>>

Init ==
  /\ ConsoleInit
  /\ keys \in Scripts
  /\ proc = [p \in Pid |-> IF p = sh THEN Prompt(1) ELSE Unused]
  /\ lineno = 1 /\ fails = 0 /\ kills = 0

Step(p) ==
  \/ Parse(p) \/ runcmd(p) \/ PipeLeft(p) \/ PipeFork(p) \/ PipeRight(p) \/ PipeClose(p)
  \/ wait(p) \/ Waited(p) \/ RunExit(p) \/ ReadsConsole(p) \/ Ends(p) \/ Read(p) \/ sleep(p)
Kernel == main \/ Again \/ \E p \in Pid : Step(p)
Next == Type \/ Kernel \/ \E p \in Pid : kill(p)

\* The scheduler runs some process as long as one can run; nobody has to type or
\* to kill.
Spec == Init /\ [][Next]_vars /\ WF_vars(Kernel)

(***************************************************************************)
(* Properties.                                                             *)
(***************************************************************************)
\* The command that the recursive descent of parsecmd makes of a line is the one
\* reading that the grammar gives it, and it panics at the lines without one.
ParsesGrammar ==
  \A p \in Pid : proc[p].at = "parse" =>
    Readings(proc[p].line) = LET r == parsecmd(proc[p].line) IN IF r.ok THEN {r.cmd} ELSE {}

\* What is left of ; and what was on an earlier line is over before what follows
\* starts, unless it went to the background with & (as long as every fork1 finds
\* a process: a pipe whose second fork fails leaves its first child behind).
Earlier(s, t) == s[1] = t[1] /\ s[1] \in {"line", "list"} /\ s[2] < t[2]
InOrder ==
  fails = 0 => \A p, q \in Pid :
    LET x == proc[p].path  y == proc[q].path IN
    \A k \in 1..(IF Len(x) < Len(y) THEN Len(x) ELSE Len(y)) :
      SubSeq(x, 1, k - 1) = SubSeq(y, 1, k - 1) /\ Earlier(x[k], y[k])
        => \E i \in k + 1..Len(x) : x[i][1] = "back"

\* No reader sleeps in consoleread with characters to read: every path of
\* consoleintr that moves input.w wakes all of the readers, and input.lock is
\* held from the test of the indices until a reader can be woken.
NoOversleep == \A p \in Pid : proc[p].at = "asleep" => input.r = input.w

Typed == {"\n", "^D", "c", "q", "a", "r", "d"} \cup Whitespace \cup Symbols
Editor == INSTANCE LineEditor WITH
            Char <- Typed, entered <- Slice(input, input.r, input.w), pending <- Slice(input, input.w, input.e)
\* The ring, with its three wrapping indices, is a line editor: erasing stops at
\* what has been entered, and readers get the characters once and in order.  The
\* characters that are lost are those that C and Q replace at a full ring.
EditorSpec == Editor!Spec

\* However processes interleave, forks fail and a reader is killed, nobody is left
\* waiting for a pipe or a child forever: in the end the shell, or a program that
\* it waits for and that is not in the background, waits for keys.
InFront(p) ==
  /\ proc[p].path # <<>> /\ proc[p].path[1] = <<"line", lineno>>
  /\ \A i \in DOMAIN proc[p].path : proc[p].path[i][1] # "back"
Settles == <>[](\E p \in Pid : proc[p].at = "asleep" /\ InFront(p))

=============================================================================
