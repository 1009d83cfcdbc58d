---------------------------- MODULE ShellParser ----------------------------
(***************************************************************************)
(* The recursive descent parser of sh.c.  A line is a sequence of          *)
(* characters; a position in it stands for the pointer, Len(l) + 1 for es. *)
(* A word is the pair of positions <<q, eq>> of its first character and of *)
(* the one after its last.  A parser returns the position it has reached,  *)
(* the command, and whether it got there without panic, which in the shell *)
(* only ends the child that parses.                                        *)
(***************************************************************************)
EXTENDS Integers, Sequences, FiniteSets, SequencesExt, FiniteSetsExt

CONSTANT MAXARGS

Whitespace == {" ", "\n"}
Symbols == {"<", "|", ">", "&", ";", "(", ")"}

At(l, s) == IF s <= Len(l) THEN l[s] ELSE "0"
\* Op(x), with x evaluated once.
With(x, Op(_)) == CHOOSE z \in {Op(y) : y \in {x}} : TRUE

Skip(l, s) == Min({i \in s..Len(l) + 1 : At(l, i) \notin Whitespace})
WordEnd(l, s) == Min({i \in s..Len(l) + 1 : At(l, i) \in Whitespace \cup Symbols \cup {"0"}})

\* gettoken: the token (w for a word, + for >>), where it is, where to go on.
Token(l, s) ==
  CASE At(l, s) = "0" -> <<"0", s>>
    [] At(l, s) = ">" /\ At(l, s + 1) = ">" -> <<"+", s + 2>>
    [] At(l, s) \in Symbols /\ ~(At(l, s) = ">" /\ At(l, s + 1) = ">") -> <<At(l, s), s + 1>>
    [] OTHER -> <<"w", WordEnd(l, s)>>
gettoken(l, s) ==
  With(Skip(l, s), LAMBDA q : With(Token(l, q), LAMBDA t :
    [tok |-> t[1], word |-> <<q, t[2]>>, s |-> Skip(l, t[2])]))
peek(l, s, toks) == At(l, Skip(l, s)) \in toks

(***************************************************************************)
(* Commands.                                                               *)
(***************************************************************************)
execcmd(argv) == [type |-> "EXEC", argv |-> argv]
redircmd(cmd, redir) == [type |-> "REDIR", cmd |-> cmd, file |-> redir.word, fd |-> IF redir.tok = "<" THEN 0 ELSE 1]
pipecmd(left, right) == [type |-> "PIPE", left |-> left, right |-> right]
listcmd(left, right) == [type |-> "LIST", left |-> left, right |-> right]
backcmd(cmd) == [type |-> "BACK", cmd |-> cmd]

\* Each redirection goes around what is there.
Around(cmd, redirs) == FoldLeft(redircmd, cmd, redirs)

Parsed(s, cmd) == [s |-> s, cmd |-> cmd, ok |-> TRUE]
Panic == [s |-> 0, cmd |-> execcmd(<<>>), ok |-> FALSE]
Then(r, Op(_)) == With(r, LAMBDA v : IF v.ok THEN Op(v) ELSE Panic)

(***************************************************************************)
(* The parser.  parseredirs adds to the redirections seen so far; parseexec*)
(* fills argv through a pointer while redirections wrap it, so both are    *)
(* gathered here and put together at the end.                              *)
(***************************************************************************)
RECURSIVE parseredirs(_, _, _)
parseredirs(l, s, redirs) ==
  IF ~peek(l, s, {"<", ">"}) THEN [s |-> s, redirs |-> redirs, ok |-> TRUE]
  ELSE With(gettoken(l, s), LAMBDA t : With(gettoken(l, t.s), LAMBDA f :
         IF f.tok # "w" THEN [s |-> s, redirs |-> redirs, ok |-> FALSE]
         ELSE parseredirs(l, f.s, Append(redirs, [tok |-> t.tok, word |-> f.word]))))

RECURSIVE Arguments(_, _, _)
Arguments(l, r, argv) ==
  IF ~r.ok THEN Panic
  ELSE IF peek(l, r.s, {"|", ")", "&", ";"}) THEN Parsed(r.s, Around(execcmd(argv), r.redirs))
  ELSE With(gettoken(l, r.s), LAMBDA t :
         IF t.tok = "0" THEN Parsed(r.s, Around(execcmd(argv), r.redirs))
         ELSE IF t.tok # "w" \/ Len(argv) + 1 >= MAXARGS THEN Panic
         ELSE Arguments(l, parseredirs(l, t.s, r.redirs), Append(argv, t.word)))

RECURSIVE Background(_, _)
Background(l, r) ==
  IF r.ok /\ peek(l, r.s, {"&"}) THEN Background(l, Parsed(gettoken(l, r.s).s, backcmd(r.cmd))) ELSE r

RECURSIVE parseline(_, _), parsepipe(_, _), parseexec(_, _)
parseblock(l, s) ==
  Then(parseline(l, gettoken(l, s).s), LAMBDA r :
    IF ~peek(l, r.s, {")"}) THEN Panic
    ELSE With(parseredirs(l, gettoken(l, r.s).s, <<>>), LAMBDA d :
           IF d.ok THEN Parsed(d.s, Around(r.cmd, d.redirs)) ELSE Panic))
\* Mutant: a block may end with any token.
parseexec_AnyEnd(l, s) ==
  IF peek(l, s, {"("}) THEN Then(parseline(l, gettoken(l, s).s), LAMBDA r : Parsed(gettoken(l, r.s).s, r.cmd))
  ELSE Arguments(l, parseredirs(l, s, <<>>), <<>>)
parseexec(l, s) ==
  IF peek(l, s, {"("}) THEN parseblock(l, s) ELSE Arguments(l, parseredirs(l, s, <<>>), <<>>)
parsepipe(l, s) ==
  Then(parseexec(l, s), LAMBDA r :
    IF ~peek(l, r.s, {"|"}) THEN r
    ELSE Then(parsepipe(l, gettoken(l, r.s).s), LAMBDA q : Parsed(q.s, pipecmd(r.cmd, q.cmd))))
parseline(l, s) ==
  Then(Background(l, parsepipe(l, s)), LAMBDA r :
    IF ~peek(l, r.s, {";"}) THEN r
    ELSE Then(parseline(l, gettoken(l, r.s).s), LAMBDA q : Parsed(q.s, listcmd(r.cmd, q.cmd))))

parsecmd(l) ==
  Then(parseline(l, 1), LAMBDA r : IF Skip(l, r.s) # Len(l) + 1 THEN Panic ELSE r)

\* nulterminate: the positions it overwrites, which end the words of cmd.
RECURSIVE nulterminate(_)
nulterminate(cmd) ==
  CASE cmd.type = "EXEC" -> {cmd.argv[i][2] : i \in 1..Len(cmd.argv)}
    [] cmd.type = "REDIR" -> nulterminate(cmd.cmd) \cup {cmd.file[2]}
    [] cmd.type \in {"PIPE", "LIST"} -> nulterminate(cmd.left) \cup nulterminate(cmd.right)
    [] cmd.type = "BACK" -> nulterminate(cmd.cmd)
\* The string at q in a line with those ends.
String(l, ends, q) == SubSeq(l, q, Min({e \in ends : e >= q} \cup {Len(l) + 1}) - 1)

(***************************************************************************)
(* Reference: the same language without a cursor.  Tokens are found by     *)
(* where they start, a line is cut at the symbols outside parentheses.  A  *)
(* reading of tokens ts is a set with the command, or empty.               *)
(***************************************************************************)
\* A > starts a token when an even number of them precedes it in its run.
Starts(l, i) ==
  \/ l[i] \in Symbols \ {">"}
  \/ l[i] = ">" /\ Cardinality({j \in 1..i - 1 : \A k \in j..i - 1 : l[k] = ">"}) % 2 = 0
  \/ l[i] \notin Symbols \cup Whitespace /\ (i = 1 \/ l[i - 1] \in Symbols \cup Whitespace)
Ascending(S) == [i \in 1..Cardinality(S) |-> CHOOSE x \in S : Cardinality({y \in S : y <= x}) = i]
Tokens(l) ==
  LET starts == Ascending({j \in 1..Len(l) : Starts(l, j)}) IN
  [i \in DOMAIN starts |->
     LET q == starts[i] IN
     [tok |-> IF l[q] \notin Symbols THEN "w" ELSE IF l[q] = ">" /\ At(l, q + 1) = ">" THEN "+" ELSE l[q],
      word |-> <<q, IF l[q] \in Symbols THEN q + 1 ELSE WordEnd(l, q)>>]]

From(ts, i) == SubSeq(ts, i, Len(ts))
Depth(ts, i) == Cardinality({j \in 1..i : ts[j].tok = "("}) - Cardinality({j \in 1..i : ts[j].tok = ")"})
\* Where ts is cut: the first sym outside parentheses, or the end.
Cut(ts, sym) == Min({i \in 1..Len(ts) : ts[i].tok = sym /\ Depth(ts, i) = 0} \cup {Len(ts) + 1})
IsRedir(t) == t.tok \in {"<", ">", "+"}

\* Words and redirections in any order; a redirection takes the next word.
Simple(ts) ==
  LET files == {i \in 2..Len(ts) : IsRedir(ts[i - 1])}
      words == {i \in 1..Len(ts) : ts[i].tok = "w"}
      argv == Ascending(words \ files)
      redirs == Ascending(files)
  IN  IF /\ words \cup {i \in 1..Len(ts) : IsRedir(ts[i]) /\ i + 1 \in words} = 1..Len(ts)
         /\ Len(argv) < MAXARGS
      THEN {Around(execcmd([i \in 1..Len(argv) |-> ts[argv[i]].word]),
                   [i \in 1..Len(redirs) |-> [tok |-> ts[redirs[i] - 1].tok, word |-> ts[redirs[i]].word]])}
      ELSE {}

RECURSIVE LineOf(_), PipeOf(_)
Block(ts) ==
  LET end == Min({i \in 1..Len(ts) : Depth(ts, i) = 0} \cup {Len(ts) + 1})
      redirs == From(ts, end + 1)
  IN  IF end > Len(ts) THEN {}
      ELSE {Around(c, [i \in 1..Len(redirs) \div 2 |-> [tok |-> redirs[2 * i - 1].tok, word |-> redirs[2 * i].word]])
              : c \in {d \in LineOf(SubSeq(ts, 2, end - 1)) :
                         /\ Len(redirs) % 2 = 0
                         /\ \A i \in 1..Len(redirs) : IF i % 2 = 1 THEN IsRedir(redirs[i]) ELSE redirs[i].tok = "w"}}
PipeOf(ts) ==
  LET cut == Cut(ts, "|")
      first == SubSeq(ts, 1, cut - 1)
      here == IF first # <<>> /\ first[1].tok = "(" THEN Block(first) ELSE Simple(first)
  IN  IF cut > Len(ts) THEN here ELSE {pipecmd(c, d) : c \in here, d \in PipeOf(From(ts, cut + 1))}
LineOf(ts) ==
  LET cut == Cut(ts, ";")
      first == SubSeq(ts, 1, cut - 1)
      amp == Max({i \in 0..Len(first) : i > 0 => first[i].tok # "&"})   \* the last that is not &
      here == {FoldLeft(LAMBDA c, t : backcmd(c), d, From(first, amp + 1)) : d \in PipeOf(SubSeq(first, 1, amp))}
  IN  IF cut > Len(ts) THEN here ELSE {listcmd(c, d) : c \in here, d \in LineOf(From(ts, cut + 1))}

Readings(l) == LineOf(Tokens(l))

=============================================================================
