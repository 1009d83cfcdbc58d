------------------------------ MODULE Console ------------------------------
(***************************************************************************)
(* console.c: the ring of typed characters between the keyboard or serial  *)
(* interrupt and consoleread.  Both hold input.lock while they work on it, *)
(* so what one of them does up to a sleep is one step.  The indices are    *)
(* unsigned words that wrap at WORD.  A control character is written ^X.   *)
(***************************************************************************)
EXTENDS Naturals, Sequences

CONSTANTS
  INPUT_BUF,
  WORD          \* indices are below this; INPUT_BUF divides it

ASSUME ConsoleAssumption ==
  /\ {INPUT_BUF, WORD} \subseteq Nat \ {0}
  /\ WORD % INPUT_BUF = 0 /\ WORD > INPUT_BUF

VARIABLES
  input,        \* buf and the indices r (read), w (write) and e (edit)
  dst           \* what the last stretch of consoleread copied

consoleVars == <<input, dst>>

Inc(i) == (i + 1) % WORD
Dec(i) == (i + WORD - 1) % WORD
Minus(i, j) == (i + WORD - j) % WORD

ConsoleInit ==
  /\ input = [buf |-> [i \in 0..INPUT_BUF - 1 |-> "0"], r |-> 0, w |-> 0, e |-> 0]
  /\ dst = <<>>

(***************************************************************************)
(* consoleintr: what one character c does to the ring in.                  *)
(***************************************************************************)
Put(in, c) == [in EXCEPT !.buf[in.e % INPUT_BUF] = c, !.e = Inc(in.e)]
Commit(in) == [in EXCEPT !.w = in.e]
Erase1(in) == IF in.e = in.w THEN in ELSE [in EXCEPT !.e = Dec(in.e)]
RECURSIVE KillLine(_)
KillLine(in) ==
  IF in.e = in.w \/ in.buf[Dec(in.e) % INPUT_BUF] = "\n" THEN in
  ELSE KillLine([in EXCEPT !.e = Dec(in.e)])
Full(in) == in.e = (in.r + INPUT_BUF) % WORD
Enter(in, c) == IF c \in {"\n", "^D"} \/ Full(in) THEN Commit(in) ELSE in
Lower(c) == IF c = "C" THEN "c" ELSE "q"
Newline(c) == IF c = "\r" THEN "\n" ELSE c
\* Mutant: one character too many.
Room_OneMore(in) == Minus(in.e, in.r) <= INPUT_BUF
Room(in) == Minus(in.e, in.r) < INPUT_BUF

\* The keys C and Q do not look whether there is room, and may overrun the ring.
consoleintr(in, c) ==
  CASE c = "^P" -> in
    [] c = "^U" -> KillLine(in)
    [] c = "^H" -> Erase1(in)
    [] c \in {"C", "Q"} -> Commit(Put(in, Lower(c)))
    [] OTHER -> IF c # "0" /\ Room(in) THEN Enter(Put(in, Newline(c)), Newline(c)) ELSE in

(***************************************************************************)
(* consoleread with n of target characters still to come: up to the end of *)
(* the read, or up to where it sleeps.                                     *)
(***************************************************************************)
RECURSIVE consoleread(_, _, _, _)
consoleread(in, n, target, got) ==
  IF n = 0 THEN [in |-> in, got |-> got, n |-> 0, sleeps |-> FALSE]
  ELSE IF in.r = in.w THEN [in |-> in, got |-> got, n |-> n, sleeps |-> TRUE]
  ELSE LET c == in.buf[in.r % INPUT_BUF]
           on == [in EXCEPT !.r = Inc(in.r)]
       IN  IF c = "^D" THEN [in |-> IF n < target THEN in ELSE on, got |-> got, n |-> n, sleeps |-> FALSE]
           ELSE IF c = "\n" THEN [in |-> on, got |-> Append(got, c), n |-> n - 1, sleeps |-> FALSE]
           ELSE consoleread(on, n - 1, target, Append(got, c))

\* What the ring holds from one index to another.
Slice(in, from, to) == [i \in 1..Minus(to, from) |-> in.buf[(from + i - 1) % INPUT_BUF]]

=============================================================================
