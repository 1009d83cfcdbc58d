----------------------------- MODULE LineEditor -----------------------------
(***************************************************************************)
(* What the console promises to those who type and to those who read: a    *)
(* line that is still being edited, and the characters that were entered   *)
(* and not yet read, in order.                                             *)
(***************************************************************************)
EXTENDS Naturals, Sequences

CONSTANTS Char, INPUT_BUF

VARIABLES
  entered,      \* characters readers may have
  pending,      \* the line being edited
  dst           \* what the last read was given

vars == <<entered, pending, dst>>

Init == entered = <<>> /\ pending = <<>> /\ dst = <<>>

\* A character is appended while there is room; it may enter the line, as
\* newline and ^D do.
Append1 ==
  /\ Len(entered) + Len(pending) < INPUT_BUF
  /\ \E c \in Char :
       \/ /\ pending' = Append(pending, c) /\ c \notin {"\n", "^D"}
          /\ Len(entered) + Len(pending) + 1 < INPUT_BUF
          /\ UNCHANGED entered
       \/ /\ entered' = entered \o Append(pending, c) /\ pending' = <<>>
          /\ c \in {"\n", "^D", "c", "q"} \/ Len(entered) + Len(pending) + 1 = INPUT_BUF
  /\ UNCHANGED dst

\* The keys C and Q are entered at a full buffer as well, and then replace the
\* character INPUT_BUF before them that nobody has read.
Overrun ==
  /\ Len(entered) + Len(pending) >= INPUT_BUF
  /\ \E c \in {"c", "q"}, s \in {entered \o pending \o <<"">>} :
       entered' = [i \in DOMAIN s |-> IF (Len(s) - i) % INPUT_BUF = 0 THEN c ELSE s[i]]
  /\ pending' = <<>>
  /\ UNCHANGED dst

\* One character of the pending line, or all of it, is taken back.
Erase ==
  /\ pending # <<>>
  /\ pending' \in {<<>>, SubSeq(pending, 1, Len(pending) - 1)}
  /\ UNCHANGED <<entered, dst>>

\* A reader gets the next k characters, never past a newline and never a ^D.
\* A ^D is used up only by a reader who gets nothing else.
Read ==
  \E k \in 0..Len(entered) :
    /\ dst' = SubSeq(entered, 1, k)
    /\ \A i \in 1..k : entered[i] # "^D" /\ (entered[i] = "\n" => i = k)
    /\ \/ entered' = SubSeq(entered, k + 1, Len(entered))
       \/ k = 0 /\ entered # <<>> /\ Head(entered) = "^D" /\ entered' = Tail(entered)
    /\ UNCHANGED pending

Next == Append1 \/ Overrun \/ Erase \/ Read

Spec == Init /\ [][Next]_vars

=============================================================================
