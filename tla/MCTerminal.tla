----------------------------- MODULE MCTerminal -----------------------------
(***************************************************************************)
(* Terminal with every line of up to three characters, every line of four  *)
(* words, bars and parentheses, and longer scripts for editing, end of     *)
(* file, the full ring, cd, and trees of processes.                        *)
(***************************************************************************)
EXTENDS Terminal

Line(n, C) == {Append(l, "\n") : l \in [1..n -> C]}
Short == UNION {Line(n, Symbols \cup {"a", " "}) : n \in 1..3} \cup Line(4, {"a", "|", "(", ")"})
Edits == {
  <<"a", "^H", "^H", "C", "d", "^U", "\r">>,
  <<"a", "^P", "0", "^U", "C", "^H", "d", " ", "a", "\n">>,
  <<"a", "a", "a", "a", "^H", "a", "\n">>,
  <<"r", "\n", "a", "^D", "a", "\n", "^D", "Q", "\n">>,
  <<"a", "a", "C", "a", "Q", "C", "\n">>,
  <<"^D", "a", "^D", "a", "a", "\n">>,
  <<"r", "&", "r", "\n", "a", "\n", "^D", "^D">>}
Trees == {
  <<"a", " ", "a", " ", "a", "\n">>,
  <<"(", "a", ")", ">", "a", "\n">>,
  <<"a", ";", "a", "&", ";", "a", "\n">>,
  <<"a", "|", "r", "|", "r", "\n">>,
  <<"(", "a", ";", "a", ")", "|", "r", "\n", "a", "\n">>,
  <<"(", "a", "&", ")", "|", "r", ";", "a", "\n">>,
  <<"a", "|", "r", ">", "a", "<", "a", "&", "\n">>,
  <<"r", "&", "\n", "a", "\n", "^D">>,
  <<"a", "|", "a", ";", "a", "|", "r", "\n">>,
  <<"r", "|", "r", "\n", "a", "^D", "^D", "\n">>}
Lines == Short \cup Edits \cup Trees

=============================================================================
