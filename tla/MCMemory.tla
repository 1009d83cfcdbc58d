------------------------------ MODULE MCMemory ------------------------------
(***************************************************************************)
(* Memory with programs of one and of two segments.                        *)
(***************************************************************************)
EXTENDS Memory

TwoPrograms == {<<<<0, 1>>>>, <<<<0, 2>>, <<1, 3>>>>}
GrowAndShrink == {-2, 1, 3}

=============================================================================
