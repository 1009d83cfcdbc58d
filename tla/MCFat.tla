------------------------------- MODULE MCFat -------------------------------
\* An instance of Fat for TLC.  Names: a, b and e are files and d a directory.  e
\* is longer than 13 characters and takes two long-name entries; a and b share
\* their first six characters; d begins the short name of e, as LO does LONGNA~1.
\* The short names of b and e have one check sum, and that of a is 0x5A.
EXTENDS Fat

CONSTANTS a, b, e, d

MCPaths == {<<Nil, a>>, <<Nil, b>>, <<Nil, e>>, <<d, a>>}
MCSlots == [n \in Names |-> IF n = e THEN 2 ELSE 1]
Stem == [n \in Names |-> IF n = d THEN "D" ELSE IF n = e THEN "L" ELSE "F"]
MCPrefix == [n \in Names |-> IF n = d THEN {"D", "L"} ELSE {}]
MCChkSum == [x \in {"D", "F", "L"} \X (1..4) |->
               CASE x \in {<<"F", 1>>, <<"L", 1>>} -> 2
                 [] x = <<"F", 2>> -> Tag0x5A
                 [] OTHER -> 3 + x[2]]
\* The run does not follow a volume that a deleted entry, a cluster that is not
\* there or a prefix has mixed up.
Usable == harm \cap {"stale", "beyond", "prefix"} = {}
=============================================================================
