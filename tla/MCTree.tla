------------------------------- MODULE MCTree -------------------------------
(* An instance of Tree for TLC.                                             *)
EXTENDS Tree

Abs(names) == [abs |-> TRUE, names |-> names]
Rel(names) == [abs |-> FALSE, names |-> names]

\* Names in the root and in a directory below it, from the cwd and upwards.
Paths == {Abs(<<"a">>), Abs(<<"b">>), Abs(<<"a", "b">>), Rel(<<"b">>), Rel(<<"..">>)}

\* The text "b" is the number 98, a block of the device; that of each other
\* path is far behind its end.
OneBlock == [path \in Paths |-> IF path = Rel(<<"b">>) THEN 3 ELSE 0]
=============================================================================
