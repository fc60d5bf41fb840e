------------------------------ MODULE MCMount ------------------------------
(* Instances of Mount for TLC.                                             *)
EXTENDS Mount, TLC

Abs(names) == [abs |-> TRUE, names |-> names]
Rel(names) == [abs |-> FALSE, names |-> names]

\* In the root, one level below it on the same or a mounted device, from the
\* cwd, and upwards, out of a mount too.
Paths == {Abs(<<"m">>), Abs(<<"n">>), Abs(<<"m", "n">>), Abs(<<"m", "n", "m">>), Rel(<<"n">>), Rel(<<"..">>)}

\* Two directories on the root image, one on each other.
Inodes == [image \in Image |-> IF image = RootImage THEN {2, 3, 4} ELSE {2, 3}]

Others == Permutations(Image \ {RootImage})
=============================================================================
