------------------------- MODULE MCOpenFilesGrants -------------------------
(* Instances of OpenFilesGrants for TLC: files on one device or on two.    *)
EXTENDS OpenFilesGrants

OneDevice == [path \in Path |-> 3]

\* The devices are host file descriptors; q is on the second.
TwoDevices == [path \in Path |-> IF path = "q" THEN 4 ELSE 3]
=============================================================================
