---------------------------- MODULE MCOpenFiles ----------------------------
(* Instances of OpenFiles for TLC: files on one device.                   *)
EXTENDS OpenFiles, TLC

OneDevice == [path \in Path |-> 3]

\* Files on one device may be exchanged; for safety properties only.
PathSymmetry == Permutations(Path)
=============================================================================
