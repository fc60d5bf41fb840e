---------------------------- MODULE MCFileBlocks ----------------------------
(* Instances of FileBlocks for TLC.                                         *)
EXTENDS FileBlocks

\* p reaches the second block of numbers behind its doubly indirect block, q has
\* one block.
Sizes == [f \in File |-> IF f = "p" THEN 11 ELSE 2]

\* p has two blocks of data behind its direct one, q has one block.
ShortSizes == [f \in File |-> IF f = "p" THEN 6 ELSE 2]
=============================================================================
