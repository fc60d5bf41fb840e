----------------------------- MODULE MCDirBlock -----------------------------
(* An instance of DirBlock for TLC: names of one, two and three words, text *)
(* that reads as a length far behind the block.                             *)
EXTENDS DirBlock

Dot_ == <<801>>
DotDot_ == <<802>>
Names_ == {<<811>>, <<821, 822>>, <<831, 832, 833>>}
=============================================================================
