----------------------------- MODULE Directory -----------------------------
(***************************************************************************)
(* What insert_entry, remove_entry (level1.c) and search (util.c) promise: *)
(* a directory is a function from names to inode numbers.  There are no    *)
(* blocks and no records here; DirBlock is shown to implement this module, *)
(* and Tree takes its directories from it.                                 *)
(***************************************************************************)
EXTENDS Naturals

CONSTANTS
    Name,      \* names that users give
    Fixed,     \* "." and ".."
    Ino        \* inode numbers

VARIABLE entries

Init == entries \in UNION {[S -> Ino] : S \in {Fixed \cup T : T \in SUBSET Name}}

With(e, name, ino) == [n \in DOMAIN e \cup {name} |-> IF n = name THEN ino ELSE e[n]]
Without(e, name) == [n \in DOMAIN e \ {name} |-> e[n]]

Add(name, ino) ==
    /\ name \notin DOMAIN entries
    /\ entries' = With(entries, name, ino)

Drop(name) ==
    /\ name \in DOMAIN entries
    /\ entries' = Without(entries, name)

Next == \E name \in Name : Drop(name) \/ \E ino \in Ino : Add(name, ino)

Spec == Init /\ [][Next]_entries
=============================================================================
