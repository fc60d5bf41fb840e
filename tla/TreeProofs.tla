----------------------------- MODULE TreeProofs -----------------------------
(***************************************************************************)
(* Proofs about Tree for any device, names, paths, texts of paths and      *)
(* processes, as long as the device has room (MayFill = FALSE) and nobody  *)
(* unlinks a symlink whose text is short enough to be read as the number   *)
(* of a block, which may be a block in use (MayFree = FALSE).              *)
(***************************************************************************)
EXTENDS Tree, Induction, SequenceTheorems

-----------------------------------------------------------------------------
(* The inductive invariant.                                                *)

Typed ==
    /\ imap \subseteq Ino /\ bmap \subseteq Blk
    /\ inode \in [Ino -> INODE]
    /\ data \in [Blk \cup {0} -> [Entry -> Ino \cup {0}]]
    /\ cwd \in [Proc -> Ino]
    /\ running \in Proc

\* Nothing was ever written over the boot block, no command indexed a table
\* with 0, and root stays.
Sound == fault = FALSE /\ data[0] = Zero /\ Root \in Dirs

FsInv ==
    /\ Typed /\ Sound
    /\ BlocksOwned /\ NoDanglingEntry
    /\ LinksCounted /\ DirsFormTree
    /\ CwdExists

CmdTyped ==
    \/ cmd = Idle
    \/ cmd \in [pc: {"link", "unlink", "undo"}, src: Path, dst: Path,
                ino: Ino, view: [Path -> Ino \cup {0}]]

IInv == FsInv /\ CmdTyped

\* The device has room, and no unlink clears what the text of a symlink says.
Roomy == MayFill = FALSE /\ MayFree = FALSE

-----------------------------------------------------------------------------
(* Directories and their entries.                                          *)

Own(d) == data[inode[d].blk]
Subs(d) == {e \in Dirs \ {Root} : Own(e)[".."] = d}

LEMMA EntryIs ==
    /\ "." \in Entry /\ ".." \in Entry /\ Name \subseteq Entry
    /\ "." \notin Name /\ ".." \notin Name
    /\ \A n \in Entry : Zero[n] = 0
    /\ Zero \in [Entry -> Ino \cup {0}]
    /\ Root \in Ino /\ 0 \notin Ino /\ 0 \notin Blk /\ Root # 0
BY NameAssumption, DeviceAssumption DEF Entry, Zero, Root

LEMMA DirIs ==
    ASSUME FsInv, NEW d \in Dirs
    PROVE  /\ d \in imap /\ d \in Ino /\ d # 0 /\ inode[d].type = "dir"
           /\ inode[d].blk \in bmap /\ inode[d].blk \in Blk /\ inode[d].blk # 0
           /\ Own(d) \in [Entry -> Ino \cup {0}]
           /\ Own(d)["."] = d /\ Own(d) # Zero
           /\ \A n \in Entry : Search(d, n) = Own(d)[n] /\ Own(d)[n] \in imap \cup {0}
           /\ \A j \in imap \ {d} : inode[j].type # "lnk" => inode[j].blk # inode[d].blk
<1>1. d \in imap /\ d \in Ino /\ d # 0 /\ inode[d].type = "dir"
  BY EntryIs DEF Dirs, IsDir, FsInv, Typed
<1>2. /\ inode[d].blk \in bmap /\ inode[d].blk \in Blk /\ inode[d].blk # 0
      /\ \A j \in imap \ {d} : inode[j].type # "lnk" => inode[j].blk # inode[d].blk
  BY <1>1, EntryIs DEF FsInv, BlocksOwned, Typed
<1>3. Own(d) \in [Entry -> Ino \cup {0}]
  BY <1>2 DEF FsInv, Typed, Own
<1>4. Own(d)["."] = d
  BY DEF FsInv, DirsFormTree, Own
<1>5. Own(d) # Zero
  BY <1>1, <1>4, EntryIs
<1>6. ASSUME NEW n \in Entry
      PROVE  Search(d, n) = Own(d)[n] /\ Own(d)[n] \in imap \cup {0}
  <2>1. Own(d)[n] \in imap \cup {0}
    BY <1>3 DEF FsInv, NoDanglingEntry, Own
  <2>2. data[0][n] = 0
    BY EntryIs DEF FsInv, Sound
  <2>3. Search(d, n) = Own(d)[n]
    BY <1>5, <2>2 DEF Search, Own
  <2>4. QED
    BY <2>1, <2>3
<1>7. QED
  BY <1>1, <1>2, <1>3, <1>4, <1>5, <1>6

\* .. leads to a directory.
LEMMA UpIs ==
    ASSUME FsInv, NEW d \in Dirs
    PROVE  /\ Own(d)[".."] \in Dirs
           /\ d = Root => Own(d)[".."] = Root /\ Names(d) = {}
           /\ d # Root => \E n \in Name : Names(d) = {<<Own(d)[".."], n>>}
<1>1. CASE d = Root
  BY <1>1 DEF FsInv, DirsFormTree, Own
<1>2. CASE d # Root
  <2>1. PICK n \in Name : Names(d) = {<<Own(d)[".."], n>>}
    BY <1>2 DEF FsInv, DirsFormTree, Own
  <2>2. <<Own(d)[".."], n>> \in Dirs \X Name
    BY <2>1 DEF Names
  <2>3. QED
    BY <1>2, <2>1, <2>2
<1>3. QED
  BY <1>1, <1>2

LEMMA NamesIs ==
    \A i : \A d, n : <<d, n>> \in Names(i) <=> d \in Dirs /\ n \in Name /\ Own(d)[n] = i
BY DEF Names, Own

LEMMA DirsFinite ==
    ASSUME FsInv
    PROVE  /\ IsFiniteSet(Dirs)
           /\ \A i : IsFiniteSet(Names(i)) /\ Cardinality(Names(i)) \in Nat
           /\ \A i : IsFiniteSet(Subs(i)) /\ Cardinality(Subs(i)) \in Nat
<1>1. IsFiniteSet(Dirs)
  <2>1. Dirs \in SUBSET Ino
    BY DEF Dirs, FsInv, Typed
  <2>2. QED
    BY <2>1, DeviceAssumption, FS_Subset
<1>2. IsFiniteSet(Dirs \X Name)
  BY <1>1, NameAssumption, FS_Product
<1>3. ASSUME NEW i
      PROVE  IsFiniteSet(Names(i)) /\ Cardinality(Names(i)) \in Nat
  <2>1. Names(i) \in SUBSET (Dirs \X Name)
    BY DEF Names
  <2>2. IsFiniteSet(Names(i))
    BY <1>2, <2>1, FS_Subset
  <2>3. QED
    BY <2>2, FS_CardinalityType
<1>4. ASSUME NEW i
      PROVE  IsFiniteSet(Subs(i)) /\ Cardinality(Subs(i)) \in Nat
  <2>1. Subs(i) \in SUBSET Dirs
    BY DEF Subs
  <2>2. IsFiniteSet(Subs(i))
    BY <1>1, <2>1, FS_Subset
  <2>3. QED
    BY <2>2, FS_CardinalityType
<1>5. QED
  BY <1>1, <1>3, <1>4

LEMMA LinksAre ==
    ASSUME FsInv
    PROVE  /\ \A i \in imap : inode[i].links \in Nat
           /\ \A d \in Dirs : inode[d].links = 2 + Cardinality(Subs(d))
           /\ \A i \in Files : inode[i].links = Cardinality(Names(i)) /\ inode[i].links > 0
<1>1. \A i \in imap : inode[i].links \in Nat
  BY DEF FsInv, Typed, INODE
<1>2. \A d \in Dirs : inode[d].links = 2 + Cardinality(Subs(d))
  BY DEF FsInv, DirsFormTree, Subs, Own
<1>3. QED
  BY <1>1, <1>2 DEF FsInv, LinksCounted

-----------------------------------------------------------------------------
(* Paths.                                                                  *)

Start(path) == IF path.abs THEN Root ELSE cwd[running]
Onwards(v, n) == IF v = 0 \/ ~IsDir(v) THEN v ELSE Search(v, n)

\* The walk along a path, as a function of how far it is.
Walked(w, path) ==
    /\ w[0] = Start(path)
    /\ \A n \in 1 .. Len(path.names) : w[n] = Onwards(w[n - 1], path.names[n])
    /\ Getino(path) = w[Len(path.names)]

PATH == [abs: BOOLEAN, names: Seq(Entry)]

\* It stays within a set that no step leads out of.
LEMMA WalkIs ==
    ASSUME NEW V, NEW path \in PATH, Start(path) \in V,
           \A v \in V, n \in Entry : Onwards(v, n) \in V
    PROVE  \E w \in [0 .. Len(path.names) -> V] : Walked(w, path)
<1> DEFINE names == path.names
           k == Start(path)
           N == Len(names)
           step == [n \in 1 .. N |-> [v \in V |-> Onwards(v, names[n])]]
           Rec(g, n) == IF n = 0 THEN k
                        ELSE IF g[n - 1] = 0 \/ ~IsDir(g[n - 1]) THEN g[n - 1]
                        ELSE Search(g[n - 1], names[n])
           w == CHOOSE g : g = [n \in 0 .. N |-> Rec(g, n)]
<1>1. N \in Nat /\ \A n \in 1 .. N : names[n] \in Entry
  <2>1. path.names \in Seq(Entry)
    BY DEF PATH
  <2>2. QED
    BY <2>1, LenProperties, ElementOfSeq
<1>2. step \in [1 .. N -> [V -> V]]
  BY <1>1
<1>3. PICK f \in [0 .. N -> V] : Recursive(f, N, k, step)
  <2> HIDE DEF step, N, k
  <2>1. k \in V
    BY DEF k
  <2>2. QED
    BY <1>1, <1>2, <2>1, IntervalRecursion
<1>4. \A n \in 1 .. N : f[n] = Onwards(f[n - 1], names[n])
  <2> SUFFICES ASSUME NEW n \in 1 .. N
               PROVE  f[n] = Onwards(f[n - 1], names[n])
    OBVIOUS
  <2>1. f[n - 1] \in V
    <3> HIDE DEF step, N, k, names
    <3>1. QED
      BY <1>1
  <2>2. step[n][f[n - 1]] = Onwards(f[n - 1], names[n])
    BY <2>1
  <2>3. QED
    BY <1>3, <2>2 DEF Recursive
<1>5. f = [n \in 0 .. N |-> Rec(f, n)]
  <2> HIDE DEF N, step, k, names
  <2>1. f[0] = k
    BY <1>3 DEF Recursive
  <2>2. \A n \in 0 .. N : n # 0 => n \in 1 .. N
    BY <1>1
  <2>3. QED
    BY <1>3, <1>4, <2>1, <2>2 DEF Onwards
<1>6. w = [n \in 0 .. N |-> Rec(w, n)]
  <2> HIDE DEF Rec
  <2>1. QED
    BY <1>5
<1>7. Getino(path) = w[N]
  BY DEF Getino, Start
<1>8. w[0] = k /\ \A n \in 1 .. N : w[n] = Onwards(w[n - 1], names[n])
  <2> HIDE DEF w, N, step, k, names
  <2>1. QED
    BY <1>1, <1>6 DEF Onwards
<1>9. \A n \in 0 .. N : w[n] \in V
  <2> DEFINE T == {n \in 0 .. N : w[n] \in V}
  <2>0. k \in V
    BY DEF k
  <2> HIDE DEF w, N, step, k, names
  <2>1. 0 \in T
    BY <1>1, <1>8, <2>0
  <2>2. ASSUME NEW n \in 0 .. N, n < N, n \in T
        PROVE  n + 1 \in T
    <3>1. n + 1 \in 1 .. N /\ n + 1 \in 0 .. N /\ n + 1 - 1 = n
      BY <1>1, <2>2
    <3>2. w[n + 1] = Onwards(w[n], names[n + 1])
      BY <1>8, <3>1
    <3>3. QED
      BY <1>1, <2>2, <3>1, <3>2
  <2>3. \A n \in 0 .. N : n \in T
    <3> HIDE DEF T
    <3>1. QED
      BY <1>1, <2>1, <2>2, IntervalInduction
  <2>4. QED
    BY <2>3
<1>10. w \in [0 .. N -> V]
  <2> HIDE DEF w, N, step, k, names, Rec
  <2>1. QED
    BY <1>6, <1>9
<1>11. Walked(w, path)
  <2> HIDE DEF w
  <2>1. QED
    BY <1>7, <1>8 DEF Walked
<1>12. QED
  <2> HIDE DEF w
  <2>1. QED
    BY <1>10, <1>11

\* A path leads to an inode that is in use, or to nothing.
LEMMA GetinoIn ==
    ASSUME FsInv, NEW path \in PATH
    PROVE  Getino(path) \in imap \cup {0}
<1> DEFINE V == imap \cup {0}
<1>1. Start(path) \in V
  BY DEF Start, FsInv, CwdExists, Typed, Sound, Dirs
<1>2. ASSUME NEW v \in V, NEW n \in Entry
      PROVE  Onwards(v, n) \in V
  <2>1. CASE v = 0 \/ ~IsDir(v)
    BY <2>1 DEF Onwards
  <2>2. CASE v # 0 /\ IsDir(v)
    <3>1. v \in Dirs
      BY <2>2 DEF Dirs
    <3>2. QED
      BY <2>2, <3>1, DirIs DEF Onwards
  <2>3. QED
    BY <2>1, <2>2
<1>3. PICK w \in [0 .. Len(path.names) -> V] : Walked(w, path)
  <2> HIDE DEF V
  <2>1. QED
    BY <1>1, <1>2, WalkIs
<1>4. Len(path.names) \in 0 .. Len(path.names)
  <2>1. path.names \in Seq(Entry)
    BY DEF PATH
  <2>2. QED
    BY <2>1, LenProperties
<1>5. QED
  BY <1>3, <1>4 DEF Walked

Shorter(path) == [path EXCEPT !.names = SubSeq(path.names, 1, Len(path.names) - 1)]

LEMMA PathIs ==
    ASSUME NEW path \in Path
    PROVE  /\ path \in PATH /\ Len(path.names) \in Nat \ {0}
           /\ Child(path) \in Entry
           /\ Shorter(path) \in PATH /\ Parent(path) = Getino(Shorter(path))
<1>1. path \in [abs: BOOLEAN, names: Seq(Entry) \ {<<>>}]
  BY PathAssumption
<1>2. path.names \in Seq(Entry) /\ path.names # <<>> /\ path.abs \in BOOLEAN
  BY <1>1
<1>3. path \in PATH
  BY <1>1 DEF PATH
<1>4. Len(path.names) \in Nat \ {0}
  BY <1>2, EmptySeq, LenProperties
<1>5. Child(path) \in Entry
  <2>1. Len(path.names) \in 1 .. Len(path.names)
    BY <1>4
  <2>2. QED
    BY <1>2, <2>1, ElementOfSeq DEF Child
<1>6. SubSeq(path.names, 1, Len(path.names) - 1) \in Seq(Entry)
  BY <1>2, <1>4, SubSeqProperties
<1>7. Shorter(path) \in PATH
  BY <1>1, <1>6 DEF Shorter, PATH
<1>8. QED
  BY <1>3, <1>4, <1>5, <1>7 DEF Parent, Shorter

\* Where a new entry goes.
LEMMA VacantIs ==
    ASSUME FsInv, NEW path \in Path, Vacant(path)
    PROVE  /\ Parent(path) \in Dirs /\ Child(path) \in Name
           /\ Own(Parent(path))[Child(path)] = 0
<1>1. Parent(path) \in Dirs
  BY PathIs, GetinoIn DEF Vacant, HasParent, Dirs
<1>2. Own(Parent(path))[Child(path)] = 0
  BY <1>1, PathIs, DirIs DEF Vacant
<1>3. Child(path) # "." /\ Child(path) # ".."
  <2>1. Own(Parent(path))["."] # 0
    BY <1>1, DirIs
  <2>2. Own(Parent(path))[".."] # 0
    BY <1>1, UpIs, DirIs
  <2>3. QED
    BY <1>2, <2>1, <2>2
<1>4. QED
  BY <1>1, <1>2, <1>3, PathIs DEF Entry

\* What an entry leads to.
LEMMA TargetIs ==
    ASSUME FsInv, NEW path \in Path, Exists(path)
    PROVE  /\ Parent(path) \in Dirs /\ Child(path) \in Entry
           /\ Own(Parent(path))[Child(path)] = Target(path)
           /\ Target(path) \in imap
           /\ ~IsDir(Target(path)) => Child(path) \in Name /\ Target(path) \in Files
<1>1. Parent(path) \in Dirs
  BY PathIs, GetinoIn DEF Exists, HasParent, Dirs
<1>2. Own(Parent(path))[Child(path)] = Target(path)
  BY <1>1, PathIs, DirIs DEF Target
<1>3. Target(path) \in imap
  BY <1>1, <1>2, PathIs, DirIs DEF Exists, Target
<1>4. ASSUME ~IsDir(Target(path))
      PROVE  Child(path) \in Name
  <2>1. Child(path) # "."
    BY <1>1, <1>2, <1>4, DirIs DEF Dirs
  <2>2. Child(path) # ".."
    BY <1>1, <1>2, <1>4, UpIs DEF Dirs
  <2>3. QED
    BY <2>1, <2>2, PathIs DEF Entry
<1>5. QED
  BY <1>1, <1>2, <1>3, <1>4, PathIs DEF Files, Dirs

\* What is allocated was free.
LEMMA Allocated ==
    /\ Ialloc # 0 => Ialloc \in Ino \ imap
    /\ Balloc # 0 => Balloc \in Blk \ bmap
<1>1. ASSUME NEW used, NEW all \in SUBSET Nat, FirstFree(used, all) # 0
      PROVE  FirstFree(used, all) \in all \ used
  <2>1. all \ used \in SUBSET Nat /\ all \ used # {}
    BY <1>1 DEF FirstFree
  <2>2. \E x \in all \ used : \A y \in all \ used : x <= y
    BY <2>1, LeastElement
  <2>3. QED
    BY <2>1, <2>2 DEF FirstFree
<1>2. QED
  BY <1>1, DeviceAssumption DEF Ialloc, Balloc

-----------------------------------------------------------------------------
(* What a new inode, a new entry and an entry taken away change.           *)

\* Entry n of directory p becomes i; nothing else of the old directories changes.
EntrySet(p, n, i) ==
    \A d \in Dirs : \A m \in Entry :
        Own(d)'[m] = IF d = p /\ m = n THEN i ELSE Own(d)[m]

\* A new inode i with the allocated block b.
Made(p, n, i, b, type, links, blk, block) ==
    /\ p \in Dirs /\ n \in Name /\ Own(p)[n] = 0
    /\ i \in Ino \ imap /\ b \in Blk \ bmap
    /\ imap' = imap \cup {i} /\ bmap' = bmap \cup {b}
    /\ inode'[i] = [type |-> type, links |-> links, blk |-> blk, uid |-> running]
    /\ \A j \in imap : inode'[j].type = inode[j].type /\ inode'[j].blk = inode[j].blk
    /\ \A j \in imap : inode'[j].links =
                       IF j = p /\ type = "dir" THEN inode[j].links + 1 ELSE inode[j].links
    /\ data'[b] = block /\ data'[0] = Zero
    /\ EntrySet(p, n, i)

LEMMA NewNodeMakes ==
    ASSUME FsInv, Roomy, NEW path \in Path,
           NEW type \in {"dir", "reg", "lnk"}, NEW links \in Nat,
           NEW blk \in Blk \cup {0, Balloc}, NEW block \in [Entry -> Ino \cup {0}],
           NewNode(path, type, links, blk, block)
    PROVE  /\ Made(Parent(path), Child(path), Ialloc, Balloc, type, links, blk, block)
           /\ imap' \subseteq Ino /\ bmap' \subseteq Blk
           /\ inode' \in [Ino -> INODE]
           /\ data' \in [Blk \cup {0} -> [Entry -> Ino \cup {0}]]
           /\ fault' = fault
<1> DEFINE p == Parent(path)
           n == Child(path)
           i == Ialloc
           b == Balloc
           pb == inode[p].blk
           blocks == [data EXCEPT ![b] = block]
<1>1. p \in Dirs /\ n \in Name /\ n \in Entry /\ Own(p)[n] = 0
  BY VacantIs, EntryIs DEF NewNode
<1>2. i \in Ino \ imap /\ b \in Blk \ bmap /\ i # 0 /\ b # 0
  BY Allocated DEF NewNode, MayAllocate, Roomy
<1>3. /\ imap' = imap \cup {i} /\ bmap' = bmap \cup {b}
      /\ inode' = [j \in Ino |->
            IF j = i THEN [type |-> type, links |-> links, blk |-> blk, uid |-> running]
            ELSE IF j = p /\ type = "dir" THEN [inode[j] EXCEPT !.links = @ + 1]
            ELSE inode[j]]
      /\ data' = InsertEntry(blocks, pb, n, i)
      /\ fault' = fault
  BY <1>2 DEF NewNode
<1>4. /\ p \in imap /\ pb \in bmap /\ pb \in Blk /\ pb # 0 /\ pb # b
      /\ Own(p) \in [Entry -> Ino \cup {0}] /\ Own(p) # Zero /\ Own(p) = data[pb]
  BY <1>1, <1>2, DirIs DEF Own
<1>5. data \in [Blk \cup {0} -> [Entry -> Ino \cup {0}]]
  BY DEF FsInv, Typed
<1> HIDE DEF i, b, p, n
<1>6. blocks[pb] = data[pb]
  BY <1>2, <1>4, <1>5
<1>7. data' = [blocks EXCEPT ![pb][n] = i]
  BY <1>3, <1>4, <1>6 DEF InsertEntry
<1>8. /\ data'[b] = block
      /\ data'[pb] = [data[pb] EXCEPT ![n] = i]
      /\ \A c \in (Blk \cup {0}) \ {b, pb} : data'[c] = data[c]
  <2> HIDE DEF pb
  <2>1. QED
    BY <1>2, <1>4, <1>5, <1>7
<1>9. data' \in [Blk \cup {0} -> [Entry -> Ino \cup {0}]]
  <2>1. blocks \in [Blk \cup {0} -> [Entry -> Ino \cup {0}]]
    BY <1>5
  <2>2. [blocks[pb] EXCEPT ![n] = i] \in [Entry -> Ino \cup {0}]
    BY <2>1, <1>1, <1>2, <1>4
  <2> HIDE DEF blocks, pb
  <2>3. QED
    BY <1>7, <2>1, <2>2
<1>10. \A j \in imap : inode[j] \in INODE /\ j \in Ino /\ j # i
  BY <1>2 DEF FsInv, Typed
<1>11. \A j \in imap : /\ inode'[j].type = inode[j].type /\ inode'[j].blk = inode[j].blk
                       /\ inode'[j].links = IF j = p /\ type = "dir"
                                            THEN inode[j].links + 1 ELSE inode[j].links
  <2> SUFFICES ASSUME NEW j \in imap
               PROVE  /\ inode'[j].type = inode[j].type /\ inode'[j].blk = inode[j].blk
                      /\ inode'[j].links = IF j = p /\ type = "dir"
                                           THEN inode[j].links + 1 ELSE inode[j].links
    OBVIOUS
  <2>1. inode'[j] = IF j = p /\ type = "dir" THEN [inode[j] EXCEPT !.links = @ + 1]
                    ELSE inode[j]
    BY <1>3, <1>10
  <2>2. inode[j] \in INODE
    BY <1>10
  <2>3. QED
    BY <2>1, <2>2 DEF INODE
<1>12. inode'[i] = [type |-> type, links |-> links, blk |-> blk, uid |-> running]
  BY <1>2, <1>3
<1>13. inode' \in [Ino -> INODE]
  <2>1. running \in Proc /\ inode \in [Ino -> INODE]
    BY DEF FsInv, Typed
  <2>2. blk \in Blk \cup {0}
    BY <1>2 DEF b
  <2>3. [type |-> type, links |-> links, blk |-> blk, uid |-> running] \in INODE
    BY <2>1, <2>2 DEF INODE
  <2>4. \A j \in Ino : [inode[j] EXCEPT !.links = @ + 1] \in INODE
    BY <2>1 DEF INODE
  <2>5. QED
    BY <1>3, <2>1, <2>3, <2>4
<1>14. data'[0] = Zero
  BY <1>2, <1>4, <1>8 DEF FsInv, Sound
<1>15. EntrySet(p, n, i)
  <2> SUFFICES ASSUME NEW d \in Dirs, NEW m \in Entry
               PROVE  Own(d)'[m] = IF d = p /\ m = n THEN i ELSE Own(d)[m]
    BY DEF EntrySet
  <2>1. /\ d \in imap /\ inode[d].blk \in bmap /\ inode[d].blk \in Blk
        /\ Own(d) \in [Entry -> Ino \cup {0}]
    BY DirIs
  <2>2. Own(d)' = data'[inode[d].blk] /\ inode[d].blk # b
    BY <1>2, <1>11, <2>1 DEF Own
  <2>3. CASE d = p
    BY <1>4, <1>8, <2>1, <2>2, <2>3 DEF Own
  <2>4. CASE d # p
    <3>1. inode[d].blk # pb
      BY <1>1, <2>4, DirIs
    <3>2. Own(d)' = Own(d)
      BY <1>8, <2>1, <2>2, <3>1 DEF Own
    <3>3. QED
      BY <2>4, <3>2
  <2>5. QED
    BY <2>3, <2>4
<1>16. Made(p, n, i, b, type, links, blk, block)
  BY <1>1, <1>2, <1>3, <1>8, <1>11, <1>12, <1>14, <1>15 DEF Made
<1>17. imap' \subseteq Ino /\ bmap' \subseteq Blk
  BY <1>2, <1>3 DEF FsInv, Typed
<1>18. QED
  BY <1>3, <1>9, <1>13, <1>16, <1>17 DEF p, n, i, b

-----------------------------------------------------------------------------
(* Names, subdirectories and the tree of directories.                      *)

LEMMA NamesAdded ==
    ASSUME NEW p \in Dirs, NEW n \in Name, NEW i, Own(p)[n] = 0, EntrySet(p, n, i),
           Dirs \subseteq Dirs', \A d \in Dirs' \ Dirs : \A m \in Name : Own(d)'[m] = 0
    PROVE  \A j : j # 0 => Names(j)' = IF j = i THEN Names(j) \cup {<<p, n>>} ELSE Names(j)
<1> SUFFICES ASSUME NEW j, j # 0
             PROVE  Names(j)' = IF j = i THEN Names(j) \cup {<<p, n>>} ELSE Names(j)
  OBVIOUS
<1>1. \A d, m : <<d, m>> \in Names(j)' <=> d \in Dirs' /\ m \in Name /\ Own(d)'[m] = j
  BY DEF Names, Own
<1>2. \A d, m : <<d, m>> \in Names(j) <=> d \in Dirs /\ m \in Name /\ Own(d)[m] = j
  BY NamesIs
<1>3. \A d \in Dirs, m \in Name : Own(d)'[m] = IF d = p /\ m = n THEN i ELSE Own(d)[m]
  BY EntryIs DEF EntrySet
<1>4. ASSUME NEW d, NEW m
      PROVE  <<d, m>> \in Names(j)' <=> <<d, m>> \in Names(j) \/ (j = i /\ d = p /\ m = n)
  <2>1. CASE d \in Dirs /\ m \in Name
    <3>1. Own(d)'[m] = IF d = p /\ m = n THEN i ELSE Own(d)[m]
      BY <1>3, <2>1
    <3>2. d \in Dirs'
      BY <2>1
    <3>3. QED
      BY <1>1, <1>2, <2>1, <3>1, <3>2
  <2>2. CASE ~(d \in Dirs /\ m \in Name)
    <3>1. <<d, m>> \notin Names(j) /\ ~(d = p /\ m = n)
      BY <1>2, <2>2
    <3>2. <<d, m>> \notin Names(j)'
      BY <1>1, <2>2
    <3>3. QED
      BY <3>1, <3>2
  <2>3. QED
    BY <2>1, <2>2
<1>5. Names(j) \subseteq Dirs \X Name /\ Names(j)' \subseteq Dirs' \X Name
  BY DEF Names
<1>6. QED
  BY <1>4, <1>5

LEMMA NamesRemoved ==
    ASSUME NEW p \in Dirs, NEW n \in Name, NEW c, Own(p)[n] = c, EntrySet(p, n, 0),
           Dirs' \subseteq Dirs, p \in Dirs',
           \A d \in Dirs \ Dirs' : \A m \in Name : Own(d)[m] = 0
    PROVE  \A j : j # 0 => Names(j)' = IF j = c THEN Names(j) \ {<<p, n>>} ELSE Names(j)
<1> SUFFICES ASSUME NEW j, j # 0
             PROVE  Names(j)' = IF j = c THEN Names(j) \ {<<p, n>>} ELSE Names(j)
  OBVIOUS
<1>1. \A d, m : <<d, m>> \in Names(j)' <=> d \in Dirs' /\ m \in Name /\ Own(d)'[m] = j
  BY DEF Names, Own
<1>2. \A d, m : <<d, m>> \in Names(j) <=> d \in Dirs /\ m \in Name /\ Own(d)[m] = j
  BY NamesIs
<1>3. \A d \in Dirs, m \in Name : Own(d)'[m] = IF d = p /\ m = n THEN 0 ELSE Own(d)[m]
  BY EntryIs DEF EntrySet
<1>4. ASSUME NEW d, NEW m
      PROVE  <<d, m>> \in Names(j)' <=> <<d, m>> \in Names(j) /\ ~(j = c /\ d = p /\ m = n)
  <2>1. CASE d \in Dirs' /\ m \in Name
    <3>1. d \in Dirs /\ Own(d)'[m] = IF d = p /\ m = n THEN 0 ELSE Own(d)[m]
      BY <1>3, <2>1
    <3>2. QED
      BY <1>1, <1>2, <2>1, <3>1
  <2>2. CASE ~(d \in Dirs' /\ m \in Name)
    <3>1. <<d, m>> \notin Names(j)'
      BY <1>1, <2>2
    <3>2. <<d, m>> \notin Names(j)
      BY <1>2, <2>2
    <3>3. QED
      BY <3>1, <3>2
  <2>3. QED
    BY <2>1, <2>2
<1>5. Names(j) \subseteq Dirs \X Name /\ Names(j)' \subseteq Dirs' \X Name
  BY DEF Names
<1>6. QED
  BY <1>4, <1>5

\* The tree stands as long as the directories, their . and .. and their names do.
LEMMA TreeKept ==
    ASSUME FsInv, Dirs' = Dirs,
           \A d \in Dirs : /\ inode'[d].links = inode[d].links
                           /\ Own(d)'["."] = Own(d)["."] /\ Own(d)'[".."] = Own(d)[".."]
                           /\ Names(d)' = Names(d)
    PROVE  DirsFormTree'
<1>1. \A d \in Dirs : Subs(d)' = Subs(d)
  BY DEF Subs
<1>2. ASSUME NEW d \in Dirs
      PROVE  /\ Own(d)'["."] = d
             /\ IF d = Root THEN Own(d)'[".."] = Root /\ Names(d)' = {}
                ELSE \E n \in Name : Names(d)' = {<<Own(d)'[".."], n>>}
             /\ inode'[d].links = 2 + Cardinality(Subs(d)')
  BY <1>1, DirIs, UpIs, LinksAre
<1>3. ASSUME NEW C \in SUBSET Dirs, C # {}, \A d \in C : Own(d)'[".."] \in C
      PROVE  Root \in C
  BY <1>3 DEF FsInv, DirsFormTree, Own
<1>4. QED
  BY <1>2, <1>3 DEF DirsFormTree, Own, Subs

\* What the inode and the block of a new node hold.
Fresh(p, i, b, type, links, blk, block) ==
    /\ type \in {"dir", "reg", "lnk"}
    /\ type # "lnk" => blk = b
    /\ type # "dir" => links = 1
    /\ \A m \in Name : block[m] = 0
    /\ \A m \in Entry : block[m] \in {0, i, p}

\* The new inode, its block and its entry leave the rest in order.
LEMMA MadeKeeps ==
    ASSUME FsInv, NEW p, NEW n, NEW i, NEW b, NEW type, NEW links, NEW blk, NEW block,
           Made(p, n, i, b, type, links, blk, block), Typed',
           UNCHANGED <<cwd, running, fault>>,
           Fresh(p, i, b, type, links, blk, block)
    PROVE  /\ Dirs' = Dirs \cup (IF type = "dir" THEN {i} ELSE {})
           /\ type = "dir" => Own(i)' = block
           /\ \A j : j # 0 => Names(j)' = IF j = i THEN {<<p, n>>} ELSE Names(j)
           /\ Sound' /\ BlocksOwned' /\ NoDanglingEntry'
           /\ LinksCounted' /\ CwdExists'
<1>1. /\ p \in Dirs /\ n \in Name /\ Own(p)[n] = 0
      /\ i \in Ino \ imap /\ b \in Blk \ bmap
      /\ imap' = imap \cup {i} /\ bmap' = bmap \cup {b}
      /\ inode'[i].type = type /\ inode'[i].links = links /\ inode'[i].blk = blk
      /\ \A j \in imap : inode'[j].type = inode[j].type /\ inode'[j].blk = inode[j].blk
      /\ data'[b] = block /\ data'[0] = Zero
      /\ EntrySet(p, n, i)
  BY DEF Made
<1>0. /\ type \in {"dir", "reg", "lnk"}
      /\ type # "lnk" => blk = b
      /\ type # "dir" => links = 1
      /\ \A m \in Name : block[m] = 0
      /\ \A m \in Entry : block[m] \in {0, i, p}
  BY DEF Fresh
<1>2. \A j \in imap : ~IsDir(j) => inode'[j].links = inode[j].links
  BY <1>1 DEF Made, Dirs
<1>3. Dirs' = Dirs \cup (IF type = "dir" THEN {i} ELSE {})
  BY <1>1 DEF Dirs, IsDir
<1>4. type = "dir" => Own(i)' = block
  BY <1>0, <1>1 DEF Own
<1>5. \A j : j # 0 => Names(j)' = IF j = i THEN {<<p, n>>} ELSE Names(j)
  <2>1. \A d \in Dirs' \ Dirs : \A m \in Name : Own(d)'[m] = 0
    BY <1>0, <1>3, <1>4
  <2>2. Dirs \subseteq Dirs'
    BY <1>3
  <2>3. \A j : j # 0 => Names(j)' = IF j = i THEN Names(j) \cup {<<p, n>>} ELSE Names(j)
    BY <1>1, <2>1, <2>2, NamesAdded
  <2>4. Names(i) = {}
    <3>1. \A d \in Dirs, m \in Name : Own(d)[m] # i
      BY <1>1, DirIs, EntryIs
    <3>2. QED
      BY <3>1 DEF Names, Own
  <2>5. QED
    BY <2>3, <2>4
<1>6. Sound'
  BY <1>1, <1>3 DEF Sound, FsInv
<1>7. BlocksOwned'
  <2>1. \A j \in imap : inode[j].type # "lnk" => inode[j].blk \in bmap /\ inode[j].blk # b
    BY <1>1 DEF FsInv, BlocksOwned
  <2>2. QED
    BY <1>0, <1>1, <2>1 DEF FsInv, BlocksOwned
<1>8. NoDanglingEntry'
  <2> SUFFICES ASSUME NEW d \in Dirs', NEW m \in Entry
               PROVE  Own(d)'[m] \in imap' \cup {0}
    BY DEF NoDanglingEntry, Own
  <2>1. CASE d \in Dirs
    <3>1. Own(d)'[m] = IF d = p /\ m = n THEN i ELSE Own(d)[m]
      BY <1>1, <2>1 DEF EntrySet
    <3>2. QED
      BY <1>1, <2>1, <3>1, DirIs
  <2>2. CASE d \notin Dirs
    <3>1. Own(d)' = block
      BY <1>3, <1>4, <2>2
    <3>2. p \in imap
      BY <1>1, DirIs
    <3>3. QED
      BY <1>0, <1>1, <3>1, <3>2
  <2>3. QED
    BY <2>1, <2>2
<1>9. LinksCounted'
  <2>1. ASSUME NEW j \in Files
        PROVE  inode'[j].links = Cardinality(Names(j)') /\ inode'[j].links > 0
    <3>1. j # 0 /\ j # i /\ j \in imap /\ ~IsDir(j)
      BY <1>1, EntryIs DEF Files, Dirs, FsInv, Typed
    <3>2. Names(j)' = Names(j) /\ inode'[j].links = inode[j].links
      BY <1>2, <1>5, <3>1
    <3>3. QED
      BY <3>2, LinksAre
  <2>2. ASSUME type # "dir"
        PROVE  inode'[i].links = Cardinality(Names(i)') /\ inode'[i].links > 0
    <3>1. Names(i)' = {<<p, n>>}
      BY <1>1, <1>5, EntryIs
    <3>2. Cardinality(Names(i)') = 1
      <4>1. Cardinality({<<p, n>>}) = 1
        BY FS_Singleton
      <4>2. QED
        BY <3>1, <4>1
    <3>3. inode'[i].links = 1
      BY <1>0, <1>1, <2>2
    <3>4. QED
      BY <3>2, <3>3
  <2>3. Files' \subseteq IF type = "dir" THEN Files ELSE Files \cup {i}
    BY <1>1, <1>3 DEF Files
  <2>4. QED
    BY <2>1, <2>2, <2>3 DEF LinksCounted
<1>10. CwdExists'
  BY <1>3 DEF CwdExists, FsInv
<1>11. QED
  BY <1>3, <1>4, <1>5, <1>6, <1>7, <1>8, <1>9, <1>10

-----------------------------------------------------------------------------
(* The steps that make an inode.                                           *)

\* A directory joins the tree below its parent.
LEMMA DirectoryMade ==
    ASSUME FsInv, NEW p, NEW n, NEW i, NEW b, NEW block,
           Made(p, n, i, b, "dir", 2, b, block), Typed',
           UNCHANGED <<cwd, running, fault>>,
           \A m \in Name : block[m] = 0, block["."] = i, block[".."] = p
    PROVE  FsInv'
<1>1. /\ p \in Dirs /\ p \in imap /\ n \in Name /\ i \in Ino \ imap
      /\ EntrySet(p, n, i)
      /\ inode'[i].links = 2
      /\ \A j \in imap : inode'[j].links = IF j = p THEN inode[j].links + 1 ELSE inode[j].links
  BY DirIs DEF Made
<1>2. \A m \in Entry : block[m] \in {0, i, p}
  BY DEF Entry
<1>3. /\ Dirs' = Dirs \cup {i} /\ Own(i)' = block
      /\ \A j : j # 0 => Names(j)' = IF j = i THEN {<<p, n>>} ELSE Names(j)
      /\ Sound' /\ BlocksOwned' /\ NoDanglingEntry'
      /\ LinksCounted' /\ CwdExists'
  <2> DEFINE type == "dir"
             links == 2
  <2>1. Made(p, n, i, b, type, links, b, block) /\ Fresh(p, i, b, type, links, b, block)
    BY <1>2 DEF Fresh
  <2> HIDE DEF type, links
  <2>3. /\ Dirs' = Dirs \cup (IF type = "dir" THEN {i} ELSE {})
        /\ type = "dir" => Own(i)' = block
        /\ \A j : j # 0 => Names(j)' = IF j = i THEN {<<p, n>>} ELSE Names(j)
        /\ Sound' /\ BlocksOwned' /\ NoDanglingEntry'
        /\ LinksCounted' /\ CwdExists'
    BY <2>1, MadeKeeps
  <2>4. QED
    BY <2>3 DEF type
<1>4. i # 0 /\ i \notin Dirs /\ i # Root /\ i # p
  BY <1>1, EntryIs DEF Dirs, FsInv, Sound
<1>5. ASSUME NEW d \in Dirs
      PROVE  /\ Own(d)'["."] = d /\ Own(d)'[".."] = Own(d)[".."] /\ Own(d)[".."] \in Dirs
             /\ Names(d)' = Names(d)
  <2>1. Own(d)'["."] = Own(d)["."] /\ Own(d)'[".."] = Own(d)[".."]
    BY <1>1, EntryIs DEF EntrySet
  <2>2. d # 0 /\ d # i
    BY <1>4, DirIs
  <2>3. QED
    BY <1>3, <2>1, <2>2, DirIs, UpIs
<1>6. Own(i)'["."] = i /\ Own(i)'[".."] = p /\ Names(i)' = {<<p, n>>}
  BY <1>3, <1>4
<1>7. \A d \in Dirs : Subs(d)' = IF d = p THEN Subs(d) \cup {i} ELSE Subs(d)
  <2> SUFFICES ASSUME NEW d \in Dirs
               PROVE  Subs(d)' = IF d = p THEN Subs(d) \cup {i} ELSE Subs(d)
    OBVIOUS
  <2>1. Subs(d)' = {e \in Dirs' \ {Root} : Own(e)'[".."] = d}
    BY DEF Subs
  <2>2. QED
    BY <1>3, <1>4, <1>5, <1>6, <2>1 DEF Subs
<1>8. Subs(i)' = {}
  <2>1. Subs(i)' = {e \in Dirs' \ {Root} : Own(e)'[".."] = i}
    BY DEF Subs
  <2>2. QED
    BY <1>3, <1>4, <1>5, <1>6, <2>1
<1>9. ASSUME NEW d \in Dirs
      PROVE  inode'[d].links = 2 + Cardinality(Subs(d)')
  <2>1. inode[d].links = 2 + Cardinality(Subs(d)) /\ d \in imap
    BY DirIs, LinksAre
  <2>2. CASE d = p
    <3>1. i \notin Subs(d)
      BY <1>4 DEF Subs
    <3>2. IsFiniteSet(Subs(d)) /\ Cardinality(Subs(d)) \in Nat
      BY DirsFinite
    <3>3. Cardinality(Subs(d) \cup {i}) = Cardinality(Subs(d)) + 1
      BY <3>1, <3>2, FS_AddElement
    <3>4. Subs(d)' = Subs(d) \cup {i}
      BY <1>7, <2>2
    <3>5. inode'[d].links = inode[d].links + 1
      BY <1>1, <2>1, <2>2
    <3>6. QED
      BY <2>1, <3>2, <3>3, <3>4, <3>5
  <2>3. CASE d # p
    BY <1>1, <1>7, <2>1, <2>3
  <2>4. QED
    BY <2>2, <2>3
<1>10. inode'[i].links = 2 + Cardinality(Subs(i)')
  BY <1>1, <1>8, FS_EmptySet
<1>11. ASSUME NEW C \in SUBSET Dirs', C # {}, \A d \in C : Own(d)'[".."] \in C
       PROVE  Root \in C
  <2>1. C \ {i} \in SUBSET Dirs /\ C \ {i} # {}
    BY <1>1, <1>3, <1>4, <1>6, <1>11
  <2>2. \A d \in C \ {i} : Own(d)[".."] \in C \ {i}
    BY <1>4, <1>5, <1>11, <2>1
  <2>3. QED
    BY <2>1, <2>2 DEF FsInv, DirsFormTree, Own
<1>12. ASSUME NEW d \in Dirs'
       PROVE  /\ Own(d)'["."] = d
              /\ IF d = Root THEN Own(d)'[".."] = Root /\ Names(d)' = {}
                 ELSE \E m \in Name : Names(d)' = {<<Own(d)'[".."], m>>}
              /\ inode'[d].links = 2 + Cardinality(Subs(d)')
  <2>1. CASE d \in Dirs
    BY <1>5, <1>9, <2>1, UpIs
  <2>2. CASE d = i
    BY <1>1, <1>4, <1>6, <1>10, <2>2
  <2>3. QED
    BY <1>3, <2>1, <2>2
<1>13. DirsFormTree'
  BY <1>11, <1>12 DEF DirsFormTree, Own, Subs
<1>14. QED
  BY <1>3, <1>13 DEF FsInv

\* A file or a symlink leaves the tree as it is.
LEMMA FileMade ==
    ASSUME FsInv, NEW p, NEW n, NEW i, NEW b, NEW type \in {"reg", "lnk"}, NEW blk,
           Made(p, n, i, b, type, 1, blk, Zero), Typed',
           UNCHANGED <<cwd, running, fault>>,
           type # "lnk" => blk = b
    PROVE  FsInv'
<1>1. \A m \in Entry : Zero[m] \in {0, i, p}
  BY EntryIs
<1>2. \A m \in Name : Zero[m] = 0
  BY EntryIs
<1>3. /\ Dirs' = Dirs
      /\ \A j : j # 0 => Names(j)' = IF j = i THEN {<<p, n>>} ELSE Names(j)
      /\ Sound' /\ BlocksOwned' /\ NoDanglingEntry'
      /\ LinksCounted' /\ CwdExists'
  <2> DEFINE links == 1
             block == Zero
  <2>1. Made(p, n, i, b, type, links, blk, block) /\ Fresh(p, i, b, type, links, blk, block)
    BY <1>1, <1>2 DEF Fresh
  <2> HIDE DEF links, block
  <2>3. /\ Dirs' = Dirs \cup (IF type = "dir" THEN {i} ELSE {})
        /\ \A j : j # 0 => Names(j)' = IF j = i THEN {<<p, n>>} ELSE Names(j)
        /\ Sound' /\ BlocksOwned' /\ NoDanglingEntry'
        /\ LinksCounted' /\ CwdExists'
    BY <2>1, MadeKeeps
  <2>4. QED
    BY <2>3
<1>4. /\ p \in Dirs /\ n \in Name /\ i \notin imap /\ EntrySet(p, n, i)
      /\ \A j \in imap : inode'[j].links = inode[j].links
  BY DEF Made
<1>5. \A d \in Dirs : /\ inode'[d].links = inode[d].links
                      /\ Own(d)'["."] = Own(d)["."] /\ Own(d)'[".."] = Own(d)[".."]
                      /\ Names(d)' = Names(d)
  BY <1>3, <1>4, DirIs, EntryIs DEF EntrySet
<1>6. DirsFormTree'
  BY <1>3, <1>5, TreeKept
<1>7. QED
  BY <1>3, <1>6 DEF FsInv

LEMMA MkdirStep ==
    ASSUME FsInv, Roomy, NEW path \in Path, Mkdir(path)
    PROVE  FsInv'
<1> DEFINE block == [Zero EXCEPT !["."] = Ialloc, ![".."] = Parent(path)]
<1>1. NewNode(path, "dir", 2, Balloc, block) /\ UNCHANGED <<cwd, running, cmd>>
  BY DEF Mkdir
<1>2. Ialloc \in Ino /\ Parent(path) \in Ino
  BY <1>1, Allocated, VacantIs, DirIs DEF NewNode, MayAllocate, Roomy
<1>3. block \in [Entry -> Ino \cup {0}] /\ block["."] = Ialloc /\ block[".."] = Parent(path)
  BY <1>2, EntryIs
<1>4. \A m \in Name : block[m] = 0
  BY EntryIs
<1> HIDE DEF block
<1>5. /\ Made(Parent(path), Child(path), Ialloc, Balloc, "dir", 2, Balloc, block)
      /\ imap' \subseteq Ino /\ bmap' \subseteq Blk /\ inode' \in [Ino -> INODE]
      /\ data' \in [Blk \cup {0} -> [Entry -> Ino \cup {0}]] /\ fault' = fault
  BY <1>1, <1>3, NewNodeMakes
<1>6. Typed'
  BY <1>1, <1>5 DEF Typed, FsInv
<1>7. PICK p, n, i, b, c : p = Parent(path) /\ n = Child(path) /\ i = Ialloc /\ b = Balloc /\ c = block
  OBVIOUS
<1>8. Made(p, n, i, b, "dir", 2, b, c)
  BY <1>5, <1>7
<1>9. QED
  BY <1>1, <1>3, <1>4, <1>5, <1>6, <1>7, <1>8, DirectoryMade

LEMMA CreatStep ==
    ASSUME FsInv, Roomy, NEW path \in Path, Creat(path)
    PROVE  FsInv'
<1>1. NewNode(path, "reg", 1, Balloc, Zero) /\ UNCHANGED <<cwd, running, cmd>>
  BY DEF Creat
<1>2. /\ Made(Parent(path), Child(path), Ialloc, Balloc, "reg", 1, Balloc, Zero)
      /\ imap' \subseteq Ino /\ bmap' \subseteq Blk /\ inode' \in [Ino -> INODE]
      /\ data' \in [Blk \cup {0} -> [Entry -> Ino \cup {0}]] /\ fault' = fault
  BY <1>1, NewNodeMakes, EntryIs
<1>3. Typed'
  BY <1>1, <1>2 DEF Typed, FsInv
<1>4. PICK p, n, i, b : p = Parent(path) /\ n = Child(path) /\ i = Ialloc /\ b = Balloc
  OBVIOUS
<1>5. Made(p, n, i, b, "reg", 1, b, Zero)
  BY <1>2, <1>4
<1>6. QED
  BY <1>1, <1>2, <1>3, <1>5, FileMade

LEMMA SymlinkStep ==
    ASSUME FsInv, Roomy, NEW src \in Path, NEW dst \in Path, Symlink(src, dst)
    PROVE  FsInv'
<1>1. NewNode(dst, "lnk", 1, PathBlock[src], Zero) /\ UNCHANGED <<cwd, running, cmd>>
  BY DEF Symlink
<1>2. PICK x \in Blk \cup {0, Balloc} : x = PathBlock[src]
  BY PathAssumption
<1>3. /\ Made(Parent(dst), Child(dst), Ialloc, Balloc, "lnk", 1, x, Zero)
      /\ imap' \subseteq Ino /\ bmap' \subseteq Blk /\ inode' \in [Ino -> INODE]
      /\ data' \in [Blk \cup {0} -> [Entry -> Ino \cup {0}]] /\ fault' = fault
  BY <1>1, <1>2, NewNodeMakes, EntryIs
<1>4. Typed'
  BY <1>1, <1>3 DEF Typed, FsInv
<1>5. PICK p, n, i, b : p = Parent(dst) /\ n = Child(dst) /\ i = Ialloc /\ b = Balloc
  OBVIOUS
<1>6. Made(p, n, i, b, "lnk", 1, x, Zero)
  BY <1>3, <1>5
<1>7. QED
  BY <1>1, <1>3, <1>4, <1>6, FileMade

-----------------------------------------------------------------------------
(* link and unlink.                                                        *)

\* One entry of a directory is written; its block is no other directory's.
LEMMA EntryWritten ==
    ASSUME FsInv, NEW p \in Dirs, NEW n \in Entry, NEW i \in Ino \cup {0},
           data' = [data EXCEPT ![inode[p].blk][n] = i],
           \A d \in Dirs : inode'[d].blk = inode[d].blk
    PROVE  /\ data' \in [Blk \cup {0} -> [Entry -> Ino \cup {0}]]
           /\ data'[0] = Zero /\ EntrySet(p, n, i)
<1> DEFINE pb == inode[p].blk
<1>1. pb \in Blk /\ pb # 0 /\ data \in [Blk \cup {0} -> [Entry -> Ino \cup {0}]]
  BY DirIs DEF FsInv, Typed
<1>2. /\ data'[pb] = [data[pb] EXCEPT ![n] = i]
      /\ \A c \in (Blk \cup {0}) \ {pb} : data'[c] = data[c]
  BY <1>1
<1>3. data' \in [Blk \cup {0} -> [Entry -> Ino \cup {0}]]
  <2>1. data[pb] \in [Entry -> Ino \cup {0}]
    BY <1>1
  <2>2. [data[pb] EXCEPT ![n] = i] \in [Entry -> Ino \cup {0}]
    BY <2>1
  <2> HIDE DEF pb
  <2>3. data' = [data EXCEPT ![pb][n] = i]
    BY DEF pb
  <2>4. QED
    BY <1>1, <2>2, <2>3
<1>4. data'[0] = Zero
  BY <1>1, <1>2 DEF FsInv, Sound
<1>5. EntrySet(p, n, i)
  <2> SUFFICES ASSUME NEW d \in Dirs, NEW m \in Entry
               PROVE  Own(d)'[m] = IF d = p /\ m = n THEN i ELSE Own(d)[m]
    BY DEF EntrySet
  <2>1. inode[d].blk \in Blk /\ Own(d) \in [Entry -> Ino \cup {0}]
    BY DirIs
  <2>2. Own(d)' = data'[inode[d].blk]
    BY DEF Own
  <2>3. CASE d = p
    BY <1>2, <2>1, <2>2, <2>3 DEF Own
  <2>4. CASE d # p
    <3>1. inode[d].blk # pb
      BY <2>4, DirIs
    <3>2. Own(d)' = Own(d)
      BY <1>2, <2>1, <2>2, <3>1 DEF Own
    <3>3. QED
      BY <2>4, <3>2
  <2>5. QED
    BY <2>3, <2>4
<1>6. QED
  BY <1>3, <1>4, <1>5

\* One more name of file c.
Linked(p, n, c) ==
    /\ p \in Dirs /\ n \in Name /\ Own(p)[n] = 0 /\ c \in Files
    /\ imap' = imap /\ bmap' = bmap
    /\ \A j \in imap : inode'[j].type = inode[j].type /\ inode'[j].blk = inode[j].blk
    /\ \A j \in imap : inode'[j].links = IF j = c THEN inode[j].links + 1 ELSE inode[j].links
    /\ data'[0] = Zero /\ EntrySet(p, n, c)

\* One name of file c less; with the last one the file goes.
Unlinked(p, n, c) ==
    /\ p \in Dirs /\ n \in Name /\ Own(p)[n] = c /\ c \in Files
    /\ imap' = IF inode[c].links <= 1 THEN imap \ {c} ELSE imap
    /\ bmap' = IF inode[c].links <= 1 THEN bmap \ {inode[c].blk} ELSE bmap
    /\ \A j \in imap : inode'[j].type = inode[j].type
    /\ \A j \in imap : inode'[j].blk = IF j = c /\ inode[c].links <= 1 THEN 0 ELSE inode[j].blk
    /\ \A j \in imap : inode'[j].links = IF j = c THEN inode[j].links - 1 ELSE inode[j].links
    /\ data'[0] = Zero /\ EntrySet(p, n, 0)

LEMMA LinkMakes ==
    ASSUME FsInv, NEW src \in PATH, NEW dst \in Path, LinkFile(src, dst)
    PROVE  /\ Linked(Parent(dst), Child(dst), Getino(src))
           /\ imap' \subseteq Ino /\ bmap' \subseteq Blk
           /\ inode' \in [Ino -> INODE]
           /\ data' \in [Blk \cup {0} -> [Entry -> Ino \cup {0}]]
<1> DEFINE p == Parent(dst)
           n == Child(dst)
           c == Getino(src)
<1>1. p \in Dirs /\ n \in Name /\ n \in Entry /\ Own(p)[n] = 0
  BY VacantIs, EntryIs DEF LinkFile, LinkOK
<1>2. c \in imap /\ ~IsDir(c)
  BY GetinoIn DEF LinkFile, LinkOK
<1>3. /\ data' = InsertEntry(data, inode[p].blk, n, c)
      /\ inode' = [inode EXCEPT ![c].links = @ + 1]
      /\ imap' = imap /\ bmap' = bmap
  BY DEF LinkFile
<1>4. data' = [data EXCEPT ![inode[p].blk][n] = c]
  BY <1>1, <1>3, DirIs DEF InsertEntry, Own
<1> HIDE DEF p, n, c
<1>5. inode \in [Ino -> INODE] /\ imap \subseteq Ino /\ bmap \subseteq Blk /\ c \in Ino
  BY <1>2 DEF FsInv, Typed
<1>6. \A j \in imap : /\ inode'[j].type = inode[j].type /\ inode'[j].blk = inode[j].blk
                      /\ inode'[j].links = IF j = c THEN inode[j].links + 1 ELSE inode[j].links
  <2> SUFFICES ASSUME NEW j \in imap
               PROVE  /\ inode'[j].type = inode[j].type /\ inode'[j].blk = inode[j].blk
                      /\ inode'[j].links = IF j = c THEN inode[j].links + 1 ELSE inode[j].links
    OBVIOUS
  <2>1. inode[j] \in INODE /\ j \in Ino
    BY <1>5
  <2>2. inode'[j] = IF j = c THEN [inode[j] EXCEPT !.links = @ + 1] ELSE inode[j]
    BY <1>3, <1>5, <2>1
  <2>3. QED
    BY <2>1, <2>2 DEF INODE
<1>7. inode' \in [Ino -> INODE]
  <2>1. [inode[c] EXCEPT !.links = @ + 1] \in INODE
    BY <1>5 DEF INODE
  <2>2. QED
    BY <1>3, <1>5, <2>1
<1>8. data' \in [Blk \cup {0} -> [Entry -> Ino \cup {0}]] /\ data'[0] = Zero /\ EntrySet(p, n, c)
  <2>1. \A d \in Dirs : inode'[d].blk = inode[d].blk
    BY <1>6, DirIs
  <2>2. QED
    BY <1>1, <1>4, <1>5, <2>1, EntryWritten
<1>9. c \in Files
  BY <1>2 DEF Files, Dirs
<1>10. QED
  BY <1>1, <1>3, <1>5, <1>6, <1>7, <1>8, <1>9 DEF Linked, p, n, c

LEMMA UnlinkTakes ==
    ASSUME FsInv, NEW path \in Path, UnlinkFile(path)
    PROVE  /\ Unlinked(Parent(path), Child(path), Target(path))
           /\ imap' \subseteq Ino /\ bmap' \subseteq Blk
           /\ inode' \in [Ino -> INODE]
           /\ data' \in [Blk \cup {0} -> [Entry -> Ino \cup {0}]]
<1> DEFINE p == Parent(path)
           n == Child(path)
           c == Target(path)
           last == inode[c].links <= 1
<1>1. p \in Dirs /\ n \in Name /\ n \in Entry /\ Own(p)[n] = c /\ c \in Files /\ c \in imap
  BY TargetIs, EntryIs DEF UnlinkFile, UnlinkOK
<1>2. /\ data' = RemoveEntry(inode[p].blk, n)
      /\ inode' = [inode EXCEPT ![c] = [type |-> @.type, links |-> @.links - 1,
                       blk |-> IF last THEN 0 ELSE @.blk, uid |-> @.uid]]
      /\ imap' = IF last THEN imap \ {c} ELSE imap
      /\ bmap' = IF last THEN bmap \ {inode[c].blk} ELSE bmap
  BY DEF UnlinkFile
<1>3. data' = [data EXCEPT ![inode[p].blk][n] = 0]
  BY <1>1, <1>2, DirIs DEF RemoveEntry
<1> HIDE DEF p, n, c
<1>4. inode \in [Ino -> INODE] /\ imap \subseteq Ino /\ bmap \subseteq Blk /\ c \in Ino
  BY <1>1 DEF FsInv, Typed
<1>5. inode[c] \in INODE /\ inode[c].links > 0
  BY <1>1, <1>4, LinksAre
<1>6. \A j \in imap : /\ inode'[j].type = inode[j].type
                      /\ inode'[j].blk = IF j = c /\ last THEN 0 ELSE inode[j].blk
                      /\ inode'[j].links = IF j = c THEN inode[j].links - 1 ELSE inode[j].links
  <2> SUFFICES ASSUME NEW j \in imap
               PROVE  /\ inode'[j].type = inode[j].type
                      /\ inode'[j].blk = IF j = c /\ last THEN 0 ELSE inode[j].blk
                      /\ inode'[j].links = IF j = c THEN inode[j].links - 1 ELSE inode[j].links
    OBVIOUS
  <2>1. inode'[c] = [type |-> inode[c].type, links |-> inode[c].links - 1,
                     blk |-> IF last THEN 0 ELSE inode[c].blk, uid |-> inode[c].uid]
    BY <1>2, <1>4
  <2>2. j # c => inode'[j] = inode[j]
    BY <1>2, <1>4
  <2>3. QED
    BY <2>1, <2>2
<1>7. inode' \in [Ino -> INODE]
  <2>1. inode[c].links - 1 \in Nat
    BY <1>5 DEF INODE
  <2>2. [type |-> inode[c].type, links |-> inode[c].links - 1,
         blk |-> IF last THEN 0 ELSE inode[c].blk, uid |-> inode[c].uid] \in INODE
    BY <1>5, <2>1 DEF INODE
  <2> HIDE DEF last
  <2>3. QED
    BY <1>2, <1>4, <2>2
<1>8. data' \in [Blk \cup {0} -> [Entry -> Ino \cup {0}]] /\ data'[0] = Zero /\ EntrySet(p, n, 0)
  <2>1. \A d \in Dirs : inode'[d].blk = inode[d].blk
    BY <1>1, <1>6, DirIs DEF Files
  <2>2. QED
    BY <1>1, <1>3, <2>1, EntryWritten
<1>9. imap' \subseteq Ino /\ bmap' \subseteq Blk
  BY <1>2, <1>4
<1>10. Unlinked(p, n, c)
  BY <1>1, <1>2, <1>6, <1>8 DEF Unlinked
<1>11. QED
  BY <1>7, <1>8, <1>9, <1>10 DEF p, n, c

LEMMA LinkedKeeps ==
    ASSUME FsInv, NEW p, NEW n, NEW c, Linked(p, n, c), Typed',
           UNCHANGED <<cwd, running, fault>>
    PROVE  /\ FsInv' /\ Dirs' = Dirs
           /\ \A j : j # 0 => Names(j)' = IF j = c THEN Names(j) \cup {<<p, n>>} ELSE Names(j)
<1>1. /\ p \in Dirs /\ n \in Name /\ Own(p)[n] = 0 /\ c \in Files /\ c \in imap
      /\ imap' = imap /\ bmap' = bmap
      /\ \A j \in imap : inode'[j].type = inode[j].type /\ inode'[j].blk = inode[j].blk
      /\ \A j \in imap : inode'[j].links = IF j = c THEN inode[j].links + 1 ELSE inode[j].links
      /\ data'[0] = Zero /\ EntrySet(p, n, c)
  BY DEF Linked, Files
<1>2. Dirs' = Dirs /\ Files' = Files
  BY <1>1 DEF Dirs, IsDir, Files
<1>3. \A j : j # 0 => Names(j)' = IF j = c THEN Names(j) \cup {<<p, n>>} ELSE Names(j)
  BY <1>1, <1>2, NamesAdded
<1>4. Sound'
  BY <1>1, <1>2 DEF Sound, FsInv
<1>5. BlocksOwned'
  BY <1>1 DEF BlocksOwned, FsInv
<1>6. NoDanglingEntry'
  <2> SUFFICES ASSUME NEW d \in Dirs, NEW m \in Entry
               PROVE  Own(d)'[m] \in imap \cup {0}
    BY <1>1, <1>2 DEF NoDanglingEntry, Own
  <2>1. QED
    BY <1>1, DirIs DEF EntrySet
<1>7. LinksCounted'
  <2> SUFFICES ASSUME NEW j \in Files
               PROVE  inode'[j].links = Cardinality(Names(j)') /\ inode'[j].links > 0
    BY <1>2 DEF LinksCounted
  <2>1. j \in imap /\ j # 0
    BY EntryIs DEF Files, FsInv, Typed
  <2>2. CASE j = c
    <3>1. <<p, n>> \notin Names(c)
      BY <1>1, <2>1, <2>2 DEF Names, Own
    <3>2. IsFiniteSet(Names(c)) /\ Cardinality(Names(c)) \in Nat
      BY DirsFinite
    <3>3. Cardinality(Names(c) \cup {<<p, n>>}) = Cardinality(Names(c)) + 1
      BY <3>1, <3>2, FS_AddElement
    <3>4. Names(c)' = Names(c) \cup {<<p, n>>}
      BY <1>3, <2>1, <2>2
    <3>5. Cardinality(Names(c)') = Cardinality(Names(c)) + 1
      BY <3>3, <3>4
    <3>6. inode[c].links = Cardinality(Names(c)) /\ inode'[c].links = inode[c].links + 1
      BY <1>1, LinksAre
    <3>7. QED
      BY <2>2, <3>2, <3>5, <3>6
  <2>3. CASE j # c
    BY <1>1, <1>3, <2>1, <2>3, LinksAre
  <2>4. QED
    BY <2>2, <2>3
<1>8. DirsFormTree'
  <2>1. \A d \in Dirs : d # c /\ d # 0 /\ d \in imap
    BY <1>1, DirIs DEF Files
  <2>2. \A d \in Dirs : /\ inode'[d].links = inode[d].links
                        /\ Own(d)'["."] = Own(d)["."] /\ Own(d)'[".."] = Own(d)[".."]
                        /\ Names(d)' = Names(d)
    BY <1>1, <1>3, <2>1, EntryIs DEF EntrySet
  <2>3. QED
    BY <1>2, <2>2, TreeKept
<1>9. CwdExists'
  BY <1>2 DEF CwdExists, FsInv
<1>10. QED
  BY <1>2, <1>3, <1>4, <1>5, <1>6, <1>7, <1>8, <1>9 DEF FsInv

LEMMA UnlinkedKeeps ==
    ASSUME FsInv, NEW p, NEW n, NEW c, Unlinked(p, n, c), Harmless(c), Typed',
           UNCHANGED <<cwd, running, fault>>
    PROVE  /\ FsInv' /\ Dirs' = Dirs
           /\ \A j : j # 0 => Names(j)' = IF j = c THEN Names(j) \ {<<p, n>>} ELSE Names(j)
<1> DEFINE last == inode[c].links <= 1
<1>1. /\ p \in Dirs /\ n \in Name /\ Own(p)[n] = c /\ c \in Files /\ c \in imap /\ c # 0
      /\ imap' = IF last THEN imap \ {c} ELSE imap
      /\ bmap' = IF last THEN bmap \ {inode[c].blk} ELSE bmap
      /\ \A j \in imap : inode'[j].type = inode[j].type
      /\ \A j \in imap : inode'[j].blk = IF j = c /\ last THEN 0 ELSE inode[j].blk
      /\ \A j \in imap : inode'[j].links = IF j = c THEN inode[j].links - 1 ELSE inode[j].links
      /\ data'[0] = Zero /\ EntrySet(p, n, 0)
  BY EntryIs DEF Unlinked, Files, FsInv, Typed
<1>2. Dirs' = Dirs
  BY <1>1 DEF Dirs, IsDir, Files
<1>3. \A j : j # 0 => Names(j)' = IF j = c THEN Names(j) \ {<<p, n>>} ELSE Names(j)
  BY <1>1, <1>2, NamesRemoved
<1>4. /\ Names(c)' = Names(c) \ {<<p, n>>}
      /\ Cardinality(Names(c)') = inode[c].links - 1 /\ inode[c].links \in Nat
      /\ inode'[c].links = inode[c].links - 1 /\ inode[c].links > 0
      /\ last => Names(c)' = {}
  <2>1. Names(c)' = Names(c) \ {<<p, n>>}
    BY <1>1, <1>3
  <2>2. <<p, n>> \in Names(c)
    BY <1>1, NamesIs
  <2>3. IsFiniteSet(Names(c)) /\ Cardinality(Names(c)) \in Nat
    BY DirsFinite
  <2>4. Cardinality(Names(c) \ {<<p, n>>}) = Cardinality(Names(c)) - 1
    BY <2>2, <2>3, FS_RemoveElement
  <2>5. inode[c].links = Cardinality(Names(c)) /\ inode[c].links > 0
    BY <1>1, LinksAre
  <2>6. Cardinality(Names(c)') = inode[c].links - 1
    BY <2>1, <2>4, <2>5
  <2>7. IsFiniteSet(Names(c)')
    <3>1. IsFiniteSet(Names(c) \ {<<p, n>>})
      BY <2>3, FS_RemoveElement
    <3>2. QED
      BY <2>1, <3>1
  <2>8. ASSUME last
        PROVE  Names(c)' = {}
    <3>1. Cardinality(Names(c)') = 0
      BY <2>3, <2>5, <2>6, <2>8
    <3>2. QED
      BY <2>7, <3>1, FS_EmptySet
  <2>9. inode'[c].links = inode[c].links - 1
    BY <1>1
  <2>10. QED
    BY <2>1, <2>3, <2>5, <2>6, <2>8, <2>9
<1> HIDE DEF last
<1>5. Sound'
  BY <1>1, <1>2 DEF Sound, FsInv
<1>6. BlocksOwned'
  <2> SUFFICES ASSUME NEW i \in imap', inode[i].type # "lnk"
               PROVE  /\ inode'[i].blk \in bmap'
                      /\ \A j \in imap' \ {i} : inode[j].type # "lnk" => inode'[j].blk # inode'[i].blk
    BY <1>1 DEF BlocksOwned
  <2>1. CASE last
    <3>1. i # c /\ i \in imap /\ inode'[i].blk = inode[i].blk
      BY <1>1, <2>1
    <3>2. inode[c].blk # inode[i].blk
      <4>1. CASE inode[c].type = "lnk"
        <5>1. inode[c].links \in Nat /\ inode[c].links <= 1
          BY <1>4, <2>1 DEF last
        <5>2. inode[c].blk = 0
          BY <4>1, <5>1 DEF Harmless
        <5>3. inode[i].blk \in Blk
          BY <1>1, <3>1 DEF FsInv, BlocksOwned, Typed
        <5>4. QED
          BY <5>2, <5>3, EntryIs
      <4>2. CASE inode[c].type # "lnk"
        BY <1>1, <3>1, <4>2 DEF FsInv, BlocksOwned
      <4>3. QED
        BY <4>1, <4>2
    <3>3. QED
      BY <1>1, <2>1, <3>1, <3>2 DEF FsInv, BlocksOwned
  <2>2. CASE ~last
    BY <1>1, <2>2 DEF FsInv, BlocksOwned
  <2>3. QED
    BY <2>1, <2>2
<1>7. NoDanglingEntry'
  <2> SUFFICES ASSUME NEW d \in Dirs, NEW m \in Entry, Own(d)'[m] # 0
               PROVE  Own(d)'[m] \in imap'
    BY <1>2 DEF NoDanglingEntry, Own
  <2>1. Own(d)'[m] = Own(d)[m] /\ Own(d)[m] \in imap
    BY <1>1, DirIs DEF EntrySet
  <2>2. CASE Own(d)[m] = c
    <3>1. m # "." /\ m # ".."
      BY <1>1, <2>2, DirIs, UpIs DEF Files
    <3>2. m \in Name
      BY <3>1 DEF Entry
    <3>3. <<d, m>> \in Names(c)'
      BY <1>2, <2>1, <2>2, <3>2 DEF Names, Own
    <3>4. ~last
      BY <1>4, <3>3
    <3>5. QED
      BY <1>1, <2>1, <3>4
  <2>3. CASE Own(d)[m] # c
    BY <1>1, <2>1, <2>3
  <2>4. QED
    BY <2>2, <2>3
<1>8. LinksCounted'
  <2> SUFFICES ASSUME NEW j \in Files'
               PROVE  inode'[j].links = Cardinality(Names(j)') /\ inode'[j].links > 0
    BY DEF LinksCounted
  <2>1. j \in Files /\ j \in imap /\ j # 0 /\ j \in imap'
    BY <1>1, <1>2, EntryIs DEF Files, FsInv, Typed
  <2>2. CASE j = c
    <3>1. ~last
      BY <1>1, <2>1, <2>2
    <3>2. inode[c].links - 1 > 0
      BY <1>4, <3>1 DEF last
    <3>3. inode'[c].links = Cardinality(Names(c)') /\ inode'[c].links > 0
      BY <1>4, <3>2
    <3>4. QED
      BY <2>2, <3>3
  <2>3. CASE j # c
    BY <1>1, <1>3, <2>1, <2>3, LinksAre
  <2>4. QED
    BY <2>2, <2>3
<1>9. DirsFormTree'
  <2>1. \A d \in Dirs : d # c /\ d # 0 /\ d \in imap
    BY <1>1, DirIs DEF Files
  <2>2. \A d \in Dirs : /\ inode'[d].links = inode[d].links
                        /\ Own(d)'["."] = Own(d)["."] /\ Own(d)'[".."] = Own(d)[".."]
                        /\ Names(d)' = Names(d)
    BY <1>1, <1>3, <2>1, EntryIs DEF EntrySet
  <2>3. QED
    BY <1>2, <2>2, TreeKept
<1>10. CwdExists'
  BY <1>2 DEF CwdExists, FsInv
<1>11. QED
  BY <1>2, <1>3, <1>5, <1>6, <1>7, <1>8, <1>9, <1>10 DEF FsInv

-----------------------------------------------------------------------------
(* rmdir.                                                                  *)

\* Directory c, which is empty, leaves its parent.
Removed(p, n, c) ==
    /\ p \in Dirs /\ c \in Dirs \ {p, Root} /\ n \in Name /\ Own(p)[n] = c
    /\ \A q \in Proc : cwd[q] # c
    /\ inode[c].links <= 2 /\ \A m \in Name : Own(c)[m] = 0
    /\ imap' = imap \ {c} /\ bmap' = bmap \ {inode[c].blk}
    /\ \A j \in imap : inode'[j].type = inode[j].type /\ inode'[j].blk = inode[j].blk
    /\ \A j \in imap : inode'[j].links = IF j = p THEN inode[j].links - 1 ELSE inode[j].links
    /\ data'[0] = Zero /\ EntrySet(p, n, 0)

\* A directory with no link more than its own two has no subdirectory.
LEMMA NoSubs ==
    ASSUME FsInv, NEW c \in Dirs, inode[c].links <= 2
    PROVE  Subs(c) = {}
<1>1. inode[c].links = 2 + Cardinality(Subs(c))
  BY LinksAre
<1>2. IsFiniteSet(Subs(c)) /\ Cardinality(Subs(c)) \in Nat
  BY DirsFinite
<1>3. Cardinality(Subs(c)) = 0
  BY <1>1, <1>2
<1>4. QED
  BY <1>2, <1>3, FS_EmptySet

LEMMA RmdirTakes ==
    ASSUME FsInv, NEW path \in Path, Rmdir(path)
    PROVE  /\ Removed(Parent(path), Child(path), Target(path))
           /\ Typed' /\ UNCHANGED <<cwd, running, cmd, fault>>
<1> DEFINE p == Parent(path)
           n == Child(path)
           c == Target(path)
<1>1. /\ p \in Dirs /\ n \in Entry /\ Own(p)[n] = c /\ c \in imap
      /\ IsDir(c) /\ c # Root /\ c # p /\ \A q \in Proc : cwd[q] # c
      /\ inode[c].links <= 2
      /\ inode[c].blk # 0 => \A m \in Name : data[inode[c].blk][m] = 0
  BY TargetIs DEF Rmdir, Busy, DirIsEmpty
<1>2. /\ data' = RemoveEntry(inode[p].blk, n)
      /\ bmap' = bmap \ {inode[c].blk} /\ imap' = imap \ {c}
      /\ inode' = [inode EXCEPT ![p].links = @ - 1]
      /\ UNCHANGED <<cwd, running, cmd, fault>>
  BY DEF Rmdir
<1>3. data' = [data EXCEPT ![inode[p].blk][n] = 0]
  BY <1>1, <1>2, DirIs DEF RemoveEntry
<1> HIDE DEF p, n, c
<1>4. c \in Dirs
  BY <1>1 DEF Dirs
<1>5. \A m \in Name : Own(c)[m] = 0
  BY <1>1, <1>4, DirIs DEF Own
<1>6. n \in Name
  <2>1. n # "."
    BY <1>1, DirIs
  <2>2. ASSUME n = ".."
        PROVE  FALSE
    <3>1. p # Root
      BY <1>1, <2>2, UpIs
    <3>2. p \in Subs(c)
      BY <1>1, <2>2, <3>1 DEF Subs
    <3>3. QED
      BY <1>1, <1>4, <3>2, NoSubs
  <2>3. QED
    BY <1>1, <2>1, <2>2 DEF Entry
<1>7. inode \in [Ino -> INODE] /\ imap \subseteq Ino /\ bmap \subseteq Blk /\ p \in Ino
  BY <1>1, DirIs DEF FsInv, Typed
<1>8. \A j \in imap : /\ inode'[j].type = inode[j].type /\ inode'[j].blk = inode[j].blk
                      /\ inode'[j].links = IF j = p THEN inode[j].links - 1 ELSE inode[j].links
  <2> SUFFICES ASSUME NEW j \in imap
               PROVE  /\ inode'[j].type = inode[j].type /\ inode'[j].blk = inode[j].blk
                      /\ inode'[j].links = IF j = p THEN inode[j].links - 1 ELSE inode[j].links
    OBVIOUS
  <2>1. inode[j] \in INODE /\ j \in Ino
    BY <1>7
  <2>2. inode'[j] = IF j = p THEN [inode[j] EXCEPT !.links = @ - 1] ELSE inode[j]
    BY <1>2, <1>7, <2>1
  <2>3. QED
    BY <2>1, <2>2 DEF INODE
<1>9. inode' \in [Ino -> INODE]
  <2>1. inode[p].links = 2 + Cardinality(Subs(p)) /\ Cardinality(Subs(p)) \in Nat
    BY <1>1, LinksAre, DirsFinite
  <2>2. inode[p].links - 1 \in Nat
    BY <2>1
  <2>3. [inode[p] EXCEPT !.links = @ - 1] \in INODE
    BY <1>7, <2>2 DEF INODE
  <2>4. QED
    BY <1>2, <1>7, <2>3
<1>10. data' \in [Blk \cup {0} -> [Entry -> Ino \cup {0}]] /\ data'[0] = Zero /\ EntrySet(p, n, 0)
  <2>1. \A d \in Dirs : inode'[d].blk = inode[d].blk
    BY <1>8, DirIs
  <2>2. QED
    BY <1>1, <1>3, <2>1, EntryWritten
<1>11. Removed(p, n, c)
  BY <1>1, <1>2, <1>4, <1>5, <1>6, <1>8, <1>10 DEF Removed
<1>12. Typed'
  BY <1>2, <1>7, <1>9, <1>10 DEF Typed, FsInv
<1>13. QED
  BY <1>2, <1>11, <1>12 DEF p, n, c

LEMMA RemovedKeeps ==
    ASSUME FsInv, NEW p, NEW n, NEW c, Removed(p, n, c), Typed',
           UNCHANGED <<cwd, running, fault>>
    PROVE  FsInv'
<1>1. /\ p \in Dirs /\ p \in imap /\ n \in Name /\ Own(p)[n] = c
      /\ c \in Dirs /\ c \in imap /\ c # p /\ c # Root /\ c # 0
      /\ \A q \in Proc : cwd[q] # c
      /\ inode[c].links <= 2 /\ \A m \in Name : Own(c)[m] = 0
      /\ imap' = imap \ {c} /\ bmap' = bmap \ {inode[c].blk}
      /\ \A j \in imap : inode'[j].type = inode[j].type /\ inode'[j].blk = inode[j].blk
      /\ \A j \in imap : inode'[j].links = IF j = p THEN inode[j].links - 1 ELSE inode[j].links
      /\ data'[0] = Zero /\ EntrySet(p, n, 0)
  BY DirIs DEF Removed
<1>2. Dirs' = Dirs \ {c} /\ Files' = Files
  BY <1>1 DEF Dirs, IsDir, Files
<1>3. \A j : j # 0 => Names(j)' = IF j = c THEN Names(j) \ {<<p, n>>} ELSE Names(j)
  <2>1. p \in Dirs' /\ Dirs' \subseteq Dirs /\ \A d \in Dirs \ Dirs' : \A m \in Name : Own(d)[m] = 0
    BY <1>1, <1>2
  <2>2. QED
    BY <1>1, <2>1, NamesRemoved
<1>4. Subs(c) = {}
  BY <1>1, NoSubs
<1>5. Names(c) = {<<p, n>>} /\ Own(c)[".."] = p
  <2>1. <<p, n>> \in Names(c)
    BY <1>1, NamesIs
  <2>2. PICK m \in Name : Names(c) = {<<Own(c)[".."], m>>}
    BY <1>1, UpIs
  <2>3. QED
    BY <2>1, <2>2
<1>6. \A d \in Dirs : d # c => /\ Own(d)["."] = d /\ Own(d)[".."] # c
                               /\ Own(d)'["."] = d /\ Own(d)'[".."] = Own(d)[".."]
                               /\ Own(d)[".."] \in Dirs
  <2> SUFFICES ASSUME NEW d \in Dirs, d # c
               PROVE  /\ Own(d)["."] = d /\ Own(d)[".."] # c
                      /\ Own(d)'["."] = d /\ Own(d)'[".."] = Own(d)[".."]
                      /\ Own(d)[".."] \in Dirs
    OBVIOUS
  <2>1. Own(d)'["."] = Own(d)["."] /\ Own(d)'[".."] = Own(d)[".."]
    BY <1>1, EntryIs DEF EntrySet
  <2>2. Own(d)[".."] # c
    BY <1>1, <1>4, UpIs DEF Subs
  <2>3. QED
    BY <2>1, <2>2, DirIs, UpIs
<1>7. Sound'
  BY <1>1, <1>2 DEF Sound, FsInv
<1>8. BlocksOwned'
  BY <1>1, DirIs DEF BlocksOwned, FsInv
<1>9. NoDanglingEntry'
  <2> SUFFICES ASSUME NEW d \in Dirs \ {c}, NEW m \in Entry, Own(d)'[m] # 0
               PROVE  Own(d)'[m] \in imap \ {c}
    BY <1>1, <1>2 DEF NoDanglingEntry, Own
  <2>1. Own(d)'[m] = Own(d)[m] /\ Own(d)[m] \in imap /\ ~(d = p /\ m = n)
    BY <1>1, DirIs DEF EntrySet
  <2>2. ASSUME Own(d)[m] = c
        PROVE  FALSE
    <3>1. m \in Name
      BY <1>6, <2>2 DEF Entry
    <3>2. <<d, m>> \in Names(c)
      BY <2>2, <3>1, NamesIs
    <3>3. QED
      BY <1>5, <2>1, <3>2
  <2>3. QED
    BY <2>1, <2>2
<1>10. LinksCounted'
  <2> SUFFICES ASSUME NEW j \in Files
               PROVE  inode'[j].links = Cardinality(Names(j)') /\ inode'[j].links > 0
    BY <1>2 DEF LinksCounted
  <2>1. j \in imap /\ j # 0 /\ j # c /\ j # p
    BY <1>1, EntryIs DEF Files, FsInv, Typed
  <2>2. QED
    BY <1>1, <1>3, <2>1, LinksAre
<1>11. \A d \in Dirs \ {c} : Subs(d)' = IF d = p THEN Subs(d) \ {c} ELSE Subs(d)
  <2> SUFFICES ASSUME NEW d \in Dirs \ {c}
               PROVE  Subs(d)' = IF d = p THEN Subs(d) \ {c} ELSE Subs(d)
    OBVIOUS
  <2>1. Subs(d)' = {e \in (Dirs \ {c}) \ {Root} : Own(e)'[".."] = d}
    BY <1>2 DEF Subs
  <2>2. Subs(d)' = {e \in (Dirs \ {c}) \ {Root} : Own(e)[".."] = d}
    BY <1>6, <2>1
  <2>3. Subs(d)' = Subs(d) \ {c}
    BY <2>2 DEF Subs
  <2>4. d # p => c \notin Subs(d)
    BY <1>5 DEF Subs
  <2>5. QED
    BY <2>3, <2>4
<1>12. ASSUME NEW d \in Dirs \ {c}
       PROVE  inode'[d].links = 2 + Cardinality(Subs(d)')
  <2>1. inode[d].links = 2 + Cardinality(Subs(d)) /\ d \in imap
    BY DirIs, LinksAre
  <2>2. CASE d = p
    <3>1. c \in Subs(d)
      BY <1>1, <1>5, <2>2 DEF Subs
    <3>2. IsFiniteSet(Subs(d)) /\ Cardinality(Subs(d)) \in Nat
      BY DirsFinite
    <3>3. Cardinality(Subs(d) \ {c}) = Cardinality(Subs(d)) - 1
      BY <3>1, <3>2, FS_RemoveElement
    <3>4. Subs(d)' = Subs(d) \ {c}
      BY <1>11, <2>2
    <3>5. Cardinality(Subs(d)') = Cardinality(Subs(d)) - 1
      BY <3>3, <3>4
    <3>6. inode'[d].links = inode[d].links - 1
      BY <1>1, <2>1, <2>2
    <3>7. QED
      BY <2>1, <3>2, <3>5, <3>6
  <2>3. CASE d # p
    BY <1>1, <1>11, <2>1, <2>3
  <2>4. QED
    BY <2>2, <2>3
<1>13. ASSUME NEW C \in SUBSET Dirs', C # {}, \A d \in C : Own(d)'[".."] \in C
       PROVE  Root \in C
  <2>1. C \in SUBSET Dirs /\ \A d \in C : Own(d)[".."] \in C
    BY <1>2, <1>6, <1>13
  <2>2. QED
    BY <1>13, <2>1 DEF FsInv, DirsFormTree, Own
<1>14. ASSUME NEW d \in Dirs'
       PROVE  /\ Own(d)'["."] = d
              /\ IF d = Root THEN Own(d)'[".."] = Root /\ Names(d)' = {}
                 ELSE \E m \in Name : Names(d)' = {<<Own(d)'[".."], m>>}
              /\ inode'[d].links = 2 + Cardinality(Subs(d)')
  <2>1. d \in Dirs /\ d # c /\ d # 0
    BY <1>2, DirIs
  <2>2. Names(d)' = Names(d)
    BY <1>3, <2>1
  <2>3. QED
    BY <1>6, <1>12, <2>1, <2>2, UpIs
<1>15. DirsFormTree'
  BY <1>13, <1>14 DEF DirsFormTree, Own, Subs
<1>16. CwdExists'
  BY <1>1, <1>2 DEF CwdExists, FsInv
<1>17. QED
  BY <1>7, <1>8, <1>9, <1>10, <1>15, <1>16 DEF FsInv

LEMMA RmdirStep ==
    ASSUME FsInv, NEW path \in Path, Rmdir(path)
    PROVE  FsInv'
<1>1. /\ Removed(Parent(path), Child(path), Target(path))
      /\ Typed' /\ UNCHANGED <<cwd, running, fault>>
  BY RmdirTakes
<1>2. QED
  BY <1>1, RemovedKeeps

-----------------------------------------------------------------------------
(* The other steps.                                                        *)

\* Steps that leave names, types, links and blocks as they are.
Settled ==
    /\ imap' = imap /\ bmap' = bmap /\ data' = data /\ fault' = fault
    /\ \A j \in imap : /\ inode'[j].type = inode[j].type
                       /\ inode'[j].links = inode[j].links /\ inode'[j].blk = inode[j].blk

LEMMA SettledKeeps ==
    ASSUME FsInv, Settled, Typed', \A q \in Proc : cwd'[q] \in Dirs
    PROVE  /\ FsInv' /\ Dirs' = Dirs
           /\ \A d \in Dirs : Own(d)' = Own(d)
<1>1. Dirs' = Dirs /\ Files' = Files
  BY DEF Settled, Dirs, IsDir, Files
<1>2. \A d \in Dirs : Own(d)' = Own(d)
  BY DirIs DEF Settled, Own
<1>3. \A j : Names(j)' = Names(j)
  <2> SUFFICES ASSUME NEW j
               PROVE  Names(j)' = Names(j)
    OBVIOUS
  <2>1. Names(j)' = {dn \in Dirs \X Name : Own(dn[1])'[dn[2]] = j}
    BY <1>1 DEF Names, Own
  <2>2. Names(j) = {dn \in Dirs \X Name : Own(dn[1])[dn[2]] = j}
    BY DEF Names, Own
  <2>3. QED
    BY <1>2, <2>1, <2>2
<1>4. Sound' /\ BlocksOwned'
  BY <1>1 DEF Settled, Sound, BlocksOwned, FsInv
<1>5. NoDanglingEntry'
  BY <1>1, <1>2 DEF Settled, NoDanglingEntry, FsInv, Own
<1>6. LinksCounted'
  <2>1. \A j \in Files : inode'[j].links = inode[j].links
    BY DEF Settled, Files
  <2>2. QED
    BY <1>1, <1>3, <2>1 DEF LinksCounted, FsInv
<1>7. DirsFormTree'
  <2>1. \A d \in Dirs : inode'[d].links = inode[d].links
    BY DirIs DEF Settled
  <2>2. QED
    BY <1>1, <1>2, <1>3, <2>1, TreeKept
<1>8. CwdExists'
  BY <1>1 DEF CwdExists
<1>9. QED
  BY <1>1, <1>2, <1>4, <1>5, <1>6, <1>7, <1>8 DEF FsInv

LEMMA CwdStep ==
    ASSUME FsInv, UNCHANGED <<imap, bmap, inode, data, fault>>, running' \in Proc,
           cwd' \in [Proc -> Dirs]
    PROVE  FsInv'
<1>1. Dirs \subseteq Ino
  BY DEF Dirs, FsInv, Typed
<1>2. Typed'
  BY <1>1 DEF Typed, FsInv
<1>3. Settled
  BY DEF Settled
<1>4. QED
  BY <1>2, <1>3, SettledKeeps

LEMMA CdStep ==
    ASSUME FsInv, NEW path \in Path, Cd(path)
    PROVE  FsInv' /\ cmd' = cmd
<1>1. Getino(path) \in Dirs
  BY PathIs, GetinoIn DEF Cd, Dirs
<1>2. cwd \in [Proc -> Dirs] /\ running \in Proc
  BY DEF FsInv, Typed, CwdExists
<1>3. cwd' = [cwd EXCEPT ![running] = Getino(path)] /\ UNCHANGED <<imap, bmap, inode, data, running, cmd, fault>>
  BY DEF Cd
<1>4. cwd' \in [Proc -> Dirs]
  BY <1>1, <1>2, <1>3
<1>5. QED
  BY <1>2, <1>3, <1>4, CwdStep

LEMMA CdRootStep ==
    ASSUME FsInv, CdRoot
    PROVE  FsInv' /\ cmd' = cmd
<1>1. Root \in Dirs
  BY DEF FsInv, Sound
<1>2. cwd \in [Proc -> Dirs] /\ running \in Proc
  BY DEF FsInv, Typed, CwdExists
<1>3. cwd' = [cwd EXCEPT ![running] = Root] /\ UNCHANGED <<imap, bmap, inode, data, running, cmd, fault>>
  BY DEF CdRoot
<1>4. cwd' \in [Proc -> Dirs]
  BY <1>1, <1>2, <1>3
<1>5. QED
  BY <1>2, <1>3, <1>4, CwdStep

LEMMA SwitchStep ==
    ASSUME FsInv, NEW uid \in Proc, Switch(uid)
    PROVE  FsInv' /\ cmd' = cmd
<1>1. cwd \in [Proc -> Dirs]
  BY DEF FsInv, Typed, CwdExists
<1>2. QED
  BY <1>1, CwdStep DEF Switch

LEMMA PermitStep ==
    ASSUME FsInv, NEW path \in Path, NEW uid \in Proc, Permit(path, uid)
    PROVE  FsInv' /\ cmd' = cmd /\ Settled
<1> DEFINE c == Getino(path)
<1>1. c \in imap /\ c \in Ino
  BY PathIs, GetinoIn DEF Permit, FsInv, Typed
<1>2. /\ inode' = [inode EXCEPT ![c].uid = uid]
      /\ UNCHANGED <<imap, bmap, data, cwd, running, cmd, fault>>
  BY DEF Permit
<1> HIDE DEF c
<1>3. inode \in [Ino -> INODE] /\ imap \subseteq Ino
  BY DEF FsInv, Typed
<1>4. [inode[c] EXCEPT !.uid = uid] \in INODE
  BY <1>1, <1>3 DEF INODE
<1>5. inode' \in [Ino -> INODE]
  BY <1>1, <1>2, <1>3, <1>4
<1>6. Typed'
  BY <1>2, <1>5 DEF Typed, FsInv
<1>7. Settled
  <2>1. \A j \in imap : inode[j] \in INODE /\ inode'[j] =
                        IF j = c THEN [inode[j] EXCEPT !.uid = uid] ELSE inode[j]
    BY <1>1, <1>2, <1>3
  <2>2. \A j \in imap : /\ inode'[j].type = inode[j].type
                        /\ inode'[j].links = inode[j].links /\ inode'[j].blk = inode[j].blk
    BY <2>1 DEF INODE
  <2>3. QED
    BY <1>2, <2>2 DEF Settled
<1>8. \A q \in Proc : cwd'[q] \in Dirs
  BY <1>2 DEF FsInv, CwdExists
<1>9. QED
  BY <1>2, <1>6, <1>7, <1>8, SettledKeeps

LEMMA LinkFileStep ==
    ASSUME FsInv, NEW src \in Path, NEW dst \in Path, LinkFile(src, dst),
           UNCHANGED <<cwd, running, fault>>
    PROVE  FsInv'
<1>1. /\ Linked(Parent(dst), Child(dst), Getino(src))
      /\ imap' \subseteq Ino /\ bmap' \subseteq Blk /\ inode' \in [Ino -> INODE]
      /\ data' \in [Blk \cup {0} -> [Entry -> Ino \cup {0}]]
  BY PathIs, LinkMakes
<1>2. Typed'
  BY <1>1 DEF Typed, FsInv
<1>3. QED
  BY <1>1, <1>2, LinkedKeeps

LEMMA UnlinkFileStep ==
    ASSUME FsInv, Roomy, NEW path \in Path, UnlinkFile(path), UNCHANGED <<cwd, running, fault>>
    PROVE  FsInv'
<1>1. /\ Unlinked(Parent(path), Child(path), Target(path))
      /\ imap' \subseteq Ino /\ bmap' \subseteq Blk /\ inode' \in [Ino -> INODE]
      /\ data' \in [Blk \cup {0} -> [Entry -> Ino \cup {0}]]
  BY UnlinkTakes
<1>2. Typed'
  BY <1>1 DEF Typed, FsInv
<1>3. Harmless(Target(path))
  BY BoundAssumption DEF UnlinkFile, Roomy
<1>4. QED
  BY <1>1, <1>2, <1>3, UnlinkedKeeps

LEMMA SameFs ==
    ASSUME FsInv, UNCHANGED <<imap, bmap, inode, data, cwd, running, fault>>
    PROVE  FsInv'
<1>1. cwd \in [Proc -> Dirs] /\ running \in Proc
  BY DEF FsInv, Typed, CwdExists
<1>2. QED
  BY <1>1, CwdStep

Cmd(pc) == [pc: {pc}, src: Path, dst: Path, ino: Ino, view: [Path -> Ino \cup {0}]]

LEMMA CmdIs ==
    ASSUME CmdTyped
    PROVE  /\ cmd.pc \in {"idle", "link", "unlink", "undo"}
           /\ cmd.pc # "idle" => /\ cmd.src \in Path /\ cmd.dst \in Path /\ cmd.ino \in Ino
                                 /\ \A pc \in {"link", "unlink", "undo"} :
                                        [cmd EXCEPT !.pc = pc] \in Cmd(pc)
           /\ cmd.pc = "idle" => cmd = Idle
BY DEF CmdTyped, Cmd, Idle

LEMMA MvBeginStep ==
    ASSUME FsInv, Roomy, NEW src \in Path, NEW dst \in Path, MvBegin(src, dst)
    PROVE  FsInv' /\ CmdTyped'
<1>1. FsInv'
  <2>1. CASE Getino(dst) = 0
    BY <2>1, SameFs DEF MvBegin
  <2>2. CASE Getino(dst) # 0
    BY <2>2, UnlinkFileStep DEF MvBegin
  <2>3. QED
    BY <2>1, <2>2
<1>2. Getino(src) \in Ino
  BY PathIs, GetinoIn DEF MvBegin, FsInv, Typed
<1>3. View \in [Path -> Ino \cup {0}]
  <2>1. \A path \in Path : Getino(path) \in Ino \cup {0}
    BY PathIs, GetinoIn DEF FsInv, Typed
  <2>2. QED
    BY <2>1 DEF View
<1>4. cmd' = [pc |-> "link", src |-> src, dst |-> dst, ino |-> Getino(src), view |-> View]
  BY DEF MvBegin
<1>5. CmdTyped'
  BY <1>2, <1>3, <1>4 DEF CmdTyped
<1>6. QED
  BY <1>1, <1>5

LEMMA MvStep ==
    ASSUME FsInv, Roomy, CmdTyped, MvLink \/ MvLinkFails \/ MvUnlink \/ MvUnlinkFails \/ MvUndo
    PROVE  FsInv' /\ CmdTyped'
<1>1. CASE MvLink
  <2>1. cmd.src \in Path /\ cmd.dst \in Path /\ cmd' \in Cmd("unlink")
    BY <1>1, CmdIs DEF MvLink
  <2>2. QED
    BY <1>1, <2>1, LinkFileStep DEF MvLink, CmdTyped, Cmd
<1>2. CASE MvLinkFails
  BY <1>2, SameFs DEF MvLinkFails, CmdTyped
<1>3. CASE MvUnlink
  <2>1. cmd.src \in Path
    BY <1>3, CmdIs DEF MvUnlink
  <2>2. QED
    BY <1>3, <2>1, UnlinkFileStep DEF MvUnlink, CmdTyped
<1>4. CASE MvUnlinkFails
  <2>1. cmd' \in Cmd("undo")
    BY <1>4, CmdIs DEF MvUnlinkFails
  <2>2. QED
    BY <1>4, <2>1, SameFs DEF MvUnlinkFails, CmdTyped, Cmd
<1>5. CASE MvUndo
  <2>1. cmd.dst \in Path
    BY <1>5, CmdIs DEF MvUndo
  <2>2. CASE UnlinkOK(cmd.dst)
    BY <1>5, <2>1, <2>2, UnlinkFileStep DEF MvUndo, CmdTyped
  <2>3. CASE ~UnlinkOK(cmd.dst)
    BY <1>5, <2>3, SameFs DEF MvUndo, CmdTyped
  <2>4. QED
    BY <2>2, <2>3
<1>6. QED
  BY <1>1, <1>2, <1>3, <1>4, <1>5

-----------------------------------------------------------------------------
(* The invariant holds.                                                    *)

\* A new file system.
LEMMA InitIInv == Init => IInv
<1> SUFFICES ASSUME Init
             PROVE  IInv
  OBVIOUS
<1>1. /\ imap = {Root} /\ bmap = {1} /\ cmd = Idle /\ fault = FALSE
      /\ \A i \in Ino : inode[i] = IF i = Root
            THEN [type |-> "dir", links |-> 2, blk |-> 1, uid |-> 0]
            ELSE [type |-> "none", links |-> 0, blk |-> 0, uid |-> 0]
      /\ \A b \in Blk \cup {0} : data[b] = IF b = 1
            THEN [Zero EXCEPT !["."] = Root, ![".."] = Root] ELSE Zero
      /\ \A p \in Proc : cwd[p] = Root
  BY DEF Init
<1>2. Root \in Ino /\ 1 \in Blk /\ 0 \in Proc /\ 0 \notin Ino
  BY DeviceAssumption, ProcAssumption
<1>3. Typed
  <2>1. \A i \in Ino : inode[i] \in INODE
    BY <1>1, <1>2 DEF INODE
  <2>2. \A b \in Blk \cup {0} : data[b] \in [Entry -> Ino \cup {0}]
    BY <1>1, <1>2, EntryIs
  <2>3. inode \in [Ino -> INODE]
    BY <2>1 DEF Init
  <2>4. data \in [Blk \cup {0} -> [Entry -> Ino \cup {0}]]
    BY <2>2 DEF Init
  <2>5. cwd \in [Proc -> Ino] /\ running \in Proc
    BY <1>2 DEF Init
  <2>6. QED
    BY <1>1, <1>2, <2>3, <2>4, <2>5 DEF Typed
<1>4. Dirs = {Root} /\ Files = {} /\ inode[Root].links = 2 /\ inode[Root].blk = 1
  BY <1>1, <1>2 DEF Dirs, IsDir, Files
<1>5. /\ Own(Root)["."] = Root /\ Own(Root)[".."] = Root
      /\ \A m \in Name : Own(Root)[m] = 0
  BY <1>1, <1>2, <1>4, EntryIs DEF Own
<1>6. Sound /\ BlocksOwned /\ LinksCounted /\ CwdExists
  BY <1>1, <1>2, <1>4 DEF Sound, BlocksOwned, LinksCounted, CwdExists
<1>7. NoDanglingEntry
  BY <1>1, <1>4, <1>5 DEF NoDanglingEntry, Own, Entry
<1>8. DirsFormTree
  <2>1. Names(Root) = {}
    <3>1. \A d \in Dirs, m \in Name : Own(d)[m] # Root
      BY <1>4, <1>5, EntryIs
    <3>2. QED
      BY <3>1 DEF Names, Own
  <2>2. {e \in Dirs \ {Root} : data[inode[e].blk][".."] = Root} = {}
    BY <1>4
  <2>3. inode[Root].links = 2 + Cardinality({e \in Dirs \ {Root} : data[inode[e].blk][".."] = Root})
    BY <1>4, <2>2, FS_EmptySet
  <2>4. ASSUME NEW C \in SUBSET Dirs, C # {}
        PROVE  Root \in C
    BY <1>4, <2>4
  <2>5. QED
    BY <1>4, <1>5, <2>1, <2>3, <2>4 DEF DirsFormTree, Own
<1>9. QED
  BY <1>1, <1>3, <1>6, <1>7, <1>8 DEF IInv, FsInv, CmdTyped

LEMMA NextIInv == Roomy /\ IInv /\ [Next]_vars => IInv'
<1> SUFFICES ASSUME Roomy, FsInv, CmdTyped, [Next]_vars
             PROVE  FsInv' /\ CmdTyped'
  BY DEF IInv
<1>1. ASSUME cmd' = cmd
      PROVE  CmdTyped'
  BY <1>1 DEF CmdTyped
<1>2. ASSUME NEW path \in Path, Mkdir(path)
      PROVE  FsInv' /\ CmdTyped'
  BY <1>1, <1>2, MkdirStep DEF Mkdir
<1>3. ASSUME NEW path \in Path, Creat(path)
      PROVE  FsInv' /\ CmdTyped'
  BY <1>1, <1>3, CreatStep DEF Creat
<1>4. ASSUME NEW path \in Path, Unlink(path)
      PROVE  FsInv' /\ CmdTyped'
  BY <1>1, <1>4, UnlinkFileStep DEF Unlink
<1>5. ASSUME NEW path \in Path, Rmdir(path)
      PROVE  FsInv' /\ CmdTyped'
  BY <1>1, <1>5, RmdirStep DEF Rmdir
<1>6. ASSUME NEW path \in Path, Cd(path)
      PROVE  FsInv' /\ CmdTyped'
  BY <1>1, <1>6, CdStep
<1>7. ASSUME NEW path \in Path, NEW dst \in Path, Symlink(path, dst)
      PROVE  FsInv' /\ CmdTyped'
  BY <1>1, <1>7, SymlinkStep DEF Symlink
<1>8. ASSUME NEW path \in Path, NEW dst \in Path, Link(path, dst)
      PROVE  FsInv' /\ CmdTyped'
  BY <1>1, <1>8, LinkFileStep DEF Link
<1>9. ASSUME NEW path \in Path, NEW dst \in Path, MvBegin(path, dst)
      PROVE  FsInv' /\ CmdTyped'
  BY <1>9, MvBeginStep
<1>10. ASSUME NEW path \in Path, NEW uid \in Proc, Permit(path, uid)
       PROVE  FsInv' /\ CmdTyped'
  BY <1>1, <1>10, PermitStep
<1>11. CASE CdRoot
  BY <1>1, <1>11, CdRootStep
<1>12. ASSUME NEW uid \in Proc, Switch(uid)
       PROVE  FsInv' /\ CmdTyped'
  BY <1>1, <1>12, SwitchStep
<1>13. CASE MvLink \/ MvLinkFails \/ MvUnlink \/ MvUnlinkFails \/ MvUndo
  BY <1>13, MvStep
<1>14. CASE UNCHANGED vars
  BY <1>1, <1>14, SameFs DEF vars
<1>15. QED
  BY <1>2, <1>3, <1>4, <1>5, <1>6, <1>7, <1>8, <1>9, <1>10, <1>11, <1>12, <1>13, <1>14
  DEF Next

LEMMA Invariance == ASSUME Roomy PROVE Spec => []IInv
<1>1. IInv /\ [Next]_vars => IInv'
  BY NextIInv
<1>2. QED
  BY <1>1, InitIInv, PTL DEF Spec

LEMMA IInvTyped == IInv => TypeOK
<1> SUFFICES ASSUME IInv
             PROVE  TypeOK
  OBVIOUS
<1>1. cmd.pc \in {"idle", "link", "unlink", "undo"} /\ fault \in BOOLEAN
  BY CmdIs DEF IInv, FsInv, Sound
<1>2. QED
  BY <1>1 DEF IInv, FsInv, Typed, TypeOK

\* On any device with room the tables stay well typed: bitmaps, inodes, entries of
\* directories and cwds hold inode and block numbers of this device (level1.c).
THEOREM TypeCorrect == ASSUME Roomy PROVE Spec => []TypeOK
BY Invariance, IInvTyped, PTL

\* The link count of a file is the number of its names: neither link, unlink, nor a
\* mv that stops halfway frees a file that has a name or keeps one that has none.
THEOREM LinkCountsAreNames == ASSUME Roomy PROVE Spec => []LinksCounted
<1>1. IInv => LinksCounted
  BY DEF IInv, FsInv
<1>2. QED
  BY <1>1, Invariance, PTL

\* mkdir and rmdir keep the directories one tree, whoever is where.
THEOREM DirectoriesFormATree == ASSUME Roomy PROVE Spec => []DirsFormTree
<1>1. IInv => DirsFormTree
  BY DEF IInv, FsInv
<1>2. QED
  BY <1>1, Invariance, PTL

\* No entry outlives the inode it leads to.
THEOREM EntriesLeadToInodes == ASSUME Roomy PROVE Spec => []NoDanglingEntry
<1>1. IInv => NoDanglingEntry
  BY DEF IInv, FsInv
<1>2. QED
  BY <1>1, Invariance, PTL

\* rmdir takes no process' current directory away.
THEOREM CwdsExist == ASSUME Roomy PROVE Spec => []CwdExists
<1>1. IInv => CwdExists
  BY DEF IInv, FsInv
<1>2. QED
  BY <1>1, Invariance, PTL

-----------------------------------------------------------------------------
(* Lost blocks.                                                            *)

LEMMA LostIs ==
    /\ \A x : x \in Lost <=> /\ x \in bmap
                             /\ \A j \in imap : inode[j].type # "lnk" => inode[j].blk # x
    /\ \A x : x \in Lost' <=> /\ x \in bmap'
                              /\ \A j \in imap' : inode'[j].type # "lnk" => inode'[j].blk # x
BY DEF Lost

\* What mkdir and creat allocate belongs to the new inode.
LEMMA MadeLoses ==
    ASSUME NEW p, NEW n, NEW i, NEW b, NEW type \in {"dir", "reg"}, NEW links, NEW block,
           Made(p, n, i, b, type, links, b, block)
    PROVE  Lost' \subseteq Lost
<1>1. /\ i \notin imap /\ imap' = imap \cup {i} /\ bmap' = bmap \cup {b}
      /\ inode'[i].type = type /\ inode'[i].blk = b
      /\ \A j \in imap : inode'[j].type = inode[j].type /\ inode'[j].blk = inode[j].blk
  BY DEF Made
<1>2. QED
  BY <1>1, LostIs

\* What symlink allocates belongs to nobody.
LEMMA SymlinkLoses ==
    ASSUME FsInv, NEW p, NEW n, NEW i, NEW b, NEW blk, NEW block, Made(p, n, i, b, "lnk", 1, blk, block)
    PROVE  /\ \E j \in imap' \ imap : inode'[j].type = "lnk"
           /\ Cardinality(Lost' \ Lost) = 1
<1>1. /\ i \notin imap /\ imap' = imap \cup {i}
      /\ b \in Blk \ bmap /\ bmap' = bmap \cup {b}
      /\ inode'[i].type = "lnk"
      /\ \A j \in imap : inode'[j].type = inode[j].type /\ inode'[j].blk = inode[j].blk
  BY DEF Made
<1>2. b \in Lost' /\ b \notin Lost
  <2>1. \A j \in imap : inode[j].type # "lnk" => inode[j].blk # b
    BY <1>1 DEF FsInv, BlocksOwned
  <2>2. QED
    BY <1>1, <2>1, LostIs
<1>3. \A x \in Lost' : x \in Lost \/ x = b
  BY <1>1, LostIs
<1>4. Lost' \ Lost = {b}
  BY <1>2, <1>3
<1>5. Cardinality({b}) = 1
  BY FS_Singleton
<1>6. QED
  BY <1>1, <1>4, <1>5

LEMMA LinkLoses ==
    ASSUME NEW p, NEW n, NEW c, Linked(p, n, c)
    PROVE  Lost' \subseteq Lost
BY LostIs DEF Linked

\* With the last name of a file its block is freed.
LEMMA UnlinkLoses ==
    ASSUME NEW p, NEW n, NEW c, Unlinked(p, n, c)
    PROVE  Lost' \subseteq Lost
<1> DEFINE last == inode[c].links <= 1
<1>1. /\ imap' = IF last THEN imap \ {c} ELSE imap
      /\ bmap' = IF last THEN bmap \ {inode[c].blk} ELSE bmap
      /\ \A j \in imap : inode'[j].type = inode[j].type
      /\ \A j \in imap : inode'[j].blk = IF j = c /\ last THEN 0 ELSE inode[j].blk
  BY DEF Unlinked
<1> HIDE DEF last
<1>2. CASE last
  BY <1>1, <1>2, LostIs
<1>3. CASE ~last
  BY <1>1, <1>3, LostIs
<1>4. QED
  BY <1>2, <1>3

LEMMA RmdirLoses ==
    ASSUME NEW p, NEW n, NEW c, Removed(p, n, c)
    PROVE  Lost' \subseteq Lost
<1>1. /\ imap' = imap \ {c} /\ bmap' = bmap \ {inode[c].blk}
      /\ \A j \in imap : inode'[j].type = inode[j].type /\ inode'[j].blk = inode[j].blk
  BY DEF Removed
<1>2. QED
  BY <1>1, LostIs

LEMMA SettledLoses == Settled => Lost' \subseteq Lost
BY LostIs DEF Settled

LEMMA UnlinkFileLoses ==
    ASSUME FsInv, NEW path \in Path, UnlinkFile(path)
    PROVE  Lost' \subseteq Lost
<1>1. PICK p, n, c : p = Parent(path) /\ n = Child(path) /\ c = Target(path)
  OBVIOUS
<1>2. Unlinked(p, n, c)
  BY <1>1, UnlinkTakes
<1>3. QED
  BY <1>2, UnlinkLoses

LEMMA LinkFileLoses ==
    ASSUME FsInv, NEW src \in Path, NEW dst \in Path, LinkFile(src, dst)
    PROVE  Lost' \subseteq Lost
<1>1. PICK p, n, c : p = Parent(dst) /\ n = Child(dst) /\ c = Getino(src)
  OBVIOUS
<1>2. Linked(p, n, c)
  BY <1>1, LinkMakes, PathIs
<1>3. QED
  BY <1>2, LinkLoses

LEMMA NewNodeLoses ==
    ASSUME FsInv, Roomy, NEW path \in Path, NEW type \in {"dir", "reg"},
           NEW links \in Nat, NEW block \in [Entry -> Ino \cup {0}],
           NewNode(path, type, links, Balloc, block)
    PROVE  Lost' \subseteq Lost
<1>1. PICK p, n, i, b : p = Parent(path) /\ n = Child(path) /\ i = Ialloc /\ b = Balloc
  OBVIOUS
<1>2. Made(Parent(path), Child(path), Ialloc, Balloc, type, links, Balloc, block)
  BY NewNodeMakes
<1>3. Made(p, n, i, b, type, links, b, block)
  BY <1>1, <1>2
<1>4. QED
  BY <1>3, MadeLoses

Loses == \/ Lost' \subseteq Lost
         \/ /\ \E i \in imap' \ imap : inode'[i].type = "lnk"
            /\ Cardinality(Lost' \ Lost) = 1

LEMMA NextLoses == Roomy /\ IInv /\ [Next]_vars => Loses
<1> SUFFICES ASSUME Roomy, FsInv, CmdTyped, [Next]_vars
             PROVE  Loses
  BY DEF IInv
<1>1. ASSUME UNCHANGED <<imap, bmap, inode, data, fault>>
      PROVE  Loses
  BY <1>1, SettledLoses DEF Settled, Loses
<1>2. ASSUME NEW path \in Path, Mkdir(path)
      PROVE  Loses
  <2> DEFINE block == [Zero EXCEPT !["."] = Ialloc, ![".."] = Parent(path)]
  <2>1. NewNode(path, "dir", 2, Balloc, block)
    BY <1>2 DEF Mkdir
  <2>2. Ialloc \in Ino /\ Parent(path) \in Ino
    BY <2>1, Allocated, VacantIs, DirIs DEF NewNode, MayAllocate, Roomy
  <2>3. block \in [Entry -> Ino \cup {0}]
    BY <2>2, EntryIs
  <2> HIDE DEF block
  <2>4. QED
    BY <2>1, <2>3, NewNodeLoses DEF Loses
<1>3. ASSUME NEW path \in Path, Creat(path)
      PROVE  Loses
  BY <1>3, NewNodeLoses, EntryIs DEF Creat, Loses
<1>4. ASSUME NEW path \in Path, NEW dst \in Path, Symlink(path, dst)
      PROVE  Loses
  <2>1. PICK x \in Blk \cup {0, Balloc} : x = PathBlock[path]
    BY PathAssumption
  <2>2. Made(Parent(dst), Child(dst), Ialloc, Balloc, "lnk", 1, x, Zero)
    BY <1>4, <2>1, NewNodeMakes, EntryIs DEF Symlink
  <2>3. PICK p, n, i, b : p = Parent(dst) /\ n = Child(dst) /\ i = Ialloc /\ b = Balloc
    OBVIOUS
  <2>4. Made(p, n, i, b, "lnk", 1, x, Zero)
    BY <2>2, <2>3
  <2>5. QED
    BY <2>4, SymlinkLoses DEF Loses
<1>5. ASSUME NEW path \in Path, UnlinkFile(path)
      PROVE  Loses
  BY <1>5, UnlinkFileLoses DEF Loses
<1>6. ASSUME NEW path \in Path, NEW dst \in Path, LinkFile(path, dst)
      PROVE  Loses
  BY <1>6, LinkFileLoses DEF Loses
<1>7. ASSUME NEW path \in Path, Rmdir(path)
      PROVE  Loses
  <2>1. PICK p, n, c : p = Parent(path) /\ n = Child(path) /\ c = Target(path)
    OBVIOUS
  <2>2. Removed(p, n, c)
    BY <1>7, <2>1, RmdirTakes
  <2>3. QED
    BY <2>2, RmdirLoses DEF Loses
<1>8. ASSUME NEW path \in Path, NEW uid \in Proc, Permit(path, uid)
      PROVE  Loses
  BY <1>8, PermitStep, SettledLoses DEF Loses
<1>9. ASSUME NEW path \in Path, NEW dst \in Path, MvBegin(path, dst)
      PROVE  Loses
  BY <1>1, <1>5, <1>9 DEF MvBegin
<1>10. ASSUME NEW path \in Path, Unlink(path) \/ Cd(path)
       PROVE  Loses
  BY <1>1, <1>5, <1>10 DEF Unlink, Cd
<1>11. ASSUME NEW path \in Path, NEW dst \in Path, Link(path, dst)
       PROVE  Loses
  BY <1>6, <1>11 DEF Link
<1>12. CASE CdRoot \/ (\E uid \in Proc : Switch(uid)) \/ MvLinkFails \/ MvUnlinkFails \/ UNCHANGED vars
  BY <1>1, <1>12 DEF CdRoot, Switch, MvLinkFails, MvUnlinkFails, vars
<1>13. CASE MvLink
  <2>1. cmd.src \in Path /\ cmd.dst \in Path
    BY <1>13, CmdIs DEF MvLink
  <2>2. QED
    BY <1>6, <1>13, <2>1 DEF MvLink
<1>14. CASE MvUnlink
  <2>1. cmd.src \in Path
    BY <1>14, CmdIs DEF MvUnlink
  <2>2. QED
    BY <1>5, <1>14, <2>1 DEF MvUnlink
<1>15. CASE MvUndo
  <2>1. cmd.dst \in Path
    BY <1>15, CmdIs DEF MvUndo
  <2>2. QED
    BY <1>1, <1>5, <1>15, <2>1 DEF MvUndo
<1>16. QED
  BY <1>2, <1>3, <1>4, <1>7, <1>8, <1>9, <1>10, <1>11, <1>12, <1>13, <1>14, <1>15 DEF Next

\* Whatever command runs, whichever of its calls fails: no block that somebody
\* owned or that was free comes to be nobody's, but the one that symlink allocates.
THEOREM BlocksAreNotLost == ASSUME Roomy PROVE Spec => NoBlockLost
<1>1. IInv /\ [Next]_vars => [Loses]_vars
  BY NextLoses
<1>2. QED
  BY <1>1, Invariance, PTL DEF Spec, NoBlockLost, Loses

-----------------------------------------------------------------------------
(* Walks before and after a step.                                          *)

Way(w, path) ==
    /\ w[0] = Start(path)
    /\ \A k \in 1 .. Len(path.names) : w[k] = Onwards(w[k - 1], path.names[k])

Tells(w, path) == Way(w, path) => Getino(path) = w[Len(path.names)]

\* There is one walk along a path, so that any function that goes from step to
\* step as getino does tells where getino ends.
LEMMA WalkTells ==
    \A path \in PATH : \A V : \A w \in [0 .. Len(path.names) -> V] : Tells(w, path)
<1> SUFFICES ASSUME NEW path \in PATH, NEW V, NEW w \in [0 .. Len(path.names) -> V], Way(w, path)
             PROVE  Getino(path) = w[Len(path.names)]
  BY DEF Tells
<1> DEFINE names == path.names
           k == Start(path)
           N == Len(names)
           Rec(g, n) == IF n = 0 THEN k
                        ELSE IF g[n - 1] = 0 \/ ~IsDir(g[n - 1]) THEN g[n - 1]
                        ELSE Search(g[n - 1], names[n])
           u == CHOOSE g : g = [n \in 0 .. N |-> Rec(g, n)]
<1>1. N \in Nat
  <2>1. path.names \in Seq(Entry)
    BY DEF PATH
  <2>2. QED
    BY <2>1, LenProperties
<1>2. w[0] = k /\ \A n \in 1 .. N : w[n] = Onwards(w[n - 1], names[n])
  BY DEF Way
<1>3. w = [n \in 0 .. N |-> Rec(w, n)]
  <2>1. w \in [0 .. N -> V]
    OBVIOUS
  <2> HIDE DEF N, k, names
  <2>2. \A n \in 0 .. N : n # 0 => n \in 1 .. N
    BY <1>1
  <2>3. QED
    BY <1>2, <2>1, <2>2 DEF Onwards
<1>4. u = [n \in 0 .. N |-> Rec(u, n)]
  <2> HIDE DEF Rec
  <2>1. QED
    BY <1>3
<1>5. Getino(path) = u[N]
  BY DEF Getino, Start
<1>6. u[0] = k /\ \A n \in 1 .. N : u[n] = Onwards(u[n - 1], names[n])
  <2> HIDE DEF u, N, k, names
  <2>1. QED
    BY <1>1, <1>4 DEF Onwards
<1>7. \A n \in 0 .. N : u[n] = w[n]
  <2> DEFINE T == {n \in 0 .. N : u[n] = w[n]}
  <2> HIDE DEF u, N, k, names
  <2>1. 0 \in T
    BY <1>1, <1>2, <1>6
  <2>2. ASSUME NEW n \in 0 .. N, n < N, n \in T
        PROVE  n + 1 \in T
    <3>1. n + 1 \in 1 .. N /\ n + 1 \in 0 .. N /\ n + 1 - 1 = n
      BY <1>1, <2>2
    <3>2. u[n + 1] = Onwards(u[n], names[n + 1]) /\ w[n + 1] = Onwards(w[n], names[n + 1])
      BY <1>2, <1>6, <3>1
    <3>3. QED
      BY <2>2, <3>1, <3>2
  <2>3. \A n \in 0 .. N : n \in T
    <3> HIDE DEF T
    <3>1. QED
      BY <1>1, <2>1, <2>2, IntervalInduction
  <2>4. QED
    BY <2>3
<1>8. N \in 0 .. N
  BY <1>1
<1>9. QED
  <2> HIDE DEF u
  <2>1. QED
    BY <1>5, <1>7, <1>8

LEMMA WalkTellsNext ==
    \A path \in PATH : \A V : \A w \in [0 .. Len(path.names) -> V] : Tells(w, path)'
<1>1. (\A path \in PATH : \A V : \A w \in [0 .. Len(path.names) -> V] : Tells(w, path))'
  BY WalkTells, PTL
<1>2. QED
  BY <1>1

\* A step of a walk keeps to the inodes in use.
LEMMA OnwardsIn ==
    ASSUME FsInv
    PROVE  \A v \in imap \cup {0}, n \in Entry :
             /\ Onwards(v, n) \in imap \cup {0}
             /\ v \in Dirs => Onwards(v, n) = Own(v)[n]
             /\ v \notin Dirs => Onwards(v, n) = v
<1> SUFFICES ASSUME NEW v \in imap \cup {0}, NEW n \in Entry
             PROVE  /\ Onwards(v, n) \in imap \cup {0}
                    /\ v \in Dirs => Onwards(v, n) = Own(v)[n]
                    /\ v \notin Dirs => Onwards(v, n) = v
  OBVIOUS
<1>1. CASE v \in Dirs
  <2>1. v # 0 /\ IsDir(v) /\ Search(v, n) = Own(v)[n] /\ Own(v)[n] \in imap \cup {0}
    BY <1>1, DirIs DEF Dirs
  <2>2. QED
    BY <1>1, <2>1 DEF Onwards
<1>2. CASE v \notin Dirs
  <2>1. v = 0 \/ ~IsDir(v)
    BY <1>2 DEF Dirs
  <2>2. QED
    BY <1>2, <2>1 DEF Onwards
<1>3. QED
  BY <1>1, <1>2

LEMMA WalkIn ==
    ASSUME FsInv, NEW path \in PATH
    PROVE  \E w \in [0 .. Len(path.names) -> imap \cup {0}] : Way(w, path)
<1> DEFINE V == imap \cup {0}
<1>1. Start(path) \in V
  BY DEF Start, FsInv, CwdExists, Typed, Sound, Dirs
<1>2. PICK w \in [0 .. Len(path.names) -> V] : Walked(w, path)
  <2>1. \A v \in V, n \in Entry : Onwards(v, n) \in V
    BY OnwardsIn
  <2> HIDE DEF V
  <2>2. QED
    BY <1>1, <2>1, WalkIs
<1>3. QED
  BY <1>2 DEF Walked, Way

\* The walk to a path's parent is the walk along the path but for its last step.
LEMMA WalkParent ==
    ASSUME NEW path \in Path, NEW V, NEW w \in [0 .. Len(path.names) -> V], Way(w, path)
    PROVE  /\ w[Len(path.names) - 1] = Parent(path)
           /\ Getino(path) = Onwards(Parent(path), Child(path))
<1> DEFINE N == Len(path.names)
           s == Shorter(path)
           u == [k \in 0 .. N - 1 |-> w[k]]
<1>1. /\ path \in PATH /\ N \in Nat /\ N # 0 /\ s \in PATH /\ Parent(path) = Getino(s)
      /\ path.names \in Seq(Entry)
  BY PathIs DEF PATH
<1>2. /\ s.names = SubSeq(path.names, 1, N - 1) /\ s.abs = path.abs
      /\ Len(s.names) = N - 1 /\ \A k \in 1 .. N - 1 : s.names[k] = path.names[k]
  <2>1. s.names = SubSeq(path.names, 1, N - 1) /\ s.abs = path.abs
    BY <1>1 DEF Shorter, PATH
  <2>2. Len(SubSeq(path.names, 1, N - 1)) = N - 1
        /\ \A k \in 1 .. N - 1 : SubSeq(path.names, 1, N - 1)[k] = path.names[k]
    BY <1>1, SubSeqProperties
  <2>3. QED
    BY <2>1, <2>2
<1> HIDE DEF s, N
<1>3. w \in [0 .. N -> V] /\ w[0] = Start(path)
      /\ \A k \in 1 .. N : w[k] = Onwards(w[k - 1], path.names[k])
  BY DEF Way, N
<1>4. u \in [0 .. N - 1 -> V] /\ \A k \in 0 .. N - 1 : u[k] = w[k]
  BY <1>1, <1>3
<1> HIDE DEF u
<1>5. Way(u, s)
  <2>1. u[0] = Start(s)
    BY <1>1, <1>2, <1>3, <1>4 DEF Start
  <2>2. ASSUME NEW k \in 1 .. N - 1
        PROVE  u[k] = Onwards(u[k - 1], s.names[k])
    <3>1. k \in 0 .. N - 1 /\ k - 1 \in 0 .. N - 1 /\ k \in 1 .. N
      BY <1>1
    <3>2. QED
      BY <1>2, <1>3, <1>4, <3>1
  <2>3. QED
    BY <1>2, <2>1, <2>2 DEF Way
<1>6. Getino(s) = u[N - 1]
  <2>1. u \in [0 .. Len(s.names) -> V]
    BY <1>2, <1>4
  <2>2. Tells(u, s)
    BY <1>1, <2>1, WalkTells
  <2>3. QED
    BY <1>2, <1>5, <2>2 DEF Tells
<1>7. w[N - 1] = Parent(path)
  <2>1. N - 1 \in 0 .. N - 1
    BY <1>1
  <2>2. QED
    BY <1>1, <1>4, <1>6, <2>1
<1>8. Getino(path) = w[N]
  <2>1. Tells(w, path)
    BY <1>1, WalkTells
  <2>2. QED
    BY <2>1 DEF Tells, N
<1>9. w[N] = Onwards(w[N - 1], Child(path))
  <2>1. N \in 1 .. N
    BY <1>1
  <2>2. QED
    BY <1>3, <2>1 DEF Child, N
<1>10. QED
  BY <1>7, <1>8, <1>9 DEF N

LEMMA GetinoLast ==
    ASSUME FsInv, NEW path \in Path
    PROVE  Getino(path) = Onwards(Parent(path), Child(path))
<1>1. PICK w \in [0 .. Len(path.names) -> imap \cup {0}] : Way(w, path)
  BY WalkIn, PathIs
<1>2. QED
  BY <1>1, WalkParent

\* The walk does not pass entry n of directory d.
Past(w, path, d, n) ==
    \A k \in 1 .. Len(path.names) : ~(w[k - 1] = d /\ path.names[k] = n)

\* A walk that passes an entry that leads to no directory ends there.
LEMMA StuckIs ==
    ASSUME FsInv, NEW path \in PATH, NEW w \in [0 .. Len(path.names) -> imap \cup {0}],
           Way(w, path), NEW p \in Dirs, NEW n \in Name,
           Own(p)[n] \notin Dirs, w[Len(path.names)] # Own(p)[n]
    PROVE  Past(w, path, p, n)
<1> DEFINE N == Len(path.names)
           c == Own(p)[n]
<1>1. N \in Nat /\ \A k \in 1 .. N : path.names[k] \in Entry
  <2>1. path.names \in Seq(Entry)
    BY DEF PATH
  <2>2. QED
    BY <2>1, LenProperties, ElementOfSeq
<1> SUFFICES ASSUME NEW k \in 1 .. N, w[k - 1] = p, path.names[k] = n
             PROVE  FALSE
  BY DEF Past
<1>2. w[0] = Start(path) /\ \A m \in 1 .. N : w[m] = Onwards(w[m - 1], path.names[m])
  BY DEF Way
<1>3. w[k] = c /\ c \in imap \cup {0}
  <2>1. w[k] = Onwards(p, n)
    BY <1>2
  <2>2. n \in Entry /\ p \in imap
    BY EntryIs, DirIs
  <2>3. QED
    BY <2>1, <2>2, OnwardsIn
<1>4. c \notin Dirs /\ w[N] # c
  OBVIOUS
<1>5. k \in Nat /\ k \in 1 .. N
  BY <1>1
<1> DEFINE T == {m \in 0 .. N : m >= k => w[m] = c}
<1> HIDE DEF N, c
<1>6. 0 \in T
  BY <1>1, <1>5
<1>7. ASSUME NEW m \in 0 .. N, m < N, m \in T
      PROVE  m + 1 \in T
  <2>1. m + 1 \in 1 .. N /\ m + 1 \in 0 .. N /\ m + 1 - 1 = m
    BY <1>1, <1>7
  <2>2. CASE m + 1 = k
    BY <1>3, <2>1, <2>2
  <2>3. CASE m + 1 < k
    BY <1>5, <2>1, <2>3
  <2>4. CASE m + 1 > k
    <3>1. w[m] = c
      BY <1>5, <1>7, <2>1, <2>4
    <3>2. w[m + 1] = Onwards(c, path.names[m + 1])
      BY <1>2, <2>1, <3>1
    <3>3. w[m + 1] = c
      BY <1>1, <1>3, <1>4, <2>1, <3>2, OnwardsIn
    <3>4. QED
      BY <2>1, <3>3
  <2>5. QED
    BY <1>5, <2>1, <2>2, <2>3, <2>4
<1>8. \A m \in 0 .. N : m \in T
  <2> HIDE DEF T
  <2>1. QED
    BY <1>1, <1>6, <1>7, IntervalInduction
<1>9. N \in T /\ N >= k
  BY <1>1, <1>5, <1>8
<1>10. QED
  BY <1>4, <1>9

\* A step that writes entry n of directory p and nothing else that a walk depends on.
Rewritten(p, n, i) ==
    /\ p \in Dirs /\ n \in Name /\ EntrySet(p, n, i)
    /\ data'[0] = Zero /\ UNCHANGED <<cwd, running>>
    /\ \A j \in imap : inode'[j].type = inode[j].type

LEMMA OnwardsNext ==
    ASSUME FsInv, NEW p, NEW n, NEW i, Rewritten(p, n, i)
    PROVE  \A v \in imap \cup {0}, m \in Entry :
             /\ ~(v = p /\ m = n) => Onwards(v, m)' = Onwards(v, m)
             /\ v = p /\ m = n => Onwards(v, m)' = i
<1> SUFFICES ASSUME NEW v \in imap \cup {0}, NEW m \in Entry
             PROVE  /\ ~(v = p /\ m = n) => Onwards(v, m)' = Onwards(v, m)
                    /\ v = p /\ m = n => Onwards(v, m)' = i
  OBVIOUS
<1>1. /\ p \in Dirs /\ n \in Name /\ EntrySet(p, n, i) /\ data'[0] = Zero
      /\ \A j \in imap : inode'[j].type = inode[j].type
  BY DEF Rewritten
<1>2. CASE v \in Dirs
  <2>1. v # 0 /\ v \in imap /\ Own(v)["."] = v
    BY <1>2, DirIs
  <2>2. IsDir(v)'
    BY <1>1, <1>2 DEF Dirs, IsDir
  <2>3. Own(v)'["."] # 0
    BY <1>1, <1>2, <2>1, EntryIs DEF EntrySet
  <2>4. Own(v)' # Zero
    BY <2>3, EntryIs
  <2>5. Search(v, m)' = Own(v)'[m]
    <3>1. Search(v, m)' = IF Own(v)'[m] # 0 \/ Own(v)' = Zero THEN Own(v)'[m] ELSE data'[0][m]
      BY DEF Search, Own
    <3>2. data'[0][m] = 0
      BY <1>1, EntryIs
    <3>3. QED
      BY <2>4, <3>1, <3>2
  <2>6. Onwards(v, m)' = Own(v)'[m]
    <3>1. Onwards(v, m)' = IF v = 0 \/ ~IsDir(v)' THEN v ELSE Search(v, m)'
      BY DEF Onwards
    <3>2. QED
      BY <2>1, <2>2, <2>5, <3>1
  <2>7. Onwards(v, m) = Own(v)[m]
    BY <1>2, OnwardsIn
  <2>8. Own(v)'[m] = IF v = p /\ m = n THEN i ELSE Own(v)[m]
    BY <1>1, <1>2 DEF EntrySet
  <2>9. QED
    BY <2>6, <2>7, <2>8
<1>3. CASE v \notin Dirs
  <2>1. Onwards(v, m) = v /\ v # p
    BY <1>1, <1>3, OnwardsIn
  <2>2. v = 0 \/ ~IsDir(v)'
    BY <1>1, <1>3 DEF Dirs, IsDir
  <2>3. Onwards(v, m)' = v
    BY <2>2 DEF Onwards
  <2>4. QED
    BY <2>1, <2>3
<1>4. QED
  BY <1>2, <1>3

\* A walk that does not pass the entry stays as it is.
LEMMA WalkKept ==
    ASSUME FsInv, NEW path \in PATH, NEW w \in [0 .. Len(path.names) -> imap \cup {0}],
           Way(w, path), NEW p, NEW n, NEW i, Rewritten(p, n, i), Past(w, path, p, n)
    PROVE  /\ Way(w, path)'
           /\ Getino(path) = w[Len(path.names)] /\ Getino(path)' = w[Len(path.names)]
<1> DEFINE N == Len(path.names)
<1>1. N \in Nat /\ \A k \in 1 .. N : path.names[k] \in Entry
  <2>1. path.names \in Seq(Entry)
    BY DEF PATH
  <2>2. QED
    BY <2>1, LenProperties, ElementOfSeq
<1>2. w[0] = Start(path) /\ \A k \in 1 .. N : w[k] = Onwards(w[k - 1], path.names[k])
  BY DEF Way
<1>3. Start(path)' = Start(path)
  BY DEF Start, Rewritten
<1>4. ASSUME NEW k \in 1 .. N
      PROVE  w[k] = Onwards(w[k - 1], path.names[k])'
  <2>1. k - 1 \in 0 .. N
    BY <1>1
  <2>2. w[k - 1] \in imap \cup {0} /\ path.names[k] \in Entry
    BY <1>1, <2>1
  <2>3. ~(w[k - 1] = p /\ path.names[k] = n)
    BY DEF Past
  <2>4. PICK v, m : v = w[k - 1] /\ m = path.names[k]
    OBVIOUS
  <2>5. Onwards(v, m)' = Onwards(v, m)
    BY <2>2, <2>3, <2>4, OnwardsNext
  <2>6. QED
    BY <1>2, <2>4, <2>5
<1>5. Way(w, path)'
  BY <1>2, <1>3, <1>4 DEF Way
<1>6. Tells(w, path) /\ Tells(w, path)'
  BY WalkTells, WalkTellsNext
<1>7. QED
  BY <1>5, <1>6 DEF Tells

-----------------------------------------------------------------------------
(* mv.                                                                     *)

\* src and dst are two names of file i, and src does not lead through dst.
TwoNames(src, dst, i) ==
    /\ Getino(src) = i /\ i \in Files
    /\ Parent(dst) \in Dirs /\ Child(dst) \in Name /\ Own(Parent(dst))[Child(dst)] = i
    /\ \E w \in [0 .. Len(src.names) -> imap \cup {0}] :
           Way(w, src) /\ Past(w, src, Parent(dst), Child(dst))

Moving(pc, src, dst, i) == cmd.pc = pc /\ cmd.src = src /\ cmd.dst = dst /\ cmd.ino = i

\* Between the calls of mv: src leads to the inode still, or it was dst, and is
\* gone; once the link is made there are two names.
MvHolds(src, dst, i) ==
    /\ Moving("link", src, dst, i) =>
           Getino(src) = i \/ (Getino(src) = 0 /\ cmd.view[dst] = i)
    /\ Moving("unlink", src, dst, i) \/ Moving("undo", src, dst, i) => TwoNames(src, dst, i)

MvInv == \A src \in Path, dst \in Path, i \in Ino : MvHolds(src, dst, i)

\* A directory's path does not pass an entry that leads to no directory.
LEMMA ParentKept ==
    ASSUME FsInv, NEW path \in Path, Parent(path) \in Dirs,
           NEW p, NEW n, NEW i, Rewritten(p, n, i), Own(p)[n] \notin Dirs
    PROVE  Parent(path)' = Parent(path)
<1> DEFINE s == Shorter(path)
<1>1. s \in PATH /\ Parent(path) = Getino(s)
  BY PathIs
<1>2. Parent(path)' = Getino(s)'
  BY DEF Parent, Shorter
<1> HIDE DEF s
<1>3. PICK w \in [0 .. Len(s.names) -> imap \cup {0}] : Way(w, s)
  BY <1>1, WalkIn
<1>4. Getino(s) = w[Len(s.names)]
  BY <1>1, <1>3, WalkTells DEF Tells
<1>5. p \in Dirs /\ n \in Name
  BY DEF Rewritten
<1>6. Past(w, s, p, n)
  BY <1>1, <1>3, <1>4, <1>5, StuckIs
<1>7. Getino(s)' = Getino(s)
  BY <1>1, <1>3, <1>6, WalkKept
<1>8. QED
  BY <1>1, <1>2, <1>7

LEMMA GetinoEnds == FsInv => \A q \in Path : Getino(q) = Onwards(Parent(q), Child(q))
BY GetinoLast

LEMMA GetinoLastNext ==
    ASSUME FsInv', NEW path \in Path
    PROVE  Getino(path)' = Onwards(Parent(path), Child(path))'
<1>1. (FsInv => \A q \in Path : Getino(q) = Onwards(Parent(q), Child(q)))'
  BY GetinoEnds, PTL
<1>2. QED
  BY <1>1

\* A path into a directory leads to what its entry is now.
LEMMA LastKept ==
    ASSUME FsInv, FsInv', NEW path \in Path, Parent(path) \in Dirs,
           NEW p, NEW n, NEW i, Rewritten(p, n, i), Own(p)[n] \notin Dirs
    PROVE  Getino(path)' = IF Parent(path) = p /\ Child(path) = n THEN i ELSE Getino(path)
<1>1. PICK v, m : v = Parent(path) /\ m = Child(path)
  OBVIOUS
<1>2. v \in imap \cup {0} /\ m \in Entry
  BY <1>1, PathIs, DirIs
<1>3. Getino(path) = Onwards(v, m)
  BY <1>1, GetinoLast
<1>4. Parent(path)' = v /\ Child(path)' = m
  BY <1>1, ParentKept DEF Child
<1>5. Getino(path)' = Onwards(v, m)'
  <2>1. Getino(path)' = Onwards(Parent(path), Child(path))'
    BY GetinoLastNext
  <2>2. Onwards(Parent(path), Child(path))' = Onwards(v, m)'
    BY <1>4 DEF Onwards, Search, IsDir
  <2>3. QED
    BY <2>1, <2>2
<1>6. QED
  BY <1>1, <1>2, <1>3, <1>5, OnwardsNext

\* With an entry taken away that leads to no directory, a path leads where it
\* led, or it passed the entry, led to the same and leads to nothing now.
LEMMA WalkCut ==
    ASSUME FsInv, NEW path \in PATH, NEW p, NEW n, Rewritten(p, n, 0), Own(p)[n] \notin Dirs
    PROVE  \/ Getino(path)' = Getino(path)
           \/ Getino(path)' = 0 /\ Getino(path) = Own(p)[n]
<1> DEFINE N == Len(path.names)
<1>1. N \in Nat /\ \A k \in 1 .. N : path.names[k] \in Entry
  <2>1. path.names \in Seq(Entry)
    BY DEF PATH
  <2>2. QED
    BY <2>1, LenProperties, ElementOfSeq
<1>2. PICK w \in [0 .. N -> imap \cup {0}] : Way(w, path)
  BY WalkIn
<1>3. Getino(path) = w[N]
  BY <1>2, WalkTells DEF Tells
<1>4. p \in Dirs /\ n \in Name
  BY DEF Rewritten
<1>5. CASE Past(w, path, p, n)
  BY <1>2, <1>5, WalkKept
<1>6. CASE ~Past(w, path, p, n)
  <2> DEFINE C == {k \in 1 .. N : w[k - 1] = p /\ path.names[k] = n}
  <2>1. w[N] = Own(p)[n]
    BY <1>2, <1>4, <1>6, StuckIs
  <2>2. C # {} /\ C \in SUBSET Nat
    BY <1>1, <1>6 DEF Past
  <2>3. PICK c \in C : \A k \in C : c <= k
    <3> HIDE DEF C
    <3>1. QED
      BY <2>2, LeastElement
  <2>4. c \in 1 .. N /\ w[c - 1] = p /\ path.names[c] = n
    BY <2>3
  <2>5. \A k \in 1 .. N : k < c => ~(w[k - 1] = p /\ path.names[k] = n)
    BY <1>1, <2>3
  <2> DEFINE u == [j \in 0 .. N |-> IF j < c THEN w[j] ELSE 0]
  <2> HIDE DEF N, C
  <2>6. u \in [0 .. N -> imap \cup {0}]
    BY <1>1, <1>2
  <2>7. /\ \A j \in 0 .. N : j < c => u[j] = w[j]
        /\ \A j \in 0 .. N : j >= c => u[j] = 0
    BY <1>1, <2>4
  <2> HIDE DEF u
  <2>8. w[0] = Start(path) /\ \A k \in 1 .. N : w[k] = Onwards(w[k - 1], path.names[k])
    BY <1>2 DEF Way, N
  <2>9. ASSUME NEW j \in 1 .. N
        PROVE  u[j] = Onwards(u[j - 1], path.names[j])'
    <3>1. j \in 0 .. N /\ j - 1 \in 0 .. N
      BY <1>1
    <3>2. w[j - 1] \in imap \cup {0} /\ path.names[j] \in Entry
      BY <1>1, <1>2, <3>1
    <3>3. PICK v, x, m : v = w[j - 1] /\ x = u[j - 1] /\ m = path.names[j]
      OBVIOUS
    <3>4. Onwards(u[j - 1], path.names[j])' = Onwards(x, m)'
      BY <3>3
    <3>5. CASE j < c
      <4>1. ~(v = p /\ m = n) /\ x = v
        BY <1>1, <2>4, <2>5, <2>7, <3>1, <3>3, <3>5
      <4>2. Onwards(x, m)' = Onwards(x, m)
        BY <3>2, <3>3, <4>1, OnwardsNext
      <4>3. u[j] = w[j]
        BY <2>7, <3>1, <3>5
      <4>4. QED
        BY <2>8, <3>3, <3>4, <4>1, <4>2, <4>3
    <3>6. CASE j = c
      <4>1. x = p /\ m = n
        BY <1>1, <2>4, <2>7, <3>1, <3>3, <3>6
      <4>2. Onwards(x, m)' = 0
        BY <3>2, <3>3, <2>4, <3>6, <4>1, OnwardsNext
      <4>3. u[j] = 0
        BY <1>1, <2>4, <2>7, <3>1, <3>6
      <4>4. QED
        BY <3>4, <4>2, <4>3
    <3>7. CASE j > c
      <4>1. x = 0
        BY <1>1, <2>4, <2>7, <3>1, <3>3, <3>7
      <4>2. Onwards(x, m)' = 0
        BY <4>1 DEF Onwards
      <4>3. u[j] = 0
        BY <1>1, <2>4, <2>7, <3>1, <3>7
      <4>4. QED
        BY <3>4, <4>2, <4>3
    <3>8. QED
      BY <1>1, <2>4, <3>5, <3>6, <3>7
  <2>10. u[0] = Start(path)'
    <3>1. Start(path)' = Start(path)
      BY DEF Start, Rewritten
    <3>2. 0 \in 0 .. N /\ 0 < c
      BY <1>1, <2>4
    <3>3. QED
      BY <2>7, <2>8, <3>1, <3>2
  <2>11. Way(u, path)'
    BY <2>9, <2>10 DEF Way, N
  <2>12. Getino(path)' = u[N]
    BY <2>6, <2>11, WalkTellsNext DEF Tells, N
  <2>13. u[N] = 0
    BY <1>1, <2>4, <2>7
  <2>14. QED
    BY <1>3, <2>1, <2>12, <2>13
<1>7. QED
  BY <1>5, <1>6

LEMMA UnlinkRewrites ==
    ASSUME FsInv, NEW path \in Path, UnlinkFile(path), UNCHANGED <<cwd, running, fault>>
    PROVE  /\ Rewritten(Parent(path), Child(path), 0)
           /\ Own(Parent(path))[Child(path)] = Target(path) /\ Target(path) \in Files
           /\ Target(path) \notin Dirs
           /\ Getino(path) = Target(path)
<1>1. Unlinked(Parent(path), Child(path), Target(path))
  BY UnlinkTakes
<1>2. /\ Parent(path) \in Dirs /\ Child(path) \in Name /\ Target(path) \in Files
      /\ Own(Parent(path))[Child(path)] = Target(path)
      /\ \A j \in imap : inode'[j].type = inode[j].type
      /\ data'[0] = Zero /\ EntrySet(Parent(path), Child(path), 0)
  BY <1>1 DEF Unlinked
<1>3. Rewritten(Parent(path), Child(path), 0)
  BY <1>2 DEF Rewritten
<1>4. Getino(path) = Target(path)
  <2>1. Getino(path) = Onwards(Parent(path), Child(path))
    BY GetinoLast
  <2>2. Parent(path) \in imap /\ Child(path) \in Entry
    BY <1>2, DirIs, PathIs
  <2>3. QED
    BY <1>2, <2>1, <2>2, OnwardsIn
<1>5. QED
  BY <1>2, <1>3, <1>4 DEF Files

LEMMA SameWalks ==
    ASSUME UNCHANGED <<imap, inode, data, cwd, running>>
    PROVE  /\ \A path : Getino(path)' = Getino(path)
           /\ \A src, dst, i : TwoNames(src, dst, i) => TwoNames(src, dst, i)'
<1>1. \A path : Getino(path)' = Getino(path)
  BY DEF Getino, IsDir, Search
<1>2. Dirs' = Dirs /\ Files' = Files
  BY DEF Dirs, Files, IsDir
<1>3. \A d : Own(d)' = Own(d)
  BY DEF Own
<1>4. \A path : Parent(path)' = Parent(path) /\ Child(path)' = Child(path)
  BY <1>1 DEF Parent, Child
<1>5. \A w, path : Way(w, path)' = Way(w, path)
  BY DEF Way, Start, Onwards, IsDir, Search
<1>6. ASSUME NEW src, NEW dst, NEW i, TwoNames(src, dst, i)
      PROVE  TwoNames(src, dst, i)'
  <2>1. Own(Parent(dst))[Child(dst)]' = Own(Parent(dst))[Child(dst)]
    BY <1>4 DEF Own
  <2>2. PICK w \in [0 .. Len(src.names) -> imap \cup {0}] :
            Way(w, src) /\ Past(w, src, Parent(dst), Child(dst))
    BY <1>6 DEF TwoNames
  <2>3. Way(w, src)' /\ Past(w, src, Parent(dst), Child(dst))'
    BY <1>4, <1>5, <2>2 DEF Past
  <2>4. QED
    BY <1>1, <1>2, <1>4, <1>6, <2>1, <2>2, <2>3 DEF TwoNames
<1>7. QED
  BY <1>1, <1>6

LEMMA MvBeginHolds ==
    ASSUME FsInv, NEW src \in Path, NEW dst \in Path, MvBegin(src, dst)
    PROVE  MvInv'
<1>1. /\ cmd' = [pc |-> "link", src |-> src, dst |-> dst, ino |-> Getino(src), view |-> View]
      /\ UNCHANGED <<cwd, running, fault>>
  BY DEF MvBegin
<1>2. cmd'.view[dst] = Getino(dst)
  BY <1>1 DEF View
<1>3. Getino(src)' = Getino(src) \/ (Getino(src)' = 0 /\ Getino(dst) = Getino(src))
  <2>1. CASE Getino(dst) = 0
    BY <2>1, SameWalks DEF MvBegin
  <2>2. CASE Getino(dst) # 0
    <3>1. UnlinkFile(dst)
      BY <2>2 DEF MvBegin
    <3>2. PICK p, n : p = Parent(dst) /\ n = Child(dst)
      OBVIOUS
    <3>3. Rewritten(p, n, 0) /\ Own(p)[n] = Getino(dst) /\ Own(p)[n] \notin Dirs
      BY <1>1, <3>1, <3>2, UnlinkRewrites
    <3>4. QED
      BY <3>3, PathIs, WalkCut
  <2>3. QED
    BY <2>1, <2>2
<1>4. SUFFICES ASSUME NEW s \in Path, NEW d \in Path, NEW i \in Ino
               PROVE  MvHolds(s, d, i)'
  BY DEF MvInv
<1>5. \A pc : Moving(pc, s, d, i)' <=> pc = "link" /\ s = src /\ d = dst /\ i = Getino(src)
  BY <1>1 DEF Moving
<1>6. QED
  BY <1>2, <1>3, <1>5 DEF MvHolds

LEMMA MvLinkHolds ==
    ASSUME FsInv, CmdTyped, MvInv, MvLink
    PROVE  MvInv'
<1>1. PICK src, dst, i : src = cmd.src /\ dst = cmd.dst /\ i = cmd.ino
  OBVIOUS
<1>2. /\ src \in Path /\ dst \in Path /\ i \in Ino /\ Moving("link", src, dst, i)
      /\ cmd' \in Cmd("unlink") /\ cmd'.src = src /\ cmd'.dst = dst /\ cmd'.ino = i
  <2>1. cmd.pc = "link" /\ cmd.src \in Path /\ cmd.dst \in Path /\ cmd.ino \in Ino
        /\ cmd' = [cmd EXCEPT !.pc = "unlink"] /\ cmd' \in Cmd("unlink")
    BY CmdIs DEF MvLink
  <2>2. cmd \in [pc: {"link", "unlink", "undo"}, src: Path, dst: Path,
                 ino: Ino, view: [Path -> Ino \cup {0}]]
    BY <2>1 DEF CmdTyped, Idle
  <2>3. cmd'.src = cmd.src /\ cmd'.dst = cmd.dst /\ cmd'.ino = cmd.ino
    BY <2>1, <2>2
  <2>4. QED
    BY <1>1, <2>1, <2>3 DEF Moving
<1>3. LinkFile(src, dst) /\ UNCHANGED <<cwd, running, fault>>
  BY <1>1 DEF MvLink
<1>4. Getino(src) = i /\ i # 0
  <2>1. Getino(src) # 0
    BY <1>3 DEF LinkFile, LinkOK
  <2>2. QED
    BY <1>2, <2>1 DEF MvInv, MvHolds
<1>5. PICK p, n : p = Parent(dst) /\ n = Child(dst)
  OBVIOUS
<1>6. Linked(p, n, i)
  BY <1>2, <1>3, <1>4, <1>5, LinkMakes, PathIs
<1>7. /\ p \in Dirs /\ n \in Name /\ Own(p)[n] = 0 /\ i \in Files /\ i \notin Dirs
      /\ imap' = imap /\ EntrySet(p, n, i) /\ data'[0] = Zero
      /\ \A j \in imap : inode'[j].type = inode[j].type
  BY <1>6 DEF Linked, Files
<1>8. Rewritten(p, n, i) /\ Own(p)[n] \notin Dirs
  BY <1>3, <1>7, EntryIs DEF Rewritten, Dirs, FsInv, Typed
<1>9. FsInv'
  BY <1>2, <1>3, LinkFileStep
<1>10. Dirs' = Dirs /\ Files' = Files
  BY <1>7 DEF Dirs, IsDir, Files
<1>11. PICK w \in [0 .. Len(src.names) -> imap \cup {0}] : Way(w, src)
  BY <1>2, WalkIn, PathIs
<1>12. w[Len(src.names)] = i
  BY <1>2, <1>4, <1>11, PathIs, WalkTells DEF Tells
<1>13. Past(w, src, p, n)
  BY <1>2, <1>4, <1>7, <1>8, <1>11, <1>12, PathIs, StuckIs
<1>14. Way(w, src)' /\ Getino(src)' = i
  BY <1>2, <1>8, <1>11, <1>12, <1>13, PathIs, WalkKept
<1>15. Parent(dst)' = p /\ Child(dst)' = n
  BY <1>2, <1>5, <1>7, <1>8, ParentKept DEF Child
<1>16. Own(Parent(dst))[Child(dst)]' = i
  <2>1. Own(p)'[n] = i
    BY <1>7, EntryIs DEF EntrySet
  <2>2. QED
    BY <1>15, <2>1 DEF Own
<1>17. TwoNames(src, dst, i)'
  <2>1. Past(w, src, Parent(dst), Child(dst))'
    BY <1>13, <1>15 DEF Past
  <2>2. QED
    BY <1>7, <1>10, <1>11, <1>14, <1>15, <1>16, <2>1 DEF TwoNames
<1>18. SUFFICES ASSUME NEW s \in Path, NEW d \in Path, NEW j \in Ino
                PROVE  MvHolds(s, d, j)'
  BY DEF MvInv
<1>19. \A pc : Moving(pc, s, d, j)' <=> pc = "unlink" /\ s = src /\ d = dst /\ j = i
  BY <1>2 DEF Moving, Cmd
<1>20. QED
  BY <1>17, <1>19 DEF MvHolds

LEMMA MvOthersHold ==
    ASSUME FsInv, CmdTyped, MvInv, MvUnlinkFails \/ cmd'.pc = "idle" \/ UNCHANGED vars
    PROVE  MvInv'
<1>1. SUFFICES ASSUME NEW s \in Path, NEW d \in Path, NEW i \in Ino
               PROVE  MvHolds(s, d, i)'
  BY DEF MvInv
<1>2. MvHolds(s, d, i)
  BY DEF MvInv
<1>3. CASE cmd'.pc = "idle"
  BY <1>3 DEF MvHolds, Moving
<1>4. CASE MvUnlinkFails
  <2>1. /\ cmd.pc = "unlink" /\ cmd' = [cmd EXCEPT !.pc = "undo"]
        /\ UNCHANGED <<imap, bmap, inode, data, cwd, running, fault>>
    BY <1>4 DEF MvUnlinkFails
  <2>2. cmd \in [pc: {"link", "unlink", "undo"}, src: Path, dst: Path,
                 ino: Ino, view: [Path -> Ino \cup {0}]]
    BY <2>1 DEF CmdTyped, Idle
  <2>3. cmd'.pc = "undo" /\ cmd'.src = cmd.src /\ cmd'.dst = cmd.dst /\ cmd'.ino = cmd.ino
    BY <2>1, <2>2
  <2>4. Moving("undo", s, d, i)' => Moving("unlink", s, d, i)
    BY <2>1, <2>3 DEF Moving
  <2>5. TwoNames(s, d, i) => TwoNames(s, d, i)'
    BY <2>1, SameWalks
  <2>6. ~Moving("link", s, d, i)' /\ ~Moving("unlink", s, d, i)'
    BY <2>3 DEF Moving
  <2>7. QED
    BY <1>2, <2>4, <2>5, <2>6 DEF MvHolds
<1>5. CASE UNCHANGED vars
  <2>1. UNCHANGED <<imap, inode, data, cwd, running, cmd>>
    BY <1>5 DEF vars
  <2>2. Getino(s)' = Getino(s) /\ (TwoNames(s, d, i) => TwoNames(s, d, i)')
    BY <2>1, SameWalks
  <2>3. \A pc : Moving(pc, s, d, i)' <=> Moving(pc, s, d, i)
    BY <2>1 DEF Moving
  <2>4. QED
    BY <1>2, <2>1, <2>2, <2>3 DEF MvHolds
<1>6. QED
  BY <1>3, <1>4, <1>5

LEMMA NextMvInv == FsInv /\ CmdTyped /\ MvInv /\ [Next]_vars => MvInv'
<1> SUFFICES ASSUME FsInv, CmdTyped, MvInv, [Next]_vars
             PROVE  MvInv'
  OBVIOUS
<1>1. CASE \E src \in Path, dst \in Path : MvBegin(src, dst)
  BY <1>1, MvBeginHolds
<1>2. CASE MvLink
  BY <1>2, MvLinkHolds
<1>3. CASE MvUnlinkFails \/ UNCHANGED vars
  BY <1>3, MvOthersHold
<1>4. CASE MvLinkFails \/ MvUnlink \/ MvUndo
  BY <1>4, MvOthersHold DEF MvLinkFails, MvUnlink, MvUndo, Idle
<1>5. CASE \/ \E path \in Path :
                 \/ Mkdir(path) \/ Creat(path) \/ Unlink(path) \/ Rmdir(path) \/ Cd(path)
                 \/ \E dst \in Path : Symlink(path, dst) \/ Link(path, dst)
                 \/ \E uid \in Proc : Permit(path, uid)
           \/ CdRoot
           \/ \E uid \in Proc : Switch(uid)
  <2>1. cmd.pc = "idle" /\ cmd' = cmd
    BY <1>5 DEF Mkdir, Creat, Unlink, Rmdir, Cd, Symlink, Link, Permit, CdRoot, Switch, Ready
  <2>2. QED
    BY <2>1, MvOthersHold
<1>6. QED
  BY <1>1, <1>2, <1>3, <1>4, <1>5 DEF Next

MvIInv == IInv /\ MvInv

LEMMA MvInvariance == ASSUME Roomy PROVE Spec => []MvIInv
<1>1. Init => MvIInv
  <2>1. Init => MvInv
    BY DEF Init, MvInv, MvHolds, Moving, Idle
  <2>2. QED
    BY <2>1, InitIInv DEF MvIInv
<1>2. MvIInv /\ [Next]_vars => MvIInv'
  BY NextIInv, NextMvInv DEF MvIInv, IInv
<1>3. QED
  BY <1>1, <1>2, PTL DEF Spec

LEMMA MvMovesStep ==
    ASSUME FsInv, Roomy, CmdTyped, MvInv, MvUnlink
    PROVE  View'[cmd.dst] = cmd.ino /\ View'[cmd.src] = 0
<1>1. PICK src, dst, i : src = cmd.src /\ dst = cmd.dst /\ i = cmd.ino
  OBVIOUS
<1>2. src \in Path /\ dst \in Path /\ i \in Ino /\ Moving("unlink", src, dst, i)
  BY <1>1, CmdIs DEF MvUnlink, Moving
<1>3. UnlinkFile(src) /\ UNCHANGED <<cwd, running, fault>>
  BY <1>1 DEF MvUnlink
<1>4. TwoNames(src, dst, i)
  BY <1>2 DEF MvInv, MvHolds
<1>5. PICK p, n : p = Parent(src) /\ n = Child(src)
  OBVIOUS
<1>6. Rewritten(p, n, 0) /\ Own(p)[n] = i /\ Own(p)[n] \notin Dirs /\ p \in Dirs
  BY <1>2, <1>3, <1>4, <1>5, UnlinkRewrites DEF TwoNames, Rewritten
<1>7. FsInv'
  BY <1>2, <1>3, UnlinkFileStep
<1>8. Getino(src)' = 0
  BY <1>2, <1>5, <1>6, <1>7, LastKept
<1>9. Getino(dst) = i
  <2>1. Parent(dst) \in imap /\ Child(dst) \in Entry
    BY <1>2, <1>4, PathIs, DirIs DEF TwoNames
  <2>2. Getino(dst) = Onwards(Parent(dst), Child(dst))
    BY <1>2, GetinoLast
  <2>3. QED
    BY <1>4, <2>1, <2>2, OnwardsIn DEF TwoNames
<1>10. ~(Parent(dst) = p /\ Child(dst) = n)
  <2>1. PICK w \in [0 .. Len(src.names) -> imap \cup {0}] :
            Way(w, src) /\ Past(w, src, Parent(dst), Child(dst))
    BY <1>4 DEF TwoNames
  <2>2. w[Len(src.names) - 1] = p
    BY <1>2, <1>5, <2>1, WalkParent
  <2>3. Len(src.names) \in 1 .. Len(src.names) /\ src.names[Len(src.names)] = n
    BY <1>2, <1>5, PathIs DEF Child
  <2>4. QED
    BY <2>1, <2>2, <2>3 DEF Past
<1>11. Getino(dst)' = i
  BY <1>2, <1>4, <1>6, <1>7, <1>9, <1>10, LastKept DEF TwoNames
<1>12. View'[src] = Getino(src)' /\ View'[dst] = Getino(dst)'
  BY <1>2 DEF View
<1>13. QED
  BY <1>1, <1>8, <1>11, <1>12

\* A mv that succeeds has moved the file, whatever the paths are and however the
\* names were linked before: src is no name of it any more, dst is.
THEOREM MvMovesTheFile == ASSUME Roomy PROVE Spec => MvMoves
<1>1. MvIInv /\ [Next]_vars => [MvUnlink => View'[cmd.dst] = cmd.ino /\ View'[cmd.src] = 0]_vars
  BY MvMovesStep DEF MvIInv, IInv
<1>2. QED
  BY <1>1, MvInvariance, PTL DEF Spec, MvMoves

LEMMA MvKeepsStep ==
    ASSUME FsInv, CmdTyped, MvInv, MvLinkFails \/ MvUndo, cmd.view[cmd.dst] # cmd.ino
    PROVE  View'[cmd.src] = cmd.ino
<1>1. PICK src, dst, i : src = cmd.src /\ dst = cmd.dst /\ i = cmd.ino
  OBVIOUS
<1>2. src \in Path /\ dst \in Path /\ i \in Ino
  BY <1>1, CmdIs DEF MvLinkFails, MvUndo
<1>3. View'[src] = Getino(src)'
  BY <1>2 DEF View
<1>4. CASE MvLinkFails
  <2>1. Moving("link", src, dst, i)
    BY <1>1, <1>4 DEF Moving, MvLinkFails
  <2>2. Getino(src) = i
    BY <1>1, <1>2, <2>1 DEF MvInv, MvHolds
  <2>3. Getino(src)' = Getino(src)
    BY <1>4, SameWalks DEF MvLinkFails
  <2>4. QED
    BY <1>1, <1>3, <2>2, <2>3
<1>5. CASE MvUndo
  <2>1. Moving("undo", src, dst, i)
    BY <1>1, <1>5 DEF Moving, MvUndo
  <2>2. TwoNames(src, dst, i)
    BY <1>2, <2>1 DEF MvInv, MvHolds
  <2>3. CASE UnlinkOK(cmd.dst)
    <3>1. UnlinkFile(dst) /\ UNCHANGED <<cwd, running, fault>>
      BY <1>1, <1>5, <2>3 DEF MvUndo
    <3>2. PICK p, n : p = Parent(dst) /\ n = Child(dst)
      OBVIOUS
    <3>3. Rewritten(p, n, 0)
      BY <1>2, <3>1, <3>2, UnlinkRewrites
    <3>4. PICK w \in [0 .. Len(src.names) -> imap \cup {0}] :
              Way(w, src) /\ Past(w, src, p, n)
      BY <2>2, <3>2 DEF TwoNames
    <3>5. Getino(src)' = Getino(src)
      BY <1>2, <3>3, <3>4, PathIs, WalkKept
    <3>6. QED
      BY <1>1, <1>3, <2>2, <3>5 DEF TwoNames
  <2>4. CASE ~UnlinkOK(cmd.dst)
    <3>1. Getino(src)' = Getino(src)
      BY <1>5, <2>4, SameWalks DEF MvUndo
    <3>2. QED
      BY <1>1, <1>3, <2>2, <3>1 DEF TwoNames
  <2>5. QED
    BY <2>3, <2>4
<1>6. QED
  BY <1>4, <1>5

\* A mv that fails after it has unlinked dst or linked src to it leaves src leading
\* to the file, unless dst led there too.
THEOREM MvKeepsTheFile == ASSUME Roomy PROVE Spec => MvKeepsFile
<1>1. MvIInv /\ [Next]_vars =>
        [(MvLinkFails \/ MvUndo) /\ cmd.view[cmd.dst] # cmd.ino => View'[cmd.src] = cmd.ino]_vars
  BY MvKeepsStep DEF MvIInv, IInv
<1>2. QED
  BY <1>1, MvInvariance, PTL DEF Spec, MvKeepsFile

=============================================================================
