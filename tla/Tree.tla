-------------------------------- MODULE Tree --------------------------------
(***************************************************************************)
(* The name space of one mounted device: directories, inodes and the two   *)
(* bitmaps, under cd, mkdir, creat, touch, rmdir, link, symlink, unlink,   *)
(* mv, chmod, chown, chgrp and switch (level1.c, util.c, alloc_dealloc.c,  *)
(* file_mv of level2.c, pswitch of level3.c).                              *)
(*                                                                         *)
(* Every inode owns one data block and a directory fits in its block, so   *)
(* a block of a directory is a function from names to inode numbers, 0     *)
(* for "no entry". A command whose guard is false prints an error and      *)
(* changes nothing, which is a stuttering step. Files are not open here    *)
(* (module OpenFiles): the minodes in use are those of root and the cwds.  *)
(***************************************************************************)
EXTENDS Integers, Sequences, FiniteSets

CONSTANTS
    Proc,      \* the processes, by uid; 0 is the super user
    Name,      \* file names
    Path,      \* the paths users type: [abs: BOOLEAN, names: Seq(Entry)]
    Ino,       \* inode numbers of the device, with Root
    Blk,       \* data block numbers of the device
    PathBlock, \* PathBlock[path]: the text of a path, read as a block number
    MayFill,   \* FALSE: nobody allocates on a device without a free inode or block
    MayFree,   \* FALSE: nobody unlinks a symlink whose text reads as a block number
    MaxLinks   \* bound: links of a file

Root == 2
Entry == Name \cup {".", ".."}

ASSUME ProcAssumption == Proc \subseteq Nat /\ 0 \in Proc
ASSUME DeviceAssumption ==
    /\ IsFiniteSet(Ino) /\ Ino \subseteq Nat \ {0} /\ Root \in Ino
    /\ Blk \subseteq Nat \ {0} /\ 1 \in Blk
ASSUME NameAssumption == IsFiniteSet(Name) /\ Name \cap {".", ".."} = {}
ASSUME PathAssumption ==
    /\ Path \subseteq [abs: BOOLEAN, names: Seq(Entry) \ {<<>>}]
    /\ PathBlock \in [Path -> Blk \cup {0}]
ASSUME BoundAssumption == {MayFill, MayFree} \subseteq BOOLEAN /\ MaxLinks \in Nat

VARIABLES
    imap,     \* the inode bitmap: allocated inodes
    bmap,     \* the block bitmap: allocated blocks
    inode,    \* the inodes; blk is i_block[0], uid may write besides user 0
    data,     \* data[b]: block b as a directory reads it; b = 0 is the boot block
    cwd,      \* cwd[p]: inode of the current directory of a process
    running,  \* the process whose commands are executed
    cmd,      \* the mv that is being executed
    fault     \* the program indexed an inode table with inode number 0

vars == <<imap, bmap, inode, data, cwd, running, cmd, fault>>

INODE == [type: {"none", "dir", "reg", "lnk"}, links: Nat, blk: Blk \cup {0}, uid: Proc]

Zero == [n \in Entry |-> 0]
Idle == [pc |-> "idle"]

TypeOK ==
    /\ imap \subseteq Ino /\ bmap \subseteq Blk
    /\ inode \in [Ino -> INODE]
    /\ data \in [Blk \cup {0} -> [Entry -> Ino \cup {0}]]
    /\ cwd \in [Proc -> Ino]
    /\ running \in Proc
    /\ cmd.pc \in {"idle", "link", "unlink", "undo"}
    /\ fault \in BOOLEAN

\* A new file system, mounted as root, with an empty root directory.
Init ==
    /\ imap = {Root} /\ bmap = {1}
    /\ inode = [i \in Ino |-> IF i = Root
                  THEN [type |-> "dir", links |-> 2, blk |-> 1, uid |-> 0]
                  ELSE [type |-> "none", links |-> 0, blk |-> 0, uid |-> 0]]
    /\ data = [b \in Blk \cup {0} |->
                  IF b = 1 THEN [Zero EXCEPT !["."] = Root, ![".."] = Root] ELSE Zero]
    /\ cwd = [p \in Proc |-> Root]
    /\ running = 0
    /\ cmd = Idle
    /\ fault = FALSE

-----------------------------------------------------------------------------
(* Paths.                                                                   *)

IsDir(i) == inode[i].type = "dir"

\* search: all twelve i_block are read, so behind the block of the directory,
\* unless it is zeroed, comes block 0.
Search(d, n) ==
    LET own == data[inode[d].blk] IN
    IF own[n] # 0 \/ own = Zero THEN own[n] ELSE data[0][n]

\* getino: from root or the cwd, one name after the other. It stops at what is
\* not a directory and returns that; it returns 0 where a name is missing.
Getino(path) ==
    LET walk[n \in 0 .. Len(path.names)] ==
            IF n = 0 THEN (IF path.abs THEN Root ELSE cwd[running])
            ELSE IF walk[n - 1] = 0 \/ ~IsDir(walk[n - 1]) THEN walk[n - 1]
            ELSE Search(walk[n - 1], path.names[n])
    IN  walk[Len(path.names)]

\* parseargs: the inode of dirname(path), and basename(path).
Parent(path) ==
    Getino([path EXCEPT !.names = SubSeq(path.names, 1, Len(path.names) - 1)])
Child(path) == path.names[Len(path.names)]

\* The parent of path is a directory: where a new entry may go, and whether
\* there is an entry already.
HasParent(path) == Parent(path) # 0 /\ IsDir(Parent(path))
Exists(path) == HasParent(path) /\ Search(Parent(path), Child(path)) # 0
Vacant(path) == HasParent(path) /\ Search(Parent(path), Child(path)) = 0
Target(path) == Search(Parent(path), Child(path))

-----------------------------------------------------------------------------
(* Helpers of the commands.                                                 *)

FirstFree(used, all) ==
    IF all \subseteq used THEN 0
    ELSE CHOOSE x \in all \ used : \A y \in all \ used : x <= y

\* ialloc and balloc: the first free number, 0 if there is none.
Ialloc == FirstFree(imap, Ino)
Balloc == FirstFree(bmap, Blk)

MayAllocate == MayFill \/ (Ialloc # 0 /\ Balloc # 0)

\* insert_entry gives up on a zeroed block.
InsertEntry(blocks, b, n, i) ==
    IF blocks[b] = Zero THEN blocks ELSE [blocks EXCEPT ![b][n] = i]

\* remove_entry skips an i_block that is 0.
RemoveEntry(b, n) == IF b = 0 THEN data ELSE [data EXCEPT ![b][n] = 0]

\* has_perm(mip, 2), with the modes 0644 and 0755 that files are created with.
MayWrite(i) == running = 0 \/ inode[i].uid = running

\* Mutant of Busy: the current directories of other processes are not seen.
BusyForRunning(i, parent) == i = Root \/ i = parent \/ cwd[running] = i

\* The ref_count of the directory is above 1 once rmdir has it and its parent.
Busy(i, parent) == i = Root \/ i = parent \/ \E p \in Proc : cwd[p] = i

\* Mutant of DirIsEmpty: the loop over the entries, which a TODO doubts, is gone.
DirIsEmptyByLinks(i) == inode[i].links <= 2

\* dir_is_empty: no subdirectory, and no entry but . and .. in its block.
DirIsEmpty(i) ==
    /\ inode[i].links <= 2
    /\ inode[i].blk # 0 => \A n \in Name : data[inode[i].blk][n] = 0

Ready == cmd.pc = "idle" /\ ~fault

-----------------------------------------------------------------------------
(* What the commands do, without the test that no other command is running. *)

\* The new inode of mkdir, creat and symlink: allocated, initialised with its
\* block, entered into its parent. Allocation is not checked: an inode number
\* 0 is used as an index, a block number 0 as a block.
NewNode(path, type, links, blk, block) ==
    /\ Vacant(path)
    /\ MayAllocate
    /\ IF Ialloc = 0
       THEN fault' = TRUE /\ UNCHANGED <<imap, bmap, inode, data>>
       ELSE /\ imap' = imap \cup {Ialloc}
            /\ bmap' = bmap \cup ({Balloc} \ {0})
            /\ inode' = [i \in Ino |->
                  IF i = Ialloc THEN [type |-> type, links |-> links, blk |-> blk, uid |-> running]
                  ELSE IF i = Parent(path) /\ type = "dir"
                  THEN [inode[i] EXCEPT !.links = @ + 1]
                  ELSE inode[i]]
            /\ data' = InsertEntry([data EXCEPT ![Balloc] = block],
                                   inode[Parent(path)].blk, Child(path), Ialloc)
            /\ UNCHANGED fault

LinkOK(src, dst) ==
    /\ Getino(src) # 0
    /\ ~IsDir(Getino(src))
    /\ Vacant(dst)

LinkFile(src, dst) ==
    /\ LinkOK(src, dst)
    /\ data' = InsertEntry(data, inode[Parent(dst)].blk, Child(dst), Getino(src))
    /\ inode' = [inode EXCEPT ![Getino(src)].links = @ + 1]
    /\ UNCHANGED <<imap, bmap>>

UnlinkOK(path) ==
    /\ Exists(path)
    /\ ~IsDir(Target(path))
    /\ MayWrite(Target(path))

\* Mutant of UnlinkFile: the inode is freed by the last unlink but one.
UnlinkFileEarly(path) ==
    LET c == Target(path)
        last == inode[c].links <= 2
    IN  /\ UnlinkOK(path)
        /\ data' = RemoveEntry(inode[Parent(path)].blk, Child(path))
        /\ inode' = [inode EXCEPT ![c] = [type |-> @.type, links |-> @.links - 1,
                       blk |-> IF last THEN 0 ELSE @.blk, uid |-> @.uid]]
        /\ imap' = IF last THEN imap \ {c} ELSE imap
        /\ bmap' = IF last THEN bmap \ {inode[c].blk} ELSE bmap

\* Clearing the blocks of c frees no other inode's.
Harmless(c) == inode[c].type # "lnk" \/ inode[c].links > 1 \/ inode[c].blk = 0

\* The last unlink clears the blocks of the file and frees its inode. Of a
\* symlink, it is the text of the path that clear_blocks takes for numbers.
UnlinkFile(path) ==
    LET c == Target(path)
        last == inode[c].links <= 1
    IN  /\ UnlinkOK(path)
        /\ MayFree \/ Harmless(c)
        /\ data' = RemoveEntry(inode[Parent(path)].blk, Child(path))
        /\ inode' = [inode EXCEPT ![c] = [type |-> @.type, links |-> @.links - 1,
                       blk |-> IF last THEN 0 ELSE @.blk, uid |-> @.uid]]
        /\ imap' = IF last THEN imap \ {c} ELSE imap
        /\ bmap' = IF last THEN bmap \ {inode[c].blk} ELSE bmap

-----------------------------------------------------------------------------
(* The commands of a user.                                                  *)

Mkdir(path) ==
    /\ Ready
    /\ NewNode(path, "dir", 2, Balloc,
               [Zero EXCEPT !["."] = Ialloc, ![".."] = Parent(path)])
    /\ UNCHANGED <<cwd, running, cmd>>

\* creat, and touch of a path that does not exist.
Creat(path) ==
    /\ Ready
    /\ NewNode(path, "reg", 1, Balloc, Zero)
    /\ UNCHANGED <<cwd, running, cmd>>

\* The path is written over i_block, so that the block that was allocated is
\* in use by nobody.
Symlink(src, dst) ==
    /\ Ready
    /\ Getino(src) # 0
    /\ inode[Getino(src)].type # "lnk"
    /\ NewNode(dst, "lnk", 1, PathBlock[src], Zero)
    /\ UNCHANGED <<cwd, running, cmd>>

Link(src, dst) ==
    /\ Ready
    /\ \A i \in Ino : inode[i].links < MaxLinks
    /\ LinkFile(src, dst)
    /\ UNCHANGED <<cwd, running, cmd, fault>>

Unlink(path) ==
    /\ Ready
    /\ UnlinkFile(path)
    /\ UNCHANGED <<cwd, running, cmd, fault>>

\* Mutant of Rmdir: the parent keeps the link of the subdirectory.
RmdirKeepsLink(path) ==
    LET p == Parent(path)
        c == Target(path)
    IN  /\ Ready
        /\ Exists(path)
        /\ IsDir(c) /\ MayWrite(c) /\ ~Busy(c, p) /\ DirIsEmpty(c)
        /\ data' = RemoveEntry(inode[p].blk, Child(path))
        /\ bmap' = bmap \ {inode[c].blk}
        /\ imap' = imap \ {c}
        /\ UNCHANGED <<inode, cwd, running, cmd, fault>>

\* Mutant of Rmdir: the block is not freed.
RmdirKeepsBlock(path) ==
    LET p == Parent(path)
        c == Target(path)
    IN  /\ Ready
        /\ Exists(path)
        /\ IsDir(c) /\ MayWrite(c) /\ ~Busy(c, p) /\ DirIsEmpty(c)
        /\ data' = RemoveEntry(inode[p].blk, Child(path))
        /\ imap' = imap \ {c}
        /\ inode' = [inode EXCEPT ![p].links = @ - 1]
        /\ UNCHANGED <<bmap, cwd, running, cmd, fault>>

\* The inode is freed as it is; only its bit in the bitmap says so.
Rmdir(path) ==
    LET p == Parent(path)
        c == Target(path)
    IN  /\ Ready
        /\ Exists(path)
        /\ IsDir(c) /\ MayWrite(c) /\ ~Busy(c, p) /\ DirIsEmpty(c)
        /\ data' = RemoveEntry(inode[p].blk, Child(path))
        /\ bmap' = bmap \ {inode[c].blk}
        /\ imap' = imap \ {c}
        /\ inode' = [inode EXCEPT ![p].links = @ - 1]
        /\ UNCHANGED <<cwd, running, cmd, fault>>

\* Mutant of Cd: what getino returns is taken for a directory.
CdUnchecked(path) ==
    /\ Ready
    /\ cwd' = [cwd EXCEPT ![running] = Getino(path)]
    /\ UNCHANGED <<imap, bmap, inode, data, running, cmd, fault>>

\* cd, to a path or, without one, to the root.
Cd(path) ==
    /\ Ready
    /\ Getino(path) # 0
    /\ IsDir(Getino(path))
    /\ cwd' = [cwd EXCEPT ![running] = Getino(path)]
    /\ UNCHANGED <<imap, bmap, inode, data, running, cmd, fault>>

CdRoot ==
    /\ Ready
    /\ cwd' = [cwd EXCEPT ![running] = Root]
    /\ UNCHANGED <<imap, bmap, inode, data, running, cmd, fault>>

\* chmod, chown and chgrp, of any user: who may write besides user 0.
Permit(path, uid) ==
    /\ Ready
    /\ Getino(path) # 0
    /\ inode' = [inode EXCEPT ![Getino(path)].uid = uid]
    /\ UNCHANGED <<imap, bmap, data, cwd, running, cmd, fault>>

Switch(uid) ==
    /\ Ready
    /\ running' = uid
    /\ UNCHANGED <<imap, bmap, inode, data, cwd, cmd, fault>>

-----------------------------------------------------------------------------
(* mv: unlink dst, link src to dst, unlink src, each call a step.           *)

\* What every path leads to.
View == [path \in Path |-> Getino(path)]

\* Mutant of MvBegin: src is removed where dst was meant.
MvBeginSrc(src, dst) ==
    /\ Ready
    /\ \A i \in Ino : inode[i].links < MaxLinks
    /\ Getino(src) # 0
    /\ IF Getino(dst) = 0 THEN UNCHANGED <<imap, bmap, inode, data>> ELSE UnlinkFile(src)
    /\ cmd' = [pc |-> "link", src |-> src, dst |-> dst, ino |-> Getino(src), view |-> View]
    /\ UNCHANGED <<cwd, running, fault>>

\* ino and view are history: the inode to move, and all paths at the start.
MvBegin(src, dst) ==
    /\ Ready
    /\ \A i \in Ino : inode[i].links < MaxLinks
    /\ Getino(src) # 0
    /\ IF Getino(dst) = 0 THEN UNCHANGED <<imap, bmap, inode, data>> ELSE UnlinkFile(dst)
    /\ cmd' = [pc |-> "link", src |-> src, dst |-> dst, ino |-> Getino(src), view |-> View]
    /\ UNCHANGED <<cwd, running, fault>>

MvLink ==
    /\ cmd.pc = "link"
    /\ LinkFile(cmd.src, cmd.dst)
    /\ cmd' = [cmd EXCEPT !.pc = "unlink"]
    /\ UNCHANGED <<cwd, running, fault>>

MvLinkFails ==
    /\ cmd.pc = "link"
    /\ ~LinkOK(cmd.src, cmd.dst)
    /\ cmd' = Idle
    /\ UNCHANGED <<imap, bmap, inode, data, cwd, running, fault>>

\* Mutant of MvUnlink: the new name is removed.
MvUnlinkDst ==
    /\ cmd.pc = "unlink"
    /\ UnlinkFile(cmd.dst)
    /\ cmd' = Idle
    /\ UNCHANGED <<cwd, running, fault>>

MvUnlink ==
    /\ cmd.pc = "unlink"
    /\ UnlinkFile(cmd.src)
    /\ cmd' = Idle
    /\ UNCHANGED <<cwd, running, fault>>

MvUnlinkFails ==
    /\ cmd.pc = "unlink"
    /\ ~UnlinkOK(cmd.src)
    /\ cmd' = [cmd EXCEPT !.pc = "undo"]
    /\ UNCHANGED <<imap, bmap, inode, data, cwd, running, fault>>

MvUndo ==
    /\ cmd.pc = "undo"
    /\ IF UnlinkOK(cmd.dst) THEN UnlinkFile(cmd.dst) ELSE UNCHANGED <<imap, bmap, inode, data>>
    /\ cmd' = Idle
    /\ UNCHANGED <<cwd, running, fault>>

Next ==
    \/ \E path \in Path :
        \/ Mkdir(path) \/ Creat(path) \/ Unlink(path) \/ Rmdir(path) \/ Cd(path)
        \/ \E dst \in Path : Symlink(path, dst) \/ Link(path, dst) \/ MvBegin(path, dst)
        \/ \E uid \in Proc : Permit(path, uid)
    \/ CdRoot
    \/ \E uid \in Proc : Switch(uid)
    \/ MvLink \/ MvLinkFails \/ MvUnlink \/ MvUnlinkFails \/ MvUndo

Spec == Init /\ [][Next]_vars

-----------------------------------------------------------------------------
Dirs == {i \in imap : IsDir(i)}
Files == imap \ Dirs

\* The entries that name inode i, . and .. aside.
Names(i) == {dn \in Dirs \X Name : data[inode[dn[1]].blk][dn[2]] = i}

\* A file is freed exactly when its last name goes: i_links_count is the number
\* of entries that name it, and at least 1 (file_link, file_unlink, mv).
LinksCounted ==
    \A i \in Files : inode[i].links = Cardinality(Names(i)) /\ inode[i].links > 0

\* The directories form a tree: each has one name, in the directory its ..
\* leads to, its . leads to itself, and its link count, which dir_is_empty and
\* rmdir go by, is 2 and one for each subdirectory; and whoever goes up comes to
\* the root, for there is no other set of directories that one cannot leave upwards.
DirsFormTree ==
    /\ \A d \in Dirs :
        LET own == data[inode[d].blk] IN
        /\ own["."] = d
        /\ IF d = Root THEN own[".."] = Root /\ Names(d) = {}
           ELSE \E n \in Name : Names(d) = {<<own[".."], n>>}
        /\ inode[d].links = 2 + Cardinality({e \in Dirs \ {Root} : data[inode[e].blk][".."] = d})
    /\ \A C \in SUBSET Dirs :
        C # {} /\ (\A d \in C : data[inode[d].blk][".."] \in C) => Root \in C

\* No entry of a directory leads to an inode that has been freed, so that no
\* name comes to denote a file created later.
NoDanglingEntry ==
    \A d \in Dirs : \A n \in Entry :
        data[inode[d].blk][n] # 0 => data[inode[d].blk][n] \in imap

\* The current directory of a process, running or not, is a directory that
\* exists: nobody removes it under the process.
CwdExists == \A p \in Proc : cwd[p] \in Dirs

\* The block of a file or directory is allocated, and is no other inode's: a
\* command frees the blocks of the file it removes (clear_blocks).
BlocksOwned ==
    \A i \in imap : inode[i].type # "lnk" =>
        /\ inode[i].blk \in bmap
        /\ \A j \in imap \ {i} : inode[j].type # "lnk" => inode[j].blk # inode[i].blk

\* The allocated blocks that no file or directory owns.
Lost == bmap \ {inode[i].blk : i \in {j \in imap : inode[j].type # "lnk"}}

\* No command and no step of mv, whether it succeeds or fails, loses a block: what
\* is allocated and nobody's was so before. Only symlink, which writes the path
\* over the number of the block it allocated, loses one each time.
NoBlockLost ==
    [][\/ Lost' \subseteq Lost
       \/ /\ \E i \in imap' \ imap : inode'[i].type = "lnk"
          /\ Cardinality(Lost' \ Lost) = 1]_vars

\* "All commands work exactly the same way as they do in Unix/Linux"
\* (docs/specification.md), where a symlink takes no block or gives it back: no
\* block is allocated that nobody owns.
NothingLost == Lost = {}

\* A mv that succeeds has moved the file: dst leads to the inode src led to,
\* and src to nothing.
MvMoves ==
    [][MvUnlink => View'[cmd.dst] = cmd.ino /\ View'[cmd.src] = 0]_vars

\* A mv that fails, whichever of its calls fails, does not lose the file: src still
\* leads to it. (It is lost if dst led to the file too, as in mv f f.)
MvKeepsFile ==
    [][(MvLinkFails \/ MvUndo) /\ cmd.view[cmd.dst] # cmd.ino => View'[cmd.src] = cmd.ino]_vars
=============================================================================
