----------------------------- MODULE InodeCache -----------------------------
(***************************************************************************)
(* The table m_inodes[NMINODES] of in-memory inodes: iget, iput and quit   *)
(* (util.c, command.c).  A slot is in use while its ref_count is positive; *)
(* it is written back to the disk by the iput that drops the last          *)
(* reference, and only if it is dirty.                                     *)
(*                                                                         *)
(* The program is sequential, but many pointers into the table are alive   *)
(* at once: root, the cwd of each process, the inodeptr of each open file, *)
(* the mounted_inode of each mount, and the one or two local pointers of   *)
(* the command that runs.  Each of them is a Client here, and they take,   *)
(* use and drop their references in every order; file_open also loses      *)
(* some, which keeps their slots in use until quit.                        *)
(***************************************************************************)

EXTENDS Integers, FiniteSets

CONSTANTS
    Key,       \* the inodes: pairs (dev, ino)
    Inode,     \* the values an inode may have
    Client,    \* the MINODE* variables of the program
    NoKey,     \* the (0, 0) of a slot that iput has cleared
    NMINODES,  \* number of slots (type.h: 100)
    MaxLost    \* bound: references to a slot that opens may lose

ASSUME NMINODESAssumption == NMINODES \in Nat \ {0}
ASSUME ClientAssumption == IsFiniteSet(Client)
ASSUME CacheKeyAssumption == NoKey \notin Key
ASSUME LostAssumption == MaxLost \in Nat

Slot == 0 .. NMINODES - 1
NULL == -1

VARIABLES
    disk,      \* disk[k]: the inode in the inode table of its device
    m_inodes,  \* the slots
    ptr,       \* ptr[c]: the slot c points at, or NULL
    seen,      \* history: the value each client read last
    lost       \* history: lost[i]: the references to slot i that no pointer has

vars == <<disk, m_inodes, ptr, seen, lost>>

MINODE == [key: Key \cup {NoKey}, ref_count: Nat, dirty: {0, 1}, inode: Inode]

TypeOK ==
    /\ disk \in [Key -> Inode]
    /\ m_inodes \in [Slot -> MINODE]
    /\ ptr \in [Client -> Slot \cup {NULL}]
    /\ seen \in [Client -> Inode]
    /\ lost \in [Slot -> 0 .. MaxLost]

Cached(i, k) == m_inodes[i].ref_count > 0 /\ m_inodes[i].key = k

Free(i) == m_inodes[i].ref_count = 0

\* Mutant of Cleared: the dirty flag survives the write-back.
ClearedDirty(m) == [key |-> NoKey, ref_count |-> 0, dirty |-> m.dirty, inode |-> m.inode]

\* What iput leaves of a slot when nobody refers to it any more.
Cleared(m) == [key |-> NoKey, ref_count |-> 0, dirty |-> 0, inode |-> m.inode]

\* A program that has just started: static storage is zero, init() sets every
\* ref_count to 0, and the disk is what the last run left.
Init ==
    /\ disk \in [Key -> Inode]
    /\ m_inodes \in [Slot -> [key: {NoKey}, ref_count: {0}, dirty: {0}, inode: Inode]]
    /\ ptr = [c \in Client |-> NULL]
    /\ seen \in [Client -> Inode]
    /\ lost = [i \in Slot |-> 0]

-----------------------------------------------------------------------------
\* Mutant of IgetHit: the new reference is not counted.
IgetHitUncounted(c, k) ==
    /\ ptr[c] = NULL
    /\ \E i \in Slot : Cached(i, k) /\ ptr' = [ptr EXCEPT ![c] = i]
    /\ UNCHANGED <<disk, m_inodes, seen, lost>>

\* iget finds k in the table and takes one more reference to its slot.
IgetHit(c, k) ==
    /\ ptr[c] = NULL
    /\ \E i \in Slot :
        /\ Cached(i, k)
        /\ \A j \in 0 .. i - 1 : ~Cached(j, k)
        /\ m_inodes' = [m_inodes EXCEPT ![i].ref_count = @ + 1]
        /\ ptr' = [ptr EXCEPT ![c] = i]
    /\ UNCHANGED <<disk, seen, lost>>

\* Mutant of IgetMiss: the free slot is taken before the search is over.
IgetMissUnsearched(c, k) ==
    /\ ptr[c] = NULL
    /\ \E i \in Slot :
        /\ Free(i)
        /\ \A j \in 0 .. i - 1 : ~Free(j) /\ ~Cached(j, k)
        /\ m_inodes' = [m_inodes EXCEPT ![i] =
                [key |-> k, ref_count |-> 1, dirty |-> @.dirty, inode |-> disk[k]]]
        /\ ptr' = [ptr EXCEPT ![c] = i]
    /\ UNCHANGED <<disk, seen, lost>>

\* iget does not find k, takes the first free slot and loads k from the disk.
\* The dirty flag of the slot is left as it is.
IgetMiss(c, k) ==
    /\ ptr[c] = NULL
    /\ \A i \in Slot : ~Cached(i, k)
    /\ \E i \in Slot :
        /\ Free(i)
        /\ \A j \in 0 .. i - 1 : ~Free(j)
        /\ m_inodes' = [m_inodes EXCEPT ![i] =
                [key |-> k, ref_count |-> 1, dirty |-> @.dirty, inode |-> disk[k]]]
        /\ ptr' = [ptr EXCEPT ![c] = i]
    /\ UNCHANGED <<disk, seen, lost>>

\* iget does not find k and every slot is taken: it returns NULL.
IgetFull(c, k) ==
    /\ ptr[c] = NULL
    /\ \A i \in Slot : ~Cached(i, k) /\ ~Free(i)
    /\ UNCHANGED vars

\* A pointer is copied and its target's ref_count incremented by hand:
\* running->cwd = root; root->ref_count++.
CopyPointer(c, d) ==
    /\ ptr[c] = NULL
    /\ ptr[d] # NULL
    /\ ptr' = [ptr EXCEPT ![c] = ptr[d]]
    /\ m_inodes' = [m_inodes EXCEPT ![ptr[d]].ref_count = @ + 1]
    /\ UNCHANGED <<disk, seen, lost>>

\* A command reads a field of mip->inode.
ReadInode(c) ==
    /\ ptr[c] # NULL
    /\ seen' = [seen EXCEPT ![c] = m_inodes[ptr[c]].inode]
    /\ UNCHANGED <<disk, m_inodes, ptr, lost>>

\* A command changes mip->inode and sets mip->dirty.
WriteInode(c, v) ==
    /\ ptr[c] # NULL
    /\ m_inodes' = [m_inodes EXCEPT ![ptr[c]] = [@ EXCEPT !.inode = v, !.dirty = 1]]
    /\ UNCHANGED <<disk, ptr, seen, lost>>

\* Mutant of IputShared: the pointer is kept and may be put again.
IputSharedAgain(c) ==
    /\ ptr[c] # NULL
    /\ m_inodes' = [m_inodes EXCEPT ![ptr[c]].ref_count = @ - 1]
    /\ UNCHANGED <<disk, ptr, seen, lost>>

\* iput while another reference remains.
IputShared(c) ==
    /\ ptr[c] # NULL
    /\ m_inodes[ptr[c]].ref_count > 1
    /\ m_inodes' = [m_inodes EXCEPT ![ptr[c]].ref_count = @ - 1]
    /\ ptr' = [ptr EXCEPT ![c] = NULL]
    /\ UNCHANGED <<disk, seen, lost>>

\* iput of the last reference: write back if dirty, then clear the slot.
IputLast(c) ==
    /\ ptr[c] # NULL
    /\ m_inodes[ptr[c]].ref_count <= 1
    /\ disk' = IF m_inodes[ptr[c]].dirty = 1
               THEN [disk EXCEPT ![m_inodes[ptr[c]].key] = m_inodes[ptr[c]].inode]
               ELSE disk
    /\ m_inodes' = [m_inodes EXCEPT ![ptr[c]] = Cleared(@)]
    /\ ptr' = [ptr EXCEPT ![c] = NULL]
    /\ UNCHANGED <<seen, lost>>

\* A pointer is given up without iput, its reference stays counted: file_open
\* forgets the one it took when it joins an entry that is open for reading,
\* and overwrites the inodeptr of an entry that it sets anew.
LosePointer(c) ==
    /\ ptr[c] # NULL
    /\ lost[ptr[c]] < MaxLost
    /\ ptr' = [ptr EXCEPT ![c] = NULL]
    /\ lost' = [lost EXCEPT ![ptr[c]] = @ + 1]
    /\ UNCHANGED <<disk, m_inodes, seen>>

\* Mutant of Quit: only slots that nobody shares are written back.
QuitUnshared ==
    /\ disk' = [k \in Key |->
                  IF \E i \in Slot : Cached(i, k) /\ m_inodes[i].dirty = 1 /\ m_inodes[i].ref_count = 1
                  THEN m_inodes[CHOOSE i \in Slot : Cached(i, k) /\ m_inodes[i].dirty = 1].inode
                  ELSE disk[k]]
    /\ m_inodes' = [i \in Slot |-> Cleared(m_inodes[i])]
    /\ ptr' = [c \in Client |-> NULL]
    /\ lost' = [i \in Slot |-> 0]
    /\ UNCHANGED seen

\* quit writes every dirty slot in use back, whatever its ref_count; the
\* program exits and the next one starts with an empty table.
Quit ==
    /\ disk' = [k \in Key |->
                  IF \E i \in Slot : Cached(i, k) /\ m_inodes[i].dirty = 1
                  THEN m_inodes[CHOOSE i \in Slot : Cached(i, k) /\ m_inodes[i].dirty = 1].inode
                  ELSE disk[k]]
    /\ m_inodes' = [i \in Slot |-> Cleared(m_inodes[i])]
    /\ ptr' = [c \in Client |-> NULL]
    /\ lost' = [i \in Slot |-> 0]
    /\ UNCHANGED seen

Next ==
    \/ \E c \in Client :
        \/ \E k \in Key : IgetHit(c, k) \/ IgetMiss(c, k) \/ IgetFull(c, k)
        \/ \E d \in Client : CopyPointer(c, d)
        \/ ReadInode(c)
        \/ \E v \in Inode : WriteInode(c, v)
        \/ IputShared(c)
        \/ IputLast(c)
        \/ LosePointer(c)
    \/ Quit

Spec == Init /\ [][Next]_vars

-----------------------------------------------------------------------------
\* "The returned minode is unique (i.e. only one copy in memory)"
\* (util.c, comment of iget): two slots in use never hold the same inode.
UniqueCopy ==
    \A i, j \in Slot : \A k \in Key : Cached(i, k) /\ Cached(j, k) => i = j

Holders(i) == {c \in Client : ptr[c] = i}

\* The ref_count of a slot is the number of pointers to it and of references
\* that opens have lost: a slot is never recycled under a pointer, and what
\* keeps a slot that nobody points at is a lost reference and nothing else.
RefCountAccounted ==
    \A i \in Slot : m_inodes[i].ref_count = Cardinality(Holders(i)) + lost[i]

\* A slot in use holds a real inode; unless it is dirty it agrees with the
\* disk; a free slot is not dirty, which iget relies on: it does not clear
\* the flag of the slot it takes.
CleanAgreesWithDisk ==
    \A i \in Slot :
        /\ ~Free(i) => m_inodes[i].key \in Key
        /\ ~Free(i) /\ m_inodes[i].dirty = 0 => m_inodes[i].inode = disk[m_inodes[i].key]
        /\ Free(i) => m_inodes[i].dirty = 0

\* The refinement mapping: the current value of an inode is the one in its
\* slot if it has one, and the one on the disk otherwise.
Current ==
    [k \in Key |->
        IF \E i \in Slot : Cached(i, k)
        THEN m_inodes[CHOOSE i \in Slot : Cached(i, k)].inode
        ELSE disk[k]]

Denotes == [c \in Client |-> IF ptr[c] = NULL THEN NoKey ELSE m_inodes[ptr[c]].key]

Store == INSTANCE InodeStore WITH store <- Current, handle <- Denotes

\* The table implements InodeStore: whatever slots are recycled, shared,
\* written back or kept by a lost reference, each pointer reads and writes the
\* one current value of the inode it was taken for, and quit loses nothing.
ImplementsStore == Store!Spec
=============================================================================
