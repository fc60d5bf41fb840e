----------------------------- MODULE InodeStore -----------------------------
(***************************************************************************)
(* What the in-memory inode table of util.c promises to the commands that  *)
(* use it: every inode has ONE current value, whoever holds a pointer to   *)
(* it reads that value, a write is seen by every other holder at once, and *)
(* no write is lost when the simulator quits and is started again.  There  *)
(* is no table, no reference count and no disk here; InodeCache is shown   *)
(* to implement this module.                                               *)
(***************************************************************************)

CONSTANTS
    Key,     \* the inodes: pairs (dev, ino)
    Inode,   \* the values an inode may have
    Client,  \* the MINODE* variables of the program: root, proc[i].cwd, mip, ...
    NoKey    \* what a pointer that holds no inode denotes

VARIABLES
    store,   \* store[k]: the current value of inode k
    handle,  \* handle[c]: the inode that pointer c denotes
    seen     \* seen[c]: what c read last

vars == <<store, handle, seen>>

TypeOK ==
    /\ store \in [Key -> Inode]
    /\ handle \in [Client -> Key \cup {NoKey}]
    /\ seen \in [Client -> Inode]

Init ==
    /\ store \in [Key -> Inode]
    /\ handle = [c \in Client |-> NoKey]
    /\ seen \in [Client -> Inode]

\* c comes to denote k (iget, or a pointer copied with ref_count++).
Acquire(c, k) ==
    /\ handle[c] = NoKey
    /\ handle' = [handle EXCEPT ![c] = k]
    /\ UNCHANGED <<store, seen>>

Read(c) ==
    /\ handle[c] # NoKey
    /\ seen' = [seen EXCEPT ![c] = store[handle[c]]]
    /\ UNCHANGED <<store, handle>>

Write(c, v) ==
    /\ handle[c] # NoKey
    /\ store' = [store EXCEPT ![handle[c]] = v]
    /\ UNCHANGED <<handle, seen>>

Release(c) ==
    /\ handle[c] # NoKey
    /\ handle' = [handle EXCEPT ![c] = NoKey]
    /\ UNCHANGED <<store, seen>>

\* quit, then a new start of the simulator on the same disk.
Restart ==
    /\ handle' = [c \in Client |-> NoKey]
    /\ UNCHANGED <<store, seen>>

Next ==
    \/ \E c \in Client :
        \/ \E k \in Key : Acquire(c, k)
        \/ Read(c)
        \/ \E v \in Inode : Write(c, v)
        \/ Release(c)
    \/ Restart

Spec == Init /\ [][Next]_vars
=============================================================================
