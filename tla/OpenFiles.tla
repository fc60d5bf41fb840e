----------------------------- MODULE OpenFiles -----------------------------
(***************************************************************************)
(* The open file table oft[NOFT] and the descriptor tables fd[NFD] of the  *)
(* processes: open, close, lseek, read, write, cat and cp (level2.c), with *)
(* switch (level3.c) and the creat and unlink of files that may be open.   *)
(*                                                                         *)
(* Commands run one at a time, but descriptors stay open between them and  *)
(* processes take turns, so commands of several processes interleave over  *)
(* the shared table.  cat and cp are sequences of calls of open, read,     *)
(* write and close; each call is a step here.                              *)
(*                                                                         *)
(* The unit of a file's data, of offsets and of read and write is a block; *)
(* every file has one link, and at most one path (module Tree has links).  *)
(***************************************************************************)
EXTENDS Integers, Sequences, FiniteSets

CONSTANTS
    Proc,       \* the processes, by uid
    Dev,        \* the mounted devices
    Ino,        \* the inode numbers of a device: 1 .. n
    Path,       \* the paths of regular files
    DevOf,      \* the device that each path is on
    Data,       \* the contents a block may have
    NFD, NOFT,  \* sizes of the tables (type.h: 10, level2.c: 100)
    MaxLen,     \* bound: blocks in a file
    MaxPins     \* bound: references that opens leave on an inode

ASSUME ProcAssumption == Proc \subseteq Nat /\ IsFiniteSet(Proc) /\ 0 \in Proc
ASSUME InoAssumption == Ino \subseteq Nat \ {0}
ASSUME PathAssumption == DevOf \in [Path -> Dev]
ASSUME SizeAssumption == NFD \in Nat \ {0} /\ NOFT \in Nat \ {0}
ASSUME BoundAssumption == MaxLen \in Nat /\ MaxPins \in Nat

NULL == -1
NoKey == <<0, 0>>
Hole == 0                     \* a block inside the file that nobody wrote
Key == Dev \X Ino
OftSlot == 0 .. NOFT - 1
Fd == 0 .. NFD - 1

\* Modes of open.
R == 0
W == 1
RW == 2
APPEND == 3

VARIABLES
    name,     \* name[path]: the inode a path leads to, or NoKey
    content,  \* content[k]: the data of an inode, its length is i_size
    pins,     \* pins[k]: the references that opens hold on the minode of k
    oft,      \* the open file table
    fd,       \* fd[p][f]: the entry that descriptor f of process p points to
    running,  \* the process whose commands are executed
    cmd,      \* the cat or cp that is being executed
    stale     \* history: entries whose file was unlinked since they were set

vars == <<name, content, pins, oft, fd, running, cmd, stale>>

OFT == [inodeptr: Key \cup {NoKey}, mode: {R, W, RW, APPEND},
        ref_count: Nat, offset: 0 .. MaxLen]

FreeEntry == [inodeptr |-> NoKey, mode |-> R, ref_count |-> 0, offset |-> 0]

\* pc is the next call of the command, buf the block it carries. The last
\* three fields are history: the descriptors the process had when the command
\* began, the data of src then, and whether src and dst were in nobody's use.
Idle == [pc |-> "idle", src |-> NULL, dst |-> NULL, fd |-> NULL, gd |-> NULL,
         buf |-> <<>>, fds |-> <<>>, before |-> <<>>, apart |-> FALSE]

Content == UNION {[1 .. n -> Data \cup {Hole}] : n \in 0 .. MaxLen}

TypeOK ==
    /\ name \in [Path -> Key \cup {NoKey}]
    /\ content \in [Key -> Content]
    /\ pins \in [Key -> 0 .. MaxPins]
    /\ oft \in [OftSlot -> OFT]
    /\ fd \in [Proc -> [Fd -> OftSlot \cup {NULL}]]
    /\ running \in Proc
    /\ cmd.pc \in {"idle", "catRead", "catClose", "cpAccess", "cpOpen",
                   "cpRead", "cpWrite", "cpCloseSrc", "cpCloseDst"}
    /\ cmd.fd \in Fd \cup {NULL} /\ cmd.gd \in Fd \cup {NULL}
    /\ stale \subseteq OftSlot

\* A simulator that has just mounted its root: nothing is open.
Init ==
    /\ name \in [Path -> Key \cup {NoKey}]
    /\ \A p, q \in Path : name[p] = name[q] /\ name[p] # NoKey => p = q
    /\ \A p \in Path : name[p] # NoKey => name[p][1] = DevOf[p]
    /\ content = [k \in Key |-> <<>>]
    /\ pins = [k \in Key |-> 0]
    /\ oft = [i \in OftSlot |-> FreeEntry]
    /\ fd = [p \in Proc |-> [f \in Fd |-> NULL]]
    /\ running = 0
    /\ cmd = Idle
    /\ stale = {}

-----------------------------------------------------------------------------
(* The tables.                                                             *)

InUse(i) == oft[i].ref_count > 0

\* find_proc_fd returns f: the first free descriptor of the process.
IsFd(f) == /\ fd[running][f] = NULL
           /\ \A g \in 0 .. f - 1 : fd[running][g] # NULL

\* Mutant of IsOft: the first free entry, without looking behind it.
IsOftFirstFree(i, k) ==
    /\ ~InUse(i)
    /\ \A j \in 0 .. i - 1 : InUse(j)

\* find_oft returns i: the entry in use with the inode NUMBER of k, or else
\* the first free entry. Devices are not compared.
IsOft(i, k) ==
    LET Matches(j) == InUse(j) /\ oft[j].inodeptr[2] = k[2]
    IN  \/ Matches(i) /\ \A j \in 0 .. i - 1 : ~Matches(j)
        \/ /\ \A j \in OftSlot : ~Matches(j)
           /\ ~InUse(i) /\ \A j \in 0 .. i - 1 : InUse(j)

SecondWriter(i, mode) == mode # R /\ oft[i].mode # R

\* Why file_open returns -1. The reference it took is dropped again.
OpenFails(path, mode) ==
    \/ name[path] = NoKey
    \/ \A f \in Fd : ~IsFd(f)
    \/ \A i \in OftSlot : IsOft(i, name[path]) => SecondWriter(i, mode)

\* Mutant of OpenJoin: the new descriptor is not counted.
OpenJoinUncounted(path, f) ==
    /\ name[path] # NoKey
    /\ IsFd(f)
    /\ \E i \in OftSlot :
        /\ IsOft(i, name[path])
        /\ InUse(i) /\ oft[i].mode = R
        /\ fd' = [fd EXCEPT ![running][f] = i]
    /\ pins' = [pins EXCEPT ![name[path]] = @ + 1]
    /\ UNCHANGED <<content, oft, stale>>

\* file_open joins an entry that is open for reading, at its offset.
OpenJoin(path, f) ==
    /\ name[path] # NoKey
    /\ IsFd(f)
    /\ \E i \in OftSlot :
        /\ IsOft(i, name[path])
        /\ InUse(i) /\ oft[i].mode = R
        /\ oft' = [oft EXCEPT ![i].ref_count = @ + 1]
        /\ fd' = [fd EXCEPT ![running][f] = i]
    /\ pins' = [pins EXCEPT ![name[path]] = @ + 1]
    /\ UNCHANGED <<content, stale>>

\* file_open behind its tests, with the offset each entry would
\* get and the references it keeps.
OpenAt(path, mode, f, offset, references) ==
    LET k == name[path] IN
    /\ k # NoKey
    /\ IsFd(f)
    /\ \E i \in OftSlot :
        /\ IsOft(i, k)
        /\ ~SecondWriter(i, mode)
        /\ ~(InUse(i) /\ mode = R /\ oft[i].mode = R)
        /\ oft' = [oft EXCEPT ![i] =
                [inodeptr |-> k, mode |-> mode, ref_count |-> @.ref_count + 1,
                 offset |-> offset[i]]]
        /\ fd' = [fd EXCEPT ![running][f] = i]
        /\ stale' = stale \ {i}
    /\ content' = IF mode = W THEN [content EXCEPT ![k] = <<>>] ELSE content
    /\ pins' = [pins EXCEPT ![k] = @ + references]

\* Mutants of OpenSet: an append begins one past the end; an entry that is
\* open keeps its offset; the reference of iget is dropped on success too.
OpenSetPastEnd(path, mode, f) ==
    OpenAt(path, mode, f,
           [i \in OftSlot |-> IF mode = APPEND THEN Len(content[name[path]]) + 1 ELSE 0], 1)
OpenSetKeepsOffset(path, mode, f) ==
    OpenAt(path, mode, f,
           [i \in OftSlot |-> IF mode = APPEND THEN Len(content[name[path]]) ELSE oft[i].offset], 1)
OpenSetUnpinned(path, mode, f) ==
    OpenAt(path, mode, f,
           [i \in OftSlot |-> IF mode = APPEND THEN Len(content[name[path]]) ELSE 0], 0)

\* file_open sets the entry up, a free one or one that others have open: it
\* truncates for W, and the mode, the offset and the inode are replaced.
OpenSet(path, mode, f) ==
    OpenAt(path, mode, f,
           [i \in OftSlot |-> IF mode = APPEND THEN Len(content[name[path]]) ELSE 0], 1)

OpenSucceeds(path, mode, f) ==
    OpenSet(path, mode, f) \/ (mode = R /\ OpenJoin(path, f))

\* file_close: only the last close of an entry drops a reference.
CloseFd(f) ==
    /\ fd[running][f] # NULL
    /\ fd' = [fd EXCEPT ![running][f] = NULL]
    /\ LET i == fd[running][f] IN
       IF oft[i].ref_count > 1
       THEN /\ oft' = [oft EXCEPT ![i].ref_count = @ - 1]
            /\ UNCHANGED <<pins, stale>>
       ELSE /\ oft' = [oft EXCEPT ![i] = FreeEntry]
            /\ pins' = [pins EXCEPT ![oft[i].inodeptr] = @ - 1]
            /\ stale' = stale \ {i}
    /\ UNCHANGED content

\* What file_read(f, buf, n) puts into buf; nothing if it returns -1 or 0.
Readable(f, n) ==
    LET op == oft[fd[running][f]]
        data == content[op.inodeptr]
    IN  IF op.mode \in {R, RW}
        THEN SubSeq(data, op.offset + 1,
                    IF op.offset + n < Len(data) THEN op.offset + n ELSE Len(data))
        ELSE <<>>

\* Mutant of ReadFd: the offset stays where it was.
ReadFdStays(f, n) ==
    /\ fd[running][f] # NULL
    /\ Readable(f, n) # <<>>
    /\ UNCHANGED <<content, pins, oft, fd, stale>>

\* file_read(f, buf, n) returns n > 0 and moves the offset past what it read.
ReadFd(f, n) ==
    /\ fd[running][f] # NULL
    /\ Readable(f, n) # <<>>
    /\ oft' = [oft EXCEPT ![fd[running][f]].offset = @ + Len(Readable(f, n))]
    /\ UNCHANGED <<content, pins, fd, stale>>

\* file_write(f, buf, n): overwrite and extend; the file never shrinks.
WriteFd(f, buf) ==
    /\ fd[running][f] # NULL
    /\ LET i == fd[running][f]
           op == oft[i]
           old == content[op.inodeptr]
           end == op.offset + Len(buf)
       IN /\ op.mode # R
          /\ end <= MaxLen
          /\ content' = [content EXCEPT ![op.inodeptr] =
                [j \in 1 .. (IF end > Len(old) THEN end ELSE Len(old)) |->
                    IF j > op.offset /\ j <= end THEN buf[j - op.offset]
                    ELSE IF j <= Len(old) THEN old[j] ELSE Hole]]
          /\ oft' = [oft EXCEPT ![i].offset = end]
    /\ UNCHANGED <<pins, fd, stale>>

\* file_creat: the first free inode of the device, empty.
CreatFile(path) ==
    /\ name[path] = NoKey
    /\ \E k \in Key :
        /\ k[1] = DevOf[path]
        /\ \A p \in Path : name[p] # k
        /\ \A j \in Ino : j < k[2] => \E p \in Path : name[p] = <<k[1], j>>
        /\ name' = [name EXCEPT ![path] = k]
        /\ content' = [content EXCEPT ![k] = <<>>]

-----------------------------------------------------------------------------
(* The commands of a user, each executed to its end before the next begins. *)

Ready == cmd.pc = "idle"

Open(path, mode) ==
    /\ Ready
    /\ name[path] # NoKey /\ pins[name[path]] < MaxPins
    /\ \E f \in Fd : OpenSucceeds(path, mode, f)
    /\ UNCHANGED <<name, running, cmd>>

OpenRefused(path, mode) ==
    /\ Ready
    /\ OpenFails(path, mode)
    /\ UNCHANGED vars

Close(f) ==
    /\ Ready
    /\ CloseFd(f)
    /\ UNCHANGED <<name, running, cmd>>

\* pos is compared with i_size as an unsigned number.
Lseek(f, pos) ==
    /\ Ready
    /\ fd[running][f] # NULL
    /\ pos < Len(content[oft[fd[running][f]].inodeptr])
    /\ oft' = [oft EXCEPT ![fd[running][f]].offset = pos]
    /\ UNCHANGED <<name, content, pins, fd, running, cmd, stale>>

Read(f, n) ==
    /\ Ready
    /\ ReadFd(f, n)
    /\ UNCHANGED <<name, running, cmd>>

Write(f, buf) ==
    /\ Ready
    /\ WriteFd(f, buf)
    /\ UNCHANGED <<name, running, cmd>>

\* pswitch
Switch(uid) ==
    /\ Ready
    /\ running' = uid
    /\ UNCHANGED <<name, content, pins, oft, fd, cmd, stale>>

Creat(path) ==
    /\ Ready
    /\ CreatFile(path)
    /\ UNCHANGED <<pins, oft, fd, running, cmd, stale>>

\* file_unlink of the only link: the inode is truncated and freed, whether or
\* not it is open. Who may write the file is left out (chown and chmod can change
\* it to anything): any process may get past has_perm.
Unlink(path) ==
    LET k == name[path] IN
    /\ Ready
    /\ k # NoKey
    /\ name' = [name EXCEPT ![path] = NoKey]
    /\ content' = [content EXCEPT ![k] = <<>>]
    /\ stale' = stale \cup {i \in OftSlot : oft[i].inodeptr = k}
    /\ UNCHANGED <<pins, oft, fd, running, cmd>>

-----------------------------------------------------------------------------
(* cat and cp: every call is a step, and nothing else runs in between.      *)

\* Nobody has the inode NUMBER of path open.
Unopened(path) == \A i \in OftSlot : InUse(i) => oft[i].inodeptr[2] # name[path][2]

\* The next call of the command; the calls change neither names nor process.
Call(pc) == cmd' = [cmd EXCEPT !.pc = pc]

CatOpen(path) ==
    /\ Ready
    /\ name[path] # NoKey /\ pins[name[path]] < MaxPins
    /\ \E f \in Fd :
        /\ OpenSucceeds(path, R, f)
        /\ cmd' = [Idle EXCEPT !.pc = "catRead", !.src = path, !.fd = f,
                               !.fds = fd[running]]
    /\ UNCHANGED <<name, running>>

CatRead ==
    /\ cmd.pc = "catRead"
    /\ ReadFd(cmd.fd, 1)
    /\ UNCHANGED <<name, running, cmd>>

CatClose ==
    /\ cmd.pc = "catRead"
    /\ Readable(cmd.fd, 1) = <<>>
    /\ CloseFd(cmd.fd)
    /\ cmd' = Idle
    /\ UNCHANGED <<name, running>>

CpOpenSrc(src, dst) ==
    /\ Ready
    /\ name[src] # NoKey
    /\ \A k \in Key : pins[k] < MaxPins
    /\ src = dst => pins[name[src]] + 2 <= MaxPins
    /\ \E f \in Fd :
        /\ OpenSucceeds(src, R, f)
        /\ cmd' = [Idle EXCEPT !.pc = "cpAccess", !.src = src, !.dst = dst, !.fd = f,
                     !.fds = fd[running], !.before = content[name[src]],
                     !.apart = /\ src # dst /\ Unopened(src) /\ Unopened(dst)
                               /\ name[src][2] # name[dst][2]]
    /\ UNCHANGED <<name, running>>

\* cp creates dst if it does not exist; apart has to hold of the new inode.
CpAccess ==
    /\ cmd.pc = "cpAccess"
    /\ IF name[cmd.dst] = NoKey
       THEN /\ CreatFile(cmd.dst)
            /\ cmd' = [cmd EXCEPT !.pc = "cpOpen",
                         !.apart = @ /\ \A i \in OftSlot :
                             InUse(i) => oft[i].inodeptr[2] # name'[cmd.dst][2]]
       ELSE Call("cpOpen") /\ UNCHANGED <<name, content>>
    /\ UNCHANGED <<pins, oft, fd, running, stale>>

\* Mutant of CpAccessFails: cp returns at once, src stays open.
CpAccessFailsLeaks ==
    /\ cmd.pc = "cpAccess"
    /\ name[cmd.dst] = NoKey
    /\ cmd' = Idle
    /\ UNCHANGED <<name, content, pins, oft, fd, running, stale>>

\* dst does not exist and file_creat(dst) fails: its parent is missing or is not
\* a directory. cp goes on to its end with gd = -1.
CpAccessFails ==
    /\ cmd.pc = "cpAccess"
    /\ name[cmd.dst] = NoKey
    /\ Call("cpCloseSrc")
    /\ UNCHANGED <<name, content, pins, oft, fd, running, stale>>

\* Mutant of CpOpenDst: dst is not truncated.
CpOpenDstAppends ==
    /\ cmd.pc = "cpOpen"
    /\ \E g \in Fd :
        /\ OpenSucceeds(cmd.dst, APPEND, g)
        /\ cmd' = [cmd EXCEPT !.pc = "cpRead", !.gd = g]
    /\ UNCHANGED <<name, running>>

CpOpenDst ==
    /\ cmd.pc = "cpOpen"
    /\ \E g \in Fd :
        /\ OpenSucceeds(cmd.dst, W, g)
        /\ cmd' = [cmd EXCEPT !.pc = "cpRead", !.gd = g]
    /\ UNCHANGED <<name, running>>

CpOpenDstFails ==
    /\ cmd.pc = "cpOpen"
    /\ OpenFails(cmd.dst, W)
    /\ Call("cpCloseSrc")
    /\ UNCHANGED <<name, content, pins, oft, fd, running, stale>>

CpRead ==
    /\ cmd.pc = "cpRead"
    /\ ReadFd(cmd.fd, 1)
    /\ cmd' = [cmd EXCEPT !.pc = "cpWrite", !.buf = Readable(cmd.fd, 1)]
    /\ UNCHANGED <<name, running>>

CpWrite ==
    /\ cmd.pc = "cpWrite"
    /\ WriteFd(cmd.gd, cmd.buf)
    /\ cmd' = [cmd EXCEPT !.pc = "cpRead", !.buf = <<>>]
    /\ UNCHANGED <<name, running>>

CpReadEnds ==
    /\ cmd.pc = "cpRead"
    /\ Readable(cmd.fd, 1) = <<>>
    /\ Call("cpCloseSrc")
    /\ UNCHANGED <<name, content, pins, oft, fd, running, stale>>

CpCloseSrc ==
    /\ cmd.pc = "cpCloseSrc"
    /\ CloseFd(cmd.fd)
    /\ IF cmd.gd = NULL THEN cmd' = Idle ELSE Call("cpCloseDst")
    /\ UNCHANGED <<name, running>>

CpCloseDst ==
    /\ cmd.pc = "cpCloseDst"
    /\ CloseFd(cmd.gd)
    /\ cmd' = Idle
    /\ UNCHANGED <<name, running>>

CommandStep ==
    \/ CatRead \/ CatClose
    \/ CpAccess \/ CpAccessFails \/ CpOpenDst \/ CpOpenDstFails \/ CpRead \/ CpWrite \/ CpReadEnds
    \/ CpCloseSrc \/ CpCloseDst

\* Blocks a user writes at once.
Buffer == UNION {[1 .. n -> Data] : n \in 1 .. MaxLen}

Next ==
    \/ \E path \in Path :
        \/ \E mode \in {R, W, RW, APPEND} : Open(path, mode) \/ OpenRefused(path, mode)
        \/ Creat(path)
        \/ Unlink(path)
        \/ CatOpen(path)
        \/ \E dst \in Path : CpOpenSrc(path, dst)
    \/ \E f \in Fd :
        \/ Close(f)
        \/ \E pos \in 0 .. MaxLen : Lseek(f, pos)
        \/ \E n \in 1 .. MaxLen : Read(f, n)
        \/ \E buf \in Buffer : Write(f, buf)
    \/ \E uid \in Proc : Switch(uid)
    \/ CommandStep

Spec == Init /\ [][Next]_vars

\* A command that has begun runs on: the simulator is one sequential program
\* and its calls do not block.
FairSpec == Spec /\ WF_vars(CommandStep)

-----------------------------------------------------------------------------
Openers(i) == {pf \in Proc \X Fd : fd[pf[1]][pf[2]] = i}

\* The ref_count of an entry is the number of descriptors that point to it, in
\* all processes; an entry nobody points to is as it was at the start, which
\* file_open relies on: it looks at the mode of the free entry it was given.
EntriesCounted ==
    \A i \in OftSlot :
        /\ oft[i].ref_count = Cardinality(Openers(i))
        /\ ~InUse(i) => oft[i] = FreeEntry

\* An inode is open through one entry only, so that all its descriptors have
\* the mode and the offset that file_open and the others see and check.
OneEntryPerInode ==
    \A i, j \in OftSlot :
        InUse(i) /\ InUse(j) /\ oft[i].inodeptr = oft[j].inodeptr => i = j

\* The minode that an entry points to is referenced as long as the entry is in
\* use: iput cannot recycle it under an open descriptor.
PinnedWhileOpen ==
    \A i \in OftSlot : InUse(i) => pins[oft[i].inodeptr] > 0

\* An offset does not lie beyond the end of a file that still has a name,
\* whoever truncates it: a write leaves no hole.
OffsetInFile ==
    \A i \in OftSlot :
        InUse(i) /\ i \notin stale => oft[i].offset <= Len(content[oft[i].inodeptr])

\* cat and cp close what they opened, however they end: the process has the
\* descriptors it had before, and cp's two descriptors are never confused.
CommandsCloseTheirs ==
    [][cmd.pc # "idle" /\ cmd'.pc = "idle" => fd'[running] = cmd.fds]_vars

\* cp of a file that nobody has open to a different one that nobody has open
\* makes dst equal to what src was, and leaves src alone.
CpCopies ==
    [][cmd.pc = "cpCloseDst" /\ cmd.apart
         => content[name[cmd.dst]] = cmd.before /\ content[name[cmd.src]] = cmd.before]_vars

\* cat and cp come to an end, even when src and dst are the same open file.
CommandsFinish == cmd.pc # "idle" ~> cmd.pc = "idle"

\* "The refCount represents how many processes are using this minode"
\* (docs/fs-diagram.md): an inode that is not open is not referenced by opens.
PinsGivenBack ==
    \A k \in Key : pins[k] > 0 => \E i \in OftSlot : InUse(i) /\ oft[i].inodeptr = k

\* A file that is unlinked while it is open keeps its inode until it is closed:
\* no new file is given an inode that a descriptor still reads and writes.
OpenInodeNotReused ==
    \A i \in stale : InUse(i) => \A path \in Path : name[path] # oft[i].inodeptr
=============================================================================
