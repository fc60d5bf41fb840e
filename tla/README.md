# Verification of the EXT2 file system simulator

The program (`src/src`) is a single-process shell over one or more EXT2 disk
images. It simulates a kernel: two processes (`proc[NPROC]`), an in-memory inode
table (`m_inodes[NMINODES]`), an open file table (`oft[NOFT]`), a mount table
(`mounttab[NMOUNT]`), and the bitmaps, inodes, directories and data blocks on
disk. One command runs at a time. The hard part is therefore not threads but
*sharing*: minodes, table entries, inode and block numbers are shared by
processes, descriptors and names, stay alive between commands, and are counted by
hand; and commands such as `mv` and `cp` are sequences of smaller commands, each of
which can fail after the one before has taken effect.

## The system and its parts

| part | state | operations | who uses it | what makes it correct |
|---|---|---|---|---|
| inode table (`util.c`, `quit` in `command.c`) | `m_inodes`: dev, ino, ref_count, dirty, inode | `iget`, `iput`, `quit`, pointers copied by hand (`cd`) | every command, `root`, `cwd`, `oft[].inodeptr`, `mounted_inode` | one copy per inode; counts that account for every pointer; no stale read; no lost write |
| open files (`level2.c`) | `oft`, `proc[].fd` | `open close lseek read write pfd cat cp` | processes, `switch` between them | entries count their descriptors; a minode stays while open; one writer; offsets in the file |
| name space (`level1.c`, `getino`/`search`/`has_perm` of `util.c`, `mv` of `level2.c`) | directory blocks, link counts, `cwd` | `cd pwd ls mkdir creat rmdir link symlink unlink readlink stat touch chmod chown chgrp mv` | user; `cp` calls `creat`; `mount` calls `mkdir` | tree shape; link counts; no dangling entry; cwd exists |
| bitmaps (`alloc_dealloc.c`) | block and inode bitmap, free counts | `ialloc balloc idealloc bdealloc` | commands that make or remove files; `write` | nothing in use is free; counts agree |
| file blocks (`get_bno`, `read`, `write`, `clear_blocks`) | `i_block[15]` and indirect blocks | map a logical block, free all | open files, `unlink` | read returns what was written; all is freed |
| directory blocks (`insert_entry`, `remove_entry`, `search`) | `rec_len` chain in a block | insert, remove, look up | name space | chain covers the block; entries survive |
| mount table (`level3.c`, `getino`) | `mounttab`, `mounted`, `mountptr` | `mount umount`, crossing a mount in `getino` | all paths | the three records of a mount agree; the directories of all devices form one tree; nobody's directory changes place |
| processes (`level3.c`, `main.c`) | `proc`, `running` | `switch`, `init`, `mount_root` | all | - |
| shell (`command.c`, `main.c`) | the line read | parse, dispatch | user | ends when the input ends |

Interaction: `getino` takes and drops one minode reference per component of a path;
`open` keeps its reference in the table; `cd` moves one to the process; `rmdir`
asks the *reference count* of the directory whether somebody is in it; `umount`
asks the table whether an inode of the device is in use; `unlink` asks nobody
whether the file is open. Allocation is by the first free number, so a number that
is freed is the next one to be given away.

## Modules

| module | models | how state and actions correspond |
|---|---|---|
| `InodeStore` | what the inode table promises | `store`: one current value per inode; `handle`: what a pointer denotes; no table, count or disk |
| `InodeCache` | `iget`, `iput`, `quit` | `m_inodes` field by field (`dev`, `ino` as `key`); `ptr` is the set of `MINODE*` variables of the program. `iget` is `IgetHit`, `IgetMiss`, `IgetFull` (its three exits), `iput` is `IputShared`, `IputLast`; `CopyPointer` is `cwd = root; root->ref_count++`; `LosePointer` is a pointer that `file_open` gives up without `iput`; `ReadInode`/`WriteInode` stand for any command that reads a field, or changes one and sets `dirty`; `Quit` flushes and starts again on the same disk |
| `OpenFiles` | `level2.c` without `mv`; `switch`, `creat`, `unlink` of files that may be open | `oft`, `fd`, `running` as in the code. `pins[k]` is the part of `ref_count` of a minode that opens hold. `file_open` has three outcomes: refused, join an entry open for reading, set the entry up (the free one or one in use). `cat` and `cp` are sequences of calls with a program counter (`cmd.pc`); nothing else runs in between |
| `OpenFilesGrants` | `OpenFiles` with a history variable | `grant`: what each descriptor was opened for. Adds no behaviour |
| `Tree` | the name space of one device, bitmaps included | `imap`, `bmap` are the bitmaps, `inode` the inode table, `data` the blocks as directories, `cwd`, `running`. A command whose guard is false prints an error and changes nothing. `mv` is unlink(dst); link; unlink(src); undo. `Permit` is chmod, chown and chgrp, `Creat` also touch of a missing path |
| `FlatFile` | what read and write promise of the data of files | a file is a sequence of words with an offset; a call moves one chunk after the other; no blocks |
| `FileBlocks` | `get_bno`, `file_read`, `file_write`, `clear_blocks`, `balloc`, `bdealloc` | `dev` is the device (bitmap, free count, contents), `i_block`, `i_size`, `offset` as in the code. Each pass of the two loops is a step, with `call` holding its locals (`n`, `bytes`). A file that is removed while it is open is `held`: its descriptors read and write the inode, and then the file that gets it, until `Close`; `torn` records the files this has happened to. `Located` is the walk of `get_bno` in `file_write`, `BlockOf` the one of `file_read` |
| `Directory` | what `insert_entry`, `remove_entry` and `search` promise | a function from names to inode numbers |
| `DirBlock` | these three, word by word | `blocks` are the blocks of one directory as words; `buf` and `cur` are the copy and the locals `i`, `len`, `offset` of the loop of `remove_entry`, whose passes are steps. The three cases of `remove_entry` are `RemoveOnly`, `RemoveLast`, and `RemoveMiddle` with `ShiftPass` and `ShiftLast` |
| `Mount` | `mount_root`, `mount`, `umount`, `getino` across devices, with `mkdir`, `rmdir`, `cd`, `switch`, `pwd`, `quit` and a new start | `mounttab`, `cwd`, `running` as in the code; `minodes` are the slots in use, by device and number, with `ref_count`, `mounted`, `mountptr`; `host` is what the host's `open` returned; `tree` the directories on each image. `mount` ends in `Mount` or, with the table full, `MountTableFull`. `pwd` is one step for each call (`PwdDown`) and return (`PwdUp`) of `help_pwd`, with the parents they hold in `pwd.held` |
| `InodeCacheProofs`, `OpenFilesProofs`, `TreeProofs`, `FileBlocksProofs`, `DirBlockProofs`, `MountProofs`, `WayUpProofs` | theorems about `InodeCache`, `OpenFiles`, `Tree`, `FileBlocks`, `DirBlock` and `Mount` (the last two: its tables, and the way up from a directory) | no state; see "Proofs" |
| `Induction` | least elements, induction and recursion over an interval of numbers | no state; used by the proofs about walks, along a path or through a block |
| `MCOpenFiles`, `MCOpenFilesGrants`, `MCTree`, `MCFileBlocks`, `MCDirBlock`, `MCMount` | instances for TLC | the values of constants that a configuration cannot express: paths, names, sizes, symmetry sets |

How they fit together: `InodeCache` abstracts what an inode contains; `OpenFiles`
abstracts what iget does to the count `pins`; `Tree` abstracts the table to "the
minode of a directory is in use iff it is root, a cwd, or held by this command", and
`Mount` to one minode for each device and number, which is what `UniqueCopy` and
`RefCountAccounted` of `InodeCache` justify. `Tree` and `Mount` take a directory for
the function that `DirBlock` is shown to implement; the blocks of `OpenFiles` are the
flat contents that `FileBlocks` is shown to implement. `OffsetInFile` of `OpenFiles` says
that offsets lie in the file as long as the file has its name; the descriptors of a file
that was removed while it was open may be behind the end of the next file with this
inode, and `FileBlocks` has them too.

### Abstractions

* In `OpenFiles` the unit of data, offsets and transfers is a block; a file has
  one link and one path; who may unlink a file is left out, since `chown` and
  `chmod`, which test no permission themselves, can change it to anything.
  Running out of inodes is in `Tree` only.
* In `Tree` a directory is one block, given as a function from names to inode
  numbers, and a file owns one block. `search` reads block 0 (the boot block)
  behind the block of a directory, as the code does with `i_block[i] = 0`.
  Of owner, group and mode, which `has_perm` reads, it keeps who may write besides
  the super user (`uid`); with two users that is all they decide, and `Permit` may
  set it to anything, as `chmod`, `chown` and `chgrp` can.
* `PathBlock[path]` is the text of a path read as a block number. A short path
  such as `a` is stored as the number 97, a block of the image in the repository, which has 1440.
  In the runs the text of the path `b` is block 3 and that of the others is behind the end of
  the device. `MayFree = FALSE` keeps users from the last unlink of a symlink
  whose text is a block; `SymlinkFreesBlock.cfg` shows what it does.
* `MayFill = FALSE` keeps users of `Tree` from allocating on a full device (the code
  does not test what `ialloc` and `balloc` return). A number 0 used as an inode is
  undefined behaviour and ends a run (`fault`).
* In `FileBlocks` the unit is a word as long as a block number, so that a block of
  numbers and a block of data have the same shape, and one that is taken for the other
  shows. What is written is `Plain`, but for one word of the device at a time, `Mark`:
  the code never looks at data, so following any one word through the blocks follows
  all. A block that is freed holds `Junk` instead of what it held, so that old data
  that comes back shows. `Room` keeps users from writing on a device that has not got
  the three blocks one pass may allocate. Users write behind the end of a file, or to a file without a name, on at
  most `MaxTorn` files.
* In `DirBlock` the unit is the word of 4 bytes to which records are aligned, so
  names of 1-4, 5-8 and 9-12 letters are the names of one, two and three words. `rec_len`
  and `name_len` share a word, as they do on disk, and letters read as a length lie
  far behind the block. `MayOverrun` and `MayOverlap` are bounds on users, see below.
* In `Mount` only directories exist, a directory is its name and its parent, and
  permissions are left out, since `chown` tests none. Open files would keep a device
  busy as a current directory below its root does. Users do not unmount the root
  device. An image is known by the name it is mounted under, as `mount` compares the typed
  name (level3.c:72): one image under two spellings would be two images here, and is not
  modelled. Users make a directory only where the device has a free inode. `MaxFrames` is the size of the stack in calls of `help_pwd`; the program ends
  when it overflows, and a new start finds the images as they are (`Restart`; no
  directory entry waits in memory).
* History variables: `seen` and `lost` (`InodeCache`), `torn` (`FileBlocks`), `stale` and the last three fields of
  `cmd` (`OpenFiles`), `grant`, `ino` and `view` in the `cmd` of `Tree`.

## Runs

Properties that hold:

| run | question | properties |
|---|---|---|
| `inode_cache` (`InodeCache.cfg`) | does the table, with recycling of slots, shared pointers, lost references, write-back and restart, behave as one store of inodes? | `TypeOK`, `UniqueCopy`, `RefCountAccounted`, `CleanAgreesWithDisk`, `ImplementsStore` |
| `open_files` (`OpenFiles.cfg`) | are entries, descriptors, references and offsets consistent when two processes open, share, truncate, unlink and re-create two files, and do `cat` and `cp` close what they opened, a failing `creat` of the destination included? | `TypeOK`, `EntriesCounted`, `OneEntryPerInode`, `PinnedWhileOpen`, `OffsetInFile`, `CommandsCloseTheirs` |
| `commands_finish` (`OpenFilesFinish.cfg`) | does `cp` copy, and do the loops of `cat` and `cp` end, `cp f f` included? | `CpCopies`, `CommandsFinish` |
| `tree` (`Tree.cfg`) | do link counts, tree shape and current directories survive every sequence of commands of two users, and does `mv` move the file or leave it? | `TypeOK`, `LinksCounted`, `DirsFormTree`, `NoDanglingEntry`, `CwdExists`, `MvMoves`, `MvKeepsFile`, `NoBlockLost` |
| `file_blocks` (`FileBlocks.cfg`) | do direct, indirect and doubly indirect blocks behave as flat files, and does every block come back, when nobody writes to a file that is gone or behind an end? | `TypeOK`, `BlocksNotShared`, `BlocksAccounted`, `ImplementsFlatFile` |
| `dir_block` (`DirBlock.cfg`) | does the `rec_len` chain behave as a function from names to numbers, whatever the order of insertions and removals? | `TypeOK`, `BlocksTiled`, `ImplementsDirectory` |
| `mount` (`Mount.cfg`) | do mounts inside mounts, with device numbers and table entries used again, failing mounts and new starts, leave one tree in which everybody stays where they are? | `TypeOK`, `MountsAgree`, `RefCountIsHolders`, `OneTree`, `WayUpKept`, `PwdNamesCwd` |

Disagreements of code and documents, each shown by a run that ends in a
counterexample:

| run | what happens | the document |
|---|---|---|
| `fd_keeps_its_file` | `find_oft` compares inode numbers only: opening the same number on another device takes over the entry | docs/fs-diagram.md:56, docs/specification.md:91 |
| `open_inode_not_reused` | unlink of an open file frees its inode for the next `creat` | docs/specification.md:91 |
| `name_over_length` | with a short name before a long one and another entry behind, removing the short name copies the long one over the length of its own record, which is read next: the loop leaves the block | comment of `remove_entry`, level1.c:190 |
| `unlink_leaves_blocks` | remove an open file of several blocks, make a new one with its inode, write through the old descriptor, remove the new one: `clear_direct` stops at the hole and the blocks behind it are lost | comment of `clear_direct`, util.c:48 |
| `stranded` | mount a device, `cd` to its root, unmount it: `is_mount_busy` exempts inode 2, and the process is on a closed device | docs/specification.md:91 |

Further disagreements, each with a configuration whose one property has a
counterexample:

| configuration, module, property | what happens | the document |
|---|---|---|
| `NewBlockWhenFull.cfg`, `MCDirBlock`, `NewBlockWhenFull` | insert one name more than a block has room for: `insert_entry` takes the length of the *last* entry for that of the new one (level1.c:91), always finds room, and writes behind the copy of the block; the branch that adds a block is never taken | comments of `insert_entry`, level1.c:92 and 107 |
| `PinsGivenBack.cfg`, `MCOpenFiles`, `PinsGivenBack` | open a file twice to read, close it twice: every open keeps what `iget` took, only the last close drops one (level2.c:148), and the minode stays in the table for ever | docs/fs-diagram.md:56 |
| `SingleWriter.cfg`, `MCOpenFilesGrants`, `SingleWriter` | open W, open R, open W: the second open resets the mode of the entry, which the third one tests (level2.c:83), and two descriptors write | message of `file_open`, level2.c:84 |
| `SymlinkFreesBlock.cfg`, `MCTree`, `BlocksOwned` | remove a symlink to a path whose text is the number of a block (level1.c:763): the block is freed, whoever owns it | docs/specification.md:91 |
| `SymlinkLosesBlock.cfg`, `MCTree`, `NothingLost` | make a symlink: the path is written over the number of the block that was allocated for it (level1.c:704), which is then nobody's, and nobody frees it | docs/specification.md:91 |
| `PwdClimbs.cfg`, `MCMount`, `PwdClimbs` | `pwd` two levels deep: `help_pwd` asks for the parent of the current directory, not of its argument (level1.c:414), and calls itself until the stack is full, holding a reference for each call | docs/specification.md:91 |

`FileHoles.cfg` (`MCFileBlocks`) checks that `BlocksNotShared` holds when files have holes and
are written after their last name is gone: blocks are lost then, but no two files share one.
It leaves out the deadlock check, because lost blocks fill the device, where the bound `Room`
stops a write; so does `UnlinkGivesBack.cfg`.

Seen while modelling, and modelled as the code does it:

* A descriptor opened to read can write once another open of the file asked for writing:
  the mode is the entry's (which is why `SingleWriter` fails).
* `cp` of a file that is open for reading copies from the shared offset, and `cp f f`
  empties f and reports success (which is why `CpCopies` speaks of two files nobody
  has open).
* `mv` removes dst before it has tried to link src: `mv f f` loses f (hence the last
  conjunct of `MvKeepsFile`), and a `mv` that fails has removed dst.
* On a full device `mkdir`, `creat` and `symlink` go on with block 0 or inode 0
  (`MayFill = TRUE`).
* `getino` stops at a regular file and returns it, so `/file/x` leads to `/file`, against
  its comment (util.c:215).
* In a directory of the root directory `pwd` ends and is right (`PwdNamesCwd`). In the root of
  a device mounted at the first level it ends and prints `/.`, which is why `PwdNamesCwd`
  speaks of the root device.
* A `mount` that finds the mount table full leaves the directory it has made
  (level3.c:78-85), and so does every `umount`; the next `mount` of that path is refused.

`dir_is_empty` carries the comment "TODO: is this loop supposed to be here?"
(level1.c:381). It is: without it (`DirIsEmptyByLinks` in `Tree`) `rmdir` removes a
directory of files, and `LinksCounted` is violated.

### Bounds

* `inode_cache`: two slots for three inodes and three pointers: full table,
  recycling, two pointers to one slot, and a pointer of another inode next to them. Opens lose at most one
  reference to a slot (`MaxLost`).
  Two values tell a new inode from an old one.
* `open_files`: two processes of two descriptors, two entries, two inodes, files of
  at most one block (`MaxLen`), at most two references an inode (`MaxPins`, which
  the leak above would let grow for ever). Each descriptor table and the open
  file table fill up, an entry is shared within and between processes, and an
  inode is freed and reused while open. `cp` shares entries with the other process. Paths
  on one device are symmetric.
* `commands_finish`: one process with two descriptors, either of which may be taken, and files
  of up to two blocks, so that the loop of `cp` runs more than once. No symmetry, because
  `CommandsFinish` is a liveness property.
* `tree`: four inodes and four blocks, two names, two users, and the paths `/a`, `/b`,
  `/a/b`, `b`, `..`: names in the root, one level below it, relative to a current
  directory and upwards. `MaxLinks = 3` bounds the links of a file. The whole device
  fills, and every number is freed and reused.
* `file_blocks`: one direct block, two words a block. The file `p` grows to eleven words:
  its direct block, two behind the single indirect one, three behind two blocks of the
  doubly indirect one, so that each boundary (12 and 268 in the code) and the step from
  one block of numbers to the next is crossed; `q` has one block. (`MaxSize` is at most what an
  inode has room for, 12 + 256 + 256 * 256 blocks in the code, which does not test it.) Requests of one and
  three words end inside a block, at its end, and in the next one. Fourteen blocks are
  enough for both files with `Room` to spare, and all are freed and reused. Files are removed
  while they are open, but not written then (`MaxTorn = 0`). `unlink_leaves_blocks` has
  `MaxTorn = 1`, seven blocks and a file of six words.
* `dir_block`: three names of one, two and three words over two inode numbers, in a block
  of 18 words, where "." and ".." and all three fit and each is first, in the middle and
  last; and a second block with one entry, as a file system made elsewhere may have it.
* `mount`: three images besides the root's over a table with room for two, so that it
  fills and mounts fail; two names, two users; paths in the root, in a mounted root, two
  levels deep through a mount, relative and upwards. Each image has room for two
  directories (the root's) or one, so a mount inside a mount and a directory next to a
  mount occur. Four descriptors, which are used again after every `umount`. The images
  but the root's are symmetric, which is sound since no property is about liveness.

### Fairness

`FairSpec` assumes weak fairness of `CommandStep` only: a command that has begun goes
on. The code justifies it: the simulator is one sequential program, `execute` returns
before the next command is read, and the calls of `cat` and `cp` do not block. Nothing
is assumed of the user.

## Proofs

Every theorem holds for all values of the constants that satisfy the named assumptions
of the module and the hypotheses of the theorem. The assumptions say what the code
takes for granted: tables have at least one slot, numbers of inodes and blocks are not
0, sets of processes, names and inodes are finite, "." and ".." are not names that a
user gives. Each proof is of an inductive invariant `IInv`, which was model-checked on
the instance of the run before it was proved.

### `InodeCacheProofs`

For any number of slots, any finite set of pointers, and any inodes and values:

| theorem | statement |
|---|---|
| `TypeCorrect` | `Spec => []TypeOK` |
| `CopiesUnique` | `Spec => []UniqueCopy` |
| `RefCountExact` | `Spec => []RefCountAccounted` |
| `CleanSlotsAgree` | `Spec => []CleanAgreesWithDisk` |
| `Refinement` | `Spec => ImplementsStore` |

`IInv` is the conjunction of the four invariants, and none
of them is inductive alone: that a slot is not cleared under a pointer needs the
count to be that of the pointers and the lost references; that the count stays exact when a slot is cleared needs that
nobody else points to it; that a write-back leaves the other clean slots in
agreement with the disk needs uniqueness; that `iget` may leave the dirty flag of the
slot it takes needs that free slots are clean. `GainHolder` and `LoseHolder` are the
two lemmas on cardinalities behind `RefCountStep`. The refinement maps the current
value of an inode to the one in its slot if it is cached and to the one on disk
otherwise; `CurrentNow` and `CurrentNext` replace the CHOOSE of that mapping by
`UniqueCopy`, and `StoreStep` shows, action by action, that `iget` and `CopyPointer` are
`Acquire`, `iput` is `Release` whether or not it writes back, as is `LosePointer`, and `Quit` is `Restart`.

### `OpenFilesProofs`

For any finite set of processes, descriptor tables and open file tables of any length,
any inodes, paths and devices:

| theorem | statement |
|---|---|
| `TypeCorrect` | `Spec => []TypeOK` |
| `CountsAreOpeners` | `Spec => []EntriesCounted` |
| `InodesOpenOnce` | `Spec => []OneEntryPerInode` |
| `OpenInodesPinned` | `Spec => []PinnedWhileOpen` |
| `OffsetsInFiles` | `Spec => []OffsetInFile` |
| `CommandsClose` | `Spec => CommandsCloseTheirs` |
| `CopiesAreEqual` | `Spec => CpCopies` |

`TablesInv` is about the tables. `OneEntryPerInode` is not inductive: `find_oft` compares
inode numbers only, so what is inductive is `OneEntryPerNumber`, that no two entries have
the same *number*, which is stronger. `OffsetInFile` speaks of files that have a name;
`NamedUnlessStale` says that an open inode without a name is marked stale, so that the
inode `creat` takes and truncates, which has no name, is that of no other entry. The other parts are about the command
being executed: `CommandDescriptors` says which descriptors `cat` and `cp` have opened
and not closed at each value of `pc`, and that all others are as they were;
`RoomForPins` that the bound `MaxPins` has been tested for all that the command
still pins; `CopyInv` that, between the calls of `cp`, the destination and what is in the buffer are
the part of the source before its offset, and that the source has not changed, which
needs that the two are different numbers, not only different inodes.

### `TreeProofs`

For any finite sets of inodes and names, any blocks, paths and users, under the
hypothesis `Roomy`: nobody allocates on a full device (`MayFill = FALSE`), and nobody removes the last
link of a symlink whose text is the number of a block of the device (`MayFree = FALSE`). Without
them the properties do not hold.

| theorem | statement |
|---|---|
| `TypeCorrect` | `Spec => []TypeOK` |
| `LinkCountsAreNames` | `Spec => []LinksCounted` |
| `DirectoriesFormATree` | `Spec => []DirsFormTree` |
| `EntriesLeadToInodes` | `Spec => []NoDanglingEntry` |
| `CwdsExist` | `Spec => []CwdExists` |
| `BlocksAreNotLost` | `Spec => NoBlockLost` |
| `MvMovesTheFile` | `Spec => MvMoves` |
| `MvKeepsTheFile` | `Spec => MvKeepsFile` |

`IInv` is `LinksCounted`, `DirsFormTree`, `NoDanglingEntry`, `CwdExists` and `BlocksOwned` (every file and
directory owns a block in use, and no two own the same), with `Sound` (no fault has occurred) and
`CmdTyped`. They lean on one
another: `rmdir` goes by the link count and by a look at the names to see that a directory
is empty, so that it has no subdirectory needs `LinksCounted` and `DirsFormTree`; that nothing
dangles after it needs that it had one name, which is `DirsFormTree`; that nobody is left in
it is the test of the reference count. Each command is first reduced to what it does
to the entries of one directory (`NamesAdded`, `NamesRemoved`, and `TreeKept` where no directory
comes or goes), stated point by point in `Made`, `Linked`, `Unlinked`, `Removed` and `Settled`.

`getino` is a recursive function over the components of a path. `WalkIs` says with
`Induction` that it has the values of the walk, `WalkTells` that they are the only ones, and
`WalkKept` and `WalkCut` what becomes of a walk when one entry changes. The two properties of
`mv` rest on `MvInv`: between the link of a `mv` and its unlink or undo, `src` and `dst` are names
of the same file, and the walk along `src` does not pass the entry of `dst`. The second half
is why the unlink of `src` or the undo removes the entry it means to remove.

### `MountProofs` and `WayUpProofs`

For any images, each a tree of directories of any size, mount tables of any length, any
finite sets of users and any paths, under the hypothesis `MayStrand = FALSE`: nobody
unmounts a device while a current directory is its root. (The run `stranded` shows what
happens else.)

| theorem | statement |
|---|---|
| `TypeCorrect` | `Spec => []TypeOK` |
| `MountRecordsAgree` | `Spec => []MountsAgree` |
| `CountsAreHolders` | `Spec => []RefCountIsHolders` |
| `DirectoriesAreOneTree` | `Spec => []OneTree` |
| `PwdTellsCwd` | `Spec => PwdNamesCwd` |
| `WaysUpKept` | `Spec => WayUpKept` |

Besides `MountsAgree` and `RefCountIsHolders`, `IInv` has: `TreesInv`, that each image holds one
rooted tree in which the names in a directory differ; `HostInv`, that no image is open twice, so
that two devices are two images; `DevicesRooted`, that from every device the mount points lead up to the root device;
`PointsAlone`, that a mount point has no reference but that of its mount, and no
children, so that `rmdir`, which looks at the count, and `mount`, which looks whether the directory is
busy, cannot pull a device from under its directory; `PlacesInv`, that current directories exist;
and `PwdInv`, that the calls of `help_pwd` hold what they are to give back. That a descriptor
is free for the next `open` of the host is an argument by the pigeonhole principle.

`WayUpProofs` adds the walks: `Ancestors` is closed after as many steps as there are directories, and
each command keeps `Above` on a set that is closed upwards, which gives `WayUpKept` without
following any path.

### `DirBlockProofs`

For blocks of any number of words, any names that fit in a block, and any inode numbers,
under the hypothesis `Bounded`: users insert where there is room (`MayOverrun = FALSE`) and
remove no entry that a name longer than it is moved over (`MayOverlap = FALSE`). The run
`name_over_length` shows what happens without the second, `NewBlockWhenFull.cfg` without
the first.

| theorem | statement |
|---|---|
| `TypeCorrect` | `Spec => []TypeOK` |
| `BlocksAreTiled` | `Spec => []BlocksTiled` |
| `Refinement` | `Spec => ImplementsDirectory` |

The walk through a block is a recursive function over numbers. `StartsAre` is what the rest
uses of it: if a set of places is a `Chain`, beginning at 0 and leading to the end of the
block, it is the set of places the walk visits. So each operation is proved by naming the places it leaves:
one more behind the last (`InsertInto`), one less (`RemoveAtEnd`), or those behind the
removed one moved down by its length (`ShiftingEnds`), and by showing which entries lie
there. `Sized` makes the room exact: it is why the new entry of `insert_entry` lies behind
the name of the last one.

`IInv` says that every block is `Sound`, that no name is in two blocks, that "." and ".." are
in the first, and, while the loop of `remove_entry` runs, how far it has come: `Shifting` says of the copy `buf` that the
entries before the one being moved are, with their names and numbers, where the
chain leads, and that nothing has changed from that one on. A pass keeps this
because it writes no further than the length of the record it reads next, which is what
the bound `Separate` says; each pass may overlap the name it copies.
`StepIs` sums up each step as a change of the listing of names and numbers, and `FoundIs` says that `search`
finds what is listed, so that each step adds a name, drops one, or changes nothing.

### `FileBlocksProofs`

For devices of any number of blocks, any files, any number of direct blocks and of words in a
block, requests of any length, and files up to what an inode has room for:

| theorem | statement |
|---|---|
| `TypeCorrect` | `Spec => []TypeOK` |
| `BlocksAreNotShared` | `Spec => []BlocksNotShared` |
| `BlocksAreAccounted` | `Spec => []BlocksAccounted` |
| `Refinement` | `Spec => ImplementsFlatFile` |

The first two hold whatever users do. The last two say "until": files that lose their last
name while they are open may be written through the descriptors that are left, and the file
that gets the inode next behind its end. From then on (`torn` is not empty) data may lie behind holes,
unlink may leave blocks, as the run `unlink_leaves_blocks` shows, and a reader finds in a hole
what no one wrote.

The proof numbers the blocks a file can have, its `Nodes`: 0, 1, ... are its data in order,
-1 is the block of numbers of `i_block[12]`, -2 the one of `i_block[13]`, and -3 - q the one
that word q of -2 leads to. `Num` is the block of a node; `Parent` and `Slot` are where its number is
kept. With this numbering a file of k data blocks has the nodes `Used(k)`, which are an interval: the block
of numbers that one more data block needs is always the next one down (`PathStep`).

`BlocksAccounted` alone is not inductive, since it says nothing of where the blocks are and what the
words between them hold. `IInv` is `Base`, which always holds, and `Sound`, which holds until a file is torn.
`Owns` says of some set of nodes for each file that they have blocks in use that hang together from the inode
(`Rooted`); that where another node would be there is 0 (`Ended`), which is what `get_bno` goes by when
it allocates; and that no two nodes, of one file or of two, have the same
block (`Apart`), which is why neither the data that is written nor the number that is put into a block
changes what another node leads to. `Base` says that there are such nodes, which is enough for
`BlocksNotShared`; with `SizesInv` and `CallInv`, which tie the locals `n` and `bytes` of a call to offset and size.
`Sound` says that they are the nodes `i_size` calls for, with `creat`'s block of an empty file as
the exception, that every block in use is that of a node (`Counted`), and that no file without a name has
blocks (`Named`): then `clear_direct`, which stops at the first 0, stops behind the last block.

`VisitTop` and `VisitDeep` are one visit of `get_bno`, which finds a node or adds one and keeps all others;
`LocatedIs` follows them down to a data block, `DataWritten` puts the data there, and `PassStep` is a pass of
`file_write`. `ClearedIs` says that `clear_blocks` frees the blocks of all nodes of a sound file and no
others. For the refinement, `BlockIs` shows that `file_read` goes where `get_bno` went, `WordIs` that a word
before the end of a file lies in a data block it has, and each pass is then one chunk of `FlatFile`.

### What is model-checked only

* `CommandsFinish`: liveness under fairness is out of the prover's reach.
* `DirBlock` where users insert or remove what does not fit (`MayOverrun`, `MayOverlap`).
* The properties that do not hold, by counterexample.
* `UnlinkGivesBack` and what becomes of data once a file is torn.

## Not modelled

* `mv` between devices, which is `cp` and `unlink`: its steps are those of `OpenFiles` and
  `Tree`, which have one device, or files without directories.
* The free count of inodes, which `ialloc` and `idealloc` update in the same lines as the
  bitmap.
* `iget` returning NULL to callers that do not test it (`help_mknod`, `makedir`,
  `getino`): `IgetFull` models the return. A command holds at most a few of the 100 slots
  at a time, and only leaked references fill the table.
* Unmounting the root device.
* `ls`, `stat`, `readlink`, `pfd`, `menu` print and change no state; `touch` of a file that
  exists changes times, which no property speaks of.
* Parsing of the command line, and that at the end of input the last command is
  executed again (main.c:88).
* `get_block` and `put_block` are taken to work, and the headers of EXT2 are data.

## Plan

In order of importance:

1. done: `InodeStore`, `InodeCache`, `OpenFiles`, `Tree`, proofs of `InodeCache`.
2. done: `Mount` with `pwd` and new starts; `FileBlocks` over `FlatFile`; `DirBlock` over
   `Directory`.
3. done: proofs of `OpenFiles`, `Tree`, `Mount`, `DirBlock` and `FileBlocks`.
4. The free count of inodes, in `Tree`; `mv` between
   devices.
5. The composition of `InodeCache` with the commands, for `iget` of a full table.
