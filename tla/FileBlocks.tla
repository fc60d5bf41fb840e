----------------------------- MODULE FileBlocks -----------------------------
(***************************************************************************)
(* The blocks of the files of one device: file_read, file_write, get_bno   *)
(* (level2.c), clear_blocks (util.c), balloc and bdealloc                  *)
(* (alloc_dealloc.c), with the parts of creat, unlink, open and lseek that *)
(* change blocks, size or offset.                                          *)
(*                                                                         *)
(* The unit of data is the word of a block number, so that a block is read *)
(* as data or as numbers alike, and a block number that is used as data    *)
(* would show. A block has NWORDS words, an inode NDIRECT direct blocks, a *)
(* block of block numbers, and a block of such blocks.  Each pass of the   *)
(* loops of file_read and file_write, which moves what lies in one block,  *)
(* is a step. Every file has at most one entry in the open file table, so  *)
(* the offset is the file's (OpenFiles). A file is known by its inode: one *)
(* that is removed while it is open keeps its entry, with the offset, and  *)
(* the entry is that of the file that gets the inode next.                 *)
(***************************************************************************)
EXTENDS Integers, Sequences, FiniteSets

CONSTANTS
    File,      \* the files, by inode
    Blk,       \* the block numbers of the device
    NDIRECT,   \* direct blocks of an inode (12)
    NWORDS,    \* words in a block (256 of 4 bytes)
    Plain,     \* data
    Mark,      \* data a user writes into one word of the device at a time
    Junk,      \* what a free block holds
    Request,   \* the lengths users ask for
    MaxSize,   \* bound: MaxSize[f], the words in file f
    MaxTorn    \* bound: the files written when they had no name, or behind their end

ASSUME BlockAssumption ==
    /\ Blk \subseteq Nat \ {0} /\ IsFiniteSet(Blk)
    /\ NDIRECT \in Nat \ {0} /\ NWORDS \in Nat \ {0}
ASSUME WordAssumption ==
    /\ {Plain, Mark, Junk} \subseteq Nat \ {0}
    /\ {Plain, Mark, Junk} \cap Blk = {}
    /\ Junk \notin {Plain, Mark}
\* No file is longer than its direct, indirect and doubly indirect blocks: 64 MB.
ASSUME BoundAssumption ==
    /\ Request \subseteq Nat \ {0} /\ MaxSize \in [File -> Nat] /\ MaxTorn \in Nat
    /\ \A f \in File : MaxSize[f] <= NWORDS * (NDIRECT + NWORDS + NWORDS * NWORDS)

VARIABLES
    dev,       \* the device: block bitmap, free count, contents of blocks
    live,      \* the files that have a name
    held,      \* the files without a name that are still open
    i_block,   \* i_block[f]: the block numbers in the inode of f
    i_size,    \* i_size[f]: in words
    offset,    \* offset[f]
    call,      \* the read or write that is being executed
    torn       \* history: files written when they had no name, or behind their end

vars == <<dev, live, held, i_block, i_size, offset, call, torn>>

Index == 0 .. NWORDS - 1           \* of a word in a block
Single == NDIRECT                  \* i_block[12]
Double == NDIRECT + 1              \* i_block[13]
Block == [Index -> {0, Plain, Mark, Junk} \cup Blk]
Blank == [j \in Index |-> 0]
Idle == [op |-> "idle"]

TypeOK ==
    /\ dev.bmap \subseteq Blk /\ dev.free \in Nat /\ dev.disk \in [Blk \cup {0} -> Block]
    /\ live \subseteq File /\ held \subseteq File \ live /\ torn \subseteq File
    /\ i_block \in [File -> [0 .. Double -> Blk \cup {0}]]
    /\ \A f \in File : {i_size[f], offset[f]} \subseteq 0 .. MaxSize[f]
    /\ call.op \in {"idle", "read", "write"}

Init ==
    /\ dev = [bmap |-> {}, free |-> Cardinality(Blk),
              disk |-> [b \in Blk \cup {0} |-> IF b = 0 THEN Blank ELSE [j \in Index |-> Junk]]]
    /\ live = {} /\ held = {} /\ torn = {}
    /\ i_block = [f \in File |-> [i \in 0 .. Double |-> 0]]
    /\ i_size = [f \in File |-> 0]
    /\ offset = [f \in File |-> 0]
    /\ call = Idle

-----------------------------------------------------------------------------
(* Allocation.                                                             *)

\* balloc: the first free block, or 0; the free counts of super block and
\* group, which change together, are one.
FirstFree(d) ==
    IF Blk \subseteq d.bmap THEN 0
    ELSE CHOOSE b \in Blk \ d.bmap : \A c \in Blk \ d.bmap : b <= c

\* balloc and a put_block of zeros.
Balloc(d) ==
    LET b == FirstFree(d) IN
    [bmap |-> d.bmap \cup ({b} \ {0}),
     free |-> IF b = 0 THEN d.free ELSE d.free - 1,
     disk |-> [d.disk EXCEPT ![b] = Blank]]

\* get_bno: the device after it, and the number it leaves in *blk.
Grown(d, blk) == IF blk = 0 THEN Balloc(d) ELSE d
Bno(d, blk) == IF blk = 0 THEN FirstFree(d) ELSE blk

\* bdealloc of the blocks S; a block that is free already is refused.
Bdealloc(d, S) ==
    [bmap |-> d.bmap \ S,
     free |-> d.free + Cardinality(S \cap d.bmap),
     disk |-> [b \in Blk \cup {0} |-> IF b \in S \cap d.bmap THEN [j \in Index |-> Junk] ELSE d.disk[b]]]

\* What clear_direct frees: it stops at the first 0.
ClearDirect(blocks, n) ==
    {blocks[i] : i \in {i \in 0 .. n - 1 : \A j \in 0 .. i : blocks[j] # 0}}

\* Mutant of ClearIndirect: the block of numbers is not freed.
ClearIndirectLeaves(d, addr) ==
    IF addr = 0 THEN {} ELSE ClearDirect(d.disk[addr], NWORDS)

\* What clear_indirect frees: depth 0, and depth 1.
ClearIndirect(d, addr) ==
    IF addr = 0 THEN {} ELSE ClearDirect(d.disk[addr], NWORDS) \cup {addr}
ClearDouble(d, addr) ==
    IF addr = 0 THEN {}
    ELSE {addr} \cup UNION {ClearIndirect(d, d.disk[addr][j]) : j \in Index}

\* Mutant of ClearBlocks: the numbers of the blocks of numbers stay in the inode.
ClearBlocksKeeps(f) ==
    /\ dev' = Bdealloc(dev,
                ClearDirect(i_block[f], NDIRECT)
                    \cup ClearIndirect(dev, i_block[f][Single])
                    \cup ClearDouble(dev, i_block[f][Double]))
    /\ i_block' = [i_block EXCEPT ![f] =
            [i \in 0 .. Double |->
                IF i < NDIRECT /\ \A j \in 0 .. i : @[j] # 0 THEN 0 ELSE @[i]]]
    /\ i_size' = [i_size EXCEPT ![f] = 0]

\* clear_blocks, and its i_size = 0.
ClearBlocks(f) ==
    /\ dev' = Bdealloc(dev,
                ClearDirect(i_block[f], NDIRECT)
                    \cup ClearIndirect(dev, i_block[f][Single])
                    \cup ClearDouble(dev, i_block[f][Double]))
    /\ i_block' = [i_block EXCEPT ![f] =
            [i \in 0 .. Double |->
                IF i >= NDIRECT \/ \A j \in 0 .. i : @[j] # 0 THEN 0 ELSE @[i]]]
    /\ i_size' = [i_size EXCEPT ![f] = 0]

-----------------------------------------------------------------------------
(* Logical block lbk of a file, for file_read.                             *)

BlockOf(f, lbk) ==
    LET ib == i_block[f]
        l == lbk - NDIRECT
        m == l - NWORDS
    IN  IF lbk < NDIRECT THEN ib[lbk]
        ELSE IF l < NWORDS THEN dev.disk[ib[Single]][l]
        ELSE dev.disk[dev.disk[ib[Double]][m \div NWORDS]][m % NWORDS]

\* file_write: get_bno down to the block of lbk, each block of numbers put
\* back with the number that get_bno may have set. The result is the device,
\* the inode's numbers and the block itself.
Direct(f, lbk) ==
    LET ib == i_block[f] IN
    [dev |-> Grown(dev, ib[lbk]), ib |-> [ib EXCEPT ![lbk] = Bno(dev, ib[lbk])],
     bno |-> Bno(dev, ib[lbk])]

\* The block that word l of block b leads to.
Through(d, b, l) ==
    LET bno == Bno(d, d.disk[b][l])
    IN  [dev |-> [Grown(d, d.disk[b][l]) EXCEPT !.disk[b][l] = bno], bno |-> bno]

Indirect(f, l) ==
    LET d == Direct(f, Single)
        t == Through(d.dev, d.bno, l)
    IN  [dev |-> t.dev, ib |-> d.ib, bno |-> t.bno]

DoubleIndirect(f, m) ==
    LET d == Direct(f, Double)
        s == Through(d.dev, d.bno, m \div NWORDS)
        t == Through(s.dev, s.bno, m % NWORDS)
    IN  [dev |-> t.dev, ib |-> d.ib, bno |-> t.bno]

\* Mutant of Located: the offset behind the single indirect blocks is not
\* reduced by the direct ones.
LocatedUnreduced(f, lbk) ==
    IF lbk < NDIRECT THEN Direct(f, lbk)
    ELSE IF lbk < NDIRECT + NWORDS THEN Indirect(f, lbk - NDIRECT)
    ELSE DoubleIndirect(f, lbk - NWORDS)

Located(f, lbk) ==
    IF lbk < NDIRECT THEN Direct(f, lbk)
    ELSE IF lbk < NDIRECT + NWORDS THEN Indirect(f, lbk - NDIRECT)
    ELSE DoubleIndirect(f, lbk - NDIRECT - NWORDS)

-----------------------------------------------------------------------------
(* The commands of a user.                                                 *)

Lesser(x, y) == IF x < y THEN x ELSE y

\* bound: the device has room for what one pass of a write may allocate.
Room == Cardinality(Blk \ dev.bmap) >= 3

\* creat: the inode is set up with a block of zeros.
Creat(f) ==
    /\ call = Idle /\ Room
    /\ f \notin live
    /\ live' = live \cup {f}
    /\ dev' = Balloc(dev)
    /\ i_block' = [i_block EXCEPT ![f] =
            [i \in 0 .. Double |-> IF i = 0 THEN FirstFree(dev) ELSE 0]]
    /\ i_size' = [i_size EXCEPT ![f] = 0]
    /\ held' = held \ {f}
    /\ UNCHANGED <<offset, call, torn>>

\* unlink of the last link does not ask whether the file is open; if it is, its
\* entry in the open file table stays as it is.
Unlink(f) ==
    /\ call = Idle
    /\ f \in live
    /\ live' = live \ {f}
    /\ ClearBlocks(f)
    /\ \/ held' = held \cup {f} /\ UNCHANGED offset
       \/ offset' = [offset EXCEPT ![f] = 0] /\ UNCHANGED held
    /\ UNCHANGED <<call, torn>>

\* The last close of a file without a name.
Close(f) ==
    /\ call = Idle
    /\ f \in held
    /\ held' = held \ {f}
    /\ offset' = [offset EXCEPT ![f] = 0]
    /\ UNCHANGED <<dev, live, i_block, i_size, call, torn>>

OpenW(f) ==
    /\ call = Idle
    /\ f \in live
    /\ ClearBlocks(f)
    /\ offset' = [offset EXCEPT ![f] = 0]
    /\ UNCHANGED <<live, held, call, torn>>

\* The offset of an open for R or RW, of one for APPEND, and of lseek.
Seek(f, pos) ==
    /\ call = Idle
    /\ \/ f \in live /\ pos \in {0, i_size[f]}
       \/ f \in live \cup held /\ pos < i_size[f]
    /\ offset' = [offset EXCEPT ![f] = pos]
    /\ UNCHANGED <<dev, live, held, i_block, i_size, call, torn>>

\* file_read(fd, buf, n): bytes is computed before the loop, and is negative if
\* the offset is behind the end.
Read(f, n) ==
    /\ call = Idle
    /\ f \in live \cup held
    /\ call' = [op |-> "read", f |-> f, n |-> n, bytes |-> i_size[f] - offset[f], out |-> <<>>]
    /\ UNCHANGED <<dev, live, held, i_block, i_size, offset, torn>>

\* Mutant of ReadPass: what is left in the block is not compared with bytes.
ReadPassUnbounded ==
    /\ call.op = "read" /\ call.n > 0 /\ call.bytes > 0
    /\ LET f == call.f
           start == offset[f] % NWORDS
           remain == Lesser(NWORDS - start, call.n)
           blk == BlockOf(f, offset[f] \div NWORDS)
       IN /\ call' = [call EXCEPT !.n = @ - remain, !.bytes = IF @ < remain THEN 0 ELSE @ - remain,
                        !.out = @ \o [j \in 1 .. remain |-> dev.disk[blk][start + j - 1]]]
          /\ offset' = [offset EXCEPT ![f] = @ + remain]
    /\ UNCHANGED <<dev, live, held, i_block, i_size, torn>>

\* One pass of its loop: to the end of the block, of the request, of the file.
ReadPass ==
    /\ call.op = "read" /\ call.n > 0 /\ call.bytes > 0
    /\ LET f == call.f
           start == offset[f] % NWORDS
           remain == Lesser(Lesser(NWORDS - start, call.n), call.bytes)
           blk == BlockOf(f, offset[f] \div NWORDS)
       IN /\ call' = [call EXCEPT !.n = @ - remain, !.bytes = @ - remain,
                        !.out = @ \o [j \in 1 .. remain |-> dev.disk[blk][start + j - 1]]]
          /\ offset' = [offset EXCEPT ![f] = @ + remain]
    /\ UNCHANGED <<dev, live, held, i_block, i_size, torn>>

\* bound: at most one word of the device is marked.
Unmarked == \A b \in dev.bmap : \A j \in Index : dev.disk[b][j] # Mark

\* file_write(fd, buf, n), with n equal words in buf.
Write(f, n, word) ==
    /\ call = Idle
    /\ f \in live \cup held
    /\ offset[f] + n <= MaxSize[f]
    /\ IF word = Mark THEN n = 1 /\ Unmarked ELSE n > 1
    /\ call' = [op |-> "write", f |-> f, n |-> n, word |-> word]
    /\ torn' = IF f \in live /\ offset[f] <= i_size[f] THEN torn ELSE torn \cup {f}
    /\ Cardinality(torn') <= MaxTorn
    /\ UNCHANGED <<dev, live, held, i_block, i_size, offset>>

WritePass ==
    /\ call.op = "write" /\ call.n > 0
    /\ Room
    /\ LET f == call.f
           start == offset[f] % NWORDS
           remain == Lesser(NWORDS - start, call.n)
           to == Located(f, offset[f] \div NWORDS)
       IN /\ dev' = [to.dev EXCEPT !.disk[to.bno] =
                [j \in Index |-> IF j \in start .. start + remain - 1 THEN call.word ELSE @[j]]]
          /\ i_block' = [i_block EXCEPT ![f] = to.ib]
          /\ offset' = [offset EXCEPT ![f] = @ + remain]
          /\ i_size' = [i_size EXCEPT ![f] =
                IF offset[f] + remain > @ THEN offset[f] + remain ELSE @]
          /\ call' = [call EXCEPT !.n = @ - remain]
    /\ UNCHANGED <<live, held, torn>>

\* The call returns the number of words it moved.
Return ==
    /\ \/ call.op = "read" /\ (call.n = 0 \/ call.bytes <= 0)
       \/ call.op = "write" /\ call.n = 0
    /\ call' = Idle
    /\ UNCHANGED <<dev, live, held, i_block, i_size, offset, torn>>

Next ==
    \/ \E f \in File :
        \/ Creat(f) \/ Unlink(f) \/ Close(f) \/ OpenW(f)
        \/ \E pos \in 0 .. MaxSize[f] : Seek(f, pos)
        \/ \E n \in Request : Read(f, n) \/ \E word \in {Plain, Mark} : Write(f, n, word)
    \/ ReadPass
    \/ WritePass
    \/ Return

Spec == Init /\ [][Next]_vars

-----------------------------------------------------------------------------
\* The blocks of f: data, and blocks of numbers.
Blocks(f) ==
    LET ib == i_block[f]
        numbers == ({ib[Single], ib[Double]} \cup
                    IF ib[Double] = 0 THEN {} ELSE {dev.disk[ib[Double]][j] : j \in Index}) \ {0}
        single == numbers \ {ib[Double]}
    IN  ({ib[i] : i \in 0 .. NDIRECT - 1} \cup numbers
            \cup UNION {{dev.disk[b][j] : j \in Index} : b \in single}) \ {0}

\* The blocks a file of n words needs, and creat's one of an empty file.
Lowest(n) ==
    LET data == (n + NWORDS - 1) \div NWORDS
        single == IF data > NDIRECT THEN 1 ELSE 0
        over == data - NDIRECT - NWORDS
    IN  IF over <= 0 THEN data + single
        ELSE data + single + 1 + (over + NWORDS - 1) \div NWORDS

\* No block is used by two files, or is free while a file has its number, and the
\* free count says how many are left: however files grow, are truncated and give
\* their blocks to each other, with holes and through descriptors of files that are
\* gone too (get_bno, clear_blocks, balloc, bdealloc).
BlocksNotShared ==
    /\ \A f \in File : Blocks(f) \subseteq dev.bmap
    /\ \A f, g \in File : f # g => Blocks(f) \cap Blocks(g) = {}
    /\ dev.free = Cardinality(Blk \ dev.bmap)

\* No block is lost, and a file has just the blocks its size needs, until somebody
\* writes to a file behind its end or after its last name is gone, which lseek and
\* open keep from all but the descriptors of a file removed while it was open.
BlocksAccounted ==
    torn = {} =>
        /\ dev.bmap = UNION {Blocks(f) : f \in live}
        /\ \A f \in live :
            IF i_size[f] = 0 THEN Cardinality(Blocks(f)) <= 1
            ELSE Cardinality(Blocks(f)) = Lowest(i_size[f])

\* The unlink of the last name gives back all blocks of the file, holes or not
\* (clear_direct: "Clears the blocks in the given array").
UnlinkGivesBack ==
    [][\A f \in File : Unlink(f) => dev'.bmap = dev.bmap \ Blocks(f)]_vars

\* The refinement mapping.
Content ==
    [f \in File |-> [j \in 1 .. i_size[f] |->
        dev.disk[BlockOf(f, (j - 1) \div NWORDS)][(j - 1) % NWORDS]]]

Requested ==
    IF call.op = "read"
    THEN [op |-> "read", f |-> call.f, left |-> IF call.bytes < 0 THEN 0 ELSE Lesser(call.n, call.bytes),
          out |-> call.out]
    ELSE IF call.op = "write"
    THEN [op |-> "write", f |-> call.f, left |-> call.n, word |-> call.word]
    ELSE Idle

Flat == INSTANCE FlatFile WITH content <- Content, call <- Requested, Word <- {Plain, Mark}

\* Blocks, direct, indirect and doubly indirect, implement flat files: a read
\* returns what was written last at each place, a write changes nothing else,
\* of this file or another, and a new file does not show old data. So it is until
\* somebody writes behind the end of a file, which leaves holes that hold no data.
ImplementsFlatFile ==
    Flat!Init /\ [][torn' = {} => [Flat!Next]_(Flat!vars)]_vars
=============================================================================
