------------------------------ MODULE DirBlock ------------------------------
(***************************************************************************)
(* The blocks of one directory: insert_entry and remove_entry (level1.c)   *)
(* and search (util.c).                                                    *)
(*                                                                         *)
(* A block is a sequence of entries that lie one behind the other, each    *)
(* with its inode number, the length of its record, that of its name, and  *)
(* the name.  The unit is the word of 4 bytes to which records are         *)
(* aligned: word 0 of an entry is its inode, word 1 holds both lengths,    *)
(* the name takes the words behind.  Everything is a number, so that text  *)
(* that lands where a length is expected is read as a length.              *)
(*                                                                         *)
(* A handler works on a copy of the block, buf, and puts it back; the      *)
(* passes of the loop that moves entries are steps of their own.           *)
(***************************************************************************)
EXTENDS Naturals, Sequences

CONSTANTS
    NWORDS,     \* words in a block (256)
    HDR,        \* a word 1 is rec_len * HDR + name_len
    Name,       \* names that users give: sequences of words of text
    Dot, DotDot,
    Ino,        \* inode numbers
    Self, Up,   \* those of the directory and of its parent
    MayOverrun, \* bound: whether users insert where there is no room
    MayOverlap  \* bound: whether users remove an entry that a longer name is moved over

Fixed == {Dot, DotDot}
Text == UNION {{n[j] : j \in 1 .. Len(n)} : n \in Name \cup Fixed}

ASSUME WordsAssumption ==
    /\ NWORDS \in Nat \ {0} /\ HDR \in Nat \ {0}
    /\ Ino \subseteq Nat \ {0} /\ {Self, Up} \subseteq Ino
    /\ \A n \in Name \cup Fixed : n \in Seq(Nat) /\ Len(n) \in 1 .. HDR - 1 /\ 2 + Len(n) <= NWORDS
    /\ 2 + Len(Dot) + 2 + Len(DotDot) <= NWORDS
    /\ Name \cap Fixed = {} /\ Dot # DotDot
ASSUME TextAssumption == \A w \in Text : w \div HDR > NWORDS    \* letters, as a length
ASSUME BoundAssumption == {MayOverrun, MayOverlap} \subseteq BOOLEAN

VARIABLES
    blocks,     \* the blocks of the directory, i_block[0] first
    size,       \* i_size, in blocks
    buf,        \* the copy remove_entry works on
    cur         \* where it is: pc, and the variables i, len and offset

vars == <<blocks, size, buf, cur>>

Index == 0 .. NWORDS - 1
Zeros == [j \in Index |-> 0]
Idle == [pc |-> "idle"]
Fault == [pc |-> "fault"]      \* it read or wrote outside of buf: undefined behaviour

TypeOK ==
    /\ blocks \in Seq([Index -> Nat])
    /\ size = Len(blocks) /\ size \in 1 .. 12
    /\ buf \in [Index -> Nat]
    /\ cur.pc \in {"idle", "shift", "fault"}
    /\ cur.pc = "shift" => cur.i \in DOMAIN blocks /\ cur.len \in Index /\ cur.offset \in Index

-----------------------------------------------------------------------------
(* Entries.                                                                *)

Header(rec_len, name_len) == rec_len * HDR + name_len
RecLen(b, p) == b[p + 1] \div HDR
NameLen(b, p) == b[p + 1] % HDR
NameAt(b, p) == [j \in 1 .. NameLen(b, p) |-> b[p + 1 + j]]
SetRecLen(b, p, rec_len) == [b EXCEPT ![p + 1] = Header(rec_len, NameLen(b, p))]

\* The record a name needs.
Ideal(name_len) == 2 + name_len

\* The places of a block that the walks of search, insert_entry and remove_entry visit.
\* (A walk that left no room for a header would not stop there: see BlocksTiled.)
Starts(b) ==
    LET from[p \in Nat] ==
            IF p + 1 >= NWORDS \/ RecLen(b, p) = 0 THEN {} ELSE {p} \cup from[p + RecLen(b, p)]
    IN  from[0]

LastStart(b) == LET starts == Starts(b) IN CHOOSE p \in starts : \A q \in starts : q <= p

\* An entry of a block.
Placed(b, p, ino, name, rec_len) ==
    [j \in Index |->
        IF j = p THEN ino
        ELSE IF j = p + 1 THEN Header(rec_len, Len(name))
        ELSE IF j \in p + 2 .. p + 1 + Len(name) THEN name[j - p - 1]
        ELSE b[j]]

Places(name) ==
    UNION {{i} \X {p \in Starts(blocks[i]) : NameAt(blocks[i], p) = name} : i \in DOMAIN blocks}

\* The first entry of that name.
Place(name) ==
    LET found == Places(name) IN
    CHOOSE x \in found : \A y \in found : x[1] < y[1] \/ (x[1] = y[1] /\ x[2] <= y[2])

\* search: the inode number, or 0.
Search(name) ==
    IF Places(name) = {} THEN 0 ELSE LET x == Place(name) IN blocks[x[1]][x[2]]

\* makedir's first block, and a block with one entry as mke2fs or Linux leaves it.
FirstBlock(self, up) ==
    Placed(Placed(Zeros, 0, self, Dot, Ideal(Len(Dot))),
           Ideal(Len(Dot)), up, DotDot, NWORDS - Ideal(Len(Dot)))

Init ==
    /\ \/ blocks = <<FirstBlock(Self, Up)>>
       \/ \E name \in Name, ino \in Ino :
            blocks = <<FirstBlock(Self, Up), Placed(Zeros, 0, ino, name, NWORDS)>>
    /\ size = Len(blocks)
    /\ buf = Zeros
    /\ cur = Idle

-----------------------------------------------------------------------------
(* insert_entry.                                                           *)

\* Mutant of Insert: i_size grows although no block was added.
InsertGrows(name, ino) ==
    /\ cur = Idle
    /\ Places(name) = {}
    /\ LET i == Len(blocks)
           b == blocks[i]
           last == LastStart(b)
           end == last + Ideal(NameLen(b, last))
       IN /\ end + Ideal(Len(name)) <= NWORDS
          /\ blocks' = [blocks EXCEPT ![i] =
                Placed(SetRecLen(b, last, end - last), end, ino, name, NWORDS - end)]
          /\ size' = size + 1
    /\ UNCHANGED <<buf, cur>>

\* Callers have looked the name up.  The room behind the last entry of the
\* last block is compared with the length of that entry, so it is always
\* found enough, and what does not fit is written behind buf.
Insert(name, ino) ==
    /\ cur = Idle
    /\ Places(name) = {}
    /\ LET i == Len(blocks)
           b == blocks[i]
           last == LastStart(b)
           idea_len == Ideal(NameLen(b, last))
           end == last + idea_len
       IN /\ MayOverrun \/ end + Ideal(Len(name)) <= NWORDS
          /\ IF NWORDS - last >= idea_len THEN
                IF end + Ideal(Len(name)) > NWORDS THEN cur' = Fault /\ UNCHANGED <<blocks, size>>
                ELSE /\ blocks' = [blocks EXCEPT ![i] =
                            Placed(SetRecLen(b, last, idea_len), end, ino, name, NWORDS - end)]
                     /\ UNCHANGED <<size, cur>>
             ELSE /\ blocks' = Append(blocks, Placed(Zeros, 0, ino, name, NWORDS))
                  /\ size' = size + 1
                  /\ UNCHANGED cur
    /\ UNCHANGED buf

-----------------------------------------------------------------------------
(* remove_entry of a name that search has found, with its three cases.     *)

Only(b, p) == RecLen(b, p) = NWORDS
AtEnd(b, p) == p + RecLen(b, p) = NWORDS

\* The block goes, and those behind it move up in i_block.
RemoveOnly(name) ==
    /\ cur = Idle
    /\ Places(name) # {}
    /\ LET i == Place(name)[1] IN
        /\ Only(blocks[i], Place(name)[2])
        /\ blocks' = [j \in 1 .. Len(blocks) - 1 |-> blocks[IF j < i THEN j ELSE j + 1]]
    /\ size' = size - 1
    /\ UNCHANGED <<buf, cur>>

\* Mutant of RemoveLast: the entry before takes the length of the removed one only.
RemoveLastShort(name) ==
    /\ cur = Idle
    /\ Places(name) # {}
    /\ LET i == Place(name)[1]
           p == Place(name)[2]
           b == blocks[i]
       IN /\ ~Only(b, p) /\ AtEnd(b, p)
          /\ \E pre \in Starts(b) :
                /\ pre + RecLen(b, pre) = p
                /\ blocks' = [blocks EXCEPT ![i] = SetRecLen(b, pre, NWORDS - p)]
    /\ UNCHANGED <<size, buf, cur>>

\* The entry before takes the rest of the block.
RemoveLast(name) ==
    /\ cur = Idle
    /\ Places(name) # {}
    /\ LET i == Place(name)[1]
           p == Place(name)[2]
           b == blocks[i]
       IN /\ ~Only(b, p) /\ AtEnd(b, p)
          /\ \E pre \in Starts(b) :
                /\ pre + RecLen(b, pre) = p
                /\ blocks' = [blocks EXCEPT ![i] = SetRecLen(b, pre, NWORDS - pre)]
    /\ UNCHANGED <<size, buf, cur>>

\* bound: a name that is moved down by offset words, but not the last one,
\* does not reach the length of its own record.
Separate(b, p) ==
    \A q \in Starts(b) : q > p /\ ~AtEnd(b, q) => NameLen(b, q) < RecLen(b, p)

\* The entries behind are to be moved down by the length of the removed one.
RemoveMiddle(name) ==
    /\ cur = Idle
    /\ Places(name) # {}
    /\ LET i == Place(name)[1]
           p == Place(name)[2]
           b == blocks[i]
       IN /\ ~Only(b, p) /\ ~AtEnd(b, p)
          /\ MayOverlap \/ Separate(b, p)
          /\ buf' = b
          /\ cur' = [pc |-> "shift", i |-> i, len |-> p, offset |-> RecLen(b, p)]
    /\ UNCHANGED <<blocks, size>>

\* dp and dn.
To == cur.len
From == cur.len + cur.offset

\* Mutant of Copied: the entry keeps the inode of the one that is removed.
CopiedNotInode ==
    [j \in Index |->
        IF j = To + 1 THEN Header(RecLen(buf, To), NameLen(buf, From))
        ELSE IF j \in To + 2 .. To + 1 + NameLen(buf, From) THEN buf[j + cur.offset]
        ELSE buf[j]]

\* strncpy of the name of dn to dp, with its inode and name_len.
Copied ==
    [j \in Index |->
        IF j = To THEN buf[From]
        ELSE IF j = To + 1 THEN Header(RecLen(buf, To), NameLen(buf, From))
        ELSE IF j \in To + 2 .. To + 1 + NameLen(buf, From) THEN buf[j + cur.offset]
        ELSE buf[j]]

\* A pass of the loop.  rec_len of dn is read after the name of dp is written.
ShiftPass ==
    /\ cur.pc = "shift"
    /\ From + RecLen(buf, From) < NWORDS
    /\ LET rec_len == RecLen(Copied, From)
           next == From + rec_len
       IN /\ buf' = SetRecLen(Copied, To, rec_len)
          /\ cur' = IF next + 1 \notin Index THEN Fault
                    ELSE IF RecLen(buf', next) = 0 THEN Idle
                    ELSE [cur EXCEPT !.len = @ + rec_len]
    /\ UNCHANGED <<blocks, size>>

\* The last entry takes the rest of the block, and the block is put back.
ShiftLast ==
    /\ cur.pc = "shift"
    /\ From + RecLen(buf, From) >= NWORDS
    /\ blocks' = [blocks EXCEPT ![cur.i] = SetRecLen(Copied, To, NWORDS - To)]
    /\ cur' = Idle
    /\ buf' = Zeros
    /\ UNCHANGED size

Next ==
    \/ \E name \in Name :
        \/ \E ino \in Ino : Insert(name, ino)
        \/ RemoveOnly(name) \/ RemoveLast(name) \/ RemoveMiddle(name)
    \/ ShiftPass
    \/ ShiftLast

Spec == Init /\ [][Next]_vars

-----------------------------------------------------------------------------
EntriesTile(b) ==
    LET starts == Starts(b) IN
    \A p \in starts :
        /\ p + RecLen(b, p) \in starts \cup {NWORDS}
        /\ IF AtEnd(b, p) THEN RecLen(b, p) >= Ideal(NameLen(b, p))
           ELSE RecLen(b, p) = Ideal(NameLen(b, p))

\* The walk of every block ends at its end, and each of its entries but the
\* last is exactly as long as its name needs, the last one at least that: no
\* room is lost between entries, however names come and go.
BlocksTiled == \A i \in DOMAIN blocks : EntriesTile(blocks[i])

\* No handler reads or writes outside of the copy of a block, which the
\* "set to next values" of remove_entry takes for granted.
StaysInBlock == cur # Fault

\* There is no room for a new entry behind the last one of a block.
Lacks(b, name) ==
    LET last == LastStart(b) IN
    last + Ideal(NameLen(b, last)) + Ideal(Len(name)) > NWORDS

\* "if there is not enough space, then alloc a new block and use that"
\* (insert_entry).
NewBlockWhenFull ==
    [][\A name \in Name, ino \in Ino :
            Insert(name, ino) /\ Lacks(blocks[Len(blocks)], name)
            => Len(blocks') = Len(blocks) + 1]_vars

\* The refinement mapping: what search finds.
Found == [name \in {n \in Name \cup Fixed : Search(n) # 0} |-> Search(name)]

Names == INSTANCE Directory WITH entries <- Found

\* The blocks implement a function from names to inode numbers: inserting adds
\* one name and removing takes one away, and every other name, "." and ".."
\* included, keeps its number, in whatever order entries lie in the blocks and
\* through all passes that move them.
ImplementsDirectory == Names!Spec
=============================================================================
