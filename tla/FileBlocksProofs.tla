-------------------------- MODULE FileBlocksProofs --------------------------
(***************************************************************************)
(* Proofs about FileBlocks, for a device of any size, any number of files, *)
(* of direct blocks and of words in a block: TypeOK and BlocksNotShared,   *)
(* with holes in the files and writes through descriptors of files that    *)
(* are gone; BlocksAccounted, and that FileBlocks implements FlatFile,     *)
(* until there is such a write.                                            *)
(***************************************************************************)
EXTENDS FileBlocks, Induction, SequenceTheorems

-----------------------------------------------------------------------------
(* The nodes of a file.  The blocks a file can have are numbered: 0, 1, ...  *)
(* are its data in order, -1 is the block of numbers of i_block[12], -2 the  *)
(* one of i_block[13], and -3 - q the one that word q of -2 leads to.        *)

Most == NDIRECT + NWORDS + NWORDS * NWORDS
Nodes == -2 - NWORDS .. Most - 1

\* A node whose number lies in the inode.
Top(x) == x \in {-1, -2} \cup 0 .. NDIRECT - 1

\* Doubly indirect data, counted from the first.
Past(x) == x - NDIRECT - NWORDS

\* The block that holds the number of another node, and where in it.
Parent(x) == IF x < 0 THEN -2 ELSE IF Past(x) < 0 THEN -1 ELSE -3 - (Past(x) \div NWORDS)
Slot(x) ==
    IF x = -1 THEN Single ELSE IF x = -2 THEN Double
    ELSE IF x < 0 THEN -3 - x
    ELSE IF x < NDIRECT THEN x
    ELSE IF Past(x) < 0 THEN x - NDIRECT ELSE Past(x) % NWORDS

\* The number of a node in a file whose inode has the numbers ib.
Num(d, ib, x) ==
    IF Top(x) THEN ib[Slot(x)]
    ELSE IF Top(Parent(x)) THEN d.disk[ib[Slot(Parent(x))]][Slot(x)]
    ELSE d.disk[d.disk[ib[Double]][Slot(Parent(x))]][Slot(x)]

\* The nodes get_bno visits on its way to block lbk.
Path(lbk) ==
    {lbk} \cup (IF lbk < NDIRECT THEN {} ELSE IF Past(lbk) < 0 THEN {-1} ELSE {-2, Parent(lbk)})

\* The nodes of a file of k blocks.
Low(k) == IF k <= NDIRECT THEN 0 ELSE IF Past(k) <= 0 THEN -1 ELSE Parent(k - 1)
Used(k) == Low(k) .. k - 1

\* A node that is used, or the next one somewhere.
Within(U, x) == x \in Nodes /\ (Top(x) \/ Parent(x) \in U)

-----------------------------------------------------------------------------
(* The blocks of the device and of the files, U[f] being the nodes of f.   *)

Device ==
    [bmap : SUBSET Blk, free : Nat, disk : [Blk \cup {0} -> Block]]
Inodes == [File -> [0 .. Double -> Blk \cup {0}]]

\* The nodes V of a file have blocks in use, and hang together.
Rooted(d, ib, V) == \A x \in V : Within(V, x) /\ Num(d, ib, x) \in d.bmap

\* Where the next node would be there is 0.
Ended(d, ib, V) == \A x \in Nodes : Within(V, x) /\ x \notin V => Num(d, ib, x) = 0

\* Every node has a block of its own.
Apart(d, I, U) ==
    \A f, g \in File : \A x \in U[f], y \in U[g] :
        Num(d, I[f], x) = Num(d, I[g], y) => f = g /\ x = y

\* Every block in use is one of a node.
Counted(d, I, U) == \A b \in d.bmap : \E f \in File : \E x \in U[f] : Num(d, I[f], x) = b

Owns(d, I, U) ==
    /\ d \in Device /\ d.free = Cardinality(Blk \ d.bmap)
    /\ I \in Inodes /\ U \in [File -> SUBSET Nodes]
    /\ \A f \in File : Rooted(d, I[f], U[f]) /\ Ended(d, I[f], U[f])
    /\ Apart(d, I, U)

\* How many data blocks a file has: what it needs, or creat's one.
Held(size, first) == IF size = 0 THEN IF first = 0 THEN 0 ELSE 1 ELSE (size + NWORDS - 1) \div NWORDS
NodesOf(I, sizes) == [f \in File |-> Used(Held(sizes[f], I[f][0]))]

-----------------------------------------------------------------------------
(* The inductive invariant.                                                *)

\* The device and the inodes, with the blocks of some nodes for each file.
BlocksInv == \E U : Owns(dev, i_block, U)

SizesInv ==
    /\ live \subseteq File /\ held \subseteq File \ live /\ torn \subseteq File
    /\ i_size \in [File -> Nat] /\ offset \in [File -> Nat]
    /\ \A f \in File : i_size[f] <= MaxSize[f] /\ offset[f] <= MaxSize[f]

Reading(f, n, bytes, out) ==
    /\ call = [op |-> "read", f |-> f, n |-> n, bytes |-> bytes, out |-> out]
    /\ f \in File /\ n \in Nat /\ bytes \in Int
    /\ offset[f] + bytes = i_size[f]

Writing(f, n, word) ==
    /\ call = [op |-> "write", f |-> f, n |-> n, word |-> word]
    /\ f \in File /\ n \in Nat /\ word \in {Plain, Mark}
    /\ offset[f] + n <= MaxSize[f]

CallInv ==
    \/ call = Idle
    \/ call.op = "read" /\ Reading(call.f, call.n, call.bytes, call.out)
    \/ call.op = "write" /\ Writing(call.f, call.n, call.word)

\* What always holds, with holes in files and data in inodes that are free.
Base == BlocksInv /\ SizesInv /\ CallInv

\* What holds besides until a file is torn: a file without a name has no block, a
\* write goes on inside a file, or at its end, and the nodes of a file are those its
\* size calls for, and have all blocks there are.
Named ==
    /\ \A f \in File \ live : i_size[f] = 0 /\ i_block[f][0] = 0
    /\ call.op = "write" => call.f \in live /\ offset[call.f] <= i_size[call.f]
Sound ==
    /\ Owns(dev, i_block, NodesOf(i_block, i_size))
    /\ Counted(dev, i_block, NodesOf(i_block, i_size))
    /\ Named

Whole == Base /\ Sound
IInv == Base /\ (torn = {} => Sound)

-----------------------------------------------------------------------------
(* Arithmetic of nodes.                                                    *)

\* The constants of the layout, and numbers made from them.
LEMMA NumbersAre ==
    /\ NDIRECT \in Nat /\ NDIRECT > 0 /\ NDIRECT \in Int
    /\ NWORDS \in Nat /\ NWORDS > 0 /\ NWORDS \in Nat \ {0} /\ NWORDS \in Int
    /\ NWORDS * NWORDS \in Nat /\ Most \in Nat /\ Most \in Int
    /\ Single = NDIRECT /\ Double = NDIRECT + 1
BY BlockAssumption DEF Most, Single, Double

\* Division with remainder, whatever the divisor.
LEMMA Quotient ==
    ASSUME NEW a \in Nat, NEW n \in Nat, n > 0
    PROVE  /\ a \div n \in Nat /\ a % n \in Nat /\ a % n < n
           /\ a = n * (a \div n) + (a % n)
<1>1. a \div n \in Nat
  OBVIOUS
<1>2. a % n \in Nat /\ a % n < n
  OBVIOUS
<1>3. a = n * (a \div n) + (a % n)
  OBVIOUS
<1>4. QED
  BY <1>1, <1>2, <1>3

\* Quotient and remainder say which number it is.
LEMMA SameParts ==
    ASSUME NEW a \in Nat, NEW b \in Nat, NEW n \in Nat, n > 0, a % n = b % n, a \div n = b \div n
    PROVE  a = b
BY Z3

\* Quotient and remainder by the length of a block.
LEMMA DivIs ==
    ASSUME NEW a \in Nat
    PROVE  /\ a \div NWORDS \in Nat /\ a % NWORDS \in Index /\ a % NWORDS \in Nat /\ a % NWORDS < NWORDS
           /\ a = NWORDS * (a \div NWORDS) + (a % NWORDS)
<1>1. NWORDS \in Nat /\ NWORDS > 0
  BY NumbersAre
<1>2. /\ a \div NWORDS \in Nat /\ a % NWORDS \in Nat /\ a % NWORDS < NWORDS
      /\ a = NWORDS * (a \div NWORDS) + (a % NWORDS)
  BY <1>1, Quotient
<1>3. a % NWORDS \in Index
  BY <1>1, <1>2 DEF Index
<1>4. QED
  BY <1>2, <1>3

\* A number that is given by its quotient and remainder.
LEMMA DivUnique ==
    ASSUME NEW q \in Nat, NEW r \in Nat, r < NWORDS, NEW a, a = NWORDS * q + r
    PROVE  a \div NWORDS = q /\ a % NWORDS = r
<1>1. NWORDS \in Nat /\ NWORDS > 0
  BY NumbersAre
<1>2. QED
  BY <1>1

\* A smaller number has no larger quotient.
LEMMA DivOrder ==
    ASSUME NEW a \in Nat, NEW q \in Nat
    PROVE  (a < NWORDS * q) <=> (a \div NWORDS < q)
<1>1. NWORDS \in Nat /\ NWORDS > 0
  BY NumbersAre
<1>2. QED
  BY <1>1

\* Where the number of a node is: in the inode, or in a word of a block of numbers,
\* which is itself a node at most one step from the inode.
LEMMA NodeIs ==
    ASSUME NEW x \in Nodes
    PROVE  /\ x \in Int
           /\ Top(x) => Slot(x) \in 0 .. Double /\ Slot(x) \in Nat
           /\ ~Top(x) => /\ Slot(x) \in Index
                         /\ Parent(x) \in Nodes /\ Parent(x) < 0 /\ Parent(x) \in Int
                         /\ Top(Parent(x)) \/ Parent(Parent(x)) = -2
<1>1. x \in Int /\ -2 - NWORDS <= x /\ x < Most
  BY NumbersAre DEF Nodes
<1>2. ASSUME Top(x)
      PROVE  Slot(x) \in 0 .. Double /\ Slot(x) \in Nat
  BY <1>1, <1>2, NumbersAre DEF Top, Slot
<1>3. ASSUME ~Top(x)
      PROVE  /\ Slot(x) \in Index
             /\ Parent(x) \in Nodes /\ Parent(x) < 0 /\ Parent(x) \in Int
             /\ Top(Parent(x)) \/ Parent(Parent(x)) = -2
  <2>1. x # -1 /\ x # -2 /\ (x < 0 \/ x >= NDIRECT)
    BY <1>1, <1>3, NumbersAre DEF Top
  <2>2. CASE x < 0
    <3>1. Parent(x) = -2 /\ Slot(x) = -3 - x
      BY <2>1, <2>2 DEF Parent, Slot
    <3>2. Top(-2)
      BY DEF Top
    <3>3. QED
      BY <1>1, <2>1, <2>2, <3>1, <3>2, NumbersAre DEF Index, Nodes
  <2>3. CASE x >= NDIRECT /\ Past(x) < 0
    <3>1. x >= 0 /\ ~(x < NDIRECT)
      BY <1>1, <2>3, NumbersAre
    <3>2. Parent(x) = -1 /\ Slot(x) = x - NDIRECT
      BY <1>1, <2>3, <3>1, NumbersAre DEF Parent, Slot
    <3>3. Top(-1)
      BY DEF Top
    <3>4. QED
      BY <1>1, <2>3, <3>2, <3>3, NumbersAre DEF Index, Nodes, Past
  <2>4. CASE x >= NDIRECT /\ ~(Past(x) < 0)
    <3>1. x >= 0 /\ ~(x < NDIRECT)
      BY <1>1, <2>4, NumbersAre
    <3>2. PICK m \in Nat : m = Past(x) /\ m < NWORDS * NWORDS
      BY <1>1, <2>4, NumbersAre DEF Past, Most
    <3>3. Parent(x) = -3 - (m \div NWORDS) /\ Slot(x) = m % NWORDS
      BY <1>1, <2>4, <3>1, <3>2, NumbersAre DEF Parent, Slot
    <3>4. m \div NWORDS \in Nat /\ m \div NWORDS < NWORDS /\ m % NWORDS \in Index
      BY <3>2, DivIs, DivOrder, NumbersAre
    <3>5. PICK q \in Nat : q = m \div NWORDS /\ q < NWORDS
      BY <3>4
    <3>6. Parent(x) = -3 - q /\ Parent(x) < 0
      BY <3>3, <3>5
    <3>7. Parent(Parent(x)) = -2
      BY <3>6 DEF Parent
    <3>8. Parent(x) \in Nodes
      BY <3>5, <3>6, NumbersAre DEF Nodes
    <3>9. QED
      BY <3>3, <3>4, <3>5, <3>6, <3>7, <3>8
  <2>5. QED
    BY <1>1, <2>1, <2>2, <2>3, <2>4
<1>4. QED
  BY <1>1, <1>2, <1>3

\* The nodes above.
LEMMA Tops ==
    /\ Top(-1) /\ Top(-2) /\ Slot(-1) = Single /\ Slot(-2) = Double
    /\ -1 \in Nodes /\ -2 \in Nodes
    /\ \A x \in 0 .. NDIRECT - 1 : x \in Nodes /\ Top(x) /\ Slot(x) = x
<1>1. Top(-1) /\ Top(-2) /\ Slot(-1) = Single /\ Slot(-2) = Double
  BY DEF Top, Slot
<1>2. -1 \in Nodes /\ -2 \in Nodes
  BY NumbersAre DEF Nodes
<1>3. ASSUME NEW x \in 0 .. NDIRECT - 1
      PROVE  x \in Nodes /\ Top(x) /\ Slot(x) = x
  <2>1. x \in Int /\ 0 <= x /\ x < NDIRECT
    BY NumbersAre
  <2>2. x \in Nodes
    BY <2>1, NumbersAre DEF Nodes, Most
  <2>3. QED
    BY <2>1, <2>2 DEF Top, Slot
<1>4. QED
  BY <1>1, <1>2, <1>3

\* Differences that are equal.
LEMMA Cancel ==
    /\ \A a, b \in Int : -3 - a = -3 - b => a = b
    /\ \A a, b, n \in Int : a - n = b - n => a = b
    /\ \A a, b, n, m \in Int : a - n - m = b - n - m => a = b
OBVIOUS

\* No two nodes have their number at the same place.
LEMMA NodeUnique ==
    ASSUME NEW x \in Nodes, NEW y \in Nodes, Slot(x) = Slot(y),
           (Top(x) /\ Top(y)) \/ (~Top(x) /\ ~Top(y) /\ Parent(x) = Parent(y))
    PROVE  x = y
<1>1. x \in Int /\ y \in Int
  BY NodeIs
<1>2. CASE Top(x) /\ Top(y)
  <2>1. (x = -1 \/ x = -2 \/ (x >= 0 /\ x < NDIRECT)) /\ (y = -1 \/ y = -2 \/ (y >= 0 /\ y < NDIRECT))
    BY <1>1, <1>2, NumbersAre DEF Top
  <2>2. /\ Slot(x) = IF x = -1 THEN NDIRECT ELSE IF x = -2 THEN NDIRECT + 1 ELSE x
        /\ Slot(y) = IF y = -1 THEN NDIRECT ELSE IF y = -2 THEN NDIRECT + 1 ELSE y
    BY <1>1, <2>1, NumbersAre DEF Slot
  <2>3. PICK u \in Int, v \in Int, n \in Int :
           /\ u = x /\ v = y /\ n = NDIRECT
           /\ (u = -1 \/ u = -2 \/ (u >= 0 /\ u < n)) /\ (v = -1 \/ v = -2 \/ (v >= 0 /\ v < n))
           /\ (IF u = -1 THEN n ELSE IF u = -2 THEN n + 1 ELSE u)
                = (IF v = -1 THEN n ELSE IF v = -2 THEN n + 1 ELSE v)
    BY <1>1, <2>1, <2>2, NumbersAre
  <2>4. u = v
    BY <2>3
  <2>5. QED
    BY <2>3, <2>4
<1>3. CASE ~Top(x) /\ ~Top(y) /\ Parent(x) = Parent(y)
  <2>1. ASSUME NEW z \in Nodes, ~Top(z)
        PROVE  /\ z \in Int
               /\ \/ z < 0 /\ Parent(z) = -2 /\ Slot(z) = -3 - z
                  \/ z >= 0 /\ Parent(z) = -1 /\ Slot(z) = z - NDIRECT
                  \/ /\ Past(z) \in Nat /\ Parent(z) = -3 - (Past(z) \div NWORDS)
                     /\ Slot(z) = Past(z) % NWORDS /\ Past(z) \div NWORDS \in Nat
    <3>1. z \in Int
      BY NodeIs
    <3>2. z # -1 /\ z # -2 /\ (z < 0 \/ z >= NDIRECT)
      BY <2>1, <3>1, NumbersAre DEF Top
    <3>3. CASE z < 0
      BY <3>1, <3>2, <3>3 DEF Parent, Slot
    <3>4. CASE z >= NDIRECT /\ Past(z) < 0
      <4>1. z >= 0 /\ ~(z < 0) /\ ~(z < NDIRECT)
        BY <3>1, <3>4, NumbersAre
      <4>2. QED
        BY <3>1, <3>2, <3>4, <4>1 DEF Parent, Slot
    <3>5. CASE z >= NDIRECT /\ ~(Past(z) < 0)
      <4>1. z >= 0 /\ ~(z < 0) /\ ~(z < NDIRECT) /\ Past(z) \in Nat
        BY <3>1, <3>5, NumbersAre DEF Past
      <4>2. Past(z) \div NWORDS \in Nat
        BY <4>1, DivIs
      <4>3. QED
        BY <3>1, <3>2, <3>5, <4>1, <4>2 DEF Parent, Slot
    <3>6. QED
      BY <3>1, <3>2, <3>3, <3>4, <3>5
  <2>2. CASE Parent(x) = -2 /\ Parent(y) = -2
    <3>1. Slot(x) = -3 - x /\ Slot(y) = -3 - y
      BY <1>3, <2>1, <2>2
    <3>2. -3 - x = -3 - y
      BY <3>1
    <3>3. QED
      BY <1>1, <3>2, Cancel
  <2>3. CASE Parent(x) = -1 /\ Parent(y) = -1
    <3>1. Slot(x) = x - NDIRECT /\ Slot(y) = y - NDIRECT
      BY <1>3, <2>1, <2>3
    <3>2. x - NDIRECT = y - NDIRECT
      BY <3>1
    <3>3. QED
      BY <1>1, <3>2, NumbersAre, Cancel
  <2>4. CASE Parent(x) # -1 /\ Parent(x) # -2
    <3>1. PICK m \in Nat, n \in Nat :
             /\ m = Past(x) /\ n = Past(y) /\ m % NWORDS = n % NWORDS
             /\ -3 - (m \div NWORDS) = -3 - (n \div NWORDS)
             /\ m \div NWORDS \in Nat /\ n \div NWORDS \in Nat
      BY <1>3, <2>1, <2>4
    <3>2. m \div NWORDS = n \div NWORDS
      BY <3>1
    <3>3. m = n
      BY <3>1, <3>2, NumbersAre, SameParts
    <3>4. x - NDIRECT - NWORDS = y - NDIRECT - NWORDS
      BY <3>1, <3>3 DEF Past
    <3>5. QED
      BY <1>1, <3>4, NumbersAre, Cancel
  <2>5. QED
    BY <1>3, <2>2, <2>3, <2>4
<1>4. QED
  BY <1>2, <1>3

\* A number lies in the inode, or in the block of the node above.
LEMMA NumIs ==
    ASSUME NEW d, NEW ib, NEW x \in Nodes
    PROVE  /\ Top(x) => Num(d, ib, x) = ib[Slot(x)]
           /\ ~Top(x) => Num(d, ib, x) = d.disk[Num(d, ib, Parent(x))][Slot(x)]
<1>1. CASE Top(x)
  BY <1>1 DEF Num
<1>2. CASE ~Top(x) /\ Top(Parent(x))
  BY <1>2 DEF Num
<1>3. CASE ~Top(x) /\ ~Top(Parent(x))
  <2>1. Parent(Parent(x)) = -2 /\ Top(-2) /\ Slot(-2) = Double
    BY <1>3, NodeIs, Tops
  <2>2. Num(d, ib, Parent(x)) = d.disk[ib[Double]][Slot(Parent(x))]
    BY <1>3, <2>1 DEF Num
  <2>3. QED
    BY <1>3, <2>2 DEF Num
<1>4. QED
  BY <1>1, <1>2, <1>3

\* A node for each place in a block of numbers.
LEMMA NodeAt ==
    ASSUME NEW i \in Index
    PROVE  /\ -3 - i \in Nodes /\ ~Top(-3 - i) /\ Parent(-3 - i) = -2 /\ Slot(-3 - i) = i
           /\ NDIRECT + i \in Nodes /\ ~Top(NDIRECT + i) /\ Parent(NDIRECT + i) = -1
           /\ Slot(NDIRECT + i) = i
           /\ \A j \in Index : LET x == NDIRECT + NWORDS + (NWORDS * j + i) IN
                 x \in Nodes /\ ~Top(x) /\ Parent(x) = -3 - j /\ Slot(x) = i
<1>1. i \in Int /\ 0 <= i /\ i < NWORDS
  BY NumbersAre DEF Index
<1>2. -3 - i \in Nodes /\ ~Top(-3 - i) /\ Parent(-3 - i) = -2 /\ Slot(-3 - i) = i
  <2>1. -3 - i \in Int /\ -3 - i < 0 /\ -3 - i # -1 /\ -3 - i # -2 /\ -3 - (-3 - i) = i
    BY <1>1
  <2>2. -3 - i \in Nodes
    BY <1>1, NumbersAre DEF Nodes
  <2>3. ~Top(-3 - i)
    BY <2>1, NumbersAre DEF Top
  <2>4. QED
    BY <2>1, <2>2, <2>3 DEF Parent, Slot
<1>3. /\ NDIRECT + i \in Nodes /\ ~Top(NDIRECT + i) /\ Parent(NDIRECT + i) = -1
      /\ Slot(NDIRECT + i) = i
  <2>1. PICK x \in Int : x = NDIRECT + i /\ x >= NDIRECT /\ x - NDIRECT = i /\ x - NDIRECT - NWORDS < 0
                         /\ x # -1 /\ x # -2 /\ ~(x < 0) /\ ~(x < NDIRECT) /\ Past(x) < 0
    BY <1>1, NumbersAre DEF Past
  <2>2. x \in Nodes
    BY <2>1, NumbersAre DEF Nodes, Most
  <2>3. ~Top(x)
    BY <2>1, NumbersAre DEF Top
  <2>4. Parent(x) = -1 /\ Slot(x) = i
    BY <2>1 DEF Parent, Slot
  <2>5. QED
    BY <2>1, <2>2, <2>3, <2>4
<1>4. ASSUME NEW j \in Index
      PROVE  LET x == NDIRECT + NWORDS + (NWORDS * j + i) IN
             x \in Nodes /\ ~Top(x) /\ Parent(x) = -3 - j /\ Slot(x) = i
  <2>1. j \in Nat /\ j < NWORDS /\ i \in Nat
    BY <1>1, NumbersAre DEF Index
  <2>2. PICK m \in Nat : m = NWORDS * j + i
    BY <2>1, NumbersAre
  <2>3. m \div NWORDS = j /\ m % NWORDS = i
    BY <1>1, <2>1, <2>2, DivUnique
  <2>4. m < NWORDS * NWORDS
    BY <2>1, <2>2, <2>3, DivOrder, NumbersAre
  <2>5. PICK x \in Int : x = NDIRECT + NWORDS + m /\ Past(x) = m
                         /\ x # -1 /\ x # -2 /\ ~(x < 0) /\ ~(x < NDIRECT) /\ ~(Past(x) < 0)
                         /\ 0 <= x /\ x < NDIRECT + NWORDS + NWORDS * NWORDS
    BY <2>2, <2>4, NumbersAre DEF Past
  <2>6. x \in Nodes
    BY <2>5, NumbersAre DEF Nodes, Most
  <2>7. ~Top(x)
    BY <2>5, NumbersAre DEF Top
  <2>8. Parent(x) = -3 - j /\ Slot(x) = i
    BY <2>3, <2>5 DEF Parent, Slot
  <2>9. QED
    BY <2>2, <2>5, <2>6, <2>7, <2>8
<1>5. QED
  BY <1>2, <1>3, <1>4

\* Doubly indirect data.
LEMMA PastIs ==
    ASSUME NEW x \in Nodes, x >= NDIRECT, ~(Past(x) < 0)
    PROVE  /\ x \in Int /\ Past(x) \in Nat /\ Past(x) \div NWORDS \in Index
           /\ Past(x) % NWORDS \in Index
           /\ Parent(x) = -3 - (Past(x) \div NWORDS) /\ Slot(x) = Past(x) % NWORDS
           /\ x = NDIRECT + NWORDS + (NWORDS * (Past(x) \div NWORDS) + (Past(x) % NWORDS))
<1>1. x \in Int /\ x < Most /\ ~(x < 0) /\ ~(x < NDIRECT) /\ x # -1 /\ x # -2
  BY NumbersAre DEF Nodes
<1>2. PICK m \in Nat : m = Past(x) /\ m < NWORDS * NWORDS /\ x = NDIRECT + NWORDS + m
  BY <1>1, NumbersAre DEF Past, Most
<1>3. /\ m \div NWORDS \in Nat /\ m % NWORDS \in Index /\ m \div NWORDS < NWORDS
      /\ m = NWORDS * (m \div NWORDS) + (m % NWORDS)
  BY <1>2, DivIs, DivOrder, NumbersAre
<1>4. m \div NWORDS \in Index
  BY <1>3, NumbersAre DEF Index
<1>5. Parent(x) = -3 - (Past(x) \div NWORDS) /\ Slot(x) = Past(x) % NWORDS
  BY <1>1 DEF Parent, Slot
<1>6. QED
  BY <1>1, <1>2, <1>3, <1>4, <1>5

-----------------------------------------------------------------------------
(* The nodes of a file of k blocks.                                        *)

\* Blocks of numbers are added one at a time, and none before the last is full.
LEMMA ParentOrder ==
    ASSUME NEW x \in Nodes, NEW y \in Nodes, x <= y, x >= NDIRECT, ~(Past(x) < 0)
    PROVE  /\ ~(Past(y) < 0) /\ y >= NDIRECT /\ Parent(y) <= Parent(x)
           /\ y = x + 1 => Parent(y) = Parent(x) \/ Parent(y) = Parent(x) - 1
<1>1. /\ x \in Int /\ y \in Int /\ ~(Past(y) < 0) /\ y >= NDIRECT /\ Past(x) <= Past(y)
      /\ y = x + 1 => Past(y) = Past(x) + 1
  <2>1. x \in Int /\ y \in Int
    BY NodeIs
  <2>2. QED
    BY <2>1, NumbersAre DEF Past
<1>2. PICK m \in Nat, n \in Nat, w \in Nat :
         /\ m = Past(x) /\ n = Past(y) /\ w = NWORDS /\ w > 0 /\ m <= n /\ (y = x + 1 => n = m + 1)
         /\ Parent(x) = -3 - (m \div w) /\ Parent(y) = -3 - (n \div w)
  BY <1>1, PastIs, NumbersAre
<1>3. m \div w <= n \div w /\ m \div w \in Nat /\ n \div w \in Nat
  BY <1>2
<1>4. ASSUME n = m + 1
      PROVE  n \div w = m \div w \/ n \div w = m \div w + 1
  BY <1>2, <1>4, Z3
<1>5. QED
  BY <1>1, <1>2, <1>3, <1>4

\* The lowest node of a file of k blocks.
LEMMA LowIs ==
    ASSUME NEW k \in 0 .. Most
    PROVE  /\ k \in Nat /\ Low(k) \in Int
           /\ k <= NDIRECT => Low(k) = 0
           /\ k > NDIRECT /\ Past(k) <= 0 => Low(k) = -1
           /\ k > NDIRECT /\ ~(Past(k) <= 0) =>
                /\ Low(k) = Parent(k - 1) /\ Low(k) <= -3 /\ Low(k) >= -2 - NWORDS
                /\ k - 1 \in Nodes /\ k - 1 >= NDIRECT /\ ~(Past(k - 1) < 0)
<1>1. k \in Nat /\ k <= Most
  BY NumbersAre
<1>2. ASSUME k > NDIRECT, ~(Past(k) <= 0)
      PROVE  /\ Low(k) = Parent(k - 1) /\ Low(k) <= -3 /\ Low(k) >= -2 - NWORDS
             /\ Low(k) \in Int /\ k - 1 \in Nodes /\ k - 1 >= NDIRECT /\ ~(Past(k - 1) < 0)
  <2>1. k - 1 >= NDIRECT /\ ~(Past(k - 1) < 0)
    BY <1>1, <1>2, NumbersAre DEF Past
  <2>2. k - 1 \in Nodes
    BY <1>1, <1>2, NumbersAre DEF Nodes
  <2>3. PICK q \in Index : Parent(k - 1) = -3 - q
    BY <2>1, <2>2, PastIs
  <2>4. q \in Int /\ 0 <= q /\ q <= NWORDS - 1
    BY <2>3, NumbersAre DEF Index
  <2>5. Low(k) = Parent(k - 1)
    BY <1>1, <1>2, NumbersAre DEF Low
  <2>6. QED
    BY <2>1, <2>2, <2>3, <2>4, <2>5, NumbersAre
<1>3. k <= NDIRECT => Low(k) = 0
  BY DEF Low
<1>4. k > NDIRECT /\ Past(k) <= 0 => Low(k) = -1
  BY <1>1, NumbersAre DEF Low
<1>5. QED
  BY <1>1, <1>2, <1>3, <1>4, NumbersAre

\* The node above a used one is used.
LEMMA UsedIsWithin ==
    ASSUME NEW k \in 0 .. Most, NEW x \in Used(k)
    PROVE  /\ x \in Nodes /\ x \in Int /\ x < k
           /\ ~Top(x) => Parent(x) \in Used(k)
<1>1. /\ k \in Nat /\ k <= Most /\ Low(k) \in Int /\ x \in Int /\ Low(k) <= x /\ x < k
      /\ Low(k) >= -2 - NWORDS
  <2>1. k \in Nat /\ k <= Most /\ Low(k) \in Int /\ Low(k) >= -2 - NWORDS
    BY LowIs, NumbersAre
  <2>2. QED
    BY <2>1 DEF Used
<1>2. x \in Nodes
  BY <1>1, NumbersAre DEF Nodes
<1>3. ASSUME ~Top(x)
      PROVE  Parent(x) \in Int /\ Low(k) <= Parent(x) /\ Parent(x) < 0
  <2>1. x # -1 /\ x # -2 /\ (x < 0 \/ x >= NDIRECT)
    BY <1>1, <1>3, NumbersAre DEF Top
  <2>2. CASE x < 0
    BY <1>1, <2>1, <2>2 DEF Parent
  <2>3. CASE x >= NDIRECT /\ Past(x) < 0
    <3>1. Parent(x) = -1
      BY <1>1, <2>3, NumbersAre DEF Parent
    <3>2. k > NDIRECT
      BY <1>1, <2>3, NumbersAre
    <3>3. Low(k) <= -1
      BY <3>2, LowIs
    <3>4. QED
      BY <3>1, <3>3
  <2>4. CASE x >= NDIRECT /\ ~(Past(x) < 0)
    <3>1. k > NDIRECT /\ ~(Past(k) <= 0) /\ x <= k - 1
      BY <1>1, <2>4, NumbersAre DEF Past
    <3>2. Low(k) = Parent(k - 1) /\ k - 1 \in Nodes
      BY <3>1, LowIs
    <3>3. Parent(k - 1) <= Parent(x)
      BY <1>2, <2>4, <3>1, <3>2, ParentOrder
    <3>4. Parent(x) \in Int /\ Parent(x) < 0
      BY <1>2, <1>3, NodeIs
    <3>5. QED
      BY <3>2, <3>3, <3>4
  <2>5. QED
    BY <2>1, <2>2, <2>3, <2>4
<1>4. ~Top(x) => Parent(x) \in Used(k)
  BY <1>1, <1>3 DEF Used
<1>5. QED
  BY <1>1, <1>2, <1>4

\* The blocks on the way to block k are those that a file of k blocks and one of
\* k + 1 blocks have more or less.
LEMMA PathStep ==
    ASSUME NEW k \in 0 .. Most, k < Most
    PROVE  Used(k + 1) = Used(k) \cup Path(k)
<1>1. /\ k \in Nat /\ k + 1 \in 0 .. Most /\ k + 1 \in Nat /\ k \in Nodes /\ k + 1 - 1 = k
      /\ ~(k < 0) /\ Low(k) \in Int /\ Low(k + 1) \in Int
  <2>1. k \in Nat /\ k + 1 \in 0 .. Most /\ k + 1 \in Nat /\ k + 1 - 1 = k /\ ~(k < 0)
    BY NumbersAre
  <2>2. k \in Nodes
    BY <2>1, NumbersAre DEF Nodes
  <2>3. QED
    BY <2>1, <2>2, LowIs
<1>2. CASE k < NDIRECT
  <2>1. Path(k) = {k} /\ Low(k) = 0 /\ Low(k + 1) = 0
    BY <1>1, <1>2, LowIs, NumbersAre DEF Path
  <2>2. QED
    BY <1>1, <2>1 DEF Used
<1>3. CASE ~(k < NDIRECT) /\ Past(k) < 0
  <2>1. k + 1 > NDIRECT /\ Past(k + 1) <= 0
    BY <1>1, <1>3, NumbersAre DEF Past
  <2>2. Low(k + 1) = -1
    BY <1>1, <2>1, LowIs
  <2>3. Path(k) = {k, -1}
    BY <1>3 DEF Path
  <2>4. Low(k) = 0 \/ Low(k) = -1
    BY <1>1, <1>3, LowIs, NumbersAre DEF Past
  <2>5. QED
    BY <1>1, <2>2, <2>3, <2>4 DEF Used
<1>4. CASE ~(k < NDIRECT) /\ ~(Past(k) < 0)
  <2>1. k + 1 > NDIRECT /\ ~(Past(k + 1) <= 0)
    BY <1>1, <1>4, NumbersAre DEF Past
  <2>2. Low(k + 1) = Parent(k) /\ Low(k + 1) <= -3
    BY <1>1, <2>1, LowIs
  <2>3. Path(k) = {k, -2, Parent(k)}
    BY <1>4 DEF Path
  <2>4. CASE Past(k) = 0
    <3>1. k > NDIRECT
      BY <1>1, <1>4, <2>4, NumbersAre DEF Past
    <3>2. Low(k) = -1
      BY <2>4, <3>1, LowIs
    <3>3. Parent(k) = -3
      <4>1. 0 \div NWORDS = 0
        BY NumbersAre
      <4>2. QED
        BY <1>1, <1>4, <2>4, <4>1, PastIs, NumbersAre
    <3>4. QED
      BY <1>1, <2>2, <2>3, <3>2, <3>3 DEF Used
  <2>5. CASE Past(k) # 0
    <3>1. k > NDIRECT /\ ~(Past(k) <= 0)
      BY <1>1, <1>4, <2>5, NumbersAre DEF Past
    <3>2. Low(k) = Parent(k - 1) /\ Low(k) <= -3 /\ k - 1 \in Nodes /\ k - 1 >= NDIRECT /\ ~(Past(k - 1) < 0)
      BY <3>1, LowIs
    <3>3. k - 1 <= k /\ k = k - 1 + 1
      BY <1>1
    <3>4. Parent(k) = Parent(k - 1) \/ Parent(k) = Parent(k - 1) - 1
      BY <1>1, <3>2, <3>3, ParentOrder
    <3>5. QED
      BY <1>1, <2>2, <2>3, <3>2, <3>4 DEF Used
  <2>6. QED
    BY <2>4, <2>5
<1>5. QED
  BY <1>2, <1>3, <1>4

\* A used block was found along used ones.
LEMMA PathUsed ==
    ASSUME NEW k \in 0 .. Most, NEW x \in Used(k), x >= 0
    PROVE  Path(x) \subseteq Used(k)
<1>1. x \in Nodes /\ x \in Int
  BY UsedIsWithin
<1>2. CASE x < NDIRECT
  BY <1>2 DEF Path
<1>3. CASE ~(x < NDIRECT) /\ Past(x) < 0
  <2>1. Parent(x) = -1 /\ ~Top(x)
    BY <1>1, <1>3, NumbersAre DEF Parent, Top
  <2>2. -1 \in Used(k)
    BY <2>1, UsedIsWithin
  <2>3. QED
    BY <1>3, <2>2 DEF Path
<1>4. CASE ~(x < NDIRECT) /\ ~(Past(x) < 0)
  <2>1. x >= NDIRECT
    BY <1>1, <1>4, NumbersAre
  <2>2. PICK q \in Index : Parent(x) = -3 - q
    BY <1>1, <1>4, <2>1, PastIs
  <2>3. ~Top(x)
    BY <1>1, <2>1, NumbersAre DEF Top
  <2>4. Parent(x) \in Used(k)
    BY <2>3, UsedIsWithin
  <2>5. ~Top(-3 - q) /\ Parent(-3 - q) = -2
    BY NodeAt
  <2>6. -2 \in Used(k)
    BY <2>2, <2>4, <2>5, UsedIsWithin
  <2>7. QED
    BY <1>4, <2>4, <2>6 DEF Path
<1>5. QED
  BY <1>2, <1>3, <1>4

\* How many nodes there are.
LEMMA UsedCardinality ==
    ASSUME NEW k \in 0 .. Most
    PROVE  /\ IsFiniteSet(Used(k)) /\ Cardinality(Used(k)) = k - Low(k)
           /\ Used(0) = {} /\ Used(1) = {0}
<1>1. k \in Int /\ k >= 0 /\ Low(k) \in Int /\ k - 1 \in Int
  BY LowIs, NumbersAre
<1>2. Low(k) <= 0
  BY <1>1, LowIs, NumbersAre
<1>3. /\ IsFiniteSet(Low(k) .. k - 1)
      /\ Cardinality(Low(k) .. k - 1) = IF Low(k) > k - 1 THEN 0 ELSE k - 1 - Low(k) + 1
  BY <1>1, FS_Interval
<1>4. Cardinality(Low(k) .. k - 1) = k - Low(k)
  BY <1>1, <1>2, <1>3, LowIs, NumbersAre
<1>5. Low(0) = 0 /\ Low(1) = 0
  BY NumbersAre DEF Low
<1>6. QED
  BY <1>3, <1>4, <1>5 DEF Used

\* The blocks of a file of n words.
Needed(n) == (n + NWORDS - 1) \div NWORDS

\* They are the fewest that are large enough.
LEMMA NeededIs ==
    ASSUME NEW n \in Nat, NEW k \in Nat
    PROVE  /\ Needed(n) \in Nat
           /\ Needed(n) <= k <=> n <= NWORDS * k
           /\ n > 0 => Needed(n) > 0
<1>1. PICK w \in Nat : w = NWORDS /\ w > 0
  BY NumbersAre
<1>2. PICK a \in Nat : a = n + NWORDS - 1
  BY <1>1
<1>3. a \div NWORDS \in Nat /\ Needed(n) = a \div NWORDS
  BY <1>2, DivIs DEF Needed
<1>4. PICK q \in Nat : q = Needed(n) /\ q = a \div NWORDS
  BY <1>3
<1>5. a < NWORDS * (k + 1) <=> q < k + 1
  BY <1>2, <1>4, DivOrder
<1>6. NWORDS * (k + 1) = NWORDS * k + NWORDS /\ NWORDS * k \in Nat
  BY <1>1
<1>7. q <= k <=> n <= NWORDS * k
  BY <1>1, <1>2, <1>4, <1>5, <1>6
<1>8. a < NWORDS * 1 <=> q < 1
  BY <1>2, <1>4, DivOrder
<1>9. n > 0 => q > 0
  BY <1>1, <1>2, <1>4, <1>8
<1>10. QED
  BY <1>4, <1>7, <1>9

\* A file has no more blocks than its inode has room for.
LEMMA HeldIs ==
    ASSUME NEW f \in File, NEW size \in Nat, size <= MaxSize[f], NEW first
    PROVE  /\ Held(size, first) \in 0 .. Most
           /\ size = 0 => Held(size, first) = IF first = 0 THEN 0 ELSE 1
           /\ size > 0 => Held(size, first) = Needed(size) /\ Held(size, first) > 0
<1>1. /\ MaxSize[f] \in Nat /\ MaxSize[f] <= NWORDS * Most
  BY BoundAssumption DEF Most
<1>2. NWORDS * Most \in Nat /\ Most \in Nat /\ Most >= 1
  <2>1. Most \in Nat /\ Most >= 1
    BY NumbersAre DEF Most
  <2>2. QED
    BY <2>1, NumbersAre
<1>3. Needed(size) \in Nat /\ Needed(size) <= Most
  BY <1>1, <1>2, NeededIs
<1>4. CASE size = 0
  BY <1>2, <1>4 DEF Held
<1>5. CASE size > 0
  <2>1. Held(size, first) = Needed(size)
    BY <1>5 DEF Held, Needed
  <2>2. Needed(size) > 0
    BY <1>5, NeededIs
  <2>3. QED
    BY <1>2, <1>3, <1>5, <2>1, <2>2
<1>6. QED
  BY <1>4, <1>5

\* A pass of file_write at offset o of a file that may become long enough.
PassAt(f, size, o, n, remain) ==
    /\ size \in Nat /\ o \in Nat /\ n \in Nat
    /\ o <= size /\ size <= MaxSize[f] /\ n > 0 /\ o + n <= MaxSize[f]
    /\ remain = Lesser(NWORDS - (o % NWORDS), n)

\* Where the offset lies: in one of the blocks of the file, or behind the last;
\* and the blocks of a file that is written up to the end of the pass.
Passing(f, size, o, n, first, remain) ==
    LET lbk == o \div NWORDS
        k == Held(size, first)
        now == IF o + remain > size THEN o + remain ELSE size
    IN  /\ remain \in Nat /\ 0 < remain /\ remain <= n /\ remain <= NWORDS - (o % NWORDS)
        /\ lbk \in 0 .. Most /\ lbk < Most /\ lbk <= k
        /\ now \in Nat /\ 0 < now /\ now <= MaxSize[f]
        /\ \A any : Held(now, any) = IF lbk = k THEN k + 1 ELSE k

\* What a pass moves, and where: file_write never leaves the blocks an inode has.
LEMMA PassIs ==
    ASSUME NEW f \in File, NEW size, NEW o, NEW n, NEW first, NEW remain, PassAt(f, size, o, n, remain)
    PROVE  Passing(f, size, o, n, first, remain)
<1>1. /\ size \in Nat /\ o \in Nat /\ n \in Nat
      /\ o <= size /\ size <= MaxSize[f] /\ n > 0 /\ o + n <= MaxSize[f]
      /\ remain = Lesser(NWORDS - (o % NWORDS), n)
  BY DEF PassAt
<1>2. PICK w \in Nat : w = NWORDS /\ w > 0
  BY NumbersAre
<1>3. PICK q \in Nat, r \in Nat :
         q = o \div NWORDS /\ r = o % NWORDS /\ r < NWORDS /\ o = NWORDS * q + r
  BY <1>1, DivIs
<1>4. PICK p \in Nat : p = NWORDS * q
  BY <1>2
<1>5. NWORDS * (q + 1) = p + w
  BY <1>2, <1>4
<1>6. remain \in Nat /\ 0 < remain /\ remain <= n /\ remain <= w - r
  BY <1>1, <1>2, <1>3 DEF Lesser
<1>7. PICK t \in Nat : t = o + remain /\ t > 0 /\ p < t /\ t <= p + w /\ t <= MaxSize[f] /\ o < t
  BY <1>1, <1>2, <1>3, <1>4, <1>6, BoundAssumption
<1>8. Needed(t) = q + 1
  <2>1. Needed(t) \in Nat /\ (Needed(t) <= q + 1 <=> t <= NWORDS * (q + 1))
    BY NeededIs
  <2>2. Needed(t) <= q <=> t <= NWORDS * q
    BY NeededIs
  <2>3. QED
    BY <1>2, <1>4, <1>5, <1>7, <2>1, <2>2
<1>9. Held(t, first) \in 0 .. Most /\ Held(t, first) = Needed(t)
  BY <1>1, <1>7, HeldIs
<1>10. q < Most
  BY <1>8, <1>9, NumbersAre
<1>11. PICK k \in Nat : k = Held(size, first) /\ k <= Most
  BY <1>1, HeldIs, NumbersAre
<1>12. q <= k
  <2>1. CASE size = 0
    <3>1. NWORDS * q = 0
      BY <1>1, <1>2, <1>3, <1>4, <2>1
    <3>2. q = 0
      BY <1>2, <3>1
    <3>3. QED
      BY <1>11, <3>2
  <2>2. CASE size > 0
    <3>1. k = Needed(size)
      BY <1>1, <1>11, <2>2, HeldIs
    <3>2. size <= NWORDS * k
      BY <1>1, <3>1, NeededIs
    <3>3. PICK z \in Nat : z = NWORDS * k /\ NWORDS * (k + 1) = z + w
      BY <1>2
    <3>4. o < NWORDS * (k + 1)
      BY <1>1, <1>2, <3>2, <3>3
    <3>5. q < k + 1
      BY <1>1, <1>3, <3>4, DivOrder
    <3>6. QED
      BY <3>5
  <2>3. QED
    BY <1>1, <2>1, <2>2
<1>13. PICK now \in Nat : now = (IF t > size THEN t ELSE size) /\ 0 < now /\ now <= MaxSize[f]
  BY <1>1, <1>7
<1>14. ASSUME NEW any
       PROVE  Held(now, any) = IF q = k THEN k + 1 ELSE k
  <2>1. Held(now, any) = Needed(now) /\ Needed(now) \in Nat
    BY <1>13, HeldIs, NeededIs
  <2>2. CASE size = 0
    <3>1. NWORDS * q = 0
      BY <1>1, <1>2, <1>3, <1>4, <2>2
    <3>2. q = 0
      BY <1>2, <3>1
    <3>3. k = 0 \/ k = 1
      BY <1>1, <1>11, <2>2, HeldIs
    <3>4. now = t
      BY <1>1, <1>7, <1>13, <2>2
    <3>5. QED
      BY <1>8, <2>1, <3>2, <3>3, <3>4
  <2>3. CASE size > 0
    <3>1. k = Needed(size)
      BY <1>1, <1>11, <2>3, HeldIs
    <3>2. \A j \in Nat : (k <= j <=> size <= NWORDS * j) /\ (q + 1 <= j <=> t <= NWORDS * j)
      BY <1>1, <1>8, <3>1, NeededIs
    <3>3. \A j \in Nat : Needed(now) <= j <=> now <= NWORDS * j
      BY NeededIs
    <3>4. \A j \in Nat : NWORDS * j \in Nat
      BY <1>2
    <3>5. \A j \in Nat : Needed(now) <= j <=> (k <= j /\ q + 1 <= j)
      BY <1>1, <1>13, <3>2, <3>3, <3>4
    <3>6. QED
      BY <1>11, <1>12, <2>1, <3>5
  <2>4. QED
    BY <1>1, <2>2, <2>3
<1>15. QED
  BY <1>2, <1>3, <1>6, <1>7, <1>10, <1>11, <1>12, <1>13, <1>14, NumbersAre DEF Passing

\* The lowest number of blocks is that of the nodes.
LEMMA LowestIs ==
    ASSUME NEW n \in Nat, n > 0, Needed(n) \in 0 .. Most
    PROVE  Lowest(n) = Needed(n) - Low(Needed(n))
<1>1. PICK k \in 0 .. Most : k = Needed(n) /\ k = (n + NWORDS - 1) \div NWORDS
  BY DEF Needed
<1>2. k \in Nat
  BY <1>1, NumbersAre
<1>3. PICK over \in Int : over = k - NDIRECT - NWORDS /\ over = Past(k)
  BY <1>2, NumbersAre DEF Past
<1>4. CASE over <= 0
  <2>1. Lowest(n) = k + (IF k > NDIRECT THEN 1 ELSE 0)
    BY <1>1, <1>3, <1>4 DEF Lowest
  <2>2. CASE k > NDIRECT
    <3>1. Low(k) = -1
      BY <1>3, <1>4, <2>2, LowIs
    <3>2. QED
      BY <1>1, <1>2, <2>1, <2>2, <3>1
  <2>3. CASE ~(k > NDIRECT)
    <3>1. Low(k) = 0
      BY <1>2, <2>3, LowIs, NumbersAre
    <3>2. QED
      BY <1>1, <1>2, <2>1, <2>3, <3>1
  <2>4. QED
    BY <2>2, <2>3
<1>5. CASE ~(over <= 0)
  <2>1. k > NDIRECT
    BY <1>2, <1>3, <1>5, NumbersAre
  <2>2. Lowest(n) = k + 1 + 1 + (over + NWORDS - 1) \div NWORDS
    BY <1>1, <1>3, <1>5, <2>1 DEF Lowest
  <2>3. Low(k) = Parent(k - 1) /\ k - 1 \in Nodes /\ k - 1 >= NDIRECT /\ ~(Past(k - 1) < 0)
    BY <1>3, <1>5, <2>1, LowIs
  <2>4. PICK m \in Nat, w \in Nat :
           m = Past(k - 1) /\ m + 1 = over /\ w = NWORDS /\ w > 0 /\ over + NWORDS - 1 = m + w
    BY <1>2, <1>3, <1>5, NumbersAre DEF Past
  <2>5. Low(k) = -3 - (m \div w) /\ m \div w \in Nat
    BY <2>3, <2>4, PastIs
  <2>6. (m + w) \div w = m \div w + 1
    <3>1. m = w * (m \div w) + (m % w) /\ m % w \in Nat /\ m % w < w
      BY <2>4, Quotient
    <3>2. PICK q \in Nat, r \in Nat : q = m \div w /\ r = m % w /\ m = w * q + r /\ r < w
      BY <2>5, <3>1
    <3>3. m + w = w * (q + 1) + r
      BY <2>4, <3>2
    <3>4. (m + w) \div NWORDS = q + 1
      BY <2>4, <3>2, <3>3, DivUnique
    <3>5. QED
      BY <2>4, <3>2, <3>4
  <2>7. Lowest(n) = k + 1 + 1 + (m \div w + 1)
    BY <2>2, <2>4, <2>6
  <2>8. QED
    BY <1>1, <1>2, <2>5, <2>7
<1>6. QED
  BY <1>3, <1>4, <1>5

-----------------------------------------------------------------------------
(* The device.                                                             *)

\* balloc finds a free block if there is one, and it counts it.
LEMMA FirstFreeIs ==
    ASSUME NEW d \in Device, d.free = Cardinality(Blk \ d.bmap), d.free > 0
    PROVE  /\ FirstFree(d) \in Blk /\ FirstFree(d) \notin d.bmap /\ FirstFree(d) # 0
           /\ FirstFree(d) \in Nat
           /\ Balloc(d) = [bmap |-> d.bmap \cup {FirstFree(d)}, free |-> d.free - 1,
                           disk |-> [d.disk EXCEPT ![FirstFree(d)] = Blank]]
           /\ Balloc(d) \in Device
           /\ Balloc(d).free = Cardinality(Blk \ Balloc(d).bmap)
<1>1. d.bmap \in SUBSET Blk /\ d.free \in Nat /\ d.disk \in [Blk \cup {0} -> Block]
  BY DEF Device
<1>2. Blk \ d.bmap # {}
  BY FS_EmptySet
<1>3. Blk \subseteq Nat \ {0} /\ IsFiniteSet(Blk)
  BY BlockAssumption
<1>4. \E b \in Blk \ d.bmap : \A c \in Blk \ d.bmap : b <= c
  <2>1. Blk \ d.bmap \in SUBSET Nat
    BY <1>3
  <2>2. QED
    BY <1>2, <2>1, LeastElement
<1>5. FirstFree(d) = CHOOSE b \in Blk \ d.bmap : \A c \in Blk \ d.bmap : b <= c
  BY <1>2 DEF FirstFree
<1>6. FirstFree(d) \in Blk \ d.bmap
  BY <1>4, <1>5
<1>7. PICK b \in Blk : b = FirstFree(d) /\ b \notin d.bmap /\ b # 0 /\ b \in Nat
  BY <1>3, <1>6
<1>8. Balloc(d) = [bmap |-> d.bmap \cup {b}, free |-> d.free - 1, disk |-> [d.disk EXCEPT ![b] = Blank]]
  <2>1. {b} \ {0} = {b}
    BY <1>7
  <2>2. QED
    BY <1>7, <2>1 DEF Balloc
<1>9. Blank \in Block
  BY DEF Blank, Block
<1>10. Balloc(d) \in Device
  <2>1. [d.disk EXCEPT ![b] = Blank] \in [Blk \cup {0} -> Block]
    BY <1>1, <1>9
  <2>2. QED
    BY <1>1, <1>7, <1>8, <2>1 DEF Device
<1>11. Balloc(d).free = Cardinality(Blk \ Balloc(d).bmap)
  <2>1. Blk \ Balloc(d).bmap = (Blk \ d.bmap) \ {b}
    BY <1>8
  <2>2. IsFiniteSet(Blk \ d.bmap)
    BY <1>3, FS_Subset
  <2>3. Cardinality((Blk \ d.bmap) \ {b}) = Cardinality(Blk \ d.bmap) - 1
    BY <1>7, <2>2, FS_RemoveElement
  <2>4. QED
    BY <1>8, <2>1, <2>3
<1>12. QED
  BY <1>7, <1>8, <1>10, <1>11

\* bdealloc of blocks in use counts them.
LEMMA BdeallocIs ==
    ASSUME NEW d \in Device, d.free = Cardinality(Blk \ d.bmap), NEW S \in SUBSET d.bmap
    PROVE  /\ Bdealloc(d, S) \in Device
           /\ Bdealloc(d, S).bmap = d.bmap \ S
           /\ Bdealloc(d, S).free = Cardinality(Blk \ Bdealloc(d, S).bmap)
           /\ \A b \in Blk \cup {0} : b \notin S => Bdealloc(d, S).disk[b] = d.disk[b]
<1>1. d.bmap \in SUBSET Blk /\ d.free \in Nat /\ d.disk \in [Blk \cup {0} -> Block]
  BY DEF Device
<1>2. S \cap d.bmap = S
  OBVIOUS
<1>3. Bdealloc(d, S) =
        [bmap |-> d.bmap \ S, free |-> d.free + Cardinality(S),
         disk |-> [b \in Blk \cup {0} |-> IF b \in S THEN [j \in Index |-> Junk] ELSE d.disk[b]]]
  BY <1>2 DEF Bdealloc
<1>4. IsFiniteSet(Blk) /\ IsFiniteSet(S) /\ IsFiniteSet(Blk \ d.bmap)
  <2>1. IsFiniteSet(Blk)
    BY BlockAssumption
  <2>2. QED
    BY <1>1, <2>1, FS_Subset
<1>5. Cardinality(S) \in Nat
  BY <1>4, FS_CardinalityType
<1>6. Bdealloc(d, S) \in Device
  <2>1. [j \in Index |-> Junk] \in Block
    BY DEF Block
  <2>2. [b \in Blk \cup {0} |-> IF b \in S THEN [j \in Index |-> Junk] ELSE d.disk[b]]
           \in [Blk \cup {0} -> Block]
    BY <1>1, <2>1
  <2>3. d.free + Cardinality(S) \in Nat
    BY <1>1, <1>5
  <2>4. QED
    BY <1>1, <1>3, <2>2, <2>3 DEF Device
<1>7. Cardinality(Blk \ (d.bmap \ S)) = d.free + Cardinality(S)
  <2>1. Blk \ (d.bmap \ S) = (Blk \ d.bmap) \cup S /\ (Blk \ d.bmap) \cap S = {}
    BY <1>1
  <2>2. Cardinality((Blk \ d.bmap) \cup S) =
           Cardinality(Blk \ d.bmap) + Cardinality(S) - Cardinality((Blk \ d.bmap) \cap S)
    BY <1>4, FS_Union
  <2>3. Cardinality({}) = 0
    BY FS_EmptySet
  <2>4. Cardinality((Blk \ d.bmap) \cup S) = Cardinality(Blk \ d.bmap) + Cardinality(S) - 0
    BY <2>1, <2>2, <2>3
  <2>5. Cardinality(Blk \ (d.bmap \ S)) = Cardinality((Blk \ d.bmap) \cup S)
    BY <2>1
  <2>6. QED
    BY <1>1, <1>5, <2>4, <2>5
<1>8. QED
  BY <1>3, <1>6, <1>7

-----------------------------------------------------------------------------
(* A change of the device, and the nodes.                                  *)

\* The place of the number of node y holds what it held.
Same(d, ib, d2, ib2, y) ==
    IF Top(y) THEN ib2[Slot(y)] = ib[Slot(y)]
    ELSE d2.disk[Num(d, ib, Parent(y))][Slot(y)] = d.disk[Num(d, ib, Parent(y))][Slot(y)]

\* If the places of all nodes hold what they held, the numbers of the nodes are
\* those they were; and so is that of the next node if its place is unchanged.
LEMMA NumsKept ==
    ASSUME NEW d, NEW ib, NEW d2, NEW ib2, NEW V,
           \A y \in V : Within(V, y) /\ Same(d, ib, d2, ib2, y)
    PROVE  /\ \A y \in V : Num(d2, ib2, y) = Num(d, ib, y)
           /\ \A y \in Nodes : Within(V, y) /\ Same(d, ib, d2, ib2, y) => Num(d2, ib2, y) = Num(d, ib, y)
<1>1. ASSUME NEW y \in Nodes, Top(y), Same(d, ib, d2, ib2, y)
      PROVE  Num(d2, ib2, y) = Num(d, ib, y)
  BY <1>1, NumIs DEF Same
<1>2. ASSUME NEW y \in Nodes, ~Top(y), Same(d, ib, d2, ib2, y),
             Num(d2, ib2, Parent(y)) = Num(d, ib, Parent(y))
      PROVE  Num(d2, ib2, y) = Num(d, ib, y)
  BY <1>2, NumIs DEF Same
<1>3. ASSUME NEW y \in V, Top(y)
      PROVE  Num(d2, ib2, y) = Num(d, ib, y)
  BY <1>1, <1>3 DEF Within
<1>4. ASSUME NEW y \in V, ~Top(y), Top(Parent(y))
      PROVE  Num(d2, ib2, y) = Num(d, ib, y)
  <2>1. y \in Nodes /\ Parent(y) \in V /\ Same(d, ib, d2, ib2, y)
    BY <1>4 DEF Within
  <2>2. QED
    BY <1>2, <1>3, <1>4, <2>1
<1>5. ASSUME NEW y \in V
      PROVE  Num(d2, ib2, y) = Num(d, ib, y)
  <2>1. CASE ~Top(y) /\ ~Top(Parent(y))
    <3>1. y \in Nodes /\ Parent(y) \in V /\ Same(d, ib, d2, ib2, y)
      BY <2>1 DEF Within
    <3>2. Parent(Parent(y)) = -2 /\ Top(-2)
      BY <2>1, <3>1, NodeIs, Tops
    <3>3. Num(d2, ib2, Parent(y)) = Num(d, ib, Parent(y))
      BY <1>4, <2>1, <3>1, <3>2
    <3>4. QED
      BY <1>2, <2>1, <3>1, <3>3
  <2>2. QED
    BY <1>3, <1>4, <2>1
<1>6. ASSUME NEW y \in Nodes, Within(V, y), Same(d, ib, d2, ib2, y)
      PROVE  Num(d2, ib2, y) = Num(d, ib, y)
  <2>1. CASE Top(y)
    BY <1>1, <1>6, <2>1
  <2>2. CASE ~Top(y)
    <3>1. Parent(y) \in V
      BY <1>6, <2>2 DEF Within
    <3>2. QED
      BY <1>2, <1>5, <1>6, <2>2, <3>1
  <2>3. QED
    BY <2>1, <2>2
<1>7. QED
  BY <1>5, <1>6

\* The numbers of the nodes, and the data, are what they were.
Kept(d, I, U, d2, I2) ==
    \A g \in File : \A y \in U[g] :
        /\ Num(d2, I2[g], y) = Num(d, I[g], y)
        /\ y >= 0 => \A j \in Index :
             d2.disk[Num(d, I[g], y)][j] = d.disk[Num(d, I[g], y)][j]

\* File f has one node more.
Grow(U, f, x) == [U EXCEPT ![f] = U[f] \cup {x}]

\* The free block b is now that of node x of f: it is blank, and its number
\* is at the place of x, and nothing else has changed.
Placed(d, I, f, x, b, d2, I2) ==
    /\ b \in Blk /\ b \notin d.bmap /\ b # 0
    /\ d2 \in Device /\ d2.bmap = d.bmap \cup {b} /\ d2.free = d.free - 1
    /\ d2.free = Cardinality(Blk \ d2.bmap)
    /\ I2 \in Inodes
    /\ d2.disk[b] = Blank
    /\ \A c \in d.bmap : \A j \in Index :
          d2.disk[c][j] = d.disk[c][j] \/ (~Top(x) /\ c = Num(d, I[f], Parent(x)) /\ j = Slot(x))
    /\ \A g \in File : \A i \in 0 .. Double :
          I2[g][i] = I[g][i] \/ (Top(x) /\ g = f /\ i = Slot(x))
    /\ IF Top(x) THEN I2[f][Slot(x)] = b ELSE d2.disk[Num(d, I[f], Parent(x))][Slot(x)] = b

\* What holds of a node has a block in use above it.
LEMMA AboveIs ==
    ASSUME NEW d, NEW ib, NEW V, Rooted(d, ib, V), NEW x \in Nodes, Within(V, x), ~Top(x)
    PROVE  Parent(x) \in V /\ Num(d, ib, Parent(x)) \in d.bmap /\ Slot(x) \in Index
<1>1. Parent(x) \in V
  BY DEF Within
<1>2. QED
  BY <1>1, NodeIs DEF Rooted

\* All other places hold what they held.
LEMMA PlacedSame ==
    ASSUME NEW d, NEW I, NEW U, Owns(d, I, U), NEW f \in File, NEW x \in Nodes, Within(U[f], x),
           NEW b, NEW d2, NEW I2, Placed(d, I, f, x, b, d2, I2),
           NEW g \in File, NEW y \in Nodes, Within(U[g], y), g # f \/ y # x
    PROVE  Same(d, I[g], d2, I2[g], y)
<1>1. Rooted(d, I[g], U[g]) /\ Rooted(d, I[f], U[f]) /\ Apart(d, I, U)
  BY DEF Owns
<1>2. CASE Top(y)
  <2>1. Slot(y) \in 0 .. Double
    BY <1>2, NodeIs
  <2>2. I2[g][Slot(y)] = I[g][Slot(y)] \/ (Top(x) /\ g = f /\ Slot(y) = Slot(x))
    BY <2>1 DEF Placed
  <2>3. ~(Top(x) /\ g = f /\ Slot(y) = Slot(x))
    BY <1>2, NodeUnique
  <2>4. QED
    BY <1>2, <2>2, <2>3 DEF Same
<1>3. CASE ~Top(y)
  <2>1. Parent(y) \in U[g] /\ Num(d, I[g], Parent(y)) \in d.bmap /\ Slot(y) \in Index
    BY <1>1, <1>3, AboveIs
  <2>2. ASSUME ~Top(x), Num(d, I[g], Parent(y)) = Num(d, I[f], Parent(x)), Slot(y) = Slot(x)
        PROVE  FALSE
    <3>1. Parent(x) \in U[f]
      BY <1>1, <2>2, AboveIs
    <3>2. g = f /\ Parent(y) = Parent(x)
      BY <1>1, <2>1, <2>2, <3>1 DEF Apart
    <3>3. QED
      BY <1>3, <2>2, <3>2, NodeUnique
  <2>3. d2.disk[Num(d, I[g], Parent(y))][Slot(y)] = d.disk[Num(d, I[g], Parent(y))][Slot(y)]
    BY <2>1, <2>2 DEF Placed
  <2>4. QED
    BY <1>3, <2>3 DEF Same
<1>4. QED
  BY <1>2, <1>3

\* A file that has one node more.
LEMMA GrowIs ==
    ASSUME NEW U \in [File -> SUBSET Nodes], NEW f \in File, NEW x \in Nodes
    PROVE  /\ Grow(U, f, x) \in [File -> SUBSET Nodes]
           /\ Grow(U, f, x)[f] = U[f] \cup {x}
           /\ \A g \in File : g # f => Grow(U, f, x)[g] = U[g]
           /\ \A g \in File : U[g] \subseteq Grow(U, f, x)[g]
BY DEF Grow

\* The numbers after a new block is placed.
LEMMA PlacedNums ==
    ASSUME NEW d, NEW I, NEW U, Owns(d, I, U), NEW f \in File, NEW x \in Nodes, Within(U[f], x),
           x \notin U[f], NEW b, NEW d2, NEW I2, Placed(d, I, f, x, b, d2, I2)
    PROVE  /\ \A g \in File : \A y \in U[g] : Num(d2, I2[g], y) = Num(d, I[g], y)
           /\ \A g \in File : \A y \in Nodes : Within(U[g], y) /\ (g # f \/ y # x) =>
                 Num(d2, I2[g], y) = Num(d, I[g], y)
           /\ Num(d2, I2[f], x) = b
<1>1. ASSUME NEW g \in File
      PROVE  /\ \A y \in U[g] : Num(d2, I2[g], y) = Num(d, I[g], y)
             /\ \A y \in Nodes : Within(U[g], y) /\ (g # f \/ y # x) =>
                   Num(d2, I2[g], y) = Num(d, I[g], y)
  <2>1. Rooted(d, I[g], U[g])
    BY DEF Owns
  <2>2. ASSUME NEW y \in Nodes, Within(U[g], y), g # f \/ y # x
        PROVE  Same(d, I[g], d2, I2[g], y)
    BY <2>2, PlacedSame
  <2>3. \A y \in U[g] : Within(U[g], y) /\ Same(d, I[g], d2, I2[g], y)
    <3>1. ASSUME NEW y \in U[g]
          PROVE  Within(U[g], y) /\ Same(d, I[g], d2, I2[g], y)
      <4>1. Within(U[g], y) /\ y \in Nodes
        BY <2>1 DEF Rooted, Within
      <4>2. g # f \/ y # x
        OBVIOUS
      <4>3. QED
        BY <2>2, <4>1, <4>2
    <3>2. QED
      BY <3>1
  <2>4. \A y \in U[g] : Num(d2, I2[g], y) = Num(d, I[g], y)
    BY <2>3, NumsKept
  <2>5. \A y \in Nodes : Within(U[g], y) /\ Same(d, I[g], d2, I2[g], y) =>
           Num(d2, I2[g], y) = Num(d, I[g], y)
    BY <2>3, NumsKept
  <2>6. QED
    BY <2>2, <2>4, <2>5
<1>2. Num(d2, I2[f], x) = b
  <2>1. CASE Top(x)
    BY <2>1, NumIs DEF Placed
  <2>2. CASE ~Top(x)
    <3>1. Parent(x) \in U[f]
      BY <2>2 DEF Within
    <3>2. Num(d2, I2[f], Parent(x)) = Num(d, I[f], Parent(x))
      BY <1>1, <3>1
    <3>3. d2.disk[Num(d, I[f], Parent(x))][Slot(x)] = b
      BY <2>2 DEF Placed
    <3>4. QED
      BY <2>2, <3>2, <3>3, NumIs
  <2>3. QED
    BY <2>1, <2>2
<1>3. QED
  BY <1>1, <1>2

\* A file grows by one node, and nothing that was there changes.
LEMMA PlacedGrows ==
    ASSUME NEW d, NEW I, NEW U, Owns(d, I, U), NEW f \in File, NEW x \in Nodes, Within(U[f], x),
           x \notin U[f], NEW b, NEW d2, NEW I2, Placed(d, I, f, x, b, d2, I2)
    PROVE  /\ Owns(d2, I2, Grow(U, f, x)) /\ Kept(d, I, U, d2, I2)
           /\ Counted(d, I, U) => Counted(d2, I2, Grow(U, f, x))
<1>1. PICK W \in [File -> SUBSET Nodes] :
         /\ W = Grow(U, f, x) /\ W[f] = U[f] \cup {x}
         /\ \A g \in File : g # f => W[g] = U[g]
         /\ \A g \in File : U[g] \subseteq W[g]
  <2>1. U \in [File -> SUBSET Nodes]
    BY DEF Owns
  <2>2. QED
    BY <2>1, GrowIs
<1>2. /\ \A g \in File : Rooted(d, I[g], U[g]) /\ Ended(d, I[g], U[g])
      /\ Apart(d, I, U)
  BY DEF Owns
<1>3. /\ \A g \in File : \A y \in U[g] : Num(d2, I2[g], y) = Num(d, I[g], y)
      /\ \A g \in File : \A y \in Nodes : Within(U[g], y) /\ (g # f \/ y # x) =>
            Num(d2, I2[g], y) = Num(d, I[g], y)
      /\ Num(d2, I2[f], x) = b
  BY PlacedNums
<1>4. /\ b \notin d.bmap /\ d2.bmap = d.bmap \cup {b} /\ d2.disk[b] = Blank
      /\ d2 \in Device /\ d2.free = Cardinality(Blk \ d2.bmap) /\ I2 \in Inodes
  BY DEF Placed
<1>5. \A g \in File : \A y \in W[g] : y \in U[g] \/ (g = f /\ y = x)
  BY <1>1
<1>6. \A g \in File : \A y \in U[g] : Num(d, I[g], y) \in d.bmap
  BY <1>2 DEF Rooted
<1>7. ASSUME NEW g \in File
      PROVE  Rooted(d2, I2[g], W[g])
  <2>1. ASSUME NEW y \in W[g]
        PROVE  Within(W[g], y) /\ Num(d2, I2[g], y) \in d2.bmap
    <3>1. CASE y \in U[g]
      <4>1. Within(U[g], y)
        BY <1>2, <3>1 DEF Rooted
      <4>2. Within(W[g], y)
        BY <1>1, <4>1 DEF Within
      <4>3. QED
        BY <1>3, <1>4, <1>6, <3>1, <4>2
    <3>2. CASE g = f /\ y = x
      <4>1. Within(W[g], y)
        BY <1>1, <3>2 DEF Within
      <4>2. QED
        BY <1>3, <1>4, <3>2, <4>1
    <3>3. QED
      BY <1>5, <3>1, <3>2
  <2>2. QED
    BY <2>1 DEF Rooted
<1>8. ASSUME NEW g \in File
      PROVE  Ended(d2, I2[g], W[g])
  <2>1. ASSUME NEW y \in Nodes, Within(W[g], y), y \notin W[g]
        PROVE  Num(d2, I2[g], y) = 0
    <3>1. y \notin U[g] /\ (g # f \/ y # x)
      BY <1>1, <2>1
    <3>2. CASE Within(U[g], y)
      <4>1. Num(d, I[g], y) = 0
        BY <1>2, <3>1, <3>2 DEF Ended
      <4>2. QED
        BY <1>3, <3>1, <3>2, <4>1
    <3>3. CASE ~Within(U[g], y)
      <4>1. ~Top(y) /\ Parent(y) \in W[g] /\ Parent(y) \notin U[g]
        BY <2>1, <3>3 DEF Within
      <4>2. g = f /\ Parent(y) = x
        BY <1>5, <4>1
      <4>3. Num(d2, I2[g], Parent(y)) = b
        BY <1>3, <4>2
      <4>4. Slot(y) \in Index
        BY <4>1, NodeIs
      <4>5. Blank[Slot(y)] = 0
        BY <4>4 DEF Blank
      <4>6. QED
        BY <1>4, <4>1, <4>3, <4>5, NumIs
    <3>4. QED
      BY <3>2, <3>3
  <2>2. QED
    BY <2>1 DEF Ended
<1>9. Apart(d2, I2, W)
  <2>1. ASSUME NEW g \in File, NEW h \in File, NEW y \in W[g], NEW z \in W[h],
               Num(d2, I2[g], y) = Num(d2, I2[h], z)
        PROVE  g = h /\ y = z
    <3>1. CASE y \in U[g] /\ z \in U[h]
      BY <1>2, <1>3, <2>1, <3>1 DEF Apart
    <3>2. CASE y \in U[g] /\ h = f /\ z = x
      BY <1>3, <1>4, <1>6, <2>1, <3>2
    <3>3. CASE g = f /\ y = x /\ z \in U[h]
      BY <1>3, <1>4, <1>6, <2>1, <3>3
    <3>4. QED
      BY <1>5, <3>1, <3>2, <3>3
  <2>2. QED
    BY <2>1 DEF Apart
<1>10. ASSUME Counted(d, I, U)
       PROVE  Counted(d2, I2, W)
  <2>1. ASSUME NEW c \in d2.bmap
        PROVE  \E g \in File : \E y \in W[g] : Num(d2, I2[g], y) = c
    <3>1. CASE c = b
      BY <1>1, <1>3, <3>1
    <3>2. CASE c \in d.bmap
      <4>1. PICK g \in File : \E y \in U[g] : Num(d, I[g], y) = c
        BY <1>10, <3>2 DEF Counted
      <4>2. PICK y \in U[g] : Num(d, I[g], y) = c
        BY <4>1
      <4>3. y \in W[g]
        BY <1>1
      <4>4. QED
        BY <1>3, <4>2, <4>3
    <3>3. QED
      BY <1>4, <3>1, <3>2
  <2>2. QED
    BY <2>1 DEF Counted
<1>11. Owns(d2, I2, W)
  BY <1>1, <1>4, <1>7, <1>8, <1>9 DEF Owns
<1>12. Kept(d, I, U, d2, I2)
  <2>1. ASSUME NEW g \in File, NEW y \in U[g], y >= 0, NEW j \in Index
        PROVE  d2.disk[Num(d, I[g], y)][j] = d.disk[Num(d, I[g], y)][j]
    <3>1. ASSUME ~Top(x), Num(d, I[g], y) = Num(d, I[f], Parent(x))
          PROVE  FALSE
      <4>1. Parent(x) \in U[f] /\ Parent(x) < 0
        BY <3>1, NodeIs DEF Within
      <4>2. y = Parent(x)
        BY <1>2, <3>1, <4>1 DEF Apart
      <4>3. y \in Int /\ Parent(x) \in Int
        BY <3>1, <4>2, NodeIs
      <4>4. QED
        BY <2>1, <4>1, <4>2, <4>3
    <3>2. Num(d, I[g], y) \in d.bmap
      BY <1>6
    <3>3. QED
      BY <3>1, <3>2 DEF Placed
  <2>2. QED
    BY <1>3, <2>1 DEF Kept
<1>13. QED
  BY <1>1, <1>10, <1>11, <1>12

-----------------------------------------------------------------------------
(* get_bno.                                                                *)

\* What get_bno is for: node x of f has block bno, and nothing that was there
\* has changed; it takes at most one block.
Reached(d, I, U, f, x, d2, I2, bno) ==
    /\ Owns(d2, I2, Grow(U, f, x)) /\ Kept(d, I, U, d2, I2)
    /\ Counted(d, I, U) => Counted(d2, I2, Grow(U, f, x))
    /\ bno = Num(d2, I2[f], x)
    /\ d2.free + 1 >= d.free

\* A node that has a block already.
LEMMA ReachedBefore ==
    ASSUME NEW d, NEW I, NEW U, Owns(d, I, U), NEW f \in File, NEW x \in U[f]
    PROVE  /\ Num(d, I[f], x) \in Blk /\ Num(d, I[f], x) # 0
           /\ Reached(d, I, U, f, x, d, I, Num(d, I[f], x))
<1>1. d \in Device /\ U \in [File -> SUBSET Nodes] /\ Rooted(d, I[f], U[f])
  BY DEF Owns
<1>2. Num(d, I[f], x) \in Blk /\ Num(d, I[f], x) # 0
  <2>1. Num(d, I[f], x) \in d.bmap /\ d.bmap \subseteq Blk
    BY <1>1 DEF Rooted, Device
  <2>2. QED
    BY <2>1, BlockAssumption
<1>3. Grow(U, f, x) = U
  <2>1. U[f] \cup {x} = U[f]
    OBVIOUS
  <2>2. QED
    BY <1>1, <2>1 DEF Grow
<1>4. Kept(d, I, U, d, I)
  BY DEF Kept
<1>5. d.free \in Nat /\ d.free + 1 >= d.free
  BY <1>1 DEF Device
<1>6. QED
  BY <1>2, <1>3, <1>4, <1>5 DEF Reached

\* A node that gets one.
LEMMA ReachedNow ==
    ASSUME NEW d, NEW I, NEW U, Owns(d, I, U), NEW f \in File, NEW x \in Nodes, Within(U[f], x),
           x \notin U[f], NEW b, NEW d2, NEW I2, Placed(d, I, f, x, b, d2, I2)
    PROVE  Reached(d, I, U, f, x, d2, I2, b)
<1>1. /\ Owns(d2, I2, Grow(U, f, x)) /\ Kept(d, I, U, d2, I2)
      /\ Counted(d, I, U) => Counted(d2, I2, Grow(U, f, x))
  BY PlacedGrows
<1>2. b = Num(d2, I2[f], x)
  BY PlacedNums
<1>3. d2.free + 1 >= d.free
  <2>1. d.free \in Nat /\ d2.free = d.free - 1
    BY DEF Owns, Device, Placed
  <2>2. QED
    BY <2>1
<1>4. QED
  BY <1>1, <1>2, <1>3 DEF Reached

\* get_bno on a number of the inode.
LEMMA VisitTop ==
    ASSUME NEW d, NEW I, NEW U, Owns(d, I, U), d.free > 0, NEW f \in File,
           NEW x \in Nodes, Top(x), NEW blk, blk = I[f][Slot(x)],
           NEW I2, I2 = [I EXCEPT ![f] = [I[f] EXCEPT ![Slot(x)] = Bno(d, blk)]]
    PROVE  Reached(d, I, U, f, x, Grown(d, blk), I2, Bno(d, blk))
<1>1. Slot(x) \in 0 .. Double /\ Within(U[f], x) /\ blk = Num(d, I[f], x)
  <2>1. Slot(x) \in 0 .. Double
    BY NodeIs
  <2>2. Within(U[f], x)
    BY DEF Within
  <2>3. QED
    BY <2>1, <2>2, NumIs
<1>2. I[f] \in [0 .. Double -> Blk \cup {0}] /\ I \in [File -> [0 .. Double -> Blk \cup {0}]]
  BY DEF Owns, Inodes
<1>3. CASE x \in U[f]
  <2>1. blk # 0 /\ Reached(d, I, U, f, x, d, I, blk)
    BY <1>1, <1>3, ReachedBefore
  <2>2. Grown(d, blk) = d /\ Bno(d, blk) = blk
    BY <2>1 DEF Grown, Bno
  <2>3. [I[f] EXCEPT ![Slot(x)] = blk] = I[f]
    BY <1>1, <1>2
  <2>4. I2 = I
    BY <1>2, <2>2, <2>3
  <2>5. QED
    BY <2>1, <2>2, <2>4
<1>4. CASE x \notin U[f]
  <2>1. blk = 0
    BY <1>1, <1>4 DEF Owns, Ended
  <2>2. d \in Device /\ d.free = Cardinality(Blk \ d.bmap) /\ d.bmap \subseteq Blk
        /\ d.disk \in [Blk \cup {0} -> Block]
    BY DEF Owns, Device
  <2>3. PICK b \in Blk : b = FirstFree(d) /\ b \notin d.bmap /\ b # 0
    BY <2>2, FirstFreeIs
  <2>4. PICK e \in Device : /\ e = Balloc(d) /\ e.free = Cardinality(Blk \ e.bmap)
           /\ e = [bmap |-> d.bmap \cup {b}, free |-> d.free - 1, disk |-> [d.disk EXCEPT ![b] = Blank]]
    BY <2>2, <2>3, FirstFreeIs
  <2>5. Grown(d, blk) = e /\ Bno(d, blk) = b
    BY <2>1, <2>3, <2>4 DEF Grown, Bno
  <2>6. I2 = [I EXCEPT ![f] = [I[f] EXCEPT ![Slot(x)] = b]]
    BY <2>5
  <2>7. I2 \in Inodes
    BY <1>1, <1>2, <2>6 DEF Inodes
  <2>8. e.disk[b] = Blank /\ \A c \in d.bmap : e.disk[c] = d.disk[c]
    BY <2>2, <2>3, <2>4
  <2>9. I2[f][Slot(x)] = b
    <3>1. I2[f] = [I[f] EXCEPT ![Slot(x)] = b]
      BY <1>2, <2>6
    <3>2. QED
      BY <1>1, <1>2, <3>1
  <2>10. \A g \in File : \A i \in 0 .. Double : I2[g][i] = I[g][i] \/ (g = f /\ i = Slot(x))
    <3>1. I2[f] = [I[f] EXCEPT ![Slot(x)] = b]
      BY <1>2, <2>6
    <3>2. \A g \in File : g # f => I2[g] = I[g]
      BY <1>2, <2>6
    <3>3. \A i \in 0 .. Double : I2[f][i] = I[f][i] \/ i = Slot(x)
      BY <1>1, <1>2, <3>1
    <3>4. QED
      BY <3>2, <3>3
  <2>11. e.bmap = d.bmap \cup {b} /\ e.free = d.free - 1
    BY <2>4
  <2>12. Placed(d, I, f, x, b, e, I2)
    BY <2>3, <2>4, <2>7, <2>8, <2>9, <2>10, <2>11 DEF Placed
  <2>13. Reached(d, I, U, f, x, e, I2, b)
    BY <1>1, <1>4, <2>12, ReachedNow
  <2>14. QED
    BY <2>5, <2>13
<1>5. QED
  BY <1>3, <1>4

\* get_bno on a word of a block of numbers.
LEMMA VisitDeep ==
    ASSUME NEW d, NEW I, NEW U, Owns(d, I, U), d.free > 0, NEW f \in File,
           NEW x \in Nodes, ~Top(x), Parent(x) \in U[f],
           NEW blk, blk = Num(d, I[f], Parent(x)), NEW l, l = Slot(x)
    PROVE  Reached(d, I, U, f, x, Through(d, blk, l).dev, I, Through(d, blk, l).bno)
<1>1. Within(U[f], x)
  BY DEF Within
<1>2. /\ d \in Device /\ d.free = Cardinality(Blk \ d.bmap) /\ d.bmap \subseteq Blk
      /\ d.disk \in [Blk \cup {0} -> Block] /\ I \in Inodes /\ Rooted(d, I[f], U[f])
      /\ U \in [File -> SUBSET Nodes]
  BY DEF Owns, Device
<1>3. blk \in d.bmap /\ blk \in Blk \cup {0} /\ l \in Index
  BY <1>2, NodeIs DEF Rooted
<1>4. PICK w : w = d.disk[blk][l] /\ w = Num(d, I[f], x)
  BY NumIs
<1>5. Through(d, blk, l) = [dev |-> [Grown(d, w) EXCEPT !.disk[blk][l] = Bno(d, w)], bno |-> Bno(d, w)]
  BY <1>4 DEF Through
<1>6. CASE x \in U[f]
  <2>1. w # 0 /\ Reached(d, I, U, f, x, d, I, w)
    BY <1>4, <1>6, ReachedBefore
  <2>2. Grown(d, w) = d /\ Bno(d, w) = w
    BY <2>1 DEF Grown, Bno
  <2>3. [d EXCEPT !.disk[blk][l] = w] = d
    <3>1. d.disk[blk] \in [Index -> {0, Plain, Mark, Junk} \cup Blk]
      BY <1>2, <1>3 DEF Block
    <3>2. [d.disk[blk] EXCEPT ![l] = w] = d.disk[blk]
      BY <1>3, <1>4, <3>1
    <3>3. [d.disk EXCEPT ![blk] = d.disk[blk]] = d.disk
      BY <1>2, <1>3
    <3>4. [d EXCEPT !.disk = d.disk] = d
      BY <1>2 DEF Device
    <3>5. QED
      BY <3>2, <3>3, <3>4
  <2>4. QED
    BY <1>5, <2>1, <2>2, <2>3
<1>7. CASE x \notin U[f]
  <2>1. w = 0
    BY <1>1, <1>4, <1>7 DEF Owns, Ended
  <2>2. PICK b \in Blk : b = FirstFree(d) /\ b \notin d.bmap /\ b # 0
    BY <1>2, FirstFreeIs
  <2>3. PICK e \in Device : /\ e = Balloc(d) /\ e.free = Cardinality(Blk \ e.bmap)
           /\ e = [bmap |-> d.bmap \cup {b}, free |-> d.free - 1, disk |-> [d.disk EXCEPT ![b] = Blank]]
    BY <1>2, <2>2, FirstFreeIs
  <2>4. Grown(d, w) = e /\ Bno(d, w) = b
    BY <2>1, <2>2, <2>3 DEF Grown, Bno
  <2>5. e.bmap = d.bmap \cup {b} /\ e.free = d.free - 1 /\ e.disk \in [Blk \cup {0} -> Block]
        /\ e.disk[b] = Blank /\ \A c \in d.bmap : e.disk[c] = d.disk[c]
    BY <1>2, <2>2, <2>3 DEF Device
  <2>6. PICK e2 : e2 = [e EXCEPT !.disk[blk][l] = b]
    OBVIOUS
  <2>7. /\ e2.bmap = e.bmap /\ e2.free = e.free
        /\ e2.disk = [e.disk EXCEPT ![blk] = [e.disk[blk] EXCEPT ![l] = b]]
        /\ e2 \in [bmap : SUBSET Blk, free : Nat, disk : {e2.disk}]
    BY <2>6 DEF Device
  <2>8. e.disk[blk] \in [Index -> {0, Plain, Mark, Junk} \cup Blk]
    BY <1>3, <2>5 DEF Block
  <2>9. [e.disk[blk] EXCEPT ![l] = b] \in Block
    BY <2>8 DEF Block
  <2>10. e2.disk \in [Blk \cup {0} -> Block]
    BY <1>3, <2>5, <2>7, <2>9
  <2>11. e2 \in Device
    BY <2>7, <2>10 DEF Device
  <2>12. e2.disk[b] = Blank /\ e2.disk[blk][l] = b
    BY <1>3, <2>2, <2>5, <2>7, <2>8
  <2>13. \A c \in d.bmap : \A j \in Index : e2.disk[c][j] = d.disk[c][j] \/ (c = blk /\ j = l)
    BY <1>2, <1>3, <2>5, <2>7, <2>8
  <2>14. Placed(d, I, f, x, b, e2, I)
    BY <1>2, <2>2, <2>3, <2>5, <2>7, <2>11, <2>12, <2>13 DEF Placed
  <2>15. Reached(d, I, U, f, x, e2, I, b)
    BY <1>1, <1>7, <2>14, ReachedNow
  <2>16. QED
    BY <1>5, <2>4, <2>6, <2>15
<1>8. QED
  BY <1>6, <1>7

-----------------------------------------------------------------------------
(* The way down to a block of a file.                                      *)

\* What is kept in one visit and in the next.
LEMMA KeptOn ==
    ASSUME NEW d, NEW I, NEW U, NEW d1, NEW I1, NEW W, NEW d2, NEW I2,
           Kept(d, I, U, d1, I1), Kept(d1, I1, W, d2, I2), \A g \in File : U[g] \subseteq W[g]
    PROVE  Kept(d, I, U, d2, I2)
<1>1. ASSUME NEW g \in File, NEW y \in U[g]
      PROVE  /\ Num(d2, I2[g], y) = Num(d, I[g], y)
             /\ y >= 0 => \A j \in Index :
                   d2.disk[Num(d, I[g], y)][j] = d.disk[Num(d, I[g], y)][j]
  <2>1. y \in W[g]
    OBVIOUS
  <2>2. /\ Num(d1, I1[g], y) = Num(d, I[g], y)
        /\ y >= 0 => \A j \in Index :
             d1.disk[Num(d, I[g], y)][j] = d.disk[Num(d, I[g], y)][j]
    BY DEF Kept
  <2>3. /\ Num(d2, I2[g], y) = Num(d1, I1[g], y)
        /\ y >= 0 => \A j \in Index :
             d2.disk[Num(d1, I1[g], y)][j] = d1.disk[Num(d1, I1[g], y)][j]
    BY <2>1 DEF Kept
  <2>4. QED
    BY <2>2, <2>3
<1>2. QED
  BY <1>1 DEF Kept

\* A visit and then a whole way: nothing that was there changes.
LEMMA ReachedOn ==
    ASSUME NEW d, NEW I, NEW U, Owns(d, I, U), NEW f \in File, NEW x \in Nodes,
           NEW d1, NEW I1, NEW b, Reached(d, I, U, f, x, d1, I1, b),
           NEW d2, NEW I2, Kept(d1, I1, Grow(U, f, x), d2, I2)
    PROVE  Kept(d, I, U, d2, I2)
<1>1. U \in [File -> SUBSET Nodes]
  BY DEF Owns
<1>2. PICK W : W = Grow(U, f, x) /\ \A g \in File : U[g] \subseteq W[g]
  BY <1>1, GrowIs
<1>3. Kept(d, I, U, d1, I1) /\ Kept(d1, I1, W, d2, I2)
  BY <1>2 DEF Reached
<1>4. QED
  BY <1>2, <1>3, KeptOn

\* The first visit, to a number of the inode.
LEMMA DirectIs ==
    ASSUME NEW U, Owns(dev, i_block, U), dev.free > 0, NEW f \in File, NEW x \in Nodes, Top(x)
    PROVE  Reached(dev, i_block, U, f, x, Direct(f, Slot(x)).dev,
                   [i_block EXCEPT ![f] = Direct(f, Slot(x)).ib], Direct(f, Slot(x)).bno)
<1>1. PICK blk : blk = i_block[f][Slot(x)]
  OBVIOUS
<1>2. Direct(f, Slot(x)) = [dev |-> Grown(dev, blk), ib |-> [i_block[f] EXCEPT ![Slot(x)] = Bno(dev, blk)],
                            bno |-> Bno(dev, blk)]
  BY <1>1 DEF Direct
<1>3. PICK I2 : I2 = [i_block EXCEPT ![f] = [i_block[f] EXCEPT ![Slot(x)] = Bno(dev, blk)]]
  OBVIOUS
<1>4. Reached(dev, i_block, U, f, x, Grown(dev, blk), I2, Bno(dev, blk))
  BY <1>1, <1>3, VisitTop
<1>5. QED
  BY <1>2, <1>3, <1>4

\* file_write finds block lbk of f, and takes the blocks that lead to it and are
\* not there; nothing else changes.
At(f, lbk, U, d2, I2, bno) ==
    /\ Owns(d2, I2, [U EXCEPT ![f] = U[f] \cup Path(lbk)])
    /\ Counted(dev, i_block, U) => Counted(d2, I2, [U EXCEPT ![f] = U[f] \cup Path(lbk)])
    /\ Kept(dev, i_block, U, d2, I2)
    /\ bno = Num(d2, I2[f], lbk)

\* get_bno down to block lbk, direct, indirect or doubly indirect.
LEMMA LocatedIs ==
    ASSUME NEW U, Owns(dev, i_block, U), dev.free >= 3, NEW f \in File,
           NEW lbk \in 0 .. Most, lbk < Most
    PROVE  At(f, lbk, U, Located(f, lbk).dev, [i_block EXCEPT ![f] = Located(f, lbk).ib],
              Located(f, lbk).bno)
<1>1. lbk \in Nodes /\ lbk \in Nat /\ dev.free \in Nat /\ dev.free > 0
  <2>1. lbk \in Nodes /\ lbk \in Nat
    BY NumbersAre DEF Nodes
  <2>2. QED
    BY <2>1 DEF Owns, Device
<1>2. U \in [File -> SUBSET Nodes] /\ i_block \in Inodes
  BY DEF Owns
<1>3. CASE lbk < NDIRECT
  <2>1. lbk \in 0 .. NDIRECT - 1
    BY <1>1, <1>3, NumbersAre
  <2>2. Top(lbk) /\ Slot(lbk) = lbk
    BY <2>1, Tops
  <2>3. PICK t : t = Direct(f, lbk) /\ t = Located(f, lbk)
    BY <1>3 DEF Located
  <2>4. PICK I2 : I2 = [i_block EXCEPT ![f] = t.ib]
    OBVIOUS
  <2>5. Reached(dev, i_block, U, f, lbk, t.dev, I2, t.bno)
    <3>1. lbk \in Nodes /\ Top(lbk) /\ Slot(lbk) = lbk
      BY <1>1, <2>2
    <3>2. Reached(dev, i_block, U, f, lbk, Direct(f, Slot(lbk)).dev,
                  [i_block EXCEPT ![f] = Direct(f, Slot(lbk)).ib], Direct(f, Slot(lbk)).bno)
      BY <1>1, <3>1, DirectIs
    <3>3. QED
      BY <2>2, <2>3, <2>4, <3>1, <3>2
  <2>6. Path(lbk) = {lbk}
    BY <1>3 DEF Path
  <2>7. At(f, lbk, U, t.dev, I2, t.bno)
    BY <2>5, <2>6 DEF At, Reached, Grow
  <2>8. QED
    BY <2>3, <2>4, <2>7
<1>4. CASE ~(lbk < NDIRECT) /\ Past(lbk) < 0
  <2>1. /\ lbk < NDIRECT + NWORDS /\ ~Top(lbk) /\ Parent(lbk) = -1 /\ Slot(lbk) = lbk - NDIRECT
    <3>1. lbk < NDIRECT + NWORDS /\ lbk # -1 /\ lbk # -2 /\ ~(lbk < 0)
      BY <1>1, <1>4, NumbersAre DEF Past
    <3>2. QED
      BY <1>1, <1>4, <3>1, NumbersAre DEF Top, Parent, Slot
  <2>2. Path(lbk) = {lbk, -1}
    BY <1>4 DEF Path
  <2>3. PICK s, t : /\ s = Direct(f, Single) /\ t = Through(s.dev, s.bno, Slot(lbk))
           /\ Located(f, lbk) = [dev |-> t.dev, ib |-> s.ib, bno |-> t.bno]
    BY <1>4, <2>1 DEF Located, Indirect
  <2>4. PICK I1 : I1 = [i_block EXCEPT ![f] = s.ib]
    OBVIOUS
  <2>5. Reached(dev, i_block, U, f, -1, s.dev, I1, s.bno)
    <3>1. -1 \in Nodes /\ Top(-1) /\ Slot(-1) = Single
      BY <1>1, Tops
    <3>2. Reached(dev, i_block, U, f, -1, Direct(f, Slot(-1)).dev,
                  [i_block EXCEPT ![f] = Direct(f, Slot(-1)).ib], Direct(f, Slot(-1)).bno)
      BY <1>1, <3>1, DirectIs
    <3>3. QED
      BY <2>3, <2>4, <3>1, <3>2
  <2>6. PICK U1 \in [File -> SUBSET Nodes] : U1 = Grow(U, f, -1) /\ U1[f] = U[f] \cup {-1}
    BY <1>2, GrowIs, Tops
  <2>7. /\ Owns(s.dev, I1, U1) /\ s.bno = Num(s.dev, I1[f], Parent(lbk)) /\ s.dev.free + 1 >= dev.free
        /\ Counted(dev, i_block, U) => Counted(s.dev, I1, U1)
    BY <2>1, <2>5, <2>6 DEF Reached
  <2>8. s.dev.free \in Nat /\ s.dev.free > 0
    BY <1>1, <2>7 DEF Owns, Device
  <2>9. Reached(s.dev, I1, U1, f, lbk, t.dev, I1, t.bno)
    BY <1>1, <2>1, <2>3, <2>6, <2>7, <2>8, VisitDeep
  <2>10. Kept(dev, i_block, U, t.dev, I1)
    <3>1. Kept(s.dev, I1, Grow(U, f, -1), t.dev, I1)
      BY <2>6, <2>9 DEF Reached
    <3>2. QED
      BY <2>5, <3>1, Tops, ReachedOn
  <2>11. Grow(U1, f, lbk) = [U EXCEPT ![f] = U[f] \cup Path(lbk)]
    <3>1. U1[f] \cup {lbk} = U[f] \cup Path(lbk)
      BY <2>2, <2>6
    <3>2. Grow(U1, f, lbk) = [U1 EXCEPT ![f] = U[f] \cup Path(lbk)]
      BY <3>1 DEF Grow
    <3>3. QED
      BY <1>2, <2>6, <3>2 DEF Grow
  <2>12. At(f, lbk, U, t.dev, I1, t.bno)
    BY <2>7, <2>9, <2>10, <2>11 DEF At, Reached
  <2>13. QED
    BY <2>3, <2>4, <2>12
<1>5. CASE ~(lbk < NDIRECT) /\ ~(Past(lbk) < 0)
  <2>1. /\ ~(lbk < NDIRECT + NWORDS) /\ lbk >= NDIRECT /\ ~Top(lbk)
        /\ lbk - NDIRECT - NWORDS = Past(lbk)
    <3>1. ~(lbk < NDIRECT + NWORDS) /\ lbk >= NDIRECT /\ lbk # -1 /\ lbk # -2
      BY <1>1, <1>5, NumbersAre DEF Past
    <3>2. QED
      BY <1>1, <1>5, <3>1, NumbersAre DEF Top, Past
  <2>2. PICK q \in Index : /\ q = Past(lbk) \div NWORDS /\ Parent(lbk) = -3 - q
                           /\ Slot(lbk) = Past(lbk) % NWORDS
    BY <1>1, <1>5, <2>1, PastIs
  <2>3. PICK p \in Nodes : p = -3 - q /\ Parent(lbk) = p /\ ~Top(p) /\ Parent(p) = -2 /\ Slot(p) = q
    BY <2>2, NodeAt
  <2>4. Path(lbk) = {lbk, -2, p}
    BY <1>5, <2>3 DEF Path
  <2>5. PICK s, r, t :
           /\ s = Direct(f, Double) /\ r = Through(s.dev, s.bno, Slot(p))
           /\ t = Through(r.dev, r.bno, Slot(lbk))
           /\ Located(f, lbk) = [dev |-> t.dev, ib |-> s.ib, bno |-> t.bno]
    BY <1>5, <2>1, <2>2, <2>3 DEF Located, DoubleIndirect
  <2>6. PICK I1 : I1 = [i_block EXCEPT ![f] = s.ib]
    OBVIOUS
  <2>7. Reached(dev, i_block, U, f, -2, s.dev, I1, s.bno)
    <3>1. -2 \in Nodes /\ Top(-2) /\ Slot(-2) = Double
      BY <1>1, Tops
    <3>2. Reached(dev, i_block, U, f, -2, Direct(f, Slot(-2)).dev,
                  [i_block EXCEPT ![f] = Direct(f, Slot(-2)).ib], Direct(f, Slot(-2)).bno)
      BY <1>1, <3>1, DirectIs
    <3>3. QED
      BY <2>5, <2>6, <3>1, <3>2
  <2>8. PICK U1 \in [File -> SUBSET Nodes] : U1 = Grow(U, f, -2) /\ U1[f] = U[f] \cup {-2}
    BY <1>2, GrowIs, Tops
  <2>9. /\ Owns(s.dev, I1, U1) /\ s.bno = Num(s.dev, I1[f], Parent(p)) /\ s.dev.free + 1 >= dev.free
        /\ Counted(dev, i_block, U) => Counted(s.dev, I1, U1)
    BY <2>3, <2>7, <2>8 DEF Reached
  <2>10. s.dev.free \in Nat /\ s.dev.free >= 2
    BY <1>1, <2>9 DEF Owns, Device
  <2>11. Reached(s.dev, I1, U1, f, p, r.dev, I1, r.bno)
    BY <2>3, <2>5, <2>8, <2>9, <2>10, VisitDeep
  <2>12. PICK U2 \in [File -> SUBSET Nodes] : U2 = Grow(U1, f, p) /\ U2[f] = U1[f] \cup {p}
    BY <2>8, GrowIs
  <2>13. /\ Owns(r.dev, I1, U2) /\ r.bno = Num(r.dev, I1[f], Parent(lbk)) /\ r.dev.free + 1 >= s.dev.free
         /\ Counted(s.dev, I1, U1) => Counted(r.dev, I1, U2)
    BY <2>3, <2>11, <2>12 DEF Reached
  <2>14. r.dev.free \in Nat /\ r.dev.free > 0
    BY <2>10, <2>13 DEF Owns, Device
  <2>15. Reached(r.dev, I1, U2, f, lbk, t.dev, I1, t.bno)
    BY <1>1, <2>1, <2>3, <2>5, <2>12, <2>13, <2>14, VisitDeep
  <2>16. Kept(s.dev, I1, U1, t.dev, I1)
    <3>1. Kept(r.dev, I1, Grow(U1, f, p), t.dev, I1)
      BY <2>12, <2>15 DEF Reached
    <3>2. QED
      BY <2>9, <2>11, <3>1, ReachedOn
  <2>17. Kept(dev, i_block, U, t.dev, I1)
    <3>1. Kept(s.dev, I1, Grow(U, f, -2), t.dev, I1)
      BY <2>8, <2>16
    <3>2. QED
      BY <2>7, <3>1, Tops, ReachedOn
  <2>18. Grow(U2, f, lbk) = [U EXCEPT ![f] = U[f] \cup Path(lbk)]
    <3>1. U2[f] \cup {lbk} = U[f] \cup Path(lbk)
      BY <2>4, <2>8, <2>12
    <3>2. Grow(U2, f, lbk) = [U2 EXCEPT ![f] = U[f] \cup Path(lbk)]
      BY <3>1 DEF Grow
    <3>3. U2 = [U1 EXCEPT ![f] = U1[f] \cup {p}] /\ U1 = [U EXCEPT ![f] = U[f] \cup {-2}]
      BY <2>8, <2>12 DEF Grow
    <3>4. QED
      BY <1>2, <3>2, <3>3
  <2>19. At(f, lbk, U, t.dev, I1, t.bno)
    BY <2>9, <2>13, <2>15, <2>17, <2>18 DEF At, Reached
  <2>20. QED
    BY <2>5, <2>6, <2>19
<1>6. QED
  BY <1>3, <1>4, <1>5

-----------------------------------------------------------------------------
(* Data, and no numbers, in a block of data.                               *)

\* The words of block bno are now data, and d2 is the device d otherwise.
Rewrites(d, bno, data, d2) == data \in Block /\ d2 = [d EXCEPT !.disk[bno] = data]

Rewritten(d, I, W, bno, data, d2) ==
    /\ \A g \in File : \A y \in W[g] : Num(d2, I[g], y) = Num(d, I[g], y)
    /\ d2.disk[bno] = data
    /\ \A c \in Blk \cup {0} : c # bno => d2.disk[c] = d.disk[c]

\* put_block of a data block takes no block from a file, and no word from another block.
LEMMA DataWritten ==
    ASSUME NEW d, NEW I, NEW W, Owns(d, I, W), NEW f \in File, NEW x \in W[f], x >= 0,
           NEW bno, bno = Num(d, I[f], x), NEW data, NEW d2, Rewrites(d, bno, data, d2)
    PROVE  /\ Owns(d2, I, W) /\ Rewritten(d, I, W, bno, data, d2)
           /\ Counted(d, I, W) => Counted(d2, I, W)
<1>1. /\ d \in Device /\ d.bmap \in SUBSET Blk /\ d.free \in Nat /\ d.disk \in [Blk \cup {0} -> Block]
      /\ d.free = Cardinality(Blk \ d.bmap)
      /\ Apart(d, I, W) /\ I \in Inodes /\ W \in [File -> SUBSET Nodes]
      /\ \A g \in File : Rooted(d, I[g], W[g]) /\ Ended(d, I[g], W[g])
  BY DEF Owns, Device
<1>2. bno \in d.bmap
  BY <1>1 DEF Rooted
<1>3. d2 = [bmap |-> d.bmap, free |-> d.free, disk |-> [d.disk EXCEPT ![bno] = data]]
  BY <1>1 DEF Device, Rewrites
<1>4. /\ d2.bmap = d.bmap /\ d2.free = d.free /\ d2.disk \in [Blk \cup {0} -> Block]
      /\ d2.disk[bno] = data
      /\ \A c \in Blk \cup {0} : c # bno => d2.disk[c] = d.disk[c]
  BY <1>1, <1>2, <1>3 DEF Rewrites
<1>5. d2 \in Device
  BY <1>1, <1>3, <1>4 DEF Device
<1>6. ASSUME NEW g \in File, NEW y \in Nodes, Within(W[g], y)
      PROVE  Same(d, I[g], d2, I[g], y)
  <2>1. CASE Top(y)
    BY <2>1 DEF Same
  <2>2. CASE ~Top(y)
    <3>1. Parent(y) \in W[g] /\ Num(d, I[g], Parent(y)) \in d.bmap
      BY <1>1, <1>6, <2>2, AboveIs
    <3>2. Parent(y) < 0 /\ Parent(y) \in Int
      BY <2>2, NodeIs
    <3>3. Num(d, I[g], Parent(y)) # bno
      BY <1>1, <3>1, <3>2 DEF Apart
    <3>4. d2.disk[Num(d, I[g], Parent(y))] = d.disk[Num(d, I[g], Parent(y))]
      BY <1>1, <1>4, <3>1, <3>3
    <3>5. QED
      BY <2>2, <3>4 DEF Same
  <2>3. QED
    BY <2>1, <2>2
<1>7. ASSUME NEW g \in File
      PROVE  /\ \A y \in W[g] : Num(d2, I[g], y) = Num(d, I[g], y)
             /\ \A y \in Nodes : Within(W[g], y) => Num(d2, I[g], y) = Num(d, I[g], y)
  <2>1. \A y \in W[g] : Within(W[g], y) /\ y \in Nodes
    BY <1>1 DEF Rooted, Within
  <2>2. \A y \in W[g] : Within(W[g], y) /\ Same(d, I[g], d2, I[g], y)
    BY <1>6, <2>1
  <2>3. \A y \in W[g] : Num(d2, I[g], y) = Num(d, I[g], y)
    BY <2>2, NumsKept
  <2>4. \A y \in Nodes : Within(W[g], y) /\ Same(d, I[g], d2, I[g], y) => Num(d2, I[g], y) = Num(d, I[g], y)
    BY <2>2, NumsKept
  <2>5. QED
    BY <1>6, <2>3, <2>4
<1>8. \A g \in File : Rooted(d2, I[g], W[g]) /\ Ended(d2, I[g], W[g])
  BY <1>1, <1>4, <1>7 DEF Rooted, Ended
<1>9. Apart(d2, I, W)
  BY <1>1, <1>7 DEF Apart
<1>10. Counted(d, I, W) => Counted(d2, I, W)
  BY <1>1, <1>4, <1>7 DEF Counted
<1>11. Owns(d2, I, W)
  BY <1>1, <1>4, <1>5, <1>8, <1>9 DEF Owns
<1>12. QED
  BY <1>4, <1>7, <1>10, <1>11 DEF Rewritten

-----------------------------------------------------------------------------
(* clear_blocks.                                                           *)

\* The blocks of the nodes V.
Numbers(d, ib, V) == {Num(d, ib, x) : x \in V}

\* File f loses the blocks S and keeps the nodes W[f], numbers of its inode.
Loses(d, I, U, f, S, d2, I2, W) ==
    /\ S \subseteq Numbers(d, I[f], U[f] \ W[f])
    /\ d2 \in Device /\ d2.bmap = d.bmap \ S
    /\ d2.free = Cardinality(Blk \ d2.bmap)
    /\ \A b \in Blk \cup {0} : b \notin S => d2.disk[b] = d.disk[b]
    /\ I2 \in Inodes /\ \A g \in File : g # f => I2[g] = I[g]
    /\ \A x \in Nodes : Top(x) => I2[f][Slot(x)] = IF x \in W[f] THEN I[f][Slot(x)] ELSE 0
    /\ W \in [File -> SUBSET Nodes] /\ \A g \in File : g # f => W[g] = U[g]
    /\ W[f] \subseteq U[f] /\ \A x \in W[f] : x >= 0 /\ Top(x)

\* The other files have their blocks, with what was in them.
OthersKept(d, I, U, f, d2, I2) ==
    \A g \in File : g # f => \A y \in U[g] :
        /\ Num(d2, I2[g], y) = Num(d, I[g], y)
        /\ d2.disk[Num(d, I[g], y)] = d.disk[Num(d, I[g], y)]

\* That is all that is lost; and if all that the file had is lost, every block in
\* use still has an owner.
LEMMA Emptied ==
    ASSUME NEW d, NEW I, NEW U, Owns(d, I, U), NEW f \in File, NEW S,
           NEW d2, NEW I2, NEW W, Loses(d, I, U, f, S, d2, I2, W)
    PROVE  /\ Owns(d2, I2, W) /\ OthersKept(d, I, U, f, d2, I2)
           /\ Counted(d, I, U) /\ S = Numbers(d, I[f], U[f]) => Counted(d2, I2, W)
<1>1. /\ d \in Device /\ d.bmap \in SUBSET Blk /\ d.free = Cardinality(Blk \ d.bmap)
      /\ Apart(d, I, U) /\ I \in Inodes /\ U \in [File -> SUBSET Nodes]
      /\ \A g \in File : Rooted(d, I[g], U[g]) /\ Ended(d, I[g], U[g])
  BY DEF Owns, Device
<1>2. /\ d2.bmap = d.bmap \ S /\ d2.free = Cardinality(Blk \ d2.bmap)
      /\ \A b \in Blk \cup {0} : b \notin S => d2.disk[b] = d.disk[b]
      /\ d2 \in Device
  BY DEF Loses
<1>3. /\ I2 \in Inodes /\ \A g \in File : g # f => I2[g] = I[g]
      /\ \A x \in Nodes : Top(x) => I2[f][Slot(x)] = IF x \in W[f] THEN I[f][Slot(x)] ELSE 0
  BY DEF Loses
<1>4. /\ W \in [File -> SUBSET Nodes] /\ \A g \in File : g # f => W[g] = U[g]
      /\ \A g \in File : W[g] \subseteq U[g]
      /\ \A x \in W[f] : x >= 0 /\ Top(x)
  BY DEF Loses
<1>5. \A b \in S : \E x \in U[f] \ W[f] : b = Num(d, I[f], x)
  BY DEF Loses, Numbers
<1>6. ASSUME NEW g \in File, NEW y \in W[g]
      PROVE  Num(d, I[g], y) \in d.bmap \ S /\ Num(d, I[g], y) \in Blk \cup {0}
  <2>1. Num(d, I[g], y) \in d.bmap /\ y \in U[g]
    BY <1>1, <1>4 DEF Rooted
  <2>2. \A x \in U[f] \ W[f] : Num(d, I[g], y) # Num(d, I[f], x)
    BY <1>1, <2>1 DEF Apart
  <2>3. QED
    BY <1>1, <1>5, <2>1, <2>2
<1>7. ASSUME NEW g \in File, g # f, NEW y \in Nodes, Within(U[g], y)
      PROVE  Same(d, I[g], d2, I2[g], y)
  <2>1. CASE Top(y)
    BY <1>3, <1>7, <2>1 DEF Same
  <2>2. CASE ~Top(y)
    <3>1. Parent(y) \in U[g]
      BY <1>1, <1>7, <2>2, AboveIs
    <3>2. d2.disk[Num(d, I[g], Parent(y))] = d.disk[Num(d, I[g], Parent(y))]
      BY <1>2, <1>4, <1>6, <1>7, <3>1
    <3>3. QED
      BY <2>2, <3>2 DEF Same
  <2>3. QED
    BY <2>1, <2>2
<1>8. ASSUME NEW g \in File, g # f
      PROVE  /\ \A y \in U[g] : Num(d2, I2[g], y) = Num(d, I[g], y)
             /\ \A y \in Nodes : Within(U[g], y) => Num(d2, I2[g], y) = Num(d, I[g], y)
  <2>1. \A y \in U[g] : Within(U[g], y) /\ y \in Nodes
    BY <1>1 DEF Rooted, Within
  <2>2. \A y \in U[g] : Within(U[g], y) /\ Same(d, I[g], d2, I2[g], y)
    BY <1>7, <1>8, <2>1
  <2>3. \A y \in U[g] : Num(d2, I2[g], y) = Num(d, I[g], y)
    BY <2>2, NumsKept
  <2>4. \A y \in Nodes : Within(U[g], y) /\ Same(d, I[g], d2, I2[g], y) => Num(d2, I2[g], y) = Num(d, I[g], y)
    BY <2>2, NumsKept
  <2>5. QED
    BY <1>7, <1>8, <2>3, <2>4
<1>9. ASSUME NEW y \in Nodes, Top(y)
      PROVE  Num(d2, I2[f], y) = IF y \in W[f] THEN Num(d, I[f], y) ELSE 0
  <2>1. Num(d2, I2[f], y) = I2[f][Slot(y)] /\ Num(d, I[f], y) = I[f][Slot(y)]
    BY <1>9, NumIs
  <2>2. QED
    BY <1>3, <1>9, <2>1
<1>10. ASSUME NEW g \in File, NEW y \in W[g]
       PROVE  Num(d2, I2[g], y) = Num(d, I[g], y)
  <2>1. CASE g = f
    <3>1. y \in Nodes /\ Top(y)
      BY <1>4, <2>1
    <3>2. QED
      BY <1>9, <2>1, <3>1
  <2>2. CASE g # f
    BY <1>4, <1>8, <2>2
  <2>3. QED
    BY <2>1, <2>2
<1>11. ASSUME NEW g \in File
       PROVE  Rooted(d2, I2[g], W[g]) /\ Ended(d2, I2[g], W[g])
  <2>1. \A y \in W[g] : Num(d2, I2[g], y) \in d2.bmap
    BY <1>2, <1>6, <1>10
  <2>2. CASE g = f
    <3>1. \A y \in W[g] : Within(W[g], y)
      BY <1>4, <2>2 DEF Within
    <3>2. ASSUME NEW y \in Nodes, Within(W[f], y), y \notin W[f]
          PROVE  Num(d2, I2[f], y) = 0
      <4>1. CASE Top(y)
        BY <1>9, <3>2, <4>1
      <4>2. CASE ~Top(y)
        <5>1. Parent(y) \in W[f]
          BY <3>2, <4>2 DEF Within
        <5>2. Parent(y) < 0 /\ Parent(y) \in Int /\ Parent(y) >= 0
          BY <1>4, <4>2, <5>1, NodeIs
        <5>3. QED
          BY <5>2
      <4>3. QED
        BY <4>1, <4>2
    <3>3. QED
      BY <2>1, <2>2, <3>1, <3>2 DEF Rooted, Ended
  <2>3. CASE g # f
    <3>1. Rooted(d, I[g], U[g]) /\ Ended(d, I[g], U[g]) /\ W[g] = U[g]
      BY <1>1, <1>4, <2>3
    <3>2. Rooted(d2, I2[g], W[g])
      BY <2>1, <3>1 DEF Rooted
    <3>3. Ended(d2, I2[g], W[g])
      BY <1>8, <2>3, <3>1 DEF Ended
    <3>4. QED
      BY <3>2, <3>3
  <2>4. QED
    BY <2>2, <2>3
<1>12. Apart(d2, I2, W)
  BY <1>1, <1>4, <1>10 DEF Apart
<1>13. ASSUME Counted(d, I, U), S = Numbers(d, I[f], U[f])
       PROVE  Counted(d2, I2, W)
  <2>1. ASSUME NEW b \in d2.bmap
        PROVE  \E g \in File : \E y \in W[g] : Num(d2, I2[g], y) = b
    <3>1. PICK g \in File : \E y \in U[g] : Num(d, I[g], y) = b
      BY <1>2, <1>13 DEF Counted
    <3>2. PICK y \in U[g] : Num(d, I[g], y) = b
      BY <3>1
    <3>3. g # f
      BY <1>2, <1>13, <3>2 DEF Numbers
    <3>4. y \in W[g] /\ Num(d2, I2[g], y) = b
      BY <1>4, <1>8, <3>2, <3>3
    <3>5. QED
      BY <3>4
  <2>2. QED
    BY <2>1 DEF Counted
<1>14. Owns(d2, I2, W)
  BY <1>2, <1>3, <1>4, <1>11, <1>12 DEF Owns
<1>15. ASSUME NEW g \in File, g # f, NEW y \in U[g]
       PROVE  d2.disk[Num(d, I[g], y)] = d.disk[Num(d, I[g], y)]
  BY <1>2, <1>4, <1>6, <1>15
<1>16. QED
  BY <1>8, <1>13, <1>14, <1>15 DEF OthersKept

\* The first of n numbers, those before place k - c.
Front(blocks, n, c, k) == {blocks[i] : i \in {i \in 0 .. n - 1 : c + i < k}}

\* What clear_direct frees of numbers that are not 0 up to a place and 0 behind.
LEMMA ClearDirectIs ==
    ASSUME NEW blocks, NEW n \in Nat, NEW c \in Int, NEW k \in Int,
           \A i \in 0 .. n - 1 : blocks[i] # 0 <=> c + i < k
    PROVE  ClearDirect(blocks, n) = Front(blocks, n, c, k)
<1>1. ASSUME NEW i \in 0 .. n - 1
      PROVE  (\A j \in 0 .. i : blocks[j] # 0) <=> c + i < k
  <2>1. i \in 0 .. i /\ \A j \in 0 .. i : j \in 0 .. n - 1 /\ c + j <= c + i
    OBVIOUS
  <2>2. \A j \in 0 .. i : blocks[j] # 0 <=> c + j < k
    BY <2>1
  <2>3. ASSUME c + i < k, NEW j \in 0 .. i
        PROVE  c + j < k
    BY <2>3
  <2>4. QED
    BY <2>1, <2>2, <2>3
<1>2. {i \in 0 .. n - 1 : \A j \in 0 .. i : blocks[j] # 0} = {i \in 0 .. n - 1 : c + i < k}
  BY <1>1
<1>3. QED
  BY <1>2 DEF ClearDirect, Front

\* The numbers of the nodes are those that are not 0.
LEMMA NumZero ==
    ASSUME NEW d \in Device, NEW ib, NEW V, Rooted(d, ib, V), Ended(d, ib, V),
           NEW x \in Nodes, Within(V, x)
    PROVE  Num(d, ib, x) # 0 <=> x \in V
<1>1. CASE x \in V
  <2>1. Num(d, ib, x) \in d.bmap /\ d.bmap \subseteq Blk
    BY <1>1 DEF Rooted, Device
  <2>2. QED
    BY <1>1, <2>1, BlockAssumption
<1>2. CASE x \notin V
  BY <1>2 DEF Ended
<1>3. QED
  BY <1>1, <1>2

\* The data blocks of a file of k blocks.
LEMMA DataUsed ==
    ASSUME NEW k \in 0 .. Most, NEW x \in Nat
    PROVE  x \in Used(k) <=> x < k
<1>1. k \in Nat /\ Low(k) \in Int
  BY LowIs
<1>2. Low(k) <= 0
  BY <1>1, LowIs, NumbersAre
<1>3. QED
  BY <1>1, <1>2 DEF Used

\* What clear_direct frees in the block of numbers of node p, whose first word
\* leads to block c.
LEMMA ClearWords ==
    ASSUME NEW d, NEW ib, NEW k \in 0 .. Most, Rooted(d, ib, Used(k)), Ended(d, ib, Used(k)),
           d \in Device, NEW p \in Used(k), NEW c \in Nat,
           \A i \in Index : /\ c + i \in Nodes /\ ~Top(c + i) /\ Parent(c + i) = p
                            /\ Slot(c + i) = i
    PROVE  ClearDirect(d.disk[Num(d, ib, p)], NWORDS) =
              {Num(d, ib, c + i) : i \in {i \in Index : c + i \in Used(k)}}
<1>1. PICK blocks : blocks = d.disk[Num(d, ib, p)]
  OBVIOUS
<1>2. NWORDS \in Nat /\ c \in Int /\ k \in Int /\ Index = 0 .. NWORDS - 1
  BY NumbersAre DEF Index
<1>3. ASSUME NEW i \in Index
      PROVE  /\ blocks[i] = Num(d, ib, c + i)
             /\ blocks[i] # 0 <=> c + i < k
             /\ c + i \in Used(k) <=> c + i < k
  <2>1. Num(d, ib, c + i) = d.disk[Num(d, ib, Parent(c + i))][Slot(c + i)]
    BY NumIs
  <2>2. blocks[i] = Num(d, ib, c + i)
    BY <1>1, <2>1
  <2>3. Within(Used(k), c + i)
    BY DEF Within
  <2>4. c + i \in Nat
    BY <1>2
  <2>5. QED
    BY <2>2, <2>3, <2>4, NumZero, DataUsed
<1>4. \A i \in 0 .. NWORDS - 1 : blocks[i] # 0 <=> c + i < k
  BY <1>2, <1>3
<1>5. ClearDirect(blocks, NWORDS) = Front(blocks, NWORDS, c, k)
  BY <1>2, <1>4, ClearDirectIs
<1>6. {i \in 0 .. NWORDS - 1 : c + i < k} = {i \in Index : c + i \in Used(k)}
  BY <1>2, <1>3
<1>7. {blocks[i] : i \in {i \in Index : c + i \in Used(k)}}
         = {Num(d, ib, c + i) : i \in {i \in Index : c + i \in Used(k)}}
  BY <1>3
<1>8. QED
  BY <1>1, <1>5, <1>6, <1>7 DEF Front

\* The blocks of node p and of the nodes that its words lead to, from c on.
Below(d, ib, V, p, c) ==
    IF p \in V THEN {Num(d, ib, p)} \cup {Num(d, ib, c + i) : i \in {i \in Index : c + i \in V}}
    ELSE {}

\* clear_indirect of depth 0.
LEMMA ClearIndirectIs ==
    ASSUME NEW d, NEW ib, NEW k \in 0 .. Most, Rooted(d, ib, Used(k)), Ended(d, ib, Used(k)),
           d \in Device, NEW p \in Nodes, Within(Used(k), p), NEW c \in Nat,
           \A i \in Index : /\ c + i \in Nodes /\ ~Top(c + i) /\ Parent(c + i) = p
                            /\ Slot(c + i) = i,
           NEW addr, addr = Num(d, ib, p)
    PROVE  ClearIndirect(d, addr) = Below(d, ib, Used(k), p, c)
<1>1. addr # 0 <=> p \in Used(k)
  BY NumZero
<1>2. CASE p \notin Used(k)
  BY <1>1, <1>2 DEF ClearIndirect, Below
<1>3. CASE p \in Used(k)
  <2>1. ClearDirect(d.disk[addr], NWORDS) =
          {Num(d, ib, c + i) : i \in {i \in Index : c + i \in Used(k)}}
    BY <1>3, ClearWords
  <2>2. ClearIndirect(d, addr) = ClearDirect(d.disk[addr], NWORDS) \cup {addr}
    BY <1>1, <1>3 DEF ClearIndirect
  <2>3. QED
    BY <1>3, <2>1, <2>2 DEF Below
<1>4. QED
  BY <1>2, <1>3

\* The first data block that word j of the doubly indirect block leads to.
Begin(j) == NDIRECT + NWORDS + NWORDS * j

\* The nodes that the words of a block of numbers lead to.
LEMMA BeginIs ==
    /\ \A i \in Index : /\ NDIRECT + i \in Nodes /\ ~Top(NDIRECT + i)
                        /\ Parent(NDIRECT + i) = -1 /\ Slot(NDIRECT + i) = i
    /\ \A j \in Index : /\ Begin(j) \in Nat
                        /\ \A i \in Index :
                             /\ Begin(j) + i \in Nodes /\ ~Top(Begin(j) + i)
                             /\ Parent(Begin(j) + i) = -3 - j /\ Slot(Begin(j) + i) = i
<1>1. \A j, i \in Index : /\ Begin(j) \in Nat
                          /\ Begin(j) + i = NDIRECT + NWORDS + (NWORDS * j + i)
  BY NumbersAre DEF Begin, Index
<1>2. ASSUME NEW j \in Index
      PROVE  /\ Begin(j) \in Nat
             /\ \A i \in Index :
                  /\ Begin(j) + i \in Nodes /\ ~Top(Begin(j) + i)
                  /\ Parent(Begin(j) + i) = -3 - j /\ Slot(Begin(j) + i) = i
  <2>1. Begin(j) \in Nat
    BY <1>1
  <2>2. ASSUME NEW i \in Index
        PROVE  /\ Begin(j) + i \in Nodes /\ ~Top(Begin(j) + i)
               /\ Parent(Begin(j) + i) = -3 - j /\ Slot(Begin(j) + i) = i
    <3>1. PICK x : x = Begin(j) + i /\ x = NDIRECT + NWORDS + (NWORDS * j + i)
      BY <1>1
    <3>2. x \in Nodes /\ ~Top(x) /\ Parent(x) = -3 - j /\ Slot(x) = i
      BY <3>1, NodeAt
    <3>3. QED
      BY <3>1, <3>2
  <2>3. QED
    BY <2>1, <2>2
<1>3. QED
  BY <1>2, NodeAt

\* The kinds of nodes.
LEMMA NodeKinds ==
    ASSUME NEW x \in Nodes
    PROVE  \/ x \in 0 .. NDIRECT - 1
           \/ x = -1
           \/ x = -2
           \/ \E j \in Index : x = -3 - j
           \/ \E i \in Index : x = NDIRECT + i
           \/ \E j \in Index : \E i \in Index : x = Begin(j) + i
<1>1. x \in Int /\ x < Most /\ x >= -2 - NWORDS
  BY NumbersAre DEF Nodes
<1>2. CASE x < -2
  <2>1. -3 - x \in Index /\ x = -3 - (-3 - x)
    BY <1>1, <1>2, NumbersAre DEF Index
  <2>2. QED
    BY <2>1
<1>3. CASE x >= NDIRECT /\ Past(x) < 0
  <2>1. x - NDIRECT \in Index /\ x = NDIRECT + (x - NDIRECT)
    BY <1>1, <1>3, NumbersAre DEF Index, Past
  <2>2. QED
    BY <2>1
<1>4. CASE x >= NDIRECT /\ ~(Past(x) < 0)
  <2>1. PICK j \in Index, i \in Index : x = NDIRECT + NWORDS + (NWORDS * j + i)
    BY <1>4, PastIs
  <2>2. x = Begin(j) + i
    BY <2>1, NumbersAre DEF Begin, Index
  <2>3. QED
    BY <2>2
<1>5. QED
  BY <1>1, <1>2, <1>3, <1>4, NumbersAre

\* clear_blocks frees the blocks of the file, and no other.
LEMMA ClearedIs ==
    ASSUME NEW d \in Device, NEW ib \in [0 .. Double -> Blk \cup {0}], NEW k \in 0 .. Most,
           Rooted(d, ib, Used(k)), Ended(d, ib, Used(k))
    PROVE  ClearDirect(ib, NDIRECT) \cup ClearIndirect(d, ib[Single]) \cup ClearDouble(d, ib[Double])
              = Numbers(d, ib, Used(k))
<1>1. PICK V : V = Used(k) /\ Rooted(d, ib, V) /\ Ended(d, ib, V)
               /\ \A x \in V : x \in Nodes /\ (~Top(x) => Parent(x) \in V)
  BY UsedIsWithin
<1>2. ClearDirect(ib, NDIRECT) = {Num(d, ib, i) : i \in {i \in 0 .. NDIRECT - 1 : i \in V}}
  <2>1. ASSUME NEW i \in 0 .. NDIRECT - 1
        PROVE  ib[i] = Num(d, ib, i) /\ (ib[i] # 0 <=> 0 + i < k) /\ (0 + i < k <=> i \in V)
    <3>1. i \in Nodes /\ Top(i) /\ Slot(i) = i /\ i \in Nat /\ 0 + i = i
      BY Tops, NumbersAre
    <3>2. Within(Used(k), i)
      BY <3>1 DEF Within
    <3>3. ib[i] = Num(d, ib, i)
      BY <3>1, NumIs
    <3>4. QED
      BY <1>1, <3>1, <3>2, <3>3, NumZero, DataUsed
  <2>2. \A i \in 0 .. NDIRECT - 1 : ib[i] # 0 <=> 0 + i < k
    BY <2>1
  <2>3. NDIRECT \in Nat /\ 0 \in Int /\ k \in Int
    BY NumbersAre
  <2>4. ClearDirect(ib, NDIRECT) = Front(ib, NDIRECT, 0, k)
    BY <2>2, <2>3, ClearDirectIs
  <2>5. {i \in 0 .. NDIRECT - 1 : 0 + i < k} = {i \in 0 .. NDIRECT - 1 : i \in V}
    BY <2>1
  <2>6. QED
    BY <2>1, <2>4, <2>5 DEF Front
<1>3. ClearIndirect(d, ib[Single]) = Below(d, ib, V, -1, NDIRECT)
  <2>1. -1 \in Nodes /\ Within(Used(k), -1) /\ ib[Single] = Num(d, ib, -1) /\ NDIRECT \in Nat
    <3>1. -1 \in Nodes /\ Top(-1) /\ Slot(-1) = Single
      BY Tops
    <3>2. ib[Single] = Num(d, ib, -1)
      BY <3>1, NumIs
    <3>3. QED
      BY <3>1, <3>2, NumbersAre DEF Within
  <2>2. PICK p \in Nodes : p = -1 /\ Within(Used(k), p) /\ ib[Single] = Num(d, ib, p)
          /\ \A i \in Index : /\ NDIRECT + i \in Nodes /\ ~Top(NDIRECT + i) /\ Parent(NDIRECT + i) = p
                              /\ Slot(NDIRECT + i) = i
    BY <2>1, BeginIs
  <2>3. ClearIndirect(d, ib[Single]) = Below(d, ib, Used(k), p, NDIRECT)
    BY <2>1, <2>2, ClearIndirectIs
  <2>4. QED
    BY <1>1, <2>2, <2>3
<1>4. /\ ib[Double] = Num(d, ib, -2) /\ (ib[Double] # 0 <=> -2 \in V)
      /\ \A j \in Index : d.disk[ib[Double]][j] = Num(d, ib, -3 - j)
  <2>1. -2 \in Nodes /\ Top(-2) /\ Slot(-2) = Double
    BY Tops
  <2>2. ib[Double] = Num(d, ib, -2)
    BY <2>1, NumIs
  <2>3. Within(Used(k), -2)
    BY <2>1 DEF Within
  <2>4. ib[Double] # 0 <=> -2 \in V
    BY <1>1, <2>1, <2>2, <2>3, NumZero
  <2>5. ASSUME NEW j \in Index
        PROVE  d.disk[ib[Double]][j] = Num(d, ib, -3 - j)
    <3>1. PICK x \in Nodes : x = -3 - j /\ ~Top(x) /\ Parent(x) = -2 /\ Slot(x) = j
      BY NodeAt
    <3>2. QED
      BY <2>2, <3>1, NumIs
  <2>6. QED
    BY <2>2, <2>4, <2>5
<1>5. ASSUME -2 \in V, NEW j \in Index
      PROVE  ClearIndirect(d, d.disk[ib[Double]][j]) = Below(d, ib, V, -3 - j, Begin(j))
  <2>1. PICK p \in Nodes : p = -3 - j /\ ~Top(p) /\ Parent(p) = -2
    BY NodeAt
  <2>2. Within(Used(k), p)
    BY <1>1, <1>5, <2>1 DEF Within
  <2>3. PICK c \in Nat : c = Begin(j)
          /\ \A i \in Index : /\ c + i \in Nodes /\ ~Top(c + i) /\ Parent(c + i) = p
                              /\ Slot(c + i) = i
    BY <2>1, BeginIs
  <2>4. PICK addr : addr = d.disk[ib[Double]][j] /\ addr = Num(d, ib, p)
    BY <1>4, <2>1
  <2>5. ClearIndirect(d, addr) = Below(d, ib, Used(k), p, c)
    BY <2>2, <2>3, <2>4, ClearIndirectIs
  <2>6. QED
    BY <1>1, <2>1, <2>3, <2>4, <2>5
<1>6. PICK T, D : T = {Below(d, ib, V, -3 - j, Begin(j)) : j \in Index} /\ D = UNION T
  OBVIOUS
<1>7. /\ -2 \in V => ClearDouble(d, ib[Double]) = D \cup {Num(d, ib, -2)}
      /\ -2 \notin V => ClearDouble(d, ib[Double]) = {}
  <2>1. ASSUME -2 \notin V
        PROVE  ClearDouble(d, ib[Double]) = {}
    BY <1>4, <2>1 DEF ClearDouble
  <2>2. ASSUME -2 \in V
        PROVE  ClearDouble(d, ib[Double]) = D \cup {Num(d, ib, -2)}
    <3>1. PICK Z : Z = {ClearIndirect(d, d.disk[ib[Double]][j]) : j \in Index}
      OBVIOUS
    <3>2. ClearDouble(d, ib[Double]) = {ib[Double]} \cup UNION Z
      BY <1>4, <2>2, <3>1 DEF ClearDouble
    <3>3. Z = T
      BY <1>5, <1>6, <2>2, <3>1
    <3>4. QED
      BY <1>4, <1>6, <3>2, <3>3
  <2>3. QED
    BY <2>1, <2>2
<1>8. PICK A, B, C : /\ A = ClearDirect(ib, NDIRECT) /\ B = ClearIndirect(d, ib[Single])
                     /\ C = ClearDouble(d, ib[Double])
  OBVIOUS
<1>9. A \subseteq Numbers(d, ib, V)
  BY <1>2, <1>8 DEF Numbers
<1>10. \A p, c : Below(d, ib, V, p, c) \subseteq Numbers(d, ib, V)
  BY DEF Below, Numbers
<1>11. B \subseteq Numbers(d, ib, V)
  BY <1>3, <1>8, <1>10
<1>12. C \subseteq Numbers(d, ib, V)
  <2>1. CASE -2 \in V
    <3>1. Num(d, ib, -2) \in Numbers(d, ib, V)
      BY <2>1 DEF Numbers
    <3>2. D \subseteq Numbers(d, ib, V)
      BY <1>6, <1>10
    <3>3. C = D \cup {Num(d, ib, -2)}
      BY <1>7, <1>8, <2>1
    <3>4. QED
      BY <3>1, <3>2, <3>3
  <2>2. CASE -2 \notin V
    BY <1>7, <1>8, <2>2
  <2>3. QED
    BY <2>1, <2>2
<1>13. ASSUME NEW x \in V
       PROVE  Num(d, ib, x) \in A \cup B \cup C
  <2>1. x \in Nodes
    BY <1>1
  <2>2. CASE x \in 0 .. NDIRECT - 1
    BY <1>2, <1>8, <2>2
  <2>3. CASE x = -1
    BY <1>3, <1>8, <2>3 DEF Below
  <2>4. CASE x = -2
    <3>1. C = D \cup {Num(d, ib, -2)}
      BY <1>7, <1>8, <2>4
    <3>2. QED
      BY <2>4, <3>1
  <2>5. ASSUME NEW j \in Index, x = -3 - j
        PROVE  Num(d, ib, x) \in C
    <3>1. -2 \in V
      BY <1>1, <2>5, NodeAt
    <3>2. Num(d, ib, x) \in Below(d, ib, V, -3 - j, Begin(j))
      BY <2>5 DEF Below
    <3>3. QED
      BY <1>7, <1>8, <1>6, <3>1, <3>2
  <2>6. ASSUME NEW i \in Index, x = NDIRECT + i
        PROVE  Num(d, ib, x) \in B
    <3>1. -1 \in V
      BY <1>1, <2>6, BeginIs
    <3>2. Num(d, ib, x) \in Below(d, ib, V, -1, NDIRECT)
      BY <2>6, <3>1 DEF Below
    <3>3. QED
      BY <1>3, <1>8, <3>2
  <2>7. ASSUME NEW j \in Index, NEW i \in Index, x = Begin(j) + i
        PROVE  Num(d, ib, x) \in C
    <3>1. -3 - j \in V
      BY <1>1, <2>7, BeginIs
    <3>2. -2 \in V
      BY <1>1, <3>1, NodeAt
    <3>3. Num(d, ib, x) \in Below(d, ib, V, -3 - j, Begin(j))
      BY <2>7, <3>1 DEF Below
    <3>4. QED
      BY <1>7, <1>8, <1>6, <3>2, <3>3
  <2>8. QED
    BY <2>1, <2>2, <2>3, <2>4, <2>5, <2>6, <2>7, NodeKinds
<1>14. Numbers(d, ib, V) \subseteq A \cup B \cup C
  BY <1>13 DEF Numbers
<1>15. QED
  BY <1>1, <1>8, <1>9, <1>11, <1>12, <1>14

\* clear_direct in a block of numbers frees blocks that the numbers of nodes name.
LEMMA WordsFreed ==
    ASSUME NEW d \in Device, NEW ib, NEW V, Rooted(d, ib, V), Ended(d, ib, V),
           NEW p \in V, NEW c \in Nat,
           \A i \in Index : /\ c + i \in Nodes /\ ~Top(c + i) /\ Parent(c + i) = p
                            /\ Slot(c + i) = i
    PROVE  \A b \in ClearDirect(d.disk[Num(d, ib, p)], NWORDS) :
              \E x \in V : ~Top(x) /\ b = Num(d, ib, x)
<1>1. PICK blocks : blocks = d.disk[Num(d, ib, p)]
  OBVIOUS
<1>2. ASSUME NEW b \in ClearDirect(blocks, NWORDS)
      PROVE  \E x \in V : ~Top(x) /\ b = Num(d, ib, x)
  <2>1. PICK i \in 0 .. NWORDS - 1 : b = blocks[i] /\ \A j \in 0 .. i : blocks[j] # 0
    BY <1>2 DEF ClearDirect
  <2>2. i \in Index /\ i \in 0 .. i
    BY <2>1, NumbersAre DEF Index
  <2>3. PICK x \in Nodes : x = c + i /\ ~Top(x) /\ Parent(x) = p /\ Slot(x) = i
    BY <2>2
  <2>4. b = Num(d, ib, x) /\ b # 0
    BY <1>1, <2>1, <2>2, <2>3, NumIs
  <2>5. Within(V, x)
    BY <2>3 DEF Within
  <2>6. x \in V
    BY <2>4, <2>5, NumZero
  <2>7. QED
    BY <2>3, <2>4, <2>6
<1>3. QED
  BY <1>1, <1>2

\* clear_indirect of depth 0, on any file.
LEMMA IndirectFreed ==
    ASSUME NEW d \in Device, NEW ib, NEW V, Rooted(d, ib, V), Ended(d, ib, V),
           NEW p \in Nodes, Within(V, p), p < 0, NEW c \in Nat,
           \A i \in Index : /\ c + i \in Nodes /\ ~Top(c + i) /\ Parent(c + i) = p
                            /\ Slot(c + i) = i,
           NEW addr, addr = Num(d, ib, p)
    PROVE  \A b \in ClearIndirect(d, addr) :
              \E x \in V : (~Top(x) \/ x < 0) /\ b = Num(d, ib, x)
<1>1. CASE addr = 0
  BY <1>1 DEF ClearIndirect
<1>2. CASE addr # 0
  <2>1. p \in V
    BY <1>2, NumZero
  <2>2. \A b \in ClearDirect(d.disk[Num(d, ib, p)], NWORDS) :
           \E x \in V : ~Top(x) /\ b = Num(d, ib, x)
    BY <2>1, WordsFreed
  <2>3. ClearIndirect(d, addr) = ClearDirect(d.disk[Num(d, ib, p)], NWORDS) \cup {addr}
    BY <1>2 DEF ClearIndirect
  <2>4. QED
    BY <2>1, <2>2, <2>3
<1>3. QED
  BY <1>1, <1>2

\* What clear_blocks frees, and the direct blocks it leaves: those behind a hole.
Freed(d, ib) ==
    ClearDirect(ib, NDIRECT) \cup ClearIndirect(d, ib[Single]) \cup ClearDouble(d, ib[Double])
Left(ib) == {x \in 0 .. NDIRECT - 1 : ib[x] # 0 /\ \E j \in 0 .. x : ib[j] = 0}

\* clear_blocks frees blocks of the file only, and none that the file keeps.
LEMMA FreedIs ==
    ASSUME NEW d \in Device, NEW ib, NEW V, Rooted(d, ib, V), Ended(d, ib, V)
    PROVE  Freed(d, ib) \subseteq Numbers(d, ib, V \ Left(ib)) /\ Left(ib) \subseteq V
<1>1. ASSUME NEW x \in 0 .. NDIRECT - 1, ib[x] # 0
      PROVE  x \in V /\ ib[x] = Num(d, ib, x)
  <2>1. x \in Nodes /\ Top(x) /\ Slot(x) = x
    BY Tops
  <2>2. Within(V, x) /\ ib[x] = Num(d, ib, x)
    BY <2>1, NumIs DEF Within
  <2>3. QED
    BY <1>1, <2>1, <2>2, NumZero
<1>2. ASSUME NEW b \in ClearDirect(ib, NDIRECT)
      PROVE  \E x \in V \ Left(ib) : b = Num(d, ib, x)
  <2>1. PICK x \in 0 .. NDIRECT - 1 : b = ib[x] /\ \A j \in 0 .. x : ib[j] # 0
    BY <1>2 DEF ClearDirect
  <2>2. x \in 0 .. x
    BY NumbersAre
  <2>3. x \in V /\ b = Num(d, ib, x) /\ x \notin Left(ib)
    BY <1>1, <2>1, <2>2 DEF Left
  <2>4. QED
    BY <2>3
<1>3. ASSUME NEW x, ~Top(x) \/ x < 0
      PROVE  x \notin Left(ib)
  BY <1>3, Tops, NumbersAre DEF Left
<1>4. ASSUME NEW b \in ClearIndirect(d, ib[Single])
      PROVE  \E x \in V : (~Top(x) \/ x < 0) /\ b = Num(d, ib, x)
  <2>1. PICK p \in Nodes : p = -1 /\ Top(p) /\ Slot(p) = Single
    BY Tops
  <2>2. Within(V, p) /\ p < 0 /\ ib[Single] = Num(d, ib, p) /\ NDIRECT \in Nat
    BY <2>1, NumIs, NumbersAre DEF Within
  <2>3. \A i \in Index : /\ NDIRECT + i \in Nodes /\ ~Top(NDIRECT + i) /\ Parent(NDIRECT + i) = p
                         /\ Slot(NDIRECT + i) = i
    BY <2>1, BeginIs
  <2>4. \A a \in ClearIndirect(d, ib[Single]) :
           \E x \in V : (~Top(x) \/ x < 0) /\ a = Num(d, ib, x)
    BY <2>2, <2>3, IndirectFreed
  <2>5. QED
    BY <1>4, <2>4
<1>5. ASSUME NEW b \in ClearDouble(d, ib[Double])
      PROVE  \E x \in V : (~Top(x) \/ x < 0) /\ b = Num(d, ib, x)
  <2>1. PICK p \in Nodes : p = -2 /\ Top(p) /\ Slot(p) = Double
    BY Tops
  <2>2. Within(V, p) /\ p < 0 /\ ib[Double] = Num(d, ib, p)
    BY <2>1, NumIs, NumbersAre DEF Within
  <2>3. ib[Double] # 0 /\ p \in V
    <3>1. ib[Double] # 0
      BY <1>5 DEF ClearDouble
    <3>2. QED
      BY <2>2, <3>1, NumZero
  <2>4. CASE b = ib[Double]
    BY <2>2, <2>3, <2>4
  <2>5. ASSUME NEW j \in Index, b \in ClearIndirect(d, d.disk[ib[Double]][j])
        PROVE  \E x \in V : (~Top(x) \/ x < 0) /\ b = Num(d, ib, x)
    <3>1. PICK q \in Nodes : q = -3 - j /\ ~Top(q) /\ Parent(q) = -2 /\ Slot(q) = j
      BY NodeAt
    <3>2. Within(V, q) /\ q < 0
      <4>1. j \in Int /\ 0 <= j
        BY NumbersAre DEF Index
      <4>2. QED
        BY <2>1, <2>3, <3>1, <4>1 DEF Within
    <3>3. PICK addr : addr = d.disk[ib[Double]][j] /\ addr = Num(d, ib, q)
      BY <2>1, <2>2, <3>1, NumIs
    <3>4. PICK c \in Nat : c = Begin(j)
            /\ \A i \in Index : /\ c + i \in Nodes /\ ~Top(c + i) /\ Parent(c + i) = q
                                /\ Slot(c + i) = i
      BY <3>1, BeginIs
    <3>5. \A a \in ClearIndirect(d, addr) : \E x \in V : (~Top(x) \/ x < 0) /\ a = Num(d, ib, x)
      BY <3>2, <3>3, <3>4, IndirectFreed
    <3>6. QED
      BY <2>5, <3>3, <3>5
  <2>6. b = ib[Double] \/ \E j \in Index : b \in ClearIndirect(d, d.disk[ib[Double]][j])
    BY <1>5, <2>3 DEF ClearDouble
  <2>7. QED
    BY <2>4, <2>5, <2>6
<1>6. ASSUME NEW b \in Freed(d, ib)
      PROVE  \E x \in V \ Left(ib) : b = Num(d, ib, x)
  <2>1. \/ b \in ClearDirect(ib, NDIRECT)
        \/ \E x \in V : (~Top(x) \/ x < 0) /\ b = Num(d, ib, x)
    BY <1>4, <1>5, <1>6 DEF Freed
  <2>2. QED
    BY <1>2, <1>3, <2>1
<1>7. Left(ib) \subseteq V
  BY <1>1 DEF Left
<1>8. QED
  BY <1>6, <1>7 DEF Numbers

-----------------------------------------------------------------------------
(* The actions on blocks, whatever the files are: with holes, without names. *)

\* clear_blocks takes blocks from the one file only, and leaves it those behind a
\* hole; if it frees all blocks of the file, every block in use has an owner still.
LEMMA ClearedOwns ==
    ASSUME NEW U, Owns(dev, i_block, U), NEW f \in File, ClearBlocks(f),
           NEW W, W = [U EXCEPT ![f] = Left(i_block[f])]
    PROVE  /\ Owns(dev', i_block', W) /\ OthersKept(dev, i_block, U, f, dev', i_block')
           /\ Counted(dev, i_block, U) /\ Freed(dev, i_block[f]) = Numbers(dev, i_block[f], U[f])
                 => Counted(dev', i_block', W)
<1>1. /\ dev \in Device /\ dev.free = Cardinality(Blk \ dev.bmap) /\ i_block \in Inodes
      /\ U \in [File -> SUBSET Nodes] /\ Rooted(dev, i_block[f], U[f]) /\ Ended(dev, i_block[f], U[f])
  BY DEF Owns
<1>2. PICK ib \in [0 .. Double -> Blk \cup {0}] : ib = i_block[f]
  BY <1>1 DEF Inodes
<1>3. PICK S, L : S = Freed(dev, ib) /\ L = Left(ib)
  OBVIOUS
<1>4. S \subseteq Numbers(dev, ib, U[f] \ L) /\ L \subseteq U[f]
  BY <1>1, <1>2, <1>3, FreedIs
<1>5. S \in SUBSET dev.bmap
  BY <1>1, <1>2, <1>4 DEF Numbers, Rooted
<1>6. dev' = Bdealloc(dev, S)
  BY <1>2, <1>3 DEF ClearBlocks, Freed
<1>7. PICK d2 \in Device : /\ d2 = dev' /\ d2.bmap = dev.bmap \ S
         /\ d2.free = Cardinality(Blk \ d2.bmap)
         /\ \A b \in Blk \cup {0} : b \notin S => d2.disk[b] = dev.disk[b]
  BY <1>1, <1>5, <1>6, BdeallocIs
<1>8. PICK z : z = [i \in 0 .. Double |-> IF i >= NDIRECT \/ \A j \in 0 .. i : ib[j] # 0 THEN 0 ELSE ib[i]]
  OBVIOUS
<1>9. i_block' = [i_block EXCEPT ![f] = z]
  BY <1>2, <1>8 DEF ClearBlocks
<1>10. z \in [0 .. Double -> Blk \cup {0}]
  BY <1>2, <1>8
<1>11. PICK I2 \in Inodes : I2 = i_block' /\ I2[f] = z /\ \A g \in File : g # f => I2[g] = i_block[g]
  BY <1>1, <1>9, <1>10 DEF Inodes
<1>12. ASSUME NEW x \in Nodes, Top(x)
       PROVE  z[Slot(x)] = IF x \in L THEN ib[Slot(x)] ELSE 0
  <2>1. Slot(x) \in 0 .. Double
    BY <1>12, NodeIs
  <2>2. CASE x \in 0 .. NDIRECT - 1
    <3>1. Slot(x) = x /\ ~(x >= NDIRECT)
      BY <2>2, Tops, NumbersAre
    <3>2. x \in L <=> ib[x] # 0 /\ \E j \in 0 .. x : ib[j] = 0
      BY <1>3, <2>2 DEF Left
    <3>3. QED
      BY <1>8, <2>1, <3>1, <3>2
  <2>3. CASE x = -1 \/ x = -2
    <3>1. Slot(x) >= NDIRECT
      BY <2>3, Tops, NumbersAre
    <3>2. x \notin L
      BY <1>3, <2>3, NumbersAre DEF Left
    <3>3. QED
      BY <1>8, <2>1, <3>1, <3>2
  <2>4. QED
    BY <1>12, <2>2, <2>3 DEF Top
<1>13. /\ W \in [File -> SUBSET Nodes] /\ W[f] = L /\ \A g \in File : g # f => W[g] = U[g]
  BY <1>1, <1>2, <1>3, <1>4
<1>14. \A x \in L : x >= 0 /\ Top(x)
  BY <1>3, Tops, NumbersAre DEF Left
<1>15. Loses(dev, i_block, U, f, S, d2, I2, W)
  BY <1>2, <1>4, <1>7, <1>11, <1>12, <1>13, <1>14 DEF Loses
<1>16. /\ Owns(d2, I2, W) /\ OthersKept(dev, i_block, U, f, d2, I2)
       /\ Counted(dev, i_block, U) /\ S = Numbers(dev, i_block[f], U[f]) => Counted(d2, I2, W)
  BY <1>15, Emptied
<1>17. QED
  BY <1>2, <1>3, <1>7, <1>11, <1>16

\* creat gives a file its first block, and leaves the others as they are. Blocks
\* that were left in the inode are forgotten; if there are none, none is lost.
LEMMA CreatOwns ==
    ASSUME NEW U, Owns(dev, i_block, U), NEW f \in File, Creat(f),
           NEW W, W = Grow([U EXCEPT ![f] = {}], f, 0)
    PROVE  /\ Owns(dev', i_block', W)
           /\ U[f] = {} => /\ Kept(dev, i_block, U, dev', i_block')
                           /\ Counted(dev, i_block, U) => Counted(dev', i_block', W)
<1>1. /\ dev \in Device /\ dev.free = Cardinality(Blk \ dev.bmap) /\ i_block \in Inodes
      /\ U \in [File -> SUBSET Nodes]
  BY DEF Owns
<1>2. dev.free \in Nat /\ dev.free > 0
  <2>1. dev.free \in Nat /\ dev.free >= 3
    BY <1>1 DEF Device, Creat, Room
  <2>2. QED
    BY <2>1
<1>3. PICK b \in Blk : b = FirstFree(dev) /\ b # 0
  BY <1>1, <1>2, FirstFreeIs
<1>4. PICK zeros \in [0 .. Double -> Blk \cup {0}] : zeros = [i \in 0 .. Double |-> 0]
  OBVIOUS
<1>5. PICK I1 \in Inodes : /\ I1 = [i_block EXCEPT ![f] = zeros] /\ I1[f] = zeros
                           /\ \A g \in File : g # f => I1[g] = i_block[g]
  <2>1. i_block \in [File -> [0 .. Double -> Blk \cup {0}]]
    BY <1>1 DEF Inodes
  <2>2. [i_block EXCEPT ![f] = zeros] \in [File -> [0 .. Double -> Blk \cup {0}]]
    BY <1>4, <2>1
  <2>3. QED
    BY <2>1, <2>2 DEF Inodes
<1>6. PICK V \in [File -> SUBSET Nodes] : /\ V = [U EXCEPT ![f] = {}] /\ V[f] = {}
                                          /\ \A g \in File : g # f => V[g] = U[g]
  <2>1. [U EXCEPT ![f] = {}] \in [File -> SUBSET Nodes]
    BY <1>1
  <2>2. QED
    BY <1>1, <2>1
<1>7. \A x \in Nodes : Top(x) => I1[f][Slot(x)] = 0
  BY <1>4, <1>5, NodeIs
<1>8. Loses(dev, i_block, U, f, {}, dev, I1, V)
  BY <1>1, <1>5, <1>6, <1>7 DEF Loses
<1>9. Owns(dev, I1, V) /\ OthersKept(dev, i_block, U, f, dev, I1)
  BY <1>8, Emptied
<1>10. 0 \in Nodes /\ Top(0) /\ Slot(0) = 0 /\ 0 \in 0 .. Double
  <2>1. 0 \in 0 .. NDIRECT - 1 /\ 0 \in 0 .. Double
    BY NumbersAre
  <2>2. QED
    BY <2>1, Tops
<1>11. PICK blk : blk = I1[f][Slot(0)] /\ blk = 0
  BY <1>7, <1>10
<1>12. dev' = Balloc(dev)
       /\ i_block' = [i_block EXCEPT ![f] = [i \in 0 .. Double |-> IF i = 0 THEN b ELSE 0]]
  BY <1>3 DEF Creat
<1>13. Grown(dev, blk) = dev' /\ Bno(dev, blk) = b
  BY <1>3, <1>11, <1>12 DEF Grown, Bno
<1>14. [I1[f] EXCEPT ![Slot(0)] = b] = [i \in 0 .. Double |-> IF i = 0 THEN b ELSE 0]
  BY <1>4, <1>5, <1>10
<1>15. PICK I2 : I2 = i_block' /\ I2 = [I1 EXCEPT ![f] = [I1[f] EXCEPT ![Slot(0)] = Bno(dev, blk)]]
  BY <1>1, <1>5, <1>12, <1>13, <1>14 DEF Inodes
<1>16. Reached(dev, I1, V, f, 0, Grown(dev, blk), I2, Bno(dev, blk))
  BY <1>2, <1>9, <1>10, <1>11, <1>15, VisitTop
<1>17. /\ Owns(dev', i_block', W) /\ Kept(dev, I1, V, dev', i_block')
       /\ Counted(dev, I1, V) => Counted(dev', i_block', W)
  BY <1>6, <1>13, <1>15, <1>16 DEF Reached
<1>18. ASSUME U[f] = {}
       PROVE  /\ Kept(dev, i_block, U, dev', i_block')
              /\ Counted(dev, i_block, U) => Counted(dev', i_block', W)
  <2>1. \A g \in File : \A y \in U[g] : g # f /\ y \in V[g] /\ I1[g] = i_block[g]
    BY <1>5, <1>6, <1>18
  <2>2. Kept(dev, i_block, U, dev', i_block')
    <3>1. ASSUME NEW g \in File, NEW y \in U[g]
          PROVE  /\ Num(dev', i_block'[g], y) = Num(dev, i_block[g], y)
                 /\ y >= 0 => \A j \in Index :
                      dev'.disk[Num(dev, i_block[g], y)][j] = dev.disk[Num(dev, i_block[g], y)][j]
      BY <1>17, <2>1 DEF Kept
    <3>2. QED
      BY <3>1 DEF Kept
  <2>3. Counted(dev, i_block, U) => Counted(dev, I1, V)
    BY <2>1 DEF Counted
  <2>4. QED
    BY <1>17, <2>2, <2>3
<1>19. QED
  BY <1>17, <1>18

\* A pass of file_write lies in one of the blocks an inode has.
LEMMA OffsetIs ==
    ASSUME NEW f \in File, NEW o \in Nat, NEW n \in Nat, n > 0, o + n <= MaxSize[f]
    PROVE  o \div NWORDS \in 0 .. Most /\ o \div NWORDS < Most /\ o \div NWORDS \in Nat
<1>1. MaxSize[f] \in Nat /\ MaxSize[f] <= NWORDS * Most
  BY BoundAssumption DEF Most
<1>2. Most \in Nat /\ NWORDS * Most \in Nat
  BY NumbersAre
<1>3. o < NWORDS * Most
  BY <1>1, <1>2
<1>4. o \div NWORDS \in Nat /\ o \div NWORDS < Most
  BY <1>2, <1>3, DivIs, DivOrder
<1>5. QED
  BY <1>2, <1>4

\* What a pass moves.
LEMMA RemainIs ==
    ASSUME NEW o \in Nat, NEW n \in Nat, n > 0, NEW m, m = Lesser(NWORDS - (o % NWORDS), n)
    PROVE  m \in Nat /\ m > 0 /\ m <= n /\ m <= NWORDS - (o % NWORDS)
<1>1. PICK r \in Nat, w \in Nat : r = o % NWORDS /\ w = NWORDS /\ r < w
  BY DivIs, NumbersAre
<1>2. m = Lesser(w - r, n)
  BY <1>1
<1>3. m \in Nat /\ m > 0 /\ m <= n /\ m <= w - r
  BY <1>1, <1>2 DEF Lesser
<1>4. QED
  BY <1>1, <1>3

\* One pass of a write: the words from the offset to the end of the pass are
\* written, and no other word of a file changes.
Passed(U, f, remain, word) ==
    LET lbk == offset[f] \div NWORDS
        start == offset[f] % NWORDS
    IN  /\ \A g \in File : \A y \in U[g] :
              /\ Num(dev', i_block'[g], y) = Num(dev, i_block[g], y)
              /\ y >= 0 => \A j \in Index :
                    \/ dev'.disk[Num(dev, i_block[g], y)][j] = dev.disk[Num(dev, i_block[g], y)][j]
                    \/ g = f /\ y = lbk /\ j \in start .. start + remain - 1
        /\ \A j \in Index : j \in start .. start + remain - 1 =>
              dev'.disk[Num(dev', i_block'[f], lbk)][j] = word

\* The new numbers of words that a pass writes into a block.
Overwritten(old, start, remain, word) ==
    [j \in Index |-> IF j \in start .. start + remain - 1 THEN word ELSE old[j]]

\* A pass of file_write takes the blocks on the way to the one it writes, and no
\* block of another file.
LEMMA PassOwns ==
    ASSUME NEW U, Owns(dev, i_block, U), NEW f \in File, NEW n \in Nat, NEW word \in {Plain, Mark},
           offset[f] \in Nat, Writing(f, n, word), WritePass,
           NEW remain, remain = Lesser(NWORDS - (offset[f] % NWORDS), n),
           NEW W, W = [U EXCEPT ![f] = U[f] \cup Path(offset[f] \div NWORDS)]
    PROVE  /\ Owns(dev', i_block', W)
           /\ Counted(dev, i_block, U) => Counted(dev', i_block', W)
           /\ Passed(U, f, remain, word)
<1>1. /\ dev \in Device /\ dev.free = Cardinality(Blk \ dev.bmap) /\ i_block \in Inodes
      /\ U \in [File -> SUBSET Nodes]
  BY DEF Owns
<1>2. /\ call.op = "write" /\ call.f = f /\ call.n = n /\ call.word = word
      /\ n > 0 /\ offset[f] + n <= MaxSize[f]
  BY DEF Writing, WritePass
<1>3. PICK lbk, start : lbk = offset[f] \div NWORDS /\ start = offset[f] % NWORDS
  OBVIOUS
<1>4. lbk \in 0 .. Most /\ lbk < Most /\ lbk \in Nat
  BY <1>2, <1>3, OffsetIs
<1>5. dev.free >= 3
  BY <1>1 DEF WritePass, Room
<1>6. PICK to, td, tb : to = Located(f, lbk) /\ td = to.dev /\ tb = to.bno
  OBVIOUS
<1>7. PICK I2 : I2 = [i_block EXCEPT ![f] = to.ib]
  OBVIOUS
<1>8. At(f, lbk, U, td, I2, tb)
  BY <1>4, <1>5, <1>6, <1>7, LocatedIs
<1>9. W = [U EXCEPT ![f] = U[f] \cup Path(lbk)]
  BY <1>3
<1>10. /\ Owns(td, I2, W) /\ Kept(dev, i_block, U, td, I2) /\ tb = Num(td, I2[f], lbk)
       /\ Counted(dev, i_block, U) => Counted(td, I2, W)
  BY <1>8, <1>9 DEF At
<1>11. lbk \in W[f] /\ lbk >= 0 /\ \A g \in File : U[g] \subseteq W[g]
  <2>1. lbk \in Path(lbk)
    BY DEF Path
  <2>2. QED
    BY <1>1, <1>4, <1>9, <2>1
<1>12. PICK data : data = Overwritten(td.disk[tb], start, remain, word)
  OBVIOUS
<1>13. dev' = [td EXCEPT !.disk[tb] = data] /\ i_block' = I2
  BY <1>2, <1>3, <1>6, <1>7, <1>12 DEF WritePass, Overwritten
<1>14. tb \in td.bmap /\ tb \in Blk \cup {0} /\ td.disk[tb] \in Block
  BY <1>10, <1>11 DEF Owns, Rooted, Device
<1>15. data \in Block
  BY <1>12, <1>14 DEF Overwritten, Block
<1>16. PICK d2 : d2 = [td EXCEPT !.disk[tb] = data] /\ d2 = dev'
  BY <1>13
<1>17. /\ Owns(d2, I2, W) /\ Rewritten(td, I2, W, tb, data, d2)
       /\ Counted(td, I2, W) => Counted(d2, I2, W)
  <2>1. Rewrites(td, tb, data, d2)
    BY <1>15, <1>16 DEF Rewrites
  <2>2. QED
    BY <1>10, <1>11, <2>1, DataWritten
<1>18. /\ \A g \in File : \A y \in W[g] : Num(d2, I2[g], y) = Num(td, I2[g], y)
       /\ d2.disk[tb] = data
       /\ \A c \in Blk \cup {0} : c # tb => d2.disk[c] = td.disk[c]
  BY <1>17 DEF Rewritten
<1>19. ASSUME NEW g \in File, NEW y \in U[g]
       PROVE  /\ Num(d2, I2[g], y) = Num(dev, i_block[g], y)
              /\ y >= 0 => \A j \in Index :
                    \/ d2.disk[Num(dev, i_block[g], y)][j] = dev.disk[Num(dev, i_block[g], y)][j]
                    \/ g = f /\ y = lbk /\ j \in start .. start + remain - 1
  <2>1. y \in W[g]
    BY <1>11
  <2>2. /\ Num(td, I2[g], y) = Num(dev, i_block[g], y)
        /\ y >= 0 => \A j \in Index :
             td.disk[Num(dev, i_block[g], y)][j] = dev.disk[Num(dev, i_block[g], y)][j]
    BY <1>10 DEF Kept
  <2>3. Num(d2, I2[g], y) = Num(dev, i_block[g], y)
    BY <1>18, <2>1, <2>2
  <2>4. Num(td, I2[g], y) \in Blk \cup {0}
    BY <1>10, <2>1 DEF Owns, Rooted, Device
  <2>5. CASE Num(td, I2[g], y) # tb
    BY <1>18, <2>2, <2>3, <2>4, <2>5
  <2>6. CASE Num(td, I2[g], y) = tb
    <3>1. g = f /\ y = lbk
      BY <1>10, <1>11, <2>1, <2>6 DEF Owns, Apart
    <3>2. \A j \in Index : j \in start .. start + remain - 1 \/ d2.disk[tb][j] = td.disk[tb][j]
      BY <1>12, <1>18 DEF Overwritten
    <3>3. QED
      BY <2>2, <2>3, <2>6, <3>1, <3>2
  <2>7. QED
    BY <2>5, <2>6
<1>20. ASSUME NEW j \in Index, j \in start .. start + remain - 1
       PROVE  d2.disk[Num(d2, I2[f], lbk)][j] = word
  <2>1. Num(d2, I2[f], lbk) = tb
    BY <1>10, <1>11, <1>18
  <2>2. QED
    BY <1>12, <1>18, <1>20, <2>1 DEF Overwritten
<1>21. Passed(U, f, remain, word)
  BY <1>3, <1>13, <1>16, <1>19, <1>20 DEF Passed
<1>22. QED
  BY <1>10, <1>13, <1>16, <1>17, <1>21

-----------------------------------------------------------------------------
(* The invariant, while no file is torn.                                   *)

\* How many data blocks a file has then.
Kf(f) == Held(i_size[f], i_block[f][0])

\* What the invariant says of one file.
LEMMA HoldsIs ==
    ASSUME Whole, NEW f \in File
    PROVE  /\ Kf(f) \in 0 .. Most /\ Kf(f) \in Nat /\ NodesOf(i_block, i_size)[f] = Used(Kf(f))
           /\ Rooted(dev, i_block[f], Used(Kf(f))) /\ Ended(dev, i_block[f], Used(Kf(f)))
           /\ dev \in Device /\ dev.free = Cardinality(Blk \ dev.bmap)
           /\ i_block \in Inodes /\ i_block[f] \in [0 .. Double -> Blk \cup {0}]
           /\ i_size \in [File -> Nat] /\ offset \in [File -> Nat]
           /\ i_size[f] \in Nat /\ i_size[f] <= MaxSize[f] /\ offset[f] \in Nat
           /\ offset[f] <= MaxSize[f]
<1>1. /\ i_size \in [File -> Nat] /\ offset \in [File -> Nat]
      /\ i_size[f] \in Nat /\ i_size[f] <= MaxSize[f] /\ offset[f] \in Nat /\ offset[f] <= MaxSize[f]
  BY DEF Whole, Base, SizesInv
<1>2. Kf(f) \in 0 .. Most /\ Kf(f) \in Nat
  <2>1. Kf(f) \in 0 .. Most
    BY <1>1, HeldIs DEF Kf
  <2>2. QED
    BY <2>1, NumbersAre
<1>3. NodesOf(i_block, i_size)[f] = Used(Kf(f))
  BY DEF NodesOf, Kf
<1>4. Owns(dev, i_block, NodesOf(i_block, i_size))
  BY DEF Whole, Sound
<1>5. /\ Rooted(dev, i_block[f], Used(Kf(f))) /\ Ended(dev, i_block[f], Used(Kf(f)))
      /\ dev \in Device /\ dev.free = Cardinality(Blk \ dev.bmap) /\ i_block \in Inodes
  BY <1>3, <1>4 DEF Owns
<1>6. i_block[f] \in [0 .. Double -> Blk \cup {0}]
  BY <1>5 DEF Inodes
<1>7. QED
  BY <1>1, <1>2, <1>3, <1>5, <1>6

\* The nodes of a file depend on its own size and inode.
LEMMA NodesAre ==
    ASSUME NEW I, NEW sizes, NEW I2, NEW sizes2, NEW f \in File, NEW V, NEW W,
           V = NodesOf(I, sizes),
           \A g \in File : g # f => I2[g] = I[g] /\ sizes2[g] = sizes[g],
           Used(Held(sizes2[f], I2[f][0])) = W
    PROVE  NodesOf(I2, sizes2) = [V EXCEPT ![f] = W]
BY DEF NodesOf

\* A file without words and without a first block has no nodes.
LEMMA NoNodes == Used(Held(0, 0)) = {}
<1>1. Held(0, 0) = 0
  BY DEF Held
<1>2. Used(0) = {}
  BY NumbersAre, UsedCardinality
<1>3. QED
  BY <1>1, <1>2

\* No number is left in the inode of f.
Cleared(f) == i_block' = [i_block EXCEPT ![f] = [i \in 0 .. Double |-> 0]]

\* clear_blocks frees just the blocks of the file, and leaves no number in its inode.
LEMMA ClearedInode ==
    ASSUME Whole, NEW f \in File, ClearBlocks(f)
    PROVE  /\ Freed(dev, i_block[f]) = Numbers(dev, i_block[f], Used(Kf(f)))
           /\ Left(i_block[f]) = {} /\ Cleared(f) /\ i_size' = [i_size EXCEPT ![f] = 0]
<1>1. PICK ib \in [0 .. Double -> Blk \cup {0}] : ib = i_block[f]
  BY HoldsIs
<1>2. PICK k \in 0 .. Most : /\ k = Kf(f) /\ dev \in Device
                             /\ Rooted(dev, ib, Used(k)) /\ Ended(dev, ib, Used(k))
  BY <1>1, HoldsIs
<1>3. Freed(dev, ib) = Numbers(dev, ib, Used(k))
  BY <1>1, <1>2, ClearedIs DEF Freed
<1>4. i_block' = [i_block EXCEPT ![f] = [i \in 0 .. Double |->
                    IF i >= NDIRECT \/ \A j \in 0 .. i : ib[j] # 0 THEN 0 ELSE ib[i]]]
  BY <1>1 DEF ClearBlocks
<1>5. ASSUME NEW i \in 0 .. Double, ~(i >= NDIRECT), NEW j \in 0 .. i, ib[j] = 0
      PROVE  ib[i] = 0
  <2>1. i \in 0 .. NDIRECT - 1 /\ j \in 0 .. NDIRECT - 1 /\ i \in Nat /\ j \in Nat /\ j <= i
    BY <1>5, NumbersAre
  <2>2. \A n \in 0 .. NDIRECT - 1 : n \in Nodes /\ Within(Used(k), n) /\ ib[n] = Num(dev, ib, n)
    <3>1. ASSUME NEW n \in 0 .. NDIRECT - 1
          PROVE  n \in Nodes /\ Within(Used(k), n) /\ ib[n] = Num(dev, ib, n)
      <4>1. n \in Nodes /\ Top(n) /\ Slot(n) = n
        BY Tops
      <4>2. ib[n] = Num(dev, ib, n)
        BY <4>1, NumIs
      <4>3. QED
        BY <4>1, <4>2 DEF Within
    <3>2. QED
      BY <3>1
  <2>3. PICK V : V = Used(k) /\ Rooted(dev, ib, V) /\ Ended(dev, ib, V)
    BY <1>2
  <2>4. j \notin V
    BY <1>2, <1>5, <2>1, <2>2, <2>3, NumZero
  <2>5. k \in Nat /\ i \notin V
    BY <2>1, <2>3, <2>4, DataUsed, LowIs
  <2>6. QED
    BY <1>2, <2>1, <2>2, <2>3, <2>5, NumZero
<1>6. [i \in 0 .. Double |-> IF i >= NDIRECT \/ \A j \in 0 .. i : ib[j] # 0 THEN 0 ELSE ib[i]]
         = [i \in 0 .. Double |-> 0]
  BY <1>5
<1>7. Left(ib) = {}
  <2>1. ASSUME NEW x \in Left(ib)
        PROVE  FALSE
    <3>1. x \in 0 .. NDIRECT - 1 /\ ib[x] # 0
      BY DEF Left
    <3>2. PICK j \in 0 .. x : ib[j] = 0
      BY DEF Left
    <3>3. x \in 0 .. Double /\ ~(x >= NDIRECT)
      BY <3>1, NumbersAre
    <3>4. QED
      BY <1>5, <3>1, <3>2, <3>3
  <2>2. QED
    BY <2>1
<1>8. i_size' = [i_size EXCEPT ![f] = 0]
  BY DEF ClearBlocks
<1>9. QED
  BY <1>1, <1>2, <1>3, <1>4, <1>6, <1>7, <1>8 DEF Cleared

\* clear_blocks leaves the other files as they are, and no block without owner.
LEMMA ClearStep ==
    ASSUME Whole, NEW f \in File, ClearBlocks(f)
    PROVE  /\ Owns(dev', i_block', NodesOf(i_block', i_size'))
           /\ Counted(dev', i_block', NodesOf(i_block', i_size'))
           /\ OthersKept(dev, i_block, NodesOf(i_block, i_size), f, dev', i_block')
<1>1. /\ Freed(dev, i_block[f]) = Numbers(dev, i_block[f], Used(Kf(f)))
      /\ Left(i_block[f]) = {} /\ Cleared(f) /\ i_size' = [i_size EXCEPT ![f] = 0]
  BY ClearedInode
<1>2. PICK U : U = NodesOf(i_block, i_size) /\ Owns(dev, i_block, U) /\ Counted(dev, i_block, U)
  BY DEF Whole, Sound
<1>3. U[f] = Used(Kf(f)) /\ i_block \in Inodes /\ i_size \in [File -> Nat]
  BY <1>2, HoldsIs
<1>4. PICK W : W = [U EXCEPT ![f] = Left(i_block[f])]
  OBVIOUS
<1>5. /\ Owns(dev', i_block', W) /\ OthersKept(dev, i_block, U, f, dev', i_block')
      /\ Counted(dev, i_block, U) /\ Freed(dev, i_block[f]) = Numbers(dev, i_block[f], U[f])
            => Counted(dev', i_block', W)
  BY <1>2, <1>4, ClearedOwns
<1>6. PICK I2, s2 : /\ I2 = i_block' /\ s2 = i_size' /\ s2[f] = 0 /\ I2[f][0] = 0
                    /\ \A g \in File : g # f => I2[g] = i_block[g] /\ s2[g] = i_size[g]
  <2>1. i_block' = [i_block EXCEPT ![f] = [i \in 0 .. Double |-> 0]] /\ 0 \in 0 .. Double
    BY <1>1, NumbersAre DEF Cleared
  <2>2. i_block'[f][0] = 0 /\ \A g \in File : g # f => i_block'[g] = i_block[g]
    BY <1>3, <2>1 DEF Inodes
  <2>3. i_size'[f] = 0 /\ \A g \in File : g # f => i_size'[g] = i_size[g]
    BY <1>1, <1>3
  <2>4. QED
    BY <2>2, <2>3
<1>7. NodesOf(I2, s2) = W
  <2>1. PICK V : V = {} /\ Used(Held(s2[f], I2[f][0])) = V
    BY <1>6, NoNodes
  <2>2. U = NodesOf(i_block, i_size)
    BY <1>2
  <2>3. \A g \in File : g # f => I2[g] = i_block[g] /\ s2[g] = i_size[g]
    BY <1>6
  <2>4. Used(Held(s2[f], I2[f][0])) = V
    BY <2>1
  <2>5. NodesOf(I2, s2) = [U EXCEPT ![f] = V]
    BY <2>2, <2>3, <2>4, SMTT(30), NodesAre
  <2>6. QED
    BY <1>1, <1>4, <2>1, <2>5
<1>8. QED
  BY <1>1, <1>2, <1>3, <1>5, <1>6, <1>7

\* creat gives a file its first block, and leaves what there is as it is.
LEMMA CreatStep ==
    ASSUME Whole, NEW f \in File, Creat(f)
    PROVE  /\ Owns(dev', i_block', NodesOf(i_block', i_size'))
           /\ Counted(dev', i_block', NodesOf(i_block', i_size'))
           /\ Kept(dev, i_block, NodesOf(i_block, i_size), dev', i_block')
<1>1. PICK U : U = NodesOf(i_block, i_size) /\ Owns(dev, i_block, U) /\ Counted(dev, i_block, U)
  BY DEF Whole, Sound
<1>2. /\ dev \in Device /\ dev.free = Cardinality(Blk \ dev.bmap) /\ i_block \in Inodes
      /\ U \in [File -> SUBSET Nodes] /\ i_size \in [File -> Nat]
  BY <1>1, HoldsIs DEF Owns
<1>3. U[f] = {}
  <2>1. i_size[f] = 0 /\ i_block[f][0] = 0
    BY DEF Whole, Sound, Named, Creat
  <2>2. QED
    BY <1>1, <2>1, NoNodes DEF NodesOf
<1>4. PICK W : W = Grow([U EXCEPT ![f] = {}], f, 0)
  OBVIOUS
<1>5. Owns(dev', i_block', W) /\ Kept(dev, i_block, U, dev', i_block') /\ Counted(dev', i_block', W)
  BY <1>1, <1>3, <1>4, CreatOwns
<1>6. W = [U EXCEPT ![f] = {0}]
  BY <1>2, <1>4 DEF Grow
<1>7. PICK I2, s2, b : /\ I2 = i_block' /\ s2 = i_size' /\ s2[f] = 0 /\ I2[f][0] = b /\ b # 0
                       /\ \A g \in File : g # f => I2[g] = i_block[g] /\ s2[g] = i_size[g]
  <2>1. dev.free \in Nat /\ dev.free > 0
    <3>1. dev.free \in Nat /\ dev.free >= 3
      BY <1>2 DEF Device, Creat, Room
    <3>2. QED
      BY <3>1
  <2>2. PICK b \in Blk : b = FirstFree(dev) /\ b # 0
    BY <1>2, <2>1, FirstFreeIs
  <2>3. /\ i_block' = [i_block EXCEPT ![f] = [i \in 0 .. Double |-> IF i = 0 THEN b ELSE 0]]
        /\ i_size' = [i_size EXCEPT ![f] = 0] /\ 0 \in 0 .. Double
    BY <2>2, NumbersAre DEF Creat
  <2>4. i_block'[f][0] = b /\ \A g \in File : g # f => i_block'[g] = i_block[g]
    BY <1>2, <2>3 DEF Inodes
  <2>5. i_size'[f] = 0 /\ \A g \in File : g # f => i_size'[g] = i_size[g]
    BY <1>2, <2>3
  <2>6. QED
    BY <2>2, <2>4, <2>5
<1>8. NodesOf(I2, s2) = W
  <2>1. Held(0, b) = 1
    BY <1>7 DEF Held
  <2>2. Used(1) = {0}
    <3>1. 1 \in 0 .. Most
      BY NumbersAre DEF Most
    <3>2. QED
      BY <3>1, UsedCardinality
  <2>3. PICK V : V = {0} /\ Used(Held(s2[f], I2[f][0])) = V
    BY <1>7, <2>1, <2>2
  <2>4. U = NodesOf(i_block, i_size)
    BY <1>1
  <2>5. \A g \in File : g # f => I2[g] = i_block[g] /\ s2[g] = i_size[g]
    BY <1>7
  <2>6. NodesOf(I2, s2) = [U EXCEPT ![f] = V]
    BY <2>3, <2>4, <2>5, NodesAre
  <2>7. QED
    BY <1>6, <2>3, <2>6
<1>9. QED
  BY <1>1, <1>5, <1>7, <1>8

\* A pass of file_write in a file, or at its end: the blocks stay accounted for, and
\* the words are written.
LEMMA PassStep ==
    ASSUME Whole, NEW f \in File, NEW n \in Nat, NEW word \in {Plain, Mark}, Writing(f, n, word),
           WritePass, NEW remain, remain = Lesser(NWORDS - (offset[f] % NWORDS), n)
    PROVE  /\ Owns(dev', i_block', NodesOf(i_block', i_size'))
           /\ Counted(dev', i_block', NodesOf(i_block', i_size'))
           /\ Passed(NodesOf(i_block, i_size), f, remain, word)
<1>1. PICK U : U = NodesOf(i_block, i_size) /\ Owns(dev, i_block, U) /\ Counted(dev, i_block, U)
  BY DEF Whole, Sound
<1>2. /\ i_block \in Inodes /\ U \in [File -> SUBSET Nodes] /\ i_size \in [File -> Nat]
      /\ offset[f] \in Nat /\ i_size[f] \in Nat /\ i_size[f] <= MaxSize[f]
  BY <1>1, HoldsIs DEF Owns
<1>3. /\ call.op = "write" /\ call.f = f /\ call.n = n /\ call.word = word
      /\ n > 0 /\ offset[f] + n <= MaxSize[f]
  BY DEF Writing, WritePass
<1>4. offset[f] <= i_size[f]
  BY <1>3 DEF Whole, Sound, Named
<1>5. PICK lbk, k, now :
         /\ lbk = offset[f] \div NWORDS /\ k = Kf(f)
         /\ now = IF offset[f] + remain > i_size[f] THEN offset[f] + remain ELSE i_size[f]
  OBVIOUS
<1>6. /\ lbk \in 0 .. Most /\ lbk < Most /\ lbk <= k /\ k \in 0 .. Most /\ k \in Nat /\ lbk \in Nat
      /\ now \in Nat /\ now > 0
      /\ \A any : Held(now, any) = IF lbk = k THEN k + 1 ELSE k
  <2>1. k \in 0 .. Most /\ k \in Nat
    BY <1>5, HoldsIs
  <2>2. PICK first : k = Held(i_size[f], first)
    BY <1>5 DEF Kf
  <2>3. PassAt(f, i_size[f], offset[f], n, remain)
    BY <1>2, <1>3, <1>4 DEF PassAt
  <2>4. Passing(f, i_size[f], offset[f], n, first, remain)
    BY <2>3, PassIs
  <2>5. QED
    BY <1>5, <2>1, <2>2, <2>4, NumbersAre DEF Passing
<1>7. PICK V : V = U[f] \cup Path(lbk)
  OBVIOUS
<1>8. PICK W : W = [U EXCEPT ![f] = V]
  OBVIOUS
<1>9. Owns(dev', i_block', W) /\ Counted(dev', i_block', W) /\ Passed(U, f, remain, word)
  <2>1. W = [U EXCEPT ![f] = U[f] \cup Path(offset[f] \div NWORDS)]
    BY <1>5, <1>7, <1>8
  <2>2. Owns(dev, i_block, U) /\ Counted(dev, i_block, U) /\ offset[f] \in Nat
    BY <1>1, <1>2
  <2>3. QED
    BY <2>1, <2>2, PassOwns
<1>10. PICK I2, s2 : /\ I2 = i_block' /\ s2 = i_size' /\ s2[f] = now
                     /\ \A g \in File : g # f => I2[g] = i_block[g] /\ s2[g] = i_size[g]
  <2>1. /\ i_block' = [i_block EXCEPT ![f] = Located(f, lbk).ib]
        /\ i_size' = [i_size EXCEPT ![f] = now]
    BY <1>3, <1>5 DEF WritePass
  <2>2. \A g \in File : g # f => i_block'[g] = i_block[g]
    BY <1>2, <2>1 DEF Inodes
  <2>3. i_size'[f] = now /\ \A g \in File : g # f => i_size'[g] = i_size[g]
    BY <1>2, <2>1
  <2>4. QED
    BY <2>2, <2>3
<1>11. NodesOf(I2, s2) = W
  <2>1. U[f] = Used(k)
    BY <1>1, <1>5, HoldsIs
  <2>2. Used(IF lbk = k THEN k + 1 ELSE k) = V
    <3>1. CASE lbk = k
      BY <1>6, <1>7, <2>1, <3>1, PathStep
    <3>2. CASE lbk # k
      <4>1. lbk \in Used(k)
        BY <1>6, <3>2, DataUsed
      <4>2. Path(lbk) \subseteq Used(k)
        BY <1>6, <4>1, PathUsed
      <4>3. QED
        BY <1>7, <2>1, <3>2, <4>2
    <3>3. QED
      BY <3>1, <3>2
  <2>3. Used(Held(s2[f], I2[f][0])) = V
    BY <1>6, <1>10, <2>2
  <2>4. U = NodesOf(i_block, i_size)
    BY <1>1
  <2>5. \A g \in File : g # f => I2[g] = i_block[g] /\ s2[g] = i_size[g]
    BY <1>10
  <2>6. NodesOf(I2, s2) = [U EXCEPT ![f] = V]
    BY <2>3, <2>4, <2>5, NodesAre
  <2>7. QED
    BY <1>8, <2>6
<1>12. QED
  BY <1>1, <1>9, <1>10, <1>11

-----------------------------------------------------------------------------
(* The steps, and what always holds.                                       *)

\* A fresh device.
LEMMA InitInv == Init => IInv
<1> SUFFICES ASSUME Init
             PROVE  IInv
  OBVIOUS
<1>1. PICK U : U = NodesOf(i_block, i_size)
  OBVIOUS
<1>2. U = [f \in File |-> {}]
  <2>1. ASSUME NEW f \in File
        PROVE  Used(Held(i_size[f], i_block[f][0])) = {}
    <3>1. i_size[f] = 0 /\ i_block[f][0] = 0
      BY NumbersAre DEF Init
    <3>2. QED
      BY <3>1, NoNodes
  <2>2. QED
    BY <1>1, <2>1 DEF NodesOf
<1>3. i_block \in Inodes
  <2>1. [i \in 0 .. Double |-> 0] \in [0 .. Double -> Blk \cup {0}]
    OBVIOUS
  <2>2. QED
    BY <2>1 DEF Init, Inodes
<1>4. dev \in Device /\ dev.free = Cardinality(Blk \ dev.bmap) /\ dev.bmap = {}
  <2>1. Cardinality(Blk) \in Nat
    BY BlockAssumption, FS_CardinalityType
  <2>2. PICK blank \in Block, junk \in Block :
           blank = [j \in Index |-> 0] /\ junk = [j \in Index |-> Junk]
    BY DEF Block
  <2>3. [b \in Blk \cup {0} |-> IF b = 0 THEN blank ELSE junk] \in [Blk \cup {0} -> Block]
    OBVIOUS
  <2>4. dev = [bmap |-> {}, free |-> Cardinality(Blk),
               disk |-> [b \in Blk \cup {0} |-> IF b = 0 THEN blank ELSE junk]]
    BY <2>2 DEF Init, Blank
  <2>5. dev \in Device
    BY <2>1, <2>3, <2>4 DEF Device
  <2>6. dev.bmap = {} /\ dev.free = Cardinality(Blk)
    BY <2>4
  <2>7. Blk \ dev.bmap = Blk
    BY <2>6
  <2>8. QED
    BY <2>5, <2>6, <2>7
<1>5. ASSUME NEW f \in File
      PROVE  Rooted(dev, i_block[f], U[f]) /\ Ended(dev, i_block[f], U[f])
  <2>1. U[f] = {}
    BY <1>2
  <2>2. Rooted(dev, i_block[f], U[f])
    BY <2>1 DEF Rooted
  <2>3. ASSUME NEW x \in Nodes, Within(U[f], x)
        PROVE  Num(dev, i_block[f], x) = 0
    <3>1. Top(x) /\ Slot(x) \in 0 .. Double
      BY <2>1, <2>3, NodeIs DEF Within
    <3>2. Num(dev, i_block[f], x) = i_block[f][Slot(x)]
      BY <3>1, NumIs
    <3>3. QED
      BY <3>1, <3>2 DEF Init
  <2>4. QED
    BY <2>2, <2>3 DEF Ended
<1>6. Apart(dev, i_block, U) /\ Counted(dev, i_block, U)
  BY <1>2, <1>4 DEF Apart, Counted
<1>7. Owns(dev, i_block, U)
  BY <1>2, <1>3, <1>4, <1>5, <1>6 DEF Owns
<1>8. SizesInv
  <2>1. i_size = [f \in File |-> 0] /\ offset = [f \in File |-> 0] /\ live = {} /\ held = {} /\ torn = {}
    BY DEF Init
  <2>2. i_size \in [File -> Nat] /\ offset \in [File -> Nat]
    BY <2>1
  <2>3. \A f \in File : MaxSize[f] \in Nat /\ i_size[f] = 0 /\ offset[f] = 0
    BY <2>1, BoundAssumption
  <2>4. \A f \in File : i_size[f] <= MaxSize[f] /\ offset[f] <= MaxSize[f]
    BY <2>3
  <2>5. QED
    BY <2>1, <2>2, <2>4 DEF SizesInv
<1>9. CallInv
  BY DEF Init, CallInv
<1>10. Named
  <2>1. \A f \in File : i_block[f][0] = 0 /\ i_size[f] = 0
    BY NumbersAre DEF Init
  <2>2. call.op # "write"
    BY DEF Init, Idle
  <2>3. QED
    BY <2>1, <2>2 DEF Named
<1>11. QED
  BY <1>1, <1>6, <1>7, <1>8, <1>9, <1>10 DEF IInv, Base, BlocksInv, Sound

\* Unlink and OpenW: whatever holes the file has, the other files keep their blocks.
LEMMA ClearBase ==
    ASSUME Base, NEW f \in File, Unlink(f) \/ OpenW(f)
    PROVE  Base'
<1>1. /\ ClearBlocks(f) /\ call = Idle /\ call' = Idle /\ torn' = torn
      /\ offset' = offset \/ offset' = [offset EXCEPT ![f] = 0]
      /\ \/ live' = live /\ held' = held
         \/ live' = live \ {f} /\ held' \subseteq held \cup {f}
  BY DEF Unlink, OpenW
<1>2. BlocksInv'
  <2>1. PICK U : Owns(dev, i_block, U)
    BY DEF Base, BlocksInv
  <2>2. PICK W : W = [U EXCEPT ![f] = Left(i_block[f])]
    OBVIOUS
  <2>3. Owns(dev', i_block', W)
    BY <1>1, <2>1, <2>2, ClearedOwns
  <2>4. QED
    BY <2>3 DEF BlocksInv
<1>3. SizesInv'
  <2>1. /\ live \subseteq File /\ held \subseteq File \ live /\ torn \subseteq File
        /\ i_size \in [File -> Nat] /\ offset \in [File -> Nat]
        /\ \A g \in File : i_size[g] <= MaxSize[g] /\ offset[g] <= MaxSize[g]
    BY DEF Base, SizesInv
  <2>2. i_size' = [i_size EXCEPT ![f] = 0] /\ 0 <= MaxSize[f]
    BY BoundAssumption, <1>1 DEF ClearBlocks
  <2>3. i_size' \in [File -> Nat] /\ \A g \in File : i_size'[g] <= MaxSize[g]
    BY <2>1, <2>2
  <2>4. offset' \in [File -> Nat] /\ \A g \in File : offset'[g] <= MaxSize[g]
    BY <1>1, <2>1, <2>2
  <2>5. live' \subseteq File /\ held' \subseteq File \ live' /\ torn' \subseteq File
    BY <1>1, <2>1
  <2>6. QED
    BY <2>3, <2>4, <2>5 DEF SizesInv
<1>4. CallInv'
  BY <1>1 DEF CallInv
<1>5. QED
  BY <1>2, <1>3, <1>4 DEF Base

\* creat, of a file whose inode may have blocks left in it.
LEMMA CreatBase ==
    ASSUME Base, NEW f \in File, Creat(f)
    PROVE  Base'
<1>1. /\ call = Idle /\ call' = Idle /\ offset' = offset /\ torn' = torn
      /\ live' = live \cup {f} /\ held' = held \ {f} /\ i_size' = [i_size EXCEPT ![f] = 0]
  BY DEF Creat
<1>2. BlocksInv'
  <2>1. PICK U : Owns(dev, i_block, U)
    BY DEF Base, BlocksInv
  <2>2. PICK W : W = Grow([U EXCEPT ![f] = {}], f, 0)
    OBVIOUS
  <2>3. Owns(dev', i_block', W)
    BY <2>1, <2>2, CreatOwns
  <2>4. QED
    BY <2>3 DEF BlocksInv
<1>3. SizesInv'
  <2>1. /\ live \subseteq File /\ held \subseteq File \ live /\ torn \subseteq File
        /\ i_size \in [File -> Nat] /\ offset \in [File -> Nat]
        /\ \A g \in File : i_size[g] <= MaxSize[g] /\ offset[g] <= MaxSize[g]
    BY DEF Base, SizesInv
  <2>2. 0 <= MaxSize[f]
    BY BoundAssumption
  <2>3. i_size' \in [File -> Nat] /\ \A g \in File : i_size'[g] <= MaxSize[g]
    BY <1>1, <2>1, <2>2
  <2>4. QED
    BY <1>1, <2>1, <2>3 DEF SizesInv
<1>4. CallInv'
  BY <1>1 DEF CallInv
<1>5. QED
  BY <1>2, <1>3, <1>4 DEF Base

\* Seek and Close.
LEMMA MoveBase ==
    ASSUME Base, NEW f \in File, NEW pos \in 0 .. MaxSize[f], call = Idle, held' \subseteq held,
           offset' = [offset EXCEPT ![f] = pos], UNCHANGED <<dev, live, i_block, i_size, call, torn>>
    PROVE  Base'
<1>1. /\ dev' = dev /\ live' = live /\ i_block' = i_block /\ i_size' = i_size /\ call' = call
      /\ torn' = torn
  OBVIOUS
<1>2. BlocksInv'
  BY <1>1 DEF Base, BlocksInv
<1>3. SizesInv'
  <2>1. /\ live \subseteq File /\ held \subseteq File \ live /\ torn \subseteq File
        /\ i_size \in [File -> Nat] /\ offset \in [File -> Nat]
        /\ \A g \in File : i_size[g] <= MaxSize[g] /\ offset[g] <= MaxSize[g]
    BY DEF Base, SizesInv
  <2>2. pos \in Nat /\ pos <= MaxSize[f]
    BY BoundAssumption
  <2>3. offset' \in [File -> Nat] /\ \A g \in File : offset'[g] <= MaxSize[g]
    BY <2>1, <2>2
  <2>4. held' \subseteq File \ live'
    BY <1>1, <2>1
  <2>5. QED
    BY <1>1, <2>1, <2>3, <2>4 DEF SizesInv
<1>4. CallInv'
  BY <1>1 DEF CallInv
<1>5. QED
  BY <1>2, <1>3, <1>4 DEF Base

\* Steps that leave all but the call as it is.
LEMMA CallBase ==
    ASSUME Base, UNCHANGED <<dev, live, held, i_block, i_size, offset>>, torn' \subseteq File, CallInv'
    PROVE  Base'
<1>1. /\ dev' = dev /\ live' = live /\ held' = held /\ i_block' = i_block /\ i_size' = i_size
      /\ offset' = offset
  OBVIOUS
<1>2. BlocksInv'
  BY <1>1 DEF Base, BlocksInv
<1>3. SizesInv'
  BY <1>1 DEF Base, SizesInv
<1>4. QED
  BY <1>2, <1>3 DEF Base

\* file_read is called; the offset may be behind the end of the file.
LEMMA ReadBase ==
    ASSUME Base, NEW f \in File, NEW n \in Request, Read(f, n)
    PROVE  Base'
<1>1. /\ UNCHANGED <<dev, live, held, i_block, i_size, offset>> /\ torn' = torn
      /\ call' = [op |-> "read", f |-> f, n |-> n, bytes |-> i_size[f] - offset[f], out |-> <<>>]
  BY DEF Read
<1>2. i_size[f] \in Nat /\ offset[f] \in Nat /\ torn \subseteq File
  BY DEF Base, SizesInv
<1>3. PICK bytes \in Int : bytes = i_size[f] - offset[f] /\ offset[f] + bytes = i_size[f]
  BY <1>2
<1>4. n \in Nat
  BY BoundAssumption
<1>5. call' = [op |-> "read", f |-> f, n |-> n, bytes |-> bytes, out |-> <<>>]
  BY <1>1, <1>3
<1>6. call'.op = "read" /\ call'.f = f /\ call'.n = n /\ call'.bytes = bytes /\ call'.out = <<>>
  BY <1>5
<1>7. CallInv'
  BY <1>1, <1>3, <1>4, <1>5, <1>6 DEF CallInv, Reading
<1>8. QED
  BY <1>1, <1>2, <1>7, CallBase

\* file_write is called, in a file or behind its end.
LEMMA WriteBase ==
    ASSUME Base, NEW f \in File, NEW n \in Request, NEW word \in {Plain, Mark}, Write(f, n, word)
    PROVE  Base'
<1>1. /\ UNCHANGED <<dev, live, held, i_block, i_size, offset>> /\ torn' \subseteq torn \cup {f}
      /\ call' = [op |-> "write", f |-> f, n |-> n, word |-> word]
      /\ offset[f] + n <= MaxSize[f]
  BY DEF Write
<1>2. n \in Nat /\ torn \subseteq File
  BY BoundAssumption DEF Base, SizesInv
<1>3. call'.op = "write" /\ call'.f = f /\ call'.n = n /\ call'.word = word
  BY <1>1
<1>4. CallInv'
  BY <1>1, <1>2, <1>3 DEF CallInv, Writing
<1>5. torn' \subseteq File
  BY <1>1, <1>2
<1>6. QED
  BY <1>1, <1>4, <1>5, CallBase

\* A call returns.
LEMMA ReturnBase ==
    ASSUME Base, Return
    PROVE  Base'
<1>1. UNCHANGED <<dev, live, held, i_block, i_size, offset>> /\ torn' = torn /\ call' = Idle
  BY DEF Return
<1>2. CallInv'
  BY <1>1 DEF CallInv
<1>3. torn' \subseteq File
  BY <1>1 DEF Base, SizesInv
<1>4. QED
  BY <1>1, <1>2, <1>3, CallBase

\* The operation of the call, under its name.
LEMMA ReadingIs ==
    ASSUME Base, call.op = "read"
    PROVE  \E f \in File : \E n \in Nat : \E bytes \in Int : \E out :
              /\ Reading(f, n, bytes, out)
              /\ call.f = f /\ call.n = n /\ call.bytes = bytes /\ call.out = out
<1>1. call # Idle
  BY DEF Idle
<1>2. Reading(call.f, call.n, call.bytes, call.out)
  BY <1>1 DEF Base, CallInv
<1>3. QED
  BY <1>2 DEF Reading

\* The same for a write.
LEMMA WritingIs ==
    ASSUME Base, call.op = "write"
    PROVE  \E f \in File : \E n \in Nat : \E word \in {Plain, Mark} :
              /\ Writing(f, n, word)
              /\ call.f = f /\ call.n = n /\ call.word = word
<1>1. call # Idle
  BY DEF Idle
<1>2. Writing(call.f, call.n, call.word)
  BY <1>1 DEF Base, CallInv
<1>3. QED
  BY <1>2 DEF Writing

\* What a pass of a read moves.
Moved(f, n, bytes) == Lesser(Lesser(NWORDS - (offset[f] % NWORDS), n), bytes)

\* It moves something, and nothing behind the block, the request or the file.
LEMMA MovedIs ==
    ASSUME NEW f \in File, offset[f] \in Nat, NEW n \in Nat, NEW bytes \in Int, n > 0, bytes > 0
    PROVE  /\ Moved(f, n, bytes) \in Nat /\ Moved(f, n, bytes) > 0
           /\ Moved(f, n, bytes) <= n /\ Moved(f, n, bytes) <= bytes
           /\ offset[f] % NWORDS \in Nat /\ (offset[f] % NWORDS) + Moved(f, n, bytes) <= NWORDS
<1>1. PICK r \in Nat, w \in Nat : r = offset[f] % NWORDS /\ w = NWORDS /\ r < w
  BY DivIs, NumbersAre
<1>2. PICK m : m = Moved(f, n, bytes) /\ m = Lesser(Lesser(w - r, n), bytes)
  BY <1>1 DEF Moved
<1>3. m \in Nat /\ m > 0 /\ m <= n /\ m <= bytes /\ r + m <= w
  BY <1>1, <1>2 DEF Lesser
<1>4. QED
  BY <1>1, <1>2, <1>3

\* A pass of file_read: the offset goes up by what bytes goes down.
LEMMA ReadPassBase ==
    ASSUME Base, ReadPass
    PROVE  Base'
<1>1. PICK f \in File, n \in Nat, bytes \in Int :
         Reading(f, n, bytes, call.out) /\ call.f = f /\ call.n = n /\ call.bytes = bytes
  BY ReadingIs DEF ReadPass
<1>2. PICK m, x, out :
         /\ m = Moved(f, n, bytes) /\ out = call.out
         /\ x = [j \in 1 .. m |->
                    dev.disk[BlockOf(f, offset[f] \div NWORDS)][(offset[f] % NWORDS) + j - 1]]
  OBVIOUS
<1>3. /\ dev' = dev /\ live' = live /\ held' = held /\ i_block' = i_block /\ i_size' = i_size
      /\ torn' = torn /\ n > 0 /\ bytes > 0
      /\ call' = [call EXCEPT !.n = @ - m, !.bytes = @ - m, !.out = @ \o x]
      /\ offset' = [offset EXCEPT ![f] = @ + m]
  BY <1>1, <1>2 DEF ReadPass, Moved
<1>4. /\ live \subseteq File /\ held \subseteq File \ live /\ torn \subseteq File
      /\ i_size \in [File -> Nat] /\ offset \in [File -> Nat]
      /\ \A g \in File : i_size[g] <= MaxSize[g] /\ offset[g] <= MaxSize[g]
  BY DEF Base, SizesInv
<1>5. /\ i_size[f] \in Nat /\ offset[f] \in Nat /\ MaxSize[f] \in Nat /\ i_size[f] <= MaxSize[f]
      /\ call = [op |-> "read", f |-> f, n |-> n, bytes |-> bytes, out |-> out]
      /\ offset[f] + bytes = i_size[f]
  BY <1>1, <1>2, <1>4, BoundAssumption DEF Reading
<1>6. m \in Nat /\ m > 0 /\ m <= n /\ m <= bytes
  BY <1>2, <1>3, <1>5, MovedIs
<1>7. PICK n2 \in Nat, b2 \in Int, o2 \in Nat :
         /\ n2 = n - m /\ b2 = bytes - m /\ o2 = offset[f] + m
         /\ o2 + b2 = i_size[f] /\ o2 <= MaxSize[f]
  BY <1>5, <1>6
<1>8. PICK out2 : out2 = out \o x
  OBVIOUS
<1>9. call' = [op |-> "read", f |-> f, n |-> n2, bytes |-> b2, out |-> out2]
  BY <1>3, <1>5, <1>7, <1>8
<1>10. call'.op = "read" /\ call'.f = f /\ call'.n = n2 /\ call'.bytes = b2 /\ call'.out = out2
  BY <1>9
<1>11. offset' = [offset EXCEPT ![f] = o2] /\ offset'[f] = o2
  BY <1>3, <1>4, <1>7
<1>12. offset' \in [File -> Nat] /\ \A g \in File : offset'[g] <= MaxSize[g]
  BY <1>4, <1>7, <1>11
<1>13. SizesInv'
  BY <1>3, <1>4, <1>12 DEF SizesInv
<1>14. Reading(f, n2, b2, out2)'
  BY <1>3, <1>7, <1>9, <1>11 DEF Reading
<1>15. CallInv'
  BY <1>10, <1>14 DEF CallInv
<1>16. BlocksInv'
  BY <1>3 DEF Base, BlocksInv
<1>17. QED
  BY <1>13, <1>15, <1>16 DEF Base

\* The numbers after a pass of a write.
PassEnds(f, n, m, now, n2, o2) ==
    /\ m = Lesser(NWORDS - (offset[f] % NWORDS), n)
    /\ now = IF offset[f] + m > i_size[f] THEN offset[f] + m ELSE i_size[f]
    /\ n2 = n - m /\ o2 = offset[f] + m
    /\ {now, n2, o2} \subseteq Nat
    /\ o2 <= now /\ now <= MaxSize[f] /\ o2 + n2 <= MaxSize[f]

\* A pass of file_write stays within what the call may write.
LEMMA PassEndsAt ==
    ASSUME Base, WritePass, NEW f \in File, NEW n \in Nat, NEW word \in {Plain, Mark},
           Writing(f, n, word)
    PROVE  \E m, now, n2, o2 :
              /\ PassEnds(f, n, m, now, n2, o2)
              /\ live' = live /\ held' = held /\ torn' = torn
              /\ i_block' = [i_block EXCEPT ![f] = Located(f, offset[f] \div NWORDS).ib]
              /\ offset' = [offset EXCEPT ![f] = o2] /\ i_size' = [i_size EXCEPT ![f] = now]
              /\ call' = [op |-> "write", f |-> f, n |-> n2, word |-> word]
<1>1. /\ call = [op |-> "write", f |-> f, n |-> n, word |-> word] /\ offset[f] + n <= MaxSize[f]
      /\ call.f = f /\ call.n = n /\ n > 0
  BY DEF Writing, WritePass
<1>2. /\ i_size[f] \in Nat /\ i_size[f] <= MaxSize[f] /\ offset[f] \in Nat /\ MaxSize[f] \in Nat
      /\ offset \in [File -> Nat] /\ i_size \in [File -> Nat]
  BY BoundAssumption DEF Base, SizesInv
<1>3. PICK m : m = Lesser(NWORDS - (offset[f] % NWORDS), n)
  OBVIOUS
<1>4. m \in Nat /\ m > 0 /\ m <= n
  BY <1>1, <1>2, <1>3, RemainIs
<1>5. PICK now \in Nat :
         now = (IF offset[f] + m > i_size[f] THEN offset[f] + m ELSE i_size[f])
  BY <1>2, <1>4
<1>6. PICK n2 \in Nat, o2 \in Nat : n2 = n - m /\ o2 = offset[f] + m
  <2>1. n - m \in Nat
    BY <1>4
  <2>2. offset[f] + m \in Nat
    BY <1>2, <1>4
  <2>3. QED
    BY <2>1, <2>2
<1>7. o2 <= now /\ now <= MaxSize[f] /\ o2 + n2 <= MaxSize[f]
  BY <1>1, <1>2, <1>4, <1>5, <1>6
<1>8. PassEnds(f, n, m, now, n2, o2)
  BY <1>3, <1>5, <1>6, <1>7 DEF PassEnds
<1>9. /\ live' = live /\ held' = held /\ torn' = torn
      /\ i_block' = [i_block EXCEPT ![f] = Located(f, offset[f] \div NWORDS).ib]
      /\ offset' = [offset EXCEPT ![f] = @ + m] /\ i_size' = [i_size EXCEPT ![f] = now]
      /\ call' = [call EXCEPT !.n = @ - m]
  BY <1>1, <1>3, <1>5 DEF WritePass
<1>10. offset' = [offset EXCEPT ![f] = o2] /\ call' = [op |-> "write", f |-> f, n |-> n2, word |-> word]
  BY <1>1, <1>6, <1>9
<1>11. QED
  BY <1>8, <1>9, <1>10

\* A pass of file_write takes no block of another file, in a file or behind its end.
LEMMA WritePassBase ==
    ASSUME Base, WritePass
    PROVE  Base'
<1>1. PICK f \in File, n \in Nat, word \in {Plain, Mark} :
         Writing(f, n, word) /\ call.f = f /\ call.n = n /\ call.word = word
  BY WritingIs DEF WritePass
<1>2. PICK m, now, n2, o2 :
         /\ PassEnds(f, n, m, now, n2, o2)
         /\ live' = live /\ held' = held /\ torn' = torn
         /\ offset' = [offset EXCEPT ![f] = o2] /\ i_size' = [i_size EXCEPT ![f] = now]
         /\ call' = [op |-> "write", f |-> f, n |-> n2, word |-> word]
  BY <1>1, PassEndsAt
<1>3. /\ live \subseteq File /\ held \subseteq File \ live /\ torn \subseteq File
      /\ i_size \in [File -> Nat] /\ offset \in [File -> Nat] /\ MaxSize[f] \in Nat
      /\ \A g \in File : i_size[g] <= MaxSize[g] /\ offset[g] <= MaxSize[g]
  BY BoundAssumption DEF Base, SizesInv
<1>4. /\ now \in Nat /\ n2 \in Nat /\ o2 \in Nat
      /\ now <= MaxSize[f] /\ o2 + n2 <= MaxSize[f]
  BY <1>2 DEF PassEnds
<1>5. o2 <= MaxSize[f]
  BY <1>3, <1>4
<1>6. BlocksInv'
  <2>1. PICK U : Owns(dev, i_block, U)
    BY DEF Base, BlocksInv
  <2>2. PICK W : W = [U EXCEPT ![f] = U[f] \cup Path(offset[f] \div NWORDS)]
    OBVIOUS
  <2>3. m = Lesser(NWORDS - (offset[f] % NWORDS), n) /\ offset[f] \in Nat
    BY <1>2, <1>3 DEF PassEnds
  <2>4. Writing(f, n, word)
    BY <1>1
  <2>5. Owns(dev', i_block', W)
    BY <2>1, <2>2, <2>3, <2>4, ZenonT(60), PassOwns
  <2>6. QED
    BY <2>5 DEF BlocksInv
<1>7. SizesInv'
  <2>1. i_size' \in [File -> Nat] /\ \A g \in File : i_size'[g] <= MaxSize[g]
    BY <1>2, <1>3, <1>4
  <2>2. offset' \in [File -> Nat] /\ \A g \in File : offset'[g] <= MaxSize[g]
    BY <1>2, <1>3, <1>4, <1>5
  <2>3. QED
    BY <1>2, <1>3, <2>1, <2>2 DEF SizesInv
<1>8. call'.op = "write" /\ call'.f = f /\ call'.n = n2 /\ call'.word = word
  BY <1>2
<1>9. Writing(f, n2, word)'
  <2>1. offset'[f] = o2
    BY <1>2, <1>3
  <2>2. QED
    BY <1>2, <1>4, <2>1 DEF Writing
<1>10. CallInv'
  BY <1>8, <1>9 DEF CallInv
<1>11. QED
  BY <1>6, <1>7, <1>10 DEF Base

\* What always holds goes on.
LEMMA BaseStep == Base /\ [Next]_vars => Base'
<1> SUFFICES ASSUME Base, [Next]_vars
             PROVE  Base'
  OBVIOUS
<1>1. CASE UNCHANGED vars
  <2>1. UNCHANGED <<dev, live, held, i_block, i_size, offset, call, torn>>
    BY <1>1 DEF vars
  <2>2. CallInv' /\ torn' \subseteq File
    BY <2>1 DEF Base, SizesInv, CallInv, Reading, Writing
  <2>3. QED
    BY <2>1, <2>2, CallBase
<1>2. ASSUME NEW f \in File, Creat(f)
      PROVE  Base'
  BY <1>2, CreatBase
<1>3. ASSUME NEW f \in File, Unlink(f) \/ OpenW(f)
      PROVE  Base'
  BY <1>3, ClearBase
<1>4. ASSUME NEW f \in File, Close(f)
      PROVE  Base'
  <2>1. 0 \in 0 .. MaxSize[f]
    BY BoundAssumption
  <2>2. /\ call = Idle /\ held' \subseteq held /\ offset' = [offset EXCEPT ![f] = 0]
        /\ UNCHANGED <<dev, live, i_block, i_size, call, torn>>
    BY <1>4 DEF Close
  <2>3. QED
    BY <2>1, <2>2, MoveBase
<1>5. ASSUME NEW f \in File, NEW pos \in 0 .. MaxSize[f], Seek(f, pos)
      PROVE  Base'
  <2>1. /\ call = Idle /\ held' \subseteq held /\ offset' = [offset EXCEPT ![f] = pos]
        /\ UNCHANGED <<dev, live, i_block, i_size, call, torn>>
    BY <1>5 DEF Seek
  <2>2. QED
    BY <2>1, MoveBase
<1>6. ASSUME NEW f \in File, NEW n \in Request, Read(f, n)
      PROVE  Base'
  BY <1>6, ReadBase
<1>7. ASSUME NEW f \in File, NEW n \in Request, NEW word \in {Plain, Mark}, Write(f, n, word)
      PROVE  Base'
  BY <1>7, WriteBase
<1>8. CASE ReadPass
  BY <1>8, ReadPassBase
<1>9. CASE WritePass
  BY <1>9, WritePassBase
<1>10. CASE Return
  BY <1>10, ReturnBase
<1>11. QED
  BY <1>1, <1>2, <1>3, <1>4, <1>5, <1>6, <1>7, <1>8, <1>9, <1>10 DEF Next

-----------------------------------------------------------------------------
(* What holds until a file is torn.                                        *)

\* Unlink and OpenW.
LEMMA ClearSound ==
    ASSUME Whole, NEW f \in File, Unlink(f) \/ OpenW(f)
    PROVE  Sound'
<1>1. ClearBlocks(f) /\ call' = Idle /\ (live' = live \/ live' = live \ {f})
  BY DEF Unlink, OpenW
<1>2. /\ Owns(dev', i_block', NodesOf(i_block', i_size'))
      /\ Counted(dev', i_block', NodesOf(i_block', i_size'))
  BY <1>1, ClearStep
<1>3. Cleared(f) /\ i_size' = [i_size EXCEPT ![f] = 0] /\ i_block \in Inodes /\ i_size \in [File -> Nat]
  BY <1>1, ClearedInode, HoldsIs
<1>4. i_block'[f] = [i \in 0 .. Double |-> 0] /\ \A g \in File : g # f => i_block'[g] = i_block[g]
  BY <1>3 DEF Cleared, Inodes
<1>5. i_block'[f][0] = 0
  BY <1>4, NumbersAre
<1>6. \A g \in File \ live : i_size[g] = 0 /\ i_block[g][0] = 0
  BY DEF Whole, Sound, Named
<1>7. \A g \in File \ live' : i_size'[g] = 0 /\ i_block'[g][0] = 0
  BY <1>1, <1>3, <1>4, <1>5, <1>6
<1>8. Named'
  BY <1>1, <1>7 DEF Named, Idle
<1>9. QED
  BY <1>2, <1>8 DEF Sound

\* creat.
LEMMA CreatSound ==
    ASSUME Whole, NEW f \in File, Creat(f)
    PROVE  Sound'
<1>1. /\ call' = Idle /\ live' = live \cup {f} /\ i_size' = [i_size EXCEPT ![f] = 0]
      /\ i_block' = [i_block EXCEPT ![f] = [i \in 0 .. Double |-> IF i = 0 THEN FirstFree(dev) ELSE 0]]
  BY DEF Creat
<1>2. /\ Owns(dev', i_block', NodesOf(i_block', i_size'))
      /\ Counted(dev', i_block', NodesOf(i_block', i_size'))
  BY CreatStep
<1>3. i_block \in Inodes /\ i_size \in [File -> Nat]
  BY HoldsIs
<1>4. \A g \in File : g # f => i_block'[g] = i_block[g] /\ i_size'[g] = i_size[g]
  BY <1>1, <1>3 DEF Inodes
<1>5. \A g \in File \ live : i_size[g] = 0 /\ i_block[g][0] = 0
  BY DEF Whole, Sound, Named
<1>6. \A g \in File \ live' : i_size'[g] = 0 /\ i_block'[g][0] = 0
  BY <1>1, <1>4, <1>5
<1>7. Named'
  BY <1>1, <1>6 DEF Named, Idle
<1>8. QED
  BY <1>2, <1>7 DEF Sound

\* Close, Seek, Read, Write, ReadPass and Return change neither blocks nor sizes.
LEMMA StillSound ==
    ASSUME Whole, UNCHANGED <<dev, live, i_block, i_size>>,
           call'.op = "write" => call'.f \in live /\ offset'[call'.f] <= i_size[call'.f]
    PROVE  Sound'
<1>1. dev' = dev /\ live' = live /\ i_block' = i_block /\ i_size' = i_size
  OBVIOUS
<1>2. Sound
  BY DEF Whole
<1>3. Named'
  BY <1>1, <1>2 DEF Sound, Named
<1>4. QED
  BY <1>1, <1>2, <1>3 DEF Sound

\* A pass of file_write leaves the offset in the file, or at its end.
LEMMA WritePassSound ==
    ASSUME Whole, WritePass
    PROVE  Sound'
<1>1. PICK f \in File, n \in Nat, word \in {Plain, Mark} :
         Writing(f, n, word) /\ call.f = f /\ call.n = n /\ call.word = word
  BY WritingIs DEF WritePass, Whole
<1>2. PICK m, now, n2, o2 :
         /\ PassEnds(f, n, m, now, n2, o2) /\ live' = live
         /\ i_block' = [i_block EXCEPT ![f] = Located(f, offset[f] \div NWORDS).ib]
         /\ offset' = [offset EXCEPT ![f] = o2] /\ i_size' = [i_size EXCEPT ![f] = now]
         /\ call' = [op |-> "write", f |-> f, n |-> n2, word |-> word]
  BY <1>1, PassEndsAt DEF Whole
<1>3. m = Lesser(NWORDS - (offset[f] % NWORDS), n) /\ o2 <= now
  BY <1>2 DEF PassEnds
<1>4. /\ Owns(dev', i_block', NodesOf(i_block', i_size'))
      /\ Counted(dev', i_block', NodesOf(i_block', i_size'))
  BY <1>1, <1>3, PassStep
<1>5. i_block \in Inodes /\ i_size \in [File -> Nat] /\ offset \in [File -> Nat]
  BY HoldsIs
<1>6. \A g \in File : g # f => i_block'[g] = i_block[g] /\ i_size'[g] = i_size[g]
  BY <1>2, <1>5 DEF Inodes
<1>7. f \in live /\ \A g \in File \ live : i_size[g] = 0 /\ i_block[g][0] = 0
  BY <1>1 DEF Whole, Sound, Named, WritePass
<1>8. \A g \in File \ live' : i_size'[g] = 0 /\ i_block'[g][0] = 0
  BY <1>2, <1>6, <1>7
<1>9. call'.f = f /\ offset'[f] = o2 /\ i_size'[f] = now
  BY <1>2, <1>5
<1>10. Named'
  BY <1>2, <1>3, <1>7, <1>8, <1>9 DEF Named
<1>11. QED
  BY <1>4, <1>10 DEF Sound

\* It goes on, as long as no file is torn.
LEMMA SoundStep ==
    ASSUME Whole, [Next]_vars, torn' = {}
    PROVE  Sound'
<1>1. CASE UNCHANGED vars
  <2>1. UNCHANGED <<dev, live, i_block, i_size>> /\ call' = call /\ offset' = offset
    BY <1>1 DEF vars
  <2>2. QED
    BY <2>1, StillSound DEF Whole, Sound, Named
<1>2. ASSUME NEW f \in File, Creat(f)
      PROVE  Sound'
  BY <1>2, CreatSound
<1>3. ASSUME NEW f \in File, Unlink(f) \/ OpenW(f)
      PROVE  Sound'
  BY <1>3, ClearSound
<1>4. ASSUME NEW f \in File, Close(f)
      PROVE  Sound'
  <2>1. UNCHANGED <<dev, live, i_block, i_size>> /\ call' = Idle
    BY <1>4 DEF Close
  <2>2. QED
    BY <2>1, StillSound DEF Idle
<1>5. ASSUME NEW f \in File, NEW pos \in 0 .. MaxSize[f], Seek(f, pos)
      PROVE  Sound'
  <2>1. UNCHANGED <<dev, live, i_block, i_size>> /\ call' = Idle
    BY <1>5 DEF Seek
  <2>2. QED
    BY <2>1, StillSound DEF Idle
<1>6. ASSUME NEW f \in File, NEW n \in Request, Read(f, n)
      PROVE  Sound'
  <2>1. UNCHANGED <<dev, live, i_block, i_size>> /\ call'.op = "read"
    BY <1>6 DEF Read
  <2>2. QED
    BY <2>1, StillSound
<1>7. ASSUME NEW f \in File, NEW n \in Request, NEW word \in {Plain, Mark}, Write(f, n, word)
      PROVE  Sound'
  <2>1. /\ UNCHANGED <<dev, live, i_block, i_size>> /\ call'.f = f /\ offset' = offset
        /\ torn' = IF f \in live /\ offset[f] <= i_size[f] THEN torn ELSE torn \cup {f}
    BY <1>7 DEF Write
  <2>2. f \in live /\ offset[f] <= i_size[f]
    BY <2>1
  <2>3. QED
    BY <2>1, <2>2, StillSound
<1>8. CASE ReadPass
  <2>1. UNCHANGED <<dev, live, i_block, i_size>>
    BY <1>8 DEF ReadPass
  <2>2. PICK m, x : call' = [call EXCEPT !.n = @ - m, !.bytes = @ - m, !.out = @ \o x]
    BY <1>8 DEF ReadPass
  <2>3. PICK f \in File, n \in Nat, bytes \in Int : Reading(f, n, bytes, call.out)
    BY <1>8, ReadingIs DEF ReadPass, Whole
  <2>4. PICK out : call = [op |-> "read", f |-> f, n |-> n, bytes |-> bytes, out |-> out]
    BY <2>3 DEF Reading
  <2>5. call'.op = "read"
    BY <2>2, <2>4
  <2>6. QED
    BY <2>1, <2>5, StillSound
<1>9. CASE WritePass
  BY <1>9, WritePassSound
<1>10. CASE Return
  <2>1. UNCHANGED <<dev, live, i_block, i_size>> /\ call' = Idle
    BY <1>10 DEF Return
  <2>2. QED
    BY <2>1, StillSound DEF Idle
<1>11. QED
  BY <1>1, <1>2, <1>3, <1>4, <1>5, <1>6, <1>7, <1>8, <1>9, <1>10 DEF Next

\* A torn file is not mended.
LEMMA TornStays ==
    ASSUME [Next]_vars
    PROVE  torn \subseteq torn'
<1>1. CASE UNCHANGED vars
  BY <1>1 DEF vars
<1>2. CASE Next
  BY <1>2 DEF Next, Creat, Unlink, Close, OpenW, Seek, Read, Write, ReadPass, WritePass, Return
<1>3. QED
  BY <1>1, <1>2

\* The invariant is inductive.
LEMMA StepInv == IInv /\ [Next]_vars => IInv'
<1> SUFFICES ASSUME IInv, [Next]_vars
             PROVE  IInv'
  OBVIOUS
<1>1. Base'
  BY BaseStep DEF IInv
<1>2. ASSUME torn' = {}
      PROVE  Sound'
  <2>1. torn = {}
    BY <1>2, TornStays
  <2>2. Whole
    BY <2>1 DEF IInv, Whole
  <2>3. QED
    BY <1>2, <2>2, SoundStep
<1>3. QED
  BY <1>1, <1>2 DEF IInv

\* In every state that is reached, the nodes of the files, their sizes and the
\* call in progress are as they should be.
THEOREM Invariance == Spec => []IInv
<1>1. Init => IInv
  BY InitInv
<1>2. IInv /\ [Next]_vars => IInv'
  BY StepInv
<1>3. QED
  BY <1>1, <1>2, PTL DEF Spec

\* TypeOK: file_read, file_write, get_bno, clear_blocks, balloc and bdealloc keep
\* the device, the inodes and the offsets what they should be, when files have holes
\* and are written through descriptors of files that are gone too.
THEOREM TypeCorrect == Spec => []TypeOK
<1>1. ASSUME IInv
      PROVE  TypeOK
  <2>1. dev.bmap \subseteq Blk /\ dev.free \in Nat /\ dev.disk \in [Blk \cup {0} -> Block]
        /\ i_block \in [File -> [0 .. Double -> Blk \cup {0}]]
    BY <1>1 DEF IInv, Base, BlocksInv, Owns, Device, Inodes
  <2>2. live \subseteq File /\ held \subseteq File \ live /\ torn \subseteq File
    BY <1>1 DEF IInv, Base, SizesInv
  <2>3. ASSUME NEW f \in File
        PROVE  i_size[f] \in 0 .. MaxSize[f] /\ offset[f] \in 0 .. MaxSize[f]
    <3>1. /\ i_size[f] \in Nat /\ i_size[f] <= MaxSize[f]
          /\ offset[f] \in Nat /\ offset[f] <= MaxSize[f]
      BY <1>1 DEF IInv, Base, SizesInv
    <3>2. MaxSize[f] \in Nat
      BY BoundAssumption
    <3>3. QED
      BY <3>1, <3>2
  <2>4. call.op \in {"idle", "read", "write"}
    BY <1>1 DEF IInv, Base, CallInv, Idle
  <2>5. QED
    BY <2>1, <2>2, <2>3, <2>4 DEF TypeOK
<1>2. QED
  BY <1>1, Invariance, PTL

-----------------------------------------------------------------------------
(* The blocks are accounted for.                                           *)

\* A place that does not hold 0 is that of a node of the file.
LEMMA LeadsTo ==
    ASSUME NEW d, NEW ib, NEW V, Ended(d, ib, V), NEW x \in Nodes, Top(x) \/ Parent(x) \in V,
           Num(d, ib, x) # 0
    PROVE  x \in V
BY DEF Ended, Within

\* The numbers found in the inode of f and in its blocks of numbers are those of
\* its nodes.
LEMMA BlocksAre ==
    ASSUME NEW U, Owns(dev, i_block, U), NEW f \in File
    PROVE  Blocks(f) = Numbers(dev, i_block[f], U[f])
<1>1. PICK ib, V : ib = i_block[f] /\ V = U[f]
  OBVIOUS
<1>2. /\ dev \in Device /\ Rooted(dev, ib, V) /\ Ended(dev, ib, V)
      /\ \A x \in V : x \in Nodes /\ (~Top(x) => Parent(x) \in V)
      /\ \A x \in V : Num(dev, ib, x) # 0
      /\ \A x, y \in V : Num(dev, ib, x) = Num(dev, ib, y) => x = y
  <2>1. dev \in Device /\ Rooted(dev, ib, V) /\ Ended(dev, ib, V) /\ Apart(dev, i_block, U)
    BY <1>1 DEF Owns
  <2>2. \A x \in V : x \in Nodes /\ (~Top(x) => Parent(x) \in V)
    BY <2>1 DEF Rooted, Within
  <2>3. \A x \in V : Num(dev, ib, x) # 0
    BY <2>1, BlockAssumption DEF Rooted, Device
  <2>4. \A x, y \in V : Num(dev, ib, x) = Num(dev, ib, y) => x = y
    BY <1>1, <2>1 DEF Apart
  <2>5. QED
    BY <2>1, <2>2, <2>3, <2>4
<1>3. /\ \A i \in 0 .. NDIRECT - 1 : i \in Nodes /\ Top(i) /\ Num(dev, ib, i) = ib[i]
      /\ -1 \in Nodes /\ Top(-1) /\ Num(dev, ib, -1) = ib[Single]
      /\ -2 \in Nodes /\ Top(-2) /\ Num(dev, ib, -2) = ib[Double]
  <2>1. ASSUME NEW i \in 0 .. NDIRECT - 1
        PROVE  i \in Nodes /\ Top(i) /\ Num(dev, ib, i) = ib[i]
    <3>1. i \in Nodes /\ Top(i) /\ Slot(i) = i
      BY Tops
    <3>2. QED
      BY <3>1, NumIs
  <2>2. -1 \in Nodes /\ Top(-1) /\ Num(dev, ib, -1) = ib[Single]
    BY Tops, NumIs
  <2>3. -2 \in Nodes /\ Top(-2) /\ Num(dev, ib, -2) = ib[Double]
    BY Tops, NumIs
  <2>4. QED
    BY <2>1, <2>2, <2>3
<1>4. \A j \in Index : -3 - j \in Nodes /\ Parent(-3 - j) = -2 /\ ~Top(-3 - j) /\ -3 - j # -2
                       /\ Num(dev, ib, -3 - j) = dev.disk[ib[Double]][j]
  <2>1. ASSUME NEW j \in Index
        PROVE  -3 - j \in Nodes /\ Parent(-3 - j) = -2 /\ ~Top(-3 - j) /\ -3 - j # -2
               /\ Num(dev, ib, -3 - j) = dev.disk[ib[Double]][j]
    <3>1. PICK x \in Nodes : x = -3 - j /\ ~Top(x) /\ Parent(x) = -2 /\ Slot(x) = j
      BY NodeAt
    <3>2. x # -2
      BY <1>3, <3>1
    <3>3. QED
      BY <1>3, <3>1, <3>2, NumIs
  <2>2. QED
    BY <2>1
<1>5. PICK numbers, single, data :
         /\ numbers = ({ib[Single], ib[Double]} \cup
                       (IF ib[Double] = 0 THEN {} ELSE {dev.disk[ib[Double]][j] : j \in Index})) \ {0}
         /\ single = numbers \ {ib[Double]}
         /\ data = UNION {{dev.disk[b][j] : j \in Index} : b \in single}
  OBVIOUS
<1>6. Blocks(f) = ({ib[i] : i \in 0 .. NDIRECT - 1} \cup numbers \cup data) \ {0}
  BY <1>1, <1>5 DEF Blocks
<1>7. ASSUME NEW b \in numbers
      PROVE  \E x \in V : Num(dev, ib, x) = b /\ (x = -1 \/ x = -2 \/ \E j \in Index : x = -3 - j)
  <2>1. b # 0
    BY <1>5, <1>7
  <2>2. CASE b = ib[Single]
    <3>1. -1 \in V
      BY <1>2, <1>3, <2>1, <2>2, LeadsTo
    <3>2. QED
      BY <1>3, <2>2, <3>1
  <2>3. CASE b = ib[Double]
    <3>1. -2 \in V
      BY <1>2, <1>3, <2>1, <2>3, LeadsTo
    <3>2. QED
      BY <1>3, <2>3, <3>1
  <2>4. ASSUME ib[Double] # 0, NEW j \in Index, b = dev.disk[ib[Double]][j]
        PROVE  \E x \in V : Num(dev, ib, x) = b /\ (x = -1 \/ x = -2 \/ \E i \in Index : x = -3 - i)
    <3>1. -2 \in V
      BY <1>2, <1>3, <2>4, LeadsTo
    <3>2. -3 - j \in V
      BY <1>2, <1>4, <2>1, <2>4, <3>1, LeadsTo
    <3>3. QED
      BY <1>4, <2>4, <3>2
  <2>5. QED
    BY <1>5, <1>7, <2>2, <2>3, <2>4
<1>8. ASSUME NEW x \in V, x = -1 \/ x = -2 \/ \E j \in Index : x = -3 - j
      PROVE  Num(dev, ib, x) \in numbers /\ (x # -2 => Num(dev, ib, x) \in single)
  <2>1. Num(dev, ib, x) # 0
    BY <1>2
  <2>2. Num(dev, ib, x) \in numbers
    <3>1. CASE x = -1 \/ x = -2
      BY <1>3, <1>5, <2>1, <3>1
    <3>2. ASSUME NEW j \in Index, x = -3 - j
          PROVE  Num(dev, ib, x) \in numbers
      <4>1. -2 \in V
        BY <1>2, <1>4, <3>2
      <4>2. ib[Double] # 0
        BY <1>2, <1>3, <4>1
      <4>3. Num(dev, ib, x) = dev.disk[ib[Double]][j]
        BY <1>4, <3>2
      <4>4. QED
        BY <1>5, <2>1, <4>2, <4>3
    <3>3. QED
      BY <1>8, <3>1, <3>2
  <2>3. ASSUME x # -2
        PROVE  Num(dev, ib, x) \in single
    <3>1. ASSUME Num(dev, ib, x) = ib[Double]
          PROVE  FALSE
      <4>1. -2 \in V
        BY <1>2, <1>3, <2>1, <3>1, LeadsTo
      <4>2. QED
        BY <1>2, <1>3, <2>3, <3>1, <4>1
    <3>2. QED
      BY <1>5, <2>2, <3>1
  <2>4. QED
    BY <2>2, <2>3
<1>9. ASSUME NEW b \in single, NEW j \in Index, dev.disk[b][j] # 0
      PROVE  dev.disk[b][j] \in Numbers(dev, ib, V)
  <2>1. PICK p \in V : Num(dev, ib, p) = b /\ (p = -1 \/ p = -2 \/ \E i \in Index : p = -3 - i)
    BY <1>5, <1>7
  <2>2. p # -2
    BY <1>3, <1>5, <2>1
  <2>3. \E y \in Nodes : ~Top(y) /\ Parent(y) = p /\ Slot(y) = j
    BY <2>1, <2>2, BeginIs
  <2>4. PICK y \in Nodes : ~Top(y) /\ Parent(y) = p /\ Slot(y) = j
    BY <2>3
  <2>5. Num(dev, ib, y) = dev.disk[b][j]
    BY <2>1, <2>4, NumIs
  <2>6. y \in V
    BY <1>2, <1>9, <2>1, <2>4, <2>5, LeadsTo
  <2>7. QED
    BY <2>5, <2>6 DEF Numbers
<1>10. Blocks(f) \subseteq Numbers(dev, ib, V)
  <2>1. ASSUME NEW i \in 0 .. NDIRECT - 1, ib[i] # 0
        PROVE  ib[i] \in Numbers(dev, ib, V)
    <3>1. i \in V
      BY <1>2, <1>3, <2>1, LeadsTo
    <3>2. QED
      BY <1>3, <3>1 DEF Numbers
  <2>2. numbers \subseteq Numbers(dev, ib, V)
    BY <1>7 DEF Numbers
  <2>3. data \ {0} \subseteq Numbers(dev, ib, V)
    BY <1>5, <1>9
  <2>4. QED
    BY <1>6, <2>1, <2>2, <2>3
<1>11. ASSUME NEW x \in V
       PROVE  Num(dev, ib, x) \in Blocks(f)
  <2>1. x \in Nodes /\ Num(dev, ib, x) # 0
    BY <1>2
  <2>2. CASE x \in 0 .. NDIRECT - 1
    BY <1>3, <1>6, <2>1, <2>2
  <2>3. CASE x = -1 \/ x = -2 \/ \E j \in Index : x = -3 - j
    BY <1>6, <1>8, <2>1, <2>3
  <2>4. ASSUME ~Top(x), NEW j \in Index, Slot(x) = j, Parent(x) # -2,
               Parent(x) = -1 \/ \E i \in Index : Parent(x) = -3 - i
        PROVE  Num(dev, ib, x) \in Blocks(f)
    <3>1. Parent(x) \in V
      BY <1>2, <2>4
    <3>2. PICK b \in single : b = Num(dev, ib, Parent(x))
      BY <1>8, <2>4, <3>1
    <3>3. Num(dev, ib, x) = dev.disk[b][j]
      BY <2>1, <2>4, <3>2, NumIs
    <3>4. Num(dev, ib, x) \in data
      BY <1>5, <3>3
    <3>5. QED
      BY <1>6, <2>1, <3>4
  <2>5. ASSUME NEW i \in Index, x = NDIRECT + i
        PROVE  Num(dev, ib, x) \in Blocks(f)
    <3>1. ~Top(x) /\ Parent(x) = -1 /\ Slot(x) = i
      BY <2>5, BeginIs
    <3>2. QED
      BY <2>4, <3>1
  <2>6. ASSUME NEW j \in Index, NEW i \in Index, x = Begin(j) + i
        PROVE  Num(dev, ib, x) \in Blocks(f)
    <3>1. ~Top(x) /\ Parent(x) = -3 - j /\ Slot(x) = i
      BY <2>6, BeginIs
    <3>2. QED
      BY <1>4, <2>4, <3>1
  <2>7. QED
    BY <2>1, <2>2, <2>3, <2>5, <2>6, NodeKinds
<1>12. Numbers(dev, ib, V) \subseteq Blocks(f)
  BY <1>11 DEF Numbers
<1>13. QED
  BY <1>1, <1>10, <1>12

\* As many blocks as nodes.
LEMMA NumbersCardinality ==
    ASSUME NEW d, NEW ib, NEW V, IsFiniteSet(V),
           \A x, y \in V : Num(d, ib, x) = Num(d, ib, y) => x = y
    PROVE  Cardinality(Numbers(d, ib, V)) = Cardinality(V)
<1>1. PICK g : g = [x \in V |-> Num(d, ib, x)]
  OBVIOUS
<1>2. g \in Bijection(V, Numbers(d, ib, V))
  BY <1>1 DEF Bijection, Injection, Surjection, IsInjective, Numbers
<1>3. ExistsBijection(V, Numbers(d, ib, V))
  BY <1>2 DEF ExistsBijection
<1>4. QED
  BY <1>3, FS_Bijection

\* BlocksNotShared: however files grow, are truncated, removed and made again, with
\* holes, and through descriptors of files that are gone, no block is used by two
\* files, or free while a file has its number, and the free count is right.
THEOREM BlocksAreNotShared == Spec => []BlocksNotShared
<1>1. ASSUME IInv
      PROVE  BlocksNotShared
  <2>1. PICK U : Owns(dev, i_block, U)
    BY <1>1 DEF IInv, Base, BlocksInv
  <2>2. \A f \in File : Blocks(f) = Numbers(dev, i_block[f], U[f])
    BY <2>1, BlocksAre
  <2>3. ASSUME NEW f \in File
        PROVE  Blocks(f) \subseteq dev.bmap
    BY <2>1, <2>2 DEF Owns, Rooted, Numbers
  <2>4. ASSUME NEW f \in File, NEW g \in File, f # g
        PROVE  Blocks(f) \cap Blocks(g) = {}
    BY <2>1, <2>2, <2>4 DEF Owns, Apart, Numbers
  <2>5. dev.free = Cardinality(Blk \ dev.bmap)
    BY <2>1 DEF Owns
  <2>6. QED
    BY <2>3, <2>4, <2>5 DEF BlocksNotShared
<1>2. QED
  BY <1>1, Invariance, PTL

\* BlocksAccounted: until somebody writes behind the end of a file, or to a file
\* whose last name is gone, no block is lost, and a file has the blocks its size
\* calls for.
THEOREM BlocksAreAccounted == Spec => []BlocksAccounted
<1>1. ASSUME IInv, torn = {}
      PROVE  /\ dev.bmap = UNION {Blocks(f) : f \in live}
             /\ \A f \in live :
                   IF i_size[f] = 0 THEN Cardinality(Blocks(f)) <= 1
                   ELSE Cardinality(Blocks(f)) = Lowest(i_size[f])
  <2>1. Whole /\ live \subseteq File
    BY <1>1 DEF IInv, Whole, Base, SizesInv
  <2>2. PICK U : /\ U = NodesOf(i_block, i_size)
                 /\ Owns(dev, i_block, U) /\ Counted(dev, i_block, U)
    BY <2>1 DEF Whole, Sound
  <2>3. \A f \in File : U[f] = Used(Kf(f)) /\ Blocks(f) = Numbers(dev, i_block[f], U[f])
    BY <2>1, <2>2, HoldsIs, BlocksAre
  <2>4. dev.bmap = UNION {Blocks(f) : f \in live}
    <3>1. ASSUME NEW f \in File
          PROVE  Blocks(f) \subseteq dev.bmap
      BY <2>2, <2>3 DEF Owns, Rooted, Numbers
    <3>2. ASSUME NEW b \in dev.bmap
          PROVE  \E f \in live : b \in Blocks(f)
      <4>1. PICK f \in File : \E x \in U[f] : Num(dev, i_block[f], x) = b
        BY <2>2 DEF Counted
      <4>2. b \in Blocks(f)
        BY <2>3, <4>1 DEF Numbers
      <4>3. ASSUME f \notin live
            PROVE  FALSE
        <5>1. Kf(f) = Held(0, 0)
          BY <2>1, <4>3 DEF Whole, Sound, Named, Kf
        <5>2. QED
          BY <2>3, <4>1, <5>1, NoNodes
      <4>4. QED
        BY <4>2, <4>3
    <3>3. QED
      BY <2>1, <3>1, <3>2
  <2>5. ASSUME NEW f \in live
        PROVE  IF i_size[f] = 0 THEN Cardinality(Blocks(f)) <= 1
               ELSE Cardinality(Blocks(f)) = Lowest(i_size[f])
    <3>1. /\ Kf(f) \in 0 .. Most /\ Kf(f) = Held(i_size[f], i_block[f][0])
          /\ i_size[f] \in Nat /\ i_size[f] <= MaxSize[f] /\ f \in File
      BY <2>1, HoldsIs DEF Kf
    <3>2. /\ IsFiniteSet(Used(Kf(f))) /\ Cardinality(Used(Kf(f))) = Kf(f) - Low(Kf(f))
          /\ Used(0) = {} /\ Used(1) = {0}
      BY <3>1, UsedCardinality
    <3>3. \A x, y \in U[f] : Num(dev, i_block[f], x) = Num(dev, i_block[f], y) => x = y
      BY <2>2, <3>1 DEF Owns, Apart
    <3>4. Cardinality(Blocks(f)) = Kf(f) - Low(Kf(f))
      BY <2>3, <3>1, <3>2, <3>3, NumbersCardinality
    <3>5. CASE i_size[f] = 0
      <4>1. Kf(f) = 0 \/ Kf(f) = 1
        BY <3>1, <3>5, HeldIs
      <4>2. Low(Kf(f)) = 0
        BY <3>1, <4>1, LowIs, NumbersAre
      <4>3. QED
        BY <3>4, <3>5, <4>1, <4>2
    <3>6. CASE i_size[f] # 0
      <4>1. i_size[f] > 0 /\ Needed(i_size[f]) = Kf(f)
        BY <3>1, <3>6, HeldIs
      <4>2. Lowest(i_size[f]) = Kf(f) - Low(Kf(f))
        BY <3>1, <4>1, LowestIs
      <4>3. QED
        BY <3>4, <3>6, <4>2
    <3>7. QED
      BY <3>5, <3>6
  <2>6. QED
    BY <2>4, <2>5
<1>2. IInv => BlocksAccounted
  BY <1>1 DEF BlocksAccounted
<1>3. QED
  BY <1>2, Invariance, PTL

-----------------------------------------------------------------------------
(* The words of the files.                                                 *)

Words == {0, Plain, Mark, Junk} \cup Blk

\* Word i of a file, counted from 0, and the words of a file.
WordAt(d, ib, i) == d.disk[Num(d, ib, i \div NWORDS)][i % NWORDS]
WordsOf(d, ib, size) == [j \in 1 .. size |-> WordAt(d, ib, j - 1)]
Data == [f \in File |-> WordsOf(dev, i_block[f], i_size[f])]

\* file_read finds a data block where get_bno put it.
LEMMA BlockIs ==
    ASSUME NEW f \in File, NEW lbk \in 0 .. Most - 1
    PROVE  BlockOf(f, lbk) = Num(dev, i_block[f], lbk)
<1>1. lbk \in Int /\ lbk >= 0 /\ lbk \in Nodes /\ Single = NDIRECT
  BY NumbersAre DEF Nodes
<1>2. CASE lbk < NDIRECT
  <2>1. lbk \in 0 .. NDIRECT - 1
    BY <1>1, <1>2, NumbersAre
  <2>2. Top(lbk) /\ Slot(lbk) = lbk
    BY <2>1, Tops
  <2>3. QED
    BY <1>2, <2>2 DEF Num, BlockOf
<1>3. CASE ~(lbk < NDIRECT) /\ Past(lbk) < 0
  <2>1. ~Top(lbk) /\ Parent(lbk) = -1 /\ Slot(lbk) = lbk - NDIRECT
    BY <1>1, <1>3, NumbersAre DEF Top, Parent, Slot
  <2>2. Num(dev, i_block[f], lbk) = dev.disk[i_block[f][Single]][lbk - NDIRECT]
    BY <2>1, Tops DEF Num
  <2>3. lbk - NDIRECT < NWORDS
    BY <1>1, <1>3, NumbersAre DEF Past
  <2>4. QED
    BY <1>3, <2>2, <2>3 DEF BlockOf
<1>4. CASE ~(lbk < NDIRECT) /\ ~(Past(lbk) < 0)
  <2>1. /\ Past(lbk) \in Nat /\ Past(lbk) \div NWORDS \in Index
        /\ Parent(lbk) = -3 - (Past(lbk) \div NWORDS) /\ Slot(lbk) = Past(lbk) % NWORDS
    BY <1>1, <1>4, NumbersAre, PastIs
  <2>2. PICK q \in Nat : q = Past(lbk) \div NWORDS
    BY <2>1, NumbersAre DEF Index
  <2>3. ~Top(lbk) /\ ~Top(Parent(lbk)) /\ Slot(Parent(lbk)) = q
    BY <1>1, <1>4, <2>1, <2>2, NumbersAre DEF Top, Slot
  <2>4. Num(dev, i_block[f], lbk) = dev.disk[dev.disk[i_block[f][Double]][q]][Past(lbk) % NWORDS]
    BY <2>1, <2>3 DEF Num
  <2>5. ~(lbk - NDIRECT < NWORDS)
    BY <1>1, <1>4, NumbersAre DEF Past
  <2>6. QED
    BY <1>4, <2>2, <2>4, <2>5 DEF BlockOf, Past
<1>5. QED
  BY <1>2, <1>3, <1>4

\* A word of a file lies in one of its data blocks.
LEMMA WordIs ==
    ASSUME Whole, NEW f \in File, NEW i \in Nat, i < i_size[f]
    PROVE  /\ i \div NWORDS \in 0 .. Most - 1 /\ i \div NWORDS \in Nat
           /\ i \div NWORDS \in Used(Kf(f)) /\ i % NWORDS \in Index
           /\ WordAt(dev, i_block[f], i) \in Words
<1>1. PICK k \in Nat : /\ k = Kf(f) /\ k \in 0 .. Most /\ Rooted(dev, i_block[f], Used(k))
                       /\ dev \in Device /\ i_size[f] \in Nat /\ i_size[f] <= MaxSize[f]
  BY HoldsIs
<1>2. i_size[f] > 0
  BY <1>1
<1>3. Needed(i_size[f]) = k
  BY <1>1, <1>2, HeldIs DEF Kf
<1>4. i_size[f] <= NWORDS * k
  BY <1>1, <1>3, NeededIs
<1>5. i < NWORDS * k
  <2>1. NWORDS * k \in Nat
    BY <1>1, NumbersAre
  <2>2. QED
    BY <1>1, <1>4, <2>1
<1>6. i \div NWORDS \in Nat /\ i % NWORDS \in Index /\ i \div NWORDS < k
  BY <1>1, <1>5, DivIs, DivOrder
<1>7. i \div NWORDS \in 0 .. Most - 1
  BY <1>1, <1>6, NumbersAre
<1>8. i \div NWORDS \in Used(k)
  BY <1>1, <1>6, DataUsed
<1>9. WordAt(dev, i_block[f], i) \in Words
  <2>1. Num(dev, i_block[f], i \div NWORDS) \in Blk
    BY <1>1, <1>8 DEF Rooted, Device
  <2>2. dev.disk[Num(dev, i_block[f], i \div NWORDS)] \in Block
    BY <1>1, <2>1 DEF Device
  <2>3. QED
    BY <1>6, <2>2 DEF WordAt, Block, Words
<1>10. QED
  BY <1>1, <1>6, <1>7, <1>8, <1>9

\* The refinement mapping, by nodes.
LEMMA ContentIs == Whole => Content = Data
<1> SUFFICES ASSUME Whole
             PROVE  Content = Data
  OBVIOUS
<1>1. ASSUME NEW f \in File, NEW j \in 1 .. i_size[f]
      PROVE  dev.disk[BlockOf(f, (j - 1) \div NWORDS)][(j - 1) % NWORDS] = WordAt(dev, i_block[f], j - 1)
  <2>1. i_size[f] \in Nat
    BY HoldsIs
  <2>2. PICK i \in Nat : i = j - 1 /\ i < i_size[f]
    BY <2>1
  <2>3. i \div NWORDS \in 0 .. Most - 1
    BY <2>2, WordIs
  <2>4. BlockOf(f, i \div NWORDS) = Num(dev, i_block[f], i \div NWORDS)
    BY <2>3, BlockIs
  <2>5. QED
    BY <2>2, <2>4 DEF WordAt
<1>2. QED
  BY <1>1 DEF Content, Data, WordsOf

\* The words of a file are a sequence.
LEMMA DataIs ==
    ASSUME Whole, NEW f \in File
    PROVE  /\ Content[f] \in Seq(Words) /\ Len(Content[f]) = i_size[f]
           /\ i_size[f] \in Nat /\ offset[f] \in Nat
           /\ \A j \in 1 .. i_size[f] : Content[f][j] = WordAt(dev, i_block[f], j - 1)
<1>1. i_size[f] \in Nat /\ offset[f] \in Nat
  BY HoldsIs
<1>2. Content[f] = WordsOf(dev, i_block[f], i_size[f])
  BY ContentIs DEF Data
<1>3. PICK s, n : /\ s = Content[f] /\ n = i_size[f] /\ n \in Nat
                  /\ s = [j \in 1 .. n |-> WordAt(dev, i_block[f], j - 1)]
  BY <1>1, <1>2 DEF WordsOf
<1>4. ASSUME NEW j \in 1 .. n
      PROVE  s[j] \in Words
  <2>1. j - 1 \in Nat /\ j - 1 < i_size[f]
    BY <1>1, <1>3
  <2>2. WordAt(dev, i_block[f], j - 1) \in Words
    BY <2>1, WordIs
  <2>3. QED
    BY <1>3, <2>2
<1>5. s \in [1 .. n -> Words]
  BY <1>3, <1>4
<1>6. s \in Seq(Words) /\ Len(s) = n
  <2>1. n \in Nat /\ DOMAIN s = 1 .. n
    BY <1>3, <1>5
  <2>2. s \in Seq(Words)
    BY <1>5, <2>1, SeqDef
  <2>3. DOMAIN s = 1 .. Len(s) /\ Len(s) \in Nat
    BY <2>2, LenProperties
  <2>4. QED
    BY <2>1, <2>2, <2>3
<1>7. QED
  BY <1>1, <1>3, <1>6

-----------------------------------------------------------------------------
(* Every step is one of FlatFile, or none.                                 *)

\* The words of files other than f are what they were.
OthersRead(f) ==
    \A g \in File : g # f =>
        /\ i_size'[g] = i_size[g]
        /\ \A i \in Nat : i < i_size[g] =>
              WordAt(dev', i_block'[g], i) = WordAt(dev, i_block[g], i)

\* A step that changes the words of one file.
LEMMA OneChanges ==
    ASSUME Whole, Whole', NEW f \in File, OthersRead(f),
           NEW x, WordsOf(dev', i_block'[f], i_size'[f]) = x
    PROVE  Content' = [Content EXCEPT ![f] = x]
<1>1. Content = Data /\ Content' = Data'
  <2>1. (Whole => Content = Data)'
    BY ContentIs, PTL
  <2>2. QED
    BY <2>1, ContentIs
<1>2. ASSUME NEW g \in File, g # f
      PROVE  WordsOf(dev', i_block'[g], i_size'[g]) = WordsOf(dev, i_block[g], i_size[g])
  <2>1. i_size'[g] = i_size[g] /\ i_size[g] \in Nat
    BY <1>2, HoldsIs DEF OthersRead
  <2>2. ASSUME NEW j \in 1 .. i_size[g]
        PROVE  WordAt(dev', i_block'[g], j - 1) = WordAt(dev, i_block[g], j - 1)
    <3>1. j - 1 \in Nat /\ j - 1 < i_size[g]
      BY <2>1
    <3>2. QED
      BY <1>2, <3>1 DEF OthersRead
  <2>3. QED
    BY <2>1, <2>2 DEF WordsOf
<1>3. Data' = [g \in File |-> WordsOf(dev', i_block'[g], i_size'[g])]
  BY DEF Data
<1>4. Data' = [Data EXCEPT ![f] = x]
  BY <1>2, <1>3 DEF Data
<1>5. QED
  BY <1>1, <1>4

\* A file of no words.
LEMMA NoWords == \A d, ib : WordsOf(d, ib, 0) = <<>>
BY DEF WordsOf

\* unlink, and open for W, of a file: it has no words then, and the offset of its
\* entry is 0, or what it was.
LEMMA ClearRefines ==
    ASSUME Whole, Whole', NEW f \in File, Unlink(f) \/ OpenW(f)
    PROVE  Flat!Clear(f) \/ Flat!Remove(f)
<1>1. /\ ClearBlocks(f) /\ call = Idle /\ call' = Idle
      /\ offset' = offset \/ offset' = [offset EXCEPT ![f] = 0]
  BY DEF Unlink, OpenW
<1>2. /\ OthersKept(dev, i_block, NodesOf(i_block, i_size), f, dev', i_block')
      /\ i_size' = [i_size EXCEPT ![f] = 0] /\ i_size \in [File -> Nat]
  BY <1>1, ClearStep, ClearedInode, HoldsIs
<1>3. OthersRead(f)
  <2>1. ASSUME NEW g \in File, g # f, NEW i \in Nat, i < i_size[g]
        PROVE  WordAt(dev', i_block'[g], i) = WordAt(dev, i_block[g], i)
    <3>1. i \div NWORDS \in NodesOf(i_block, i_size)[g]
      BY <2>1, WordIs, HoldsIs
    <3>2. /\ Num(dev', i_block'[g], i \div NWORDS) = Num(dev, i_block[g], i \div NWORDS)
          /\ dev'.disk[Num(dev, i_block[g], i \div NWORDS)] = dev.disk[Num(dev, i_block[g], i \div NWORDS)]
      BY <1>2, <2>1, <3>1 DEF OthersKept
    <3>3. QED
      BY <3>2 DEF WordAt
  <2>2. QED
    BY <1>2, <2>1 DEF OthersRead
<1>4. WordsOf(dev', i_block'[f], i_size'[f]) = <<>>
  BY <1>2, NoWords
<1>5. Content' = [Content EXCEPT ![f] = <<>>]
  BY <1>3, <1>4, OneChanges
<1>6. Requested = Flat!Idle /\ Requested' = Flat!Idle
  BY <1>1 DEF Requested, Idle, Flat!Idle
<1>7. QED
  BY <1>1, <1>5, <1>6 DEF Flat!Clear, Flat!Remove

\* creat of a file that has no words: what its block held before is not a word of
\* the file.
LEMMA CreatRefines ==
    ASSUME Whole, Whole', NEW f \in File, Creat(f)
    PROVE  UNCHANGED Flat!vars
<1>1. /\ call = Idle /\ call' = Idle /\ offset' = offset
      /\ i_size' = [i_size EXCEPT ![f] = 0] /\ f \notin live
  BY DEF Creat
<1>2. Kept(dev, i_block, NodesOf(i_block, i_size), dev', i_block') /\ i_size \in [File -> Nat]
  BY CreatStep, HoldsIs
<1>3. OthersRead(f)
  <2>1. ASSUME NEW g \in File, NEW i \in Nat, i < i_size[g]
        PROVE  WordAt(dev', i_block'[g], i) = WordAt(dev, i_block[g], i)
    <3>1. /\ i \div NWORDS \in NodesOf(i_block, i_size)[g]
          /\ i \div NWORDS >= 0 /\ i % NWORDS \in Index
      BY <2>1, WordIs, HoldsIs
    <3>2. /\ Num(dev', i_block'[g], i \div NWORDS) = Num(dev, i_block[g], i \div NWORDS)
          /\ dev'.disk[Num(dev, i_block[g], i \div NWORDS)][i % NWORDS]
                = dev.disk[Num(dev, i_block[g], i \div NWORDS)][i % NWORDS]
      BY <1>2, <3>1 DEF Kept
    <3>3. QED
      BY <3>2 DEF WordAt
  <2>2. QED
    BY <1>1, <1>2, <2>1 DEF OthersRead
<1>4. WordsOf(dev', i_block'[f], i_size'[f]) = <<>>
  BY <1>1, <1>2, NoWords
<1>5. Content' = [Content EXCEPT ![f] = <<>>]
  BY <1>3, <1>4, OneChanges
<1>6. Content = Data /\ Data[f] = <<>>
  <2>1. i_size[f] = 0
    BY <1>1 DEF Whole, Sound, Named
  <2>2. QED
    BY <2>1, ContentIs, NoWords DEF Data
<1>7. Content' = Content
  BY <1>5, <1>6 DEF Data
<1>8. Requested' = Requested
  BY <1>1 DEF Requested, Idle
<1>9. QED
  BY <1>1, <1>7, <1>8 DEF Flat!vars

\* Steps that change neither blocks nor sizes.
LEMMA NoneChange ==
    ASSUME UNCHANGED <<dev, i_block, i_size>>
    PROVE  Content' = Content
BY DEF Content, BlockOf

\* open for R, RW and APPEND, and lseek.
LEMMA SeekRefines ==
    ASSUME Whole, NEW f \in File, NEW pos \in 0 .. MaxSize[f], Seek(f, pos)
    PROVE  pos \in 0 .. Len(Content[f]) /\ Flat!Seek(f, pos)
<1>1. /\ UNCHANGED <<dev, i_block, i_size, call>> /\ call = Idle
      /\ offset' = [offset EXCEPT ![f] = pos] /\ (pos = 0 \/ pos = i_size[f] \/ pos < i_size[f])
  BY DEF Seek
<1>2. Len(Content[f]) = i_size[f] /\ i_size[f] \in Nat
  BY DataIs
<1>3. pos \in 0 .. Len(Content[f])
  BY <1>1, <1>2, BoundAssumption
<1>4. Content' = Content
  BY <1>1, NoneChange
<1>5. Requested = Flat!Idle /\ Requested' = Requested
  BY <1>1 DEF Requested, Idle, Flat!Idle
<1>6. QED
  BY <1>1, <1>3, <1>4, <1>5 DEF Flat!Seek

\* The last close of a file without a name.
LEMMA CloseRefines ==
    ASSUME Whole, NEW f \in File, Close(f)
    PROVE  0 \in 0 .. Len(Content[f]) /\ Flat!Seek(f, 0)
<1>1. UNCHANGED <<dev, i_block, i_size, call>> /\ call = Idle /\ offset' = [offset EXCEPT ![f] = 0]
  BY DEF Close
<1>2. Len(Content[f]) \in Nat
  BY DataIs
<1>3. Content' = Content
  BY <1>1, NoneChange
<1>4. Requested = Flat!Idle /\ Requested' = Requested
  BY <1>1 DEF Requested, Idle, Flat!Idle
<1>5. QED
  BY <1>1, <1>2, <1>3, <1>4 DEF Flat!Seek

\* A call of read is to deliver what there is behind the offset.
LEMMA ReadRefines ==
    ASSUME Whole, NEW f \in File, NEW n \in Request, Read(f, n)
    PROVE  Flat!ReadCall(f, n)
<1>1. /\ UNCHANGED <<dev, i_block, i_size, offset>> /\ call = Idle
      /\ call' = [op |-> "read", f |-> f, n |-> n, bytes |-> i_size[f] - offset[f], out |-> <<>>]
  BY DEF Read
<1>2. Len(Content[f]) = i_size[f] /\ i_size[f] \in Nat /\ offset[f] \in Nat /\ n \in Nat
  BY DataIs, BoundAssumption
<1>3. PICK bytes \in Int : bytes = i_size[f] - offset[f]
  BY <1>2
<1>4. call' = [op |-> "read", f |-> f, n |-> n, bytes |-> bytes, out |-> <<>>]
  BY <1>1, <1>3
<1>5. PICK left : left = IF bytes < 0 THEN 0 ELSE Lesser(n, bytes)
  OBVIOUS
<1>6. Requested' = [op |-> "read", f |-> f, left |-> left, out |-> <<>>]
  BY <1>4, <1>5 DEF Requested
<1>7. PICK rest : rest = IF offset[f] < Len(Content[f]) THEN Len(Content[f]) - offset[f] ELSE 0
  OBVIOUS
<1>8. left = IF n < rest THEN n ELSE rest
  <2>1. CASE offset[f] < i_size[f]
    <3>1. rest = bytes /\ ~(bytes < 0)
      BY <1>2, <1>3, <1>7, <2>1
    <3>2. QED
      BY <1>5, <3>1 DEF Lesser
  <2>2. CASE ~(offset[f] < i_size[f])
    <3>1. rest = 0 /\ bytes <= 0
      BY <1>2, <1>3, <1>7, <2>2
    <3>2. left = 0
      BY <1>2, <1>5, <3>1 DEF Lesser
    <3>3. QED
      BY <1>2, <3>1, <3>2
  <2>3. QED
    BY <2>1, <2>2
<1>9. Requested = Flat!Idle
  BY <1>1 DEF Requested, Idle, Flat!Idle
<1>10. Content' = Content
  BY <1>1, NoneChange
<1>11. QED
  BY <1>1, <1>6, <1>7, <1>8, <1>9, <1>10 DEF Flat!ReadCall

\* A call of write, not behind the end of the file.
LEMMA WriteRefines ==
    ASSUME Whole, NEW f \in File, NEW n \in Request, NEW word \in {Plain, Mark}, Write(f, n, word),
           torn' = {}
    PROVE  Flat!WriteCall(f, n, word)
<1>1. /\ UNCHANGED <<dev, i_block, i_size, offset>> /\ call = Idle
      /\ call' = [op |-> "write", f |-> f, n |-> n, word |-> word]
      /\ torn' = IF f \in live /\ offset[f] <= i_size[f] THEN torn ELSE torn \cup {f}
  BY DEF Write
<1>2. Requested' = [op |-> "write", f |-> f, left |-> n, word |-> word]
  BY <1>1 DEF Requested
<1>3. Requested = Flat!Idle
  BY <1>1 DEF Requested, Idle, Flat!Idle
<1>4. Content' = Content
  BY <1>1, NoneChange
<1>5. offset[f] <= Len(Content[f])
  <2>1. offset[f] <= i_size[f]
    BY <1>1
  <2>2. QED
    BY <2>1, DataIs
<1>6. QED
  BY <1>1, <1>2, <1>3, <1>4, <1>5 DEF Flat!WriteCall

\* A call that has moved everything returns.
LEMMA ReturnRefines ==
    ASSUME Whole, Return
    PROVE  Flat!Return
<1>1. UNCHANGED <<dev, i_block, i_size, offset>> /\ call' = Idle
  BY DEF Return
<1>2. Content' = Content /\ Requested' = Flat!Idle
  BY <1>1, NoneChange DEF Requested, Idle, Flat!Idle
<1>3. CASE call.op = "read"
  <2>1. PICK n \in Nat, bytes \in Int : call.n = n /\ call.bytes = bytes
    BY <1>3, ReadingIs DEF Whole
  <2>2. n = 0 \/ bytes <= 0
    BY <1>3, <2>1 DEF Return
  <2>3. (IF bytes < 0 THEN 0 ELSE Lesser(n, bytes)) = 0
    BY <2>1, <2>2 DEF Lesser
  <2>4. Requested = [op |-> "read", f |-> call.f, left |-> 0, out |-> call.out]
    BY <1>3, <2>1, <2>3 DEF Requested
  <2>5. Requested.left = 0 /\ Requested # Flat!Idle
    BY <2>4 DEF Flat!Idle
  <2>6. QED
    BY <1>1, <1>2, <2>5 DEF Flat!Return
<1>4. CASE call.op = "write"
  <2>1. Requested = [op |-> "write", f |-> call.f, left |-> 0, word |-> call.word]
    BY <1>4 DEF Requested, Return
  <2>2. Requested.left = 0 /\ Requested # Flat!Idle
    BY <2>1 DEF Flat!Idle
  <2>3. QED
    BY <1>1, <1>2, <2>2 DEF Flat!Return
<1>5. QED
  BY <1>3, <1>4 DEF Return

\* The words of one pass lie side by side in one block.
LEMMA SideBySide ==
    ASSUME NEW o \in Nat, NEW i \in Nat, (o % NWORDS) + i < NWORDS
    PROVE  (o + i) \div NWORDS = o \div NWORDS /\ (o + i) % NWORDS = (o % NWORDS) + i
<1>1. PICK q \in Nat, r \in Nat : q = o \div NWORDS /\ r = o % NWORDS /\ o = NWORDS * q + r
  BY DivIs
<1>2. r + i \in Nat /\ r + i < NWORDS
  BY <1>1
<1>3. o + i = NWORDS * q + (r + i)
  BY <1>1, NumbersAre
<1>4. (o + i) \div NWORDS = q /\ (o + i) % NWORDS = r + i
  BY <1>1, <1>2, <1>3, DivUnique
<1>5. QED
  BY <1>1, <1>4

\* A pass of file_read delivers the words of the file that follow its offset.
LEMMA ReadPassRefines ==
    ASSUME Whole, ReadPass
    PROVE  Flat!ReadChunk
<1>1. PICK f \in File, n \in Nat, bytes \in Int :
         Reading(f, n, bytes, call.out) /\ call.f = f /\ call.n = n /\ call.bytes = bytes
  BY ReadingIs DEF ReadPass, Whole
<1>2. PICK m, x, out :
         /\ m = Moved(f, n, bytes) /\ out = call.out
         /\ x = [j \in 1 .. m |->
                    dev.disk[BlockOf(f, offset[f] \div NWORDS)][(offset[f] % NWORDS) + j - 1]]
  OBVIOUS
<1>3. /\ UNCHANGED <<dev, i_block, i_size>> /\ n > 0 /\ bytes > 0
      /\ call' = [call EXCEPT !.n = @ - m, !.bytes = @ - m, !.out = @ \o x]
      /\ offset' = [offset EXCEPT ![f] = @ + m]
  BY <1>1, <1>2 DEF ReadPass, Moved
<1>4. /\ call = [op |-> "read", f |-> f, n |-> n, bytes |-> bytes, out |-> out]
      /\ offset[f] + bytes = i_size[f]
  BY <1>1, <1>2 DEF Reading
<1>5. PICK o \in Nat : o = offset[f] /\ o + bytes = i_size[f]
  BY <1>4, HoldsIs
<1>6. /\ m \in Nat /\ m > 0 /\ m <= n /\ m <= bytes
      /\ o % NWORDS \in Nat /\ (o % NWORDS) + m <= NWORDS
  BY <1>2, <1>3, <1>5, MovedIs
<1>7. ASSUME NEW j \in 1 .. m
      PROVE  x[j] \in Words /\ x[j] = Content[f][o + j]
  <2>1. PICK i \in Nat : i = j - 1 /\ (o % NWORDS) + i < NWORDS /\ o + i < i_size[f] /\ o + i \in Nat
    <3>1. PICK r \in Nat, w \in Nat : r = o % NWORDS /\ w = NWORDS /\ r + m <= w
      BY <1>6, NumbersAre
    <3>2. PICK i \in Nat : i = j - 1 /\ i < m
      BY <1>6
    <3>3. r + i < w /\ o + i < o + bytes /\ o + i \in Nat
      BY <1>6, <3>1, <3>2
    <3>4. QED
      BY <1>5, <3>1, <3>2, <3>3
  <2>2. (o + i) \div NWORDS = o \div NWORDS /\ (o + i) % NWORDS = (o % NWORDS) + i
    BY <2>1, SideBySide
  <2>3. o \div NWORDS \in 0 .. Most - 1 /\ WordAt(dev, i_block[f], o + i) \in Words
    BY <2>1, <2>2, WordIs
  <2>4. x[j] = dev.disk[Num(dev, i_block[f], o \div NWORDS)][(o % NWORDS) + i]
    <3>1. BlockOf(f, o \div NWORDS) = Num(dev, i_block[f], o \div NWORDS)
      BY <2>3, BlockIs
    <3>2. (o % NWORDS) + i = (o % NWORDS) + j - 1
      BY <1>6, <2>1
    <3>3. QED
      BY <1>2, <1>5, <3>1, <3>2
  <2>5. x[j] = WordAt(dev, i_block[f], o + i)
    BY <2>2, <2>4 DEF WordAt
  <2>6. o + j \in 1 .. i_size[f] /\ o + j - 1 = o + i
    BY <1>5, <1>6, <2>1
  <2>7. Content[f][o + j] = WordAt(dev, i_block[f], o + i)
    BY <2>6, DataIs
  <2>8. QED
    BY <2>3, <2>5, <2>7
<1>8. x = SubSeq(Content[f], o + 1, o + m)
  <2>1. PICK c, s : c = Content[f] /\ s = SubSeq(c, o + 1, o + m)
    OBVIOUS
  <2>2. /\ o + 1 \in Int /\ o + m \in Int /\ o + 1 <= o + m /\ o + m - (o + 1) + 1 = m
        /\ \A j \in 1 .. m : o + 1 + j - 1 = o + j
    BY <1>5, <1>6
  <2>3. \A i \in o + 1 .. o + m : c[i] \in Words
    <3>1. ASSUME NEW i \in o + 1 .. o + m
          PROVE  c[i] \in Words
      <4>1. i - o \in 1 .. m /\ o + (i - o) = i
        BY <1>6
      <4>2. QED
        BY <1>7, <2>1, <4>1
    <3>2. QED
      BY <3>1
  <2>4. /\ s \in Seq(Words) /\ Len(s) = m
        /\ \A j \in 1 .. m : s[j] = c[o + j]
    <3>1. PICK a \in Int, b \in Int : a = o + 1 /\ b = o + m
      BY <2>2
    <3>2. /\ s \in Seq(Words) /\ Len(s) = IF a <= b THEN b - a + 1 ELSE 0
          /\ \A j \in 1 .. b - a + 1 : s[j] = c[a + j - 1]
      BY <2>1, <2>3, <3>1, SubSeqProperties
    <3>3. a <= b /\ b - a + 1 = m
      BY <1>6, <3>1
    <3>4. \A j \in 1 .. m : a + j - 1 = o + j
      BY <1>6, <3>1
    <3>5. QED
      BY <3>2, <3>3, <3>4
  <2>5. DOMAIN s = 1 .. m /\ s = [j \in 1 .. m |-> s[j]]
    BY <2>4, LenProperties
  <2>6. x = [j \in 1 .. m |-> x[j]]
    BY <1>2
  <2>7. \A j \in 1 .. m : x[j] = s[j]
    BY <1>7, <2>1, <2>4
  <2>8. QED
    BY <2>1, <2>5, <2>6, <2>7
<1>9. PICK o2 : o2 = out \o x
  OBVIOUS
<1>10. PICK left \in Nat : left = Lesser(n, bytes) /\ m \in 1 .. left /\ left - m = Lesser(n - m, bytes - m)
  BY <1>6 DEF Lesser
<1>11. Requested = [op |-> "read", f |-> f, left |-> left, out |-> out]
  <2>1. ~(bytes < 0)
    BY <1>3
  <2>2. QED
    BY <1>4, <1>10, <2>1 DEF Requested
<1>12. call' = [op |-> "read", f |-> f, n |-> n - m, bytes |-> bytes - m, out |-> o2]
  BY <1>3, <1>4, <1>9
<1>13. Requested' = [op |-> "read", f |-> f, left |-> left - m, out |-> o2]
  <2>1. ~(bytes - m < 0)
    BY <1>6
  <2>2. PICK n2, b2, l2 : n2 = n - m /\ b2 = bytes - m /\ l2 = left - m /\ ~(b2 < 0) /\ l2 = Lesser(n2, b2)
    BY <1>10, <2>1
  <2>3. call' = [op |-> "read", f |-> f, n |-> n2, bytes |-> b2, out |-> o2]
    BY <1>12, <2>2
  <2>4. Requested' = [op |-> "read", f |-> f, left |-> l2, out |-> o2]
    BY <2>2, <2>3 DEF Requested
  <2>5. QED
    BY <2>2, <2>4
<1>14. Content' = Content
  BY <1>3, NoneChange
<1>15. Requested' = [Requested EXCEPT !.left = @ - m, !.out = @ \o SubSeq(Content[f], o + 1, o + m)]
  <2>1. PICK sub : sub = SubSeq(Content[f], o + 1, o + m)
    OBVIOUS
  <2>2. PICK o3 : o3 = out \o sub
    OBVIOUS
  <2>3. o3 = o2
    BY <1>8, <1>9, <2>1, <2>2
  <2>4. PICK req : req = [Requested EXCEPT !.left = @ - m, !.out = @ \o sub]
    OBVIOUS
  <2>5. req = [op |-> "read", f |-> f, left |-> left - m, out |-> o3]
    BY <1>11, <2>2, <2>4
  <2>6. QED
    BY <1>13, <2>1, <2>3, <2>4, <2>5
<1>16. Requested.op = "read" /\ Requested.f = f /\ Requested.left = left
  BY <1>11
<1>17. QED
  BY <1>3, <1>5, <1>10, <1>14, <1>15, <1>16 DEF Flat!ReadChunk

\* A pass of file_write writes the words that follow the offset, and no other
\* word of this file or of another.
LEMMA WritePassRefines ==
    ASSUME Whole, Whole', WritePass
    PROVE  Flat!WriteChunk
<1>1. PICK f \in File, n \in Nat, word \in {Plain, Mark} :
         Writing(f, n, word) /\ call.f = f /\ call.n = n /\ call.word = word
  BY WritingIs DEF WritePass, Whole
<1>2. PICK m : m = Lesser(NWORDS - (offset[f] % NWORDS), n)
  OBVIOUS
<1>3. PICK now : now = IF offset[f] + m > i_size[f] THEN offset[f] + m ELSE i_size[f]
  OBVIOUS
<1>4. /\ n > 0 /\ offset' = [offset EXCEPT ![f] = @ + m]
      /\ i_size' = [i_size EXCEPT ![f] = now] /\ call' = [call EXCEPT !.n = @ - m]
  BY <1>1, <1>2, <1>3 DEF WritePass
<1>5. /\ call = [op |-> "write", f |-> f, n |-> n, word |-> word]
      /\ offset[f] + n <= MaxSize[f]
  BY <1>1 DEF Writing
<1>6. Passed(NodesOf(i_block, i_size), f, m, word) /\ \A g \in File : NodesOf(i_block, i_size)[g] = Used(Kf(g))
  BY <1>1, <1>2, PassStep, HoldsIs
<1>7. PICK o \in Nat, size \in Nat : o = offset[f] /\ size = i_size[f] /\ o <= size /\ size <= MaxSize[f]
  <2>1. offset[f] <= i_size[f]
    BY <1>5 DEF Whole, Sound, Named
  <2>2. QED
    BY <2>1, HoldsIs
<1>8. /\ m \in Nat /\ m > 0 /\ m <= n /\ now \in Nat /\ m <= NWORDS - (o % NWORDS)
  <2>1. PassAt(f, size, o, n, m)
    BY <1>2, <1>4, <1>5, <1>7 DEF PassAt
  <2>2. Passing(f, size, o, n, 0, m)
    BY <2>1, PassIs
  <2>3. QED
    BY <1>3, <1>7, <2>2 DEF Passing
<1>9. /\ i_size \in [File -> Nat] /\ i_size'[f] = now
      /\ \A g \in File : g # f => i_size'[g] = i_size[g]
  <2>1. i_size \in [File -> Nat]
    BY HoldsIs
  <2>2. QED
    BY <1>4, <2>1
<1>10. PICK lbk \in Nat, start \in Nat, w \in Nat :
          /\ lbk = o \div NWORDS /\ start = o % NWORDS /\ w = NWORDS /\ start < w
          /\ o = NWORDS * lbk + start /\ start + m <= w
  <2>1. /\ o \div NWORDS \in Nat /\ o % NWORDS \in Nat /\ o % NWORDS < NWORDS
        /\ o = NWORDS * (o \div NWORDS) + (o % NWORDS)
    BY DivIs
  <2>2. (o % NWORDS) + m <= NWORDS
    BY <1>8, <2>1, NumbersAre
  <2>3. QED
    BY <2>1, <2>2, NumbersAre
<1>11. ASSUME NEW g \in File, NEW i \in Nat, i < i_size[g], ~(g = f /\ o <= i /\ i < o + m)
       PROVE  WordAt(dev', i_block'[g], i) = WordAt(dev, i_block[g], i)
  <2>1. PICK y \in Nat, r \in Index : y = i \div NWORDS /\ r = i % NWORDS /\ y \in Used(Kf(g))
    BY <1>11, WordIs
  <2>2. ~(g = f /\ y = lbk /\ r \in start .. start + m - 1)
    <3>1. ASSUME g = f, y = lbk, r \in start .. start + m - 1
          PROVE  FALSE
      <4>1. PICK b \in Nat : b = NWORDS * lbk /\ o = b + start
        BY <1>10, NumbersAre
      <4>2. i = b + r /\ r \in Nat
        BY <2>1, <3>1, <4>1, DivIs
      <4>3. o <= i /\ i < o + m
        BY <1>8, <3>1, <4>1, <4>2
      <4>4. QED
        BY <1>11, <3>1, <4>3
    <3>2. QED
      BY <3>1
  <2>3. /\ Num(dev', i_block'[g], y) = Num(dev, i_block[g], y)
        /\ dev'.disk[Num(dev, i_block[g], y)][r] = dev.disk[Num(dev, i_block[g], y)][r]
    <3>1. /\ Num(dev', i_block'[g], y) = Num(dev, i_block[g], y)
          /\ y >= 0 => \A j \in Index :
                \/ dev'.disk[Num(dev, i_block[g], y)][j] = dev.disk[Num(dev, i_block[g], y)][j]
                \/ g = f /\ y = offset[f] \div NWORDS
                   /\ j \in offset[f] % NWORDS .. (offset[f] % NWORDS) + m - 1
      BY <1>6, <2>1 DEF Passed
    <3>2. offset[f] \div NWORDS = lbk /\ offset[f] % NWORDS = start
      BY <1>7, <1>10
    <3>3. ~(g = f /\ y = offset[f] \div NWORDS /\ r \in offset[f] % NWORDS .. (offset[f] % NWORDS) + m - 1)
      BY <2>2, <3>2
    <3>4. QED
      BY <2>1, <3>1, <3>3
  <2>4. QED
    BY <2>1, <2>3 DEF WordAt
<1>12. ASSUME NEW i \in Nat, o <= i, i < o + m
       PROVE  WordAt(dev', i_block'[f], i) = word
  <2>1. PICK e \in Nat : i = o + e /\ e < m
    BY <1>8, <1>12
  <2>2. i \div NWORDS = lbk /\ i % NWORDS = start + e
    <3>1. (o % NWORDS) + e < NWORDS
      BY <1>8, <1>10, <2>1
    <3>2. QED
      BY <1>10, <2>1, <3>1, SideBySide
  <2>3. start + e \in Index /\ start + e \in start .. start + m - 1
    BY <1>8, <1>10, <2>1 DEF Index
  <2>4. dev'.disk[Num(dev', i_block'[f], lbk)][start + e] = word
    BY <1>6, <1>7, <1>10, <2>3 DEF Passed
  <2>5. QED
    BY <2>2, <2>4 DEF WordAt
<1>13. OthersRead(f)
  BY <1>9, <1>11 DEF OthersRead
<1>14. PICK old : old = Content[f] /\ Len(old) = size
                  /\ \A j \in 1 .. size : old[j] = WordAt(dev, i_block[f], j - 1)
  BY <1>7, DataIs
<1>15. PICK new : new = [j \in 1 .. now |-> IF j \in o + 1 .. o + m THEN word ELSE old[j]]
  OBVIOUS
<1>16. WordsOf(dev', i_block'[f], i_size'[f]) = new
  <2>1. ASSUME NEW j \in 1 .. now
        PROVE  WordAt(dev', i_block'[f], j - 1) = IF j \in o + 1 .. o + m THEN word ELSE old[j]
    <3>1. j \in Nat /\ j - 1 \in Nat /\ j >= 1 /\ j <= now
      BY <1>8
    <3>2. CASE j \in o + 1 .. o + m
      <4>1. o <= j - 1 /\ j - 1 < o + m
        BY <1>8, <3>1, <3>2
      <4>2. QED
        BY <1>12, <3>1, <3>2, <4>1
    <3>3. CASE j \notin o + 1 .. o + m
      <4>1. ~(o <= j - 1 /\ j - 1 < o + m)
        BY <1>8, <3>1, <3>3
      <4>2. j \in 1 .. size /\ j - 1 < size
        BY <1>3, <1>7, <1>8, <3>1, <4>1
      <4>3. WordAt(dev', i_block'[f], j - 1) = WordAt(dev, i_block[f], j - 1)
        BY <1>7, <1>11, <3>1, <4>1, <4>2
      <4>4. QED
        BY <1>14, <3>3, <4>2, <4>3
    <3>4. QED
      BY <3>2, <3>3
  <2>2. QED
    BY <1>9, <1>15, <2>1 DEF WordsOf
<1>17. Content' = [Content EXCEPT ![f] = new]
  BY <1>13, <1>16, OneChanges
<1>18. Requested = [op |-> "write", f |-> f, left |-> n, word |-> word]
  BY <1>5 DEF Requested
<1>19. Requested' = [op |-> "write", f |-> f, left |-> n - m, word |-> word]
  <2>1. call' = [op |-> "write", f |-> f, n |-> n - m, word |-> word]
    BY <1>4, <1>5
  <2>2. QED
    BY <2>1 DEF Requested
<1>20. Requested' = [Requested EXCEPT !.left = @ - m] /\ m \in 1 .. n
  BY <1>8, <1>18, <1>19
<1>21. new = [j \in 1 .. (IF offset[f] + m > Len(Content[f]) THEN offset[f] + m ELSE Len(Content[f])) |->
                IF j \in offset[f] + 1 .. offset[f] + m THEN word ELSE Content[f][j]]
  BY <1>3, <1>7, <1>14, <1>15
<1>22. Requested.op = "write" /\ Requested.f = f /\ Requested.left = n /\ Requested.word = word
  BY <1>18
<1>23. offset' = [offset EXCEPT ![f] = offset[f] + m]
  BY <1>4
<1>24. QED
  BY <1>17, <1>20, <1>21, <1>22, <1>23 DEF Flat!WriteChunk

\* In the first state there is nothing in the files.
LEMMA InitRefines == Init => Flat!Init
<1> SUFFICES ASSUME Init
             PROVE  Flat!Init
  OBVIOUS
<1>1. offset = [f \in File |-> 0] /\ i_size = [f \in File |-> 0] /\ call = Idle
  BY DEF Init
<1>2. Data = [f \in File |-> <<>>]
  BY <1>1, NoWords DEF Data
<1>3. Whole
  BY InitInv DEF Init, IInv, Whole
<1>4. Content = [f \in File |-> <<>>]
  BY <1>2, <1>3, ContentIs
<1>5. Requested = Flat!Idle
  BY <1>1 DEF Requested, Idle, Flat!Idle
<1>6. QED
  BY <1>1, <1>4, <1>5 DEF Flat!Init

\* A step of FileBlocks that tears no file is one of FlatFile, or changes nothing
\* there.
LEMMA StepRefines ==
    ASSUME IInv, IInv', [Next]_vars, torn' = {}
    PROVE  [Flat!Next]_(Flat!vars)
<1> SUFFICES Flat!Next \/ UNCHANGED Flat!vars
  BY DEF Flat!vars
<1>1. Whole /\ Whole'
  <2>1. torn = {}
    BY TornStays
  <2>2. QED
    BY <2>1 DEF IInv, Whole
<1>2. CASE UNCHANGED vars
  <2>1. UNCHANGED <<dev, i_block, i_size, offset, call>>
    BY <1>2 DEF vars
  <2>2. Content' = Content /\ Requested' = Requested /\ offset' = offset
    BY <2>1, NoneChange DEF Requested
  <2>3. QED
    BY <2>2 DEF Flat!vars
<1>3. ASSUME NEW f \in File, Creat(f)
      PROVE  UNCHANGED Flat!vars
  BY <1>1, <1>3, CreatRefines
<1>4. ASSUME NEW f \in File, Unlink(f) \/ OpenW(f)
      PROVE  Flat!Next
  BY <1>1, <1>4, ClearRefines DEF Flat!Next
<1>5. ASSUME NEW f \in File, Close(f)
      PROVE  Flat!Next
  BY <1>1, <1>5, CloseRefines DEF Flat!Next
<1>6. ASSUME NEW f \in File, NEW pos \in 0 .. MaxSize[f], Seek(f, pos)
      PROVE  Flat!Next
  BY <1>1, <1>6, SeekRefines DEF Flat!Next
<1>7. ASSUME NEW f \in File, NEW n \in Request, Read(f, n)
      PROVE  Flat!Next
  BY <1>1, <1>7, ReadRefines DEF Flat!Next
<1>8. ASSUME NEW f \in File, NEW n \in Request, NEW word \in {Plain, Mark}, Write(f, n, word)
      PROVE  Flat!Next
  BY <1>1, <1>8, WriteRefines DEF Flat!Next
<1>9. CASE ReadPass
  BY <1>1, <1>9, ReadPassRefines DEF Flat!Next
<1>10. CASE WritePass
  BY <1>1, <1>10, WritePassRefines DEF Flat!Next
<1>11. CASE Return
  BY <1>1, <1>11, ReturnRefines DEF Flat!Next
<1>12. QED
  BY <1>2, <1>3, <1>4, <1>5, <1>6, <1>7, <1>8, <1>9, <1>10, <1>11 DEF Next

\* ImplementsFlatFile: until somebody writes behind the end of a file, through its
\* direct, indirect and doubly indirect blocks, whatever blocks other files took and
\* gave back before, a read returns what was written last at each place, and a write
\* changes nothing else.
THEOREM Refinement == Spec => ImplementsFlatFile
<1>1. Init => Flat!Init
  BY InitRefines
<1>2. IInv /\ IInv' /\ [Next]_vars => (torn' = {} => [Flat!Next]_(Flat!vars))
  BY StepRefines
<1>3. QED
  BY <1>1, <1>2, Invariance, PTL DEF Spec, ImplementsFlatFile

=============================================================================
