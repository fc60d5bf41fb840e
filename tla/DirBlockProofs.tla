--------------------------- MODULE DirBlockProofs ---------------------------
(***************************************************************************)
(* Proofs about DirBlock for blocks of any size and any names, as long as  *)
(* users insert where there is room (MayOverrun = FALSE) and remove no     *)
(* entry that a longer name is moved over (MayOverlap = FALSE).            *)
(***************************************************************************)
EXTENDS DirBlock, Induction, SequenceTheorems

Contents == [Index -> Nat]

-----------------------------------------------------------------------------
(* The chain of the entries of a block.                                    *)

\* S are the places of entries that lie one behind the other from the start
\* of the block to its end.
Chain(b, S) ==
    /\ S \subseteq Index /\ 0 \in S
    /\ \A p \in S :
        /\ p + 1 \in Index
        /\ RecLen(b, p) \in Nat \ {0}
        /\ p + RecLen(b, p) \in S \cup {NWORDS}
    /\ \A p \in S \ {0} : \E q \in S : q + RecLen(b, q) = p

\* What word 1 of an entry holds.
LEMMA HeaderParts ==
    ASSUME NEW rec_len \in Nat, NEW name_len \in 0 .. HDR - 1
    PROVE  /\ Header(rec_len, name_len) \in Nat
           /\ Header(rec_len, name_len) \div HDR = rec_len
           /\ Header(rec_len, name_len) % HDR = name_len
<1>1. HDR \in Nat \ {0}
  BY WordsAssumption
<1>2. rec_len * HDR + name_len \in Nat
  BY <1>1
<1>3. (rec_len * HDR + name_len) \div HDR = rec_len
  BY <1>1
<1>4. (rec_len * HDR + name_len) % HDR = name_len
  BY <1>1
<1>5. QED
  BY <1>2, <1>3, <1>4 DEF Header

\* What is read from word 1 of an entry is a length.
LEMMA LengthsTyped ==
    ASSUME NEW b \in Contents, NEW p \in Nat, p + 1 \in Index
    PROVE  RecLen(b, p) \in Nat /\ NameLen(b, p) \in 0 .. HDR - 1
<1>1. HDR \in Nat \ {0} /\ b[p + 1] \in Nat
  BY WordsAssumption DEF Contents
<1>2. \A x \in Nat : x \div HDR \in Nat /\ x % HDR \in 0 .. HDR - 1
  BY <1>1
<1>3. QED
  BY <1>1, <1>2 DEF RecLen, NameLen

\* The words of a block.
LEMMA WordsAre ==
    /\ NWORDS \in Nat /\ NWORDS > 0 /\ NWORDS \in Nat \ {0}
    /\ \A p \in Index : p \in Nat /\ p < NWORDS
    /\ \A p \in Nat : p < NWORDS => p \in Index
BY WordsAssumption DEF Index

\* Entries do not overlap.
LEMMA ChainOrder ==
    ASSUME NEW b, NEW S, Chain(b, S), NEW x \in S, NEW y \in S, x < y
    PROVE  x + RecLen(b, x) <= y
<1> DEFINE Bad == {v \in S : \E u \in S : u < v /\ ~(u + RecLen(b, u) <= v)}
<1> SUFFICES ASSUME Bad # {}
             PROVE  FALSE
  OBVIOUS
<1>1. \A p \in S : p \in Nat /\ RecLen(b, p) \in Nat \ {0}
  BY WordsAre DEF Chain
<1>2. PICK v \in Bad : \A w \in Bad : v <= w
  <2>1. Bad \in SUBSET Nat
    BY <1>1
  <2> HIDE DEF Bad
  <2>2. QED
    BY <2>1, LeastElement
<1>3. PICK u \in S : u < v /\ ~(u + RecLen(b, u) <= v)
  OBVIOUS
<1>4. v \in S /\ v # 0
  BY <1>1, <1>3
<1>5. PICK z \in S : z + RecLen(b, z) = v
  BY <1>4 DEF Chain
<1>6. z < v /\ z # u
  BY <1>1, <1>3, <1>5
<1>7. CASE z < u
  <2>1. ~(z + RecLen(b, z) <= u)
    BY <1>1, <1>3, <1>5
  <2>2. u \in Bad
    BY <1>7, <2>1
  <2>3. QED
    BY <1>1, <1>2, <1>3, <2>2
<1>8. CASE u < z
  <2>1. ~(u + RecLen(b, u) <= z)
    BY <1>1, <1>3, <1>6
  <2>2. z \in Bad
    BY <1>8, <2>1
  <2>3. QED
    BY <1>1, <1>2, <1>6, <2>2
<1>9. QED
  BY <1>1, <1>6, <1>7, <1>8

\* The step of the walk that Starts is defined by.
Onward(b, from, p) ==
    IF p + 1 >= NWORDS \/ RecLen(b, p) = 0 THEN {} ELSE {p} \cup from[p + RecLen(b, p)]

\* The walk has a value at every place: what every set that is closed under
\* going on has to hold.
LEMMA StartsWalk ==
    ASSUME NEW b \in Contents
    PROVE  \E f : /\ Starts(b) = f[0]
                  /\ \A p \in Nat : f[p] = Onward(b, f, p)
<1> DEFINE Cells == {p \in Nat : p + 1 < NWORDS /\ RecLen(b, p) # 0}
           Closed(T) == \A p \in T : p + RecLen(b, p) \in Cells => p + RecLen(b, p) \in T
           Sets(p) == {T \in SUBSET Cells : p \in T /\ Closed(T)}
           g == [p \in Nat |-> IF p \in Cells THEN {q \in Cells : \A T \in Sets(p) : q \in T} ELSE {}]
           f == CHOOSE h : h = [p \in Nat |->
                    IF p + 1 >= NWORDS \/ RecLen(b, p) = 0 THEN {} ELSE {p} \cup h[p + RecLen(b, p)]]
<1>1. \A p \in Cells : p \in Nat /\ RecLen(b, p) \in Nat \ {0} /\ p + RecLen(b, p) \in Nat
  <2>1. ASSUME NEW p \in Cells
        PROVE  p + 1 \in Index
    BY WordsAre
  <2>2. QED
    BY <2>1, LengthsTyped
<1>2. ASSUME NEW p \in Nat
      PROVE  g[p] = IF p + 1 >= NWORDS \/ RecLen(b, p) = 0 THEN {} ELSE {p} \cup g[p + RecLen(b, p)]
  <2>1. CASE p \notin Cells
    <3>1. g[p] = {}
      BY <2>1
    <3>2. p + 1 >= NWORDS \/ RecLen(b, p) = 0
      BY <2>1, WordsAre
    <3>3. QED
      BY <3>1, <3>2
  <2>2. CASE p \in Cells
    <3> DEFINE r == p + RecLen(b, p)
    <3>1. r \in Nat /\ ~(p + 1 >= NWORDS \/ RecLen(b, p) = 0)
      BY <1>1, <2>2, WordsAre
    <3>2. g[p] = {q \in Cells : \A T \in Sets(p) : q \in T}
      BY <2>2
    <3>3. CASE r \notin Cells
      <4>1. {p} \in Sets(p)
        BY <2>2, <3>3
      <4>2. \A T \in Sets(p) : p \in T
        OBVIOUS
      <4>3. g[p] = {p}
        <5> HIDE DEF Sets, Cells, g
        <5>1. QED
          BY <2>2, <3>2, <4>1, <4>2
      <4>4. g[r] = {}
        BY <3>1, <3>3
      <4>5. QED
        BY <3>1, <4>3, <4>4
    <3>4. CASE r \in Cells
      <4>1. g[r] = {q \in Cells : \A T \in Sets(r) : q \in T}
        BY <3>1, <3>4
      <4>2. ASSUME NEW T \in Sets(p)
            PROVE  T \in Sets(r) /\ p \in T
        BY <3>4
      <4>3. ASSUME NEW T \in Sets(r)
            PROVE  T \cup {p} \in Sets(p)
        BY <2>2, <3>4
      <4>4. g[p] = {p} \cup g[r]
        <5>1. ASSUME NEW q \in g[p], q # p
              PROVE  q \in g[r]
          <6> HIDE DEF Sets, Cells, g
          <6>1. QED
            BY <3>2, <4>1, <4>3, <5>1
        <5>2. ASSUME NEW q \in g[r]
              PROVE  q \in g[p]
          <6> HIDE DEF Sets, Cells, g
          <6>1. QED
            BY <3>2, <4>1, <4>2
        <5>3. p \in g[p]
          <6> HIDE DEF Sets, Cells, g
          <6>1. QED
            BY <2>2, <3>2, <4>2
        <5> HIDE DEF g
        <5>4. QED
          BY <5>1, <5>2, <5>3
      <4>5. QED
        BY <3>1, <4>4
    <3>5. QED
      BY <3>3, <3>4
  <2>3. QED
    BY <2>1, <2>2
<1>3. g = [p \in Nat |-> IF p + 1 >= NWORDS \/ RecLen(b, p) = 0 THEN {} ELSE {p} \cup g[p + RecLen(b, p)]]
  <2>1. g = [p \in Nat |-> g[p]]
    OBVIOUS
  <2> HIDE DEF g
  <2>2. QED
    BY <1>2, <2>1
<1>4. f = [p \in Nat |-> IF p + 1 >= NWORDS \/ RecLen(b, p) = 0 THEN {} ELSE {p} \cup f[p + RecLen(b, p)]]
  <2> HIDE DEF g
  <2>1. QED
    BY <1>3
<1>5. Starts(b) = f[0]
  BY DEF Starts
<1> HIDE DEF f
<1>6. \A p \in Nat : f[p] = Onward(b, f, p)
  BY <1>4 DEF Onward
<1>7. QED
  BY <1>5, <1>6

\* If the entries lie one behind the other, the walks visit just these.
LEMMA StartsAre ==
    ASSUME NEW b \in Contents, NEW S, Chain(b, S)
    PROVE  Starts(b) = S
<1>1. PICK f : Starts(b) = f[0] /\ \A p \in Nat : f[p] = Onward(b, f, p)
  BY StartsWalk
<1> DEFINE After(p) == {q \in S : q >= p}
           Far == {NWORDS - p : p \in {p \in S : f[p] # After(p)}}
<1>2. \A p \in S : p \in Nat /\ p + 1 < NWORDS /\ RecLen(b, p) \in Nat \ {0}
  BY WordsAre DEF Chain
<1>3. Far = {}
  <2> SUFFICES ASSUME Far # {}
               PROVE  FALSE
    OBVIOUS
  <2>1. PICK n \in Far : \A m \in Far : n <= m
    <3>1. Far \in SUBSET Nat
      BY <1>2, WordsAre
    <3> HIDE DEF Far
    <3>2. QED
      BY <3>1, LeastElement
  <2>2. PICK p \in S : n = NWORDS - p /\ f[p] # After(p)
    OBVIOUS
  <2> DEFINE r == p + RecLen(b, p)
  <2>3. f[p] = {p} \cup f[r]
    <3>1. f[p] = Onward(b, f, p)
      BY <1>1, <1>2
    <3>2. ~(p + 1 >= NWORDS \/ RecLen(b, p) = 0)
      BY <1>2, WordsAre
    <3>3. QED
      BY <3>1, <3>2 DEF Onward
  <2>4. r \in Nat /\ p < r
    BY <1>2
  <2>5. \A q \in S : q > p => q >= r
    BY <1>2, ChainOrder
  <2>6. CASE r \in S
    <3>1. f[r] = After(r)
      <4> SUFFICES ASSUME f[r] # After(r)
                   PROVE  FALSE
        OBVIOUS
      <4>1. NWORDS - r \in Far
        BY <2>6
      <4>2. n <= NWORDS - r
        BY <2>1, <4>1
      <4>3. QED
        BY <1>2, <2>2, <2>4, <4>2, WordsAre
    <3>2. After(p) = {p} \cup After(r)
      BY <1>2, <2>4, <2>5
    <3>3. QED
      BY <2>2, <2>3, <3>1, <3>2
  <2>7. CASE r = NWORDS
    <3>1. f[r] = {}
      <4>1. f[r] = Onward(b, f, r)
        BY <1>1, <2>4
      <4>2. r + 1 >= NWORDS
        BY <2>7, WordsAre
      <4>3. QED
        BY <4>1, <4>2 DEF Onward
    <3>2. After(p) = {p}
      BY <1>2, <2>5, <2>7, WordsAre
    <3>3. QED
      BY <2>2, <2>3, <3>1, <3>2
  <2>8. QED
    BY <2>6, <2>7 DEF Chain
<1>4. 0 \in S
  BY DEF Chain
<1>5. f[0] = After(0)
  BY <1>3, <1>4
<1>6. After(0) = S
  BY <1>2
<1>7. QED
  BY <1>1, <1>5, <1>6
-----------------------------------------------------------------------------
(* Entries.                                                                *)

Sized(b, p) ==
    IF AtEnd(b, p) THEN RecLen(b, p) >= Ideal(NameLen(b, p))
    ELSE RecLen(b, p) = Ideal(NameLen(b, p))

\* A block of a directory whose entries are at the places S: they lie one
\* behind the other, each is as long as its name needs, and no two have the
\* same name.
SoundWith(b, S) ==
    /\ b \in Contents
    /\ Chain(b, S)
    /\ \A p \in S : Sized(b, p) /\ NameAt(b, p) \in Name \cup Fixed /\ b[p] \in Ino
    /\ \A p, q \in S : NameAt(b, p) = NameAt(b, q) => p = q

Sound(b) == SoundWith(b, Starts(b))

Listed(b) == {<<NameAt(b, p), b[p]>> : p \in Starts(b)}
NamesOf(b) == {NameAt(b, p) : p \in Starts(b)}

\* The entry of b at q and that of c at r have the same name and inode.
Same(b, q, c, r) ==
    /\ c[r] = b[q]
    /\ NameLen(c, r) = NameLen(b, q)
    /\ NameAt(c, r) = NameAt(b, q)

\* The walk of a sound block visits the places it is sound with.
LEMMA SoundStarts ==
    ASSUME NEW b, NEW S, SoundWith(b, S)
    PROVE  Starts(b) = S /\ Sound(b)
<1>1. Starts(b) = S
  BY StartsAre DEF SoundWith
<1>2. QED
  BY <1>1 DEF Sound

\* Entries are the same when their words are.
LEMMA SameWords ==
    ASSUME NEW b, NEW c, NEW q \in Nat, NEW r \in Nat, NameLen(b, q) \in Nat,
           c[r] = b[q], NameLen(c, r) = NameLen(b, q),
           \A k \in 1 .. NameLen(b, q) : c[r + 1 + k] = b[q + 1 + k]
    PROVE  Same(b, q, c, r)
BY DEF Same, NameAt

\* An entry whose words stay stays.
LEMMA EntryKept ==
    ASSUME NEW b, NEW c, NEW q \in Nat, NameLen(b, q) \in Nat,
           \A j \in q .. q + 1 + NameLen(b, q) : c[j] = b[j]
    PROVE  Same(b, q, c, q) /\ RecLen(c, q) = RecLen(b, q)
<1>1. q \in q .. q + 1 + NameLen(b, q) /\ q + 1 \in q .. q + 1 + NameLen(b, q)
  OBVIOUS
<1>2. \A k \in 1 .. NameLen(b, q) : q + 1 + k \in q .. q + 1 + NameLen(b, q)
  OBVIOUS
<1>3. c[q] = b[q] /\ c[q + 1] = b[q + 1]
  BY <1>1
<1>4. NameLen(c, q) = NameLen(b, q) /\ RecLen(c, q) = RecLen(b, q)
  BY <1>3 DEF NameLen, RecLen
<1>5. QED
  BY <1>2, <1>3, <1>4, SameWords

\* b and c agree but from lo to hi - 1.
Elsewhere(b, c, lo, hi) == \A j \in Index : j < lo \/ j >= hi => c[j] = b[j]

\* What the entry of c at p says.
Entry(c, p, ino, name, rec_len) ==
    /\ c[p] = ino /\ RecLen(c, p) = rec_len
    /\ NameLen(c, p) = Len(name) /\ NameAt(c, p) = name

\* Placed writes an entry and nothing else.
LEMMA PlacedIs ==
    ASSUME NEW b \in Contents, NEW p \in Nat, NEW ino \in Nat, NEW name \in Name \cup Fixed,
           NEW rec_len \in Nat, p + 2 + Len(name) <= NWORDS,
           NEW c, c = Placed(b, p, ino, name, rec_len)
    PROVE  /\ c \in Contents
           /\ Entry(c, p, ino, name, rec_len)
           /\ Elsewhere(b, c, p, p + 2 + Len(name))
<1>1. name \in Seq(Nat) /\ Len(name) \in 1 .. HDR - 1
  BY WordsAssumption
<1>2. Len(name) \in Nat /\ HDR \in Nat /\ Len(name) \in 0 .. HDR - 1
  BY <1>1, WordsAssumption
<1> DEFINE h == Header(rec_len, Len(name))
<1>3. h \in Nat /\ h \div HDR = rec_len /\ h % HDR = Len(name)
  BY <1>2, HeaderParts
<1> HIDE DEF h
<1>4. \A j \in 1 .. Len(name) : name[j] \in Nat
  BY <1>1, ElementOfSeq
<1>5. \A j \in Index : j \in Nat /\ b[j] \in Nat
  BY WordsAre DEF Contents
<1>6. c = [j \in Index |-> IF j = p THEN ino ELSE IF j = p + 1 THEN h
                           ELSE IF j \in p + 2 .. p + 1 + Len(name) THEN name[j - p - 1] ELSE b[j]]
  BY DEF Placed, h
<1>7. c \in Contents
  <2>1. \A j \in p + 2 .. p + 1 + Len(name) : name[j - p - 1] \in Nat
    <3> SUFFICES ASSUME NEW j \in p + 2 .. p + 1 + Len(name)
                 PROVE  name[j - p - 1] \in Nat
      OBVIOUS
    <3>1. j - p - 1 \in 1 .. Len(name)
      BY <1>2
    <3>2. QED
      BY <1>4, <3>1
  <2>2. QED
    BY <1>3, <1>5, <1>6, <2>1 DEF Contents
<1>8. p \in Index /\ p + 1 \in Index
  BY <1>1, <1>2, WordsAre
<1>9. c[p] = ino /\ c[p + 1] = h
  BY <1>6, <1>8
<1>10. RecLen(c, p) = rec_len /\ NameLen(c, p) = Len(name)
  BY <1>3, <1>9 DEF RecLen, NameLen
<1>11. \A k \in 1 .. Len(name) : c[p + 1 + k] = name[k]
  <2> SUFFICES ASSUME NEW k \in 1 .. Len(name)
               PROVE  c[p + 1 + k] = name[k]
    OBVIOUS
  <2>1. p + 1 + k \in p + 2 .. p + 1 + Len(name) /\ p + 1 + k # p /\ p + 1 + k # p + 1
    BY <1>2
  <2>2. p + 1 + k \in Index
    BY <1>2, <2>1, WordsAre
  <2>3. (p + 1 + k) - p - 1 = k
    BY <1>2
  <2>4. QED
    BY <1>6, <2>1, <2>2, <2>3
<1>12. NameAt(c, p) = name
  <2>1. NameAt(c, p) = [k \in 1 .. Len(name) |-> name[k]]
    BY <1>10, <1>11 DEF NameAt
  <2>2. name = [k \in 1 .. Len(name) |-> name[k]]
    BY <1>1
  <2>3. QED
    BY <2>1, <2>2
<1>13. \A j \in Index : j < p \/ j >= p + 2 + Len(name) => c[j] = b[j]
  BY <1>2, <1>5, <1>6
<1>14. QED
  BY <1>7, <1>9, <1>10, <1>12, <1>13 DEF Elsewhere, Entry

\* SetRecLen writes the length of one record.
LEMMA SetRecLenIs ==
    ASSUME NEW b \in Contents, NEW p \in Nat, p + 1 \in Index, NEW rec_len \in Nat,
           NEW c, c = SetRecLen(b, p, rec_len)
    PROVE  /\ c \in Contents
           /\ RecLen(c, p) = rec_len /\ NameLen(c, p) = NameLen(b, p)
           /\ Elsewhere(b, c, p + 1, p + 2)
<1> DEFINE h == Header(rec_len, NameLen(b, p))
<1>1. h \in Nat /\ h \div HDR = rec_len /\ h % HDR = NameLen(b, p)
  BY LengthsTyped, HeaderParts
<1>2. c = [b EXCEPT ![p + 1] = h]
  BY DEF SetRecLen
<1> HIDE DEF h
<1>3. c \in Contents /\ c[p + 1] = h /\ \A j \in Index : j # p + 1 => c[j] = b[j]
  BY <1>1, <1>2 DEF Contents
<1>4. QED
  BY <1>1, <1>3, WordsAre DEF RecLen, NameLen, Elsewhere

\* Changing the length of a record leaves every entry in place.
LEMMA SetRecLenKeeps ==
    ASSUME NEW b \in Contents, NEW p \in Nat, p + 1 \in Index, NEW rec_len \in Nat,
           NEW c, c = SetRecLen(b, p, rec_len),
           NEW q \in Nat, NameLen(b, q) \in Nat, q + 2 + NameLen(b, q) <= NWORDS,
           q = p \/ q + 2 + NameLen(b, q) <= p \/ p + 2 <= q
    PROVE  Same(b, q, c, q) /\ (q # p => RecLen(c, q) = RecLen(b, q))
<1>1. NameLen(c, p) = NameLen(b, p) /\ Elsewhere(b, c, p + 1, p + 2)
  BY SetRecLenIs
<1>2. NameLen(c, p) = NameLen(b, p) /\ \A j \in Index : j # p + 1 => c[j] = b[j]
  BY <1>1, WordsAre DEF Elsewhere
<1>3. CASE q = p
  <2>1. q \in Index /\ q # p + 1
    BY <1>3, WordsAre
  <2>2. ASSUME NEW k \in 1 .. NameLen(b, q)
        PROVE  c[q + 1 + k] = b[q + 1 + k]
    <3>1. q + 1 + k \in Nat /\ q + 1 + k < NWORDS /\ q + 1 + k # p + 1
      BY <1>3, WordsAre
    <3>2. QED
      BY <1>2, <3>1, WordsAre
  <2>3. Same(b, q, c, q)
    BY <1>2, <1>3, <2>1, <2>2, SameWords
  <2>4. QED
    BY <1>3, <2>3
<1>4. CASE q # p
  <2>1. ASSUME NEW j \in q .. q + 1 + NameLen(b, q)
        PROVE  c[j] = b[j]
    <3>1. j \in Nat /\ j < NWORDS /\ j # p + 1
      BY <1>4, WordsAre
    <3>2. QED
      BY <1>2, <3>1, WordsAre
  <2>2. QED
    BY <2>1, EntryKept
<1>5. QED
  BY <1>3, <1>4

\* What an entry takes: its name ends in its record.
LEMMA EntryFits ==
    ASSUME NEW b, NEW S, SoundWith(b, S), NEW p \in S
    PROVE  /\ p \in Nat /\ p + 1 \in Index
           /\ RecLen(b, p) \in Nat /\ NameLen(b, p) \in Nat /\ NameLen(b, p) \in 0 .. HDR - 1
           /\ Ideal(NameLen(b, p)) = 2 + NameLen(b, p)
           /\ 2 + NameLen(b, p) <= RecLen(b, p)
           /\ p + RecLen(b, p) <= NWORDS
           /\ p + RecLen(b, p) \in S \cup {NWORDS}
           /\ \A q \in S : p < q => p + RecLen(b, p) <= q
<1>1. p \in Nat /\ p + 1 \in Index
  BY WordsAre DEF SoundWith, Chain
<1>2. HDR \in Nat /\ b \in Contents
  BY WordsAssumption DEF SoundWith
<1>3. RecLen(b, p) \in Nat /\ NameLen(b, p) \in 0 .. HDR - 1
  BY <1>1, <1>2, LengthsTyped
<1>4. NameLen(b, p) \in Nat
  BY <1>2, <1>3
<1>5. Ideal(NameLen(b, p)) = 2 + NameLen(b, p)
  BY DEF Ideal
<1>6. 2 + NameLen(b, p) <= RecLen(b, p)
  <2>1. Sized(b, p)
    BY DEF SoundWith
  <2>2. QED
    BY <1>3, <1>4, <1>5, <2>1 DEF Sized
<1>7. p + RecLen(b, p) \in S \cup {NWORDS}
  BY DEF SoundWith, Chain
<1>8. p + RecLen(b, p) <= NWORDS
  BY <1>7, WordsAre DEF SoundWith, Chain
<1>9. \A q \in S : p < q => p + RecLen(b, p) <= q
  BY ChainOrder DEF SoundWith
<1>10. QED
  BY <1>1, <1>3, <1>4, <1>5, <1>6, <1>7, <1>8, <1>9

\* The last entry reaches to the end of the block.
LEMMA LastIs ==
    ASSUME NEW b, NEW S, SoundWith(b, S), NEW last, last = LastStart(b)
    PROVE  /\ last \in S
           /\ \A q \in S : q <= last
           /\ last + RecLen(b, last) = NWORDS
<1>1. Starts(b) = S /\ 0 \in S
  BY SoundStarts DEF SoundWith, Chain
<1>2. \A p \in S : p \in Nat /\ p < NWORDS
  BY EntryFits, WordsAre DEF SoundWith, Chain
<1> DEFINE Far == {NWORDS - p : p \in S}
<1>3. \E m \in Far : \A n \in Far : m <= n
  <2>1. \A p \in S : NWORDS - p \in Nat
    BY <1>2, WordsAre
  <2>2. Far \in SUBSET Nat /\ Far # {}
    BY <1>1, <2>1
  <2> HIDE DEF Far
  <2>3. QED
    BY <2>2, LeastElement
<1>4. \E p \in S : \A q \in S : q <= p
  <2>1. PICK p \in S : \A q \in S : NWORDS - p <= NWORDS - q
    BY <1>3
  <2>2. \A q \in S : q <= p
    BY <1>2, <2>1, WordsAre
  <2>3. QED
    BY <2>2
<1>5. last \in S /\ \A q \in S : q <= last
  BY <1>1, <1>4 DEF LastStart
<1>6. RecLen(b, last) \in Nat \ {0} /\ last + RecLen(b, last) \in S \cup {NWORDS}
  BY <1>5 DEF SoundWith, Chain
<1>7. QED
  BY <1>2, <1>5, <1>6

-----------------------------------------------------------------------------
(* insert_entry.                                                           *)

\* Same is transitive.
LEMMA SameTwice ==
    ASSUME NEW b, NEW p, NEW a, NEW q, NEW c, NEW r, Same(b, p, a, q), Same(a, q, c, r)
    PROVE  Same(b, p, c, r)
BY DEF Same

\* A block with one entry.
LEMMA OneEntry ==
    ASSUME NEW name \in Name \cup Fixed, NEW ino \in Ino,
           NEW c, c = Placed(Zeros, 0, ino, name, NWORDS)
    PROVE  SoundWith(c, {0}) /\ Listed(c) = {<<name, ino>>}
<1>1. Zeros \in Contents /\ ino \in Nat /\ NWORDS \in Nat \ {0}
  BY WordsAssumption DEF Zeros, Contents
<1>2. Len(name) \in 1 .. HDR - 1 /\ 2 + Len(name) <= NWORDS
  BY WordsAssumption
<1>3. Len(name) \in Nat /\ 0 + 2 + Len(name) <= NWORDS
  BY <1>2, WordsAssumption
<1>4. /\ c \in Contents
      /\ c[0] = ino /\ RecLen(c, 0) = NWORDS
      /\ NameLen(c, 0) = Len(name) /\ NameAt(c, 0) = name
  <2>1. c \in Contents /\ Entry(c, 0, ino, name, NWORDS)
    BY <1>1, <1>3, PlacedIs
  <2>2. QED
    BY <2>1 DEF Entry
<1>5. Chain(c, {0})
  <2>1. 0 \in Index /\ 0 + 1 \in Index
    BY <1>1, <1>3, WordsAre
  <2>2. 0 + RecLen(c, 0) = NWORDS
    BY <1>1, <1>4
  <2>3. QED
    BY <1>1, <1>4, <2>1, <2>2 DEF Chain
<1>6. Sized(c, 0)
  BY <1>1, <1>2, <1>4 DEF Sized, AtEnd, Ideal
<1>7. SoundWith(c, {0})
  BY <1>4, <1>5, <1>6 DEF SoundWith
<1>8. Starts(c) = {0}
  BY <1>7, SoundStarts
<1>9. QED
  BY <1>4, <1>7, <1>8 DEF Listed

\* Another name comes.
Gains(b, c, name, ino) == Listed(c) = Listed(b) \cup {<<name, ino>>}

\* An entry at end, behind the last one, which gets the length its name needs.
Insertion(b, name, ino, last, len, end, a, c) ==
    /\ last = LastStart(b) /\ len = Ideal(NameLen(b, last)) /\ end = last + len
    /\ end + Ideal(Len(name)) <= NWORDS
    /\ a = SetRecLen(b, last, len) /\ c = Placed(a, end, ino, name, NWORDS - end)

\* insert_entry adds a place and an entry to a block.
LEMMA InsertInto ==
    ASSUME NEW b, NEW S, SoundWith(b, S),
           NEW name \in Name \cup Fixed, NEW ino \in Ino, name \notin NamesOf(b),
           NEW last \in Nat, NEW len \in Nat, NEW end \in Nat, NEW a, NEW c,
           Insertion(b, name, ino, last, len, end, a, c)
    PROVE  SoundWith(c, S \cup {end}) /\ Listed(c) = Listed(b) \cup {<<name, ino>>}
<1>1. /\ last \in S /\ \A q \in S : q <= last
      /\ last + RecLen(b, last) = NWORDS
  BY LastIs DEF Insertion
<1>2. /\ last \in Nat /\ last + 1 \in Index
      /\ NameLen(b, last) \in Nat /\ len = 2 + NameLen(b, last)
      /\ RecLen(b, last) \in Nat /\ len <= RecLen(b, last)
  <2>1. len = Ideal(NameLen(b, last))
    BY DEF Insertion
  <2>2. QED
    BY <1>1, <2>1, EntryFits
<1>3. Len(name) \in Nat /\ ino \in Nat /\ Ideal(Len(name)) = 2 + Len(name)
  BY WordsAssumption DEF Ideal
<1>4. /\ end = last + len /\ end > last /\ end + 2 + Len(name) <= NWORDS
      /\ NWORDS - end \in Nat /\ NWORDS - end > 0
  <2>1. end = last + len /\ end + Ideal(Len(name)) <= NWORDS
    BY DEF Insertion
  <2>2. end > last
    BY <1>2, <2>1
  <2>3. end + 2 + Len(name) <= NWORDS
    BY <1>3, <2>1, WordsAre
  <2>4. NWORDS - end \in Nat /\ NWORDS - end > 0
    BY <1>3, <2>3, WordsAre
  <2>5. QED
    BY <2>1, <2>2, <2>3, <2>4
<1>5. b \in Contents
  BY DEF SoundWith
<1>6. a = SetRecLen(b, last, len) /\ c = Placed(a, end, ino, name, NWORDS - end)
  BY DEF Insertion
<1>7. a \in Contents /\ RecLen(a, last) = len
  BY <1>2, <1>4, <1>5, <1>6, SetRecLenIs
<1>8. /\ c \in Contents
      /\ c[end] = ino /\ RecLen(c, end) = NWORDS - end
      /\ NameLen(c, end) = Len(name) /\ NameAt(c, end) = name
      /\ Elsewhere(a, c, end, end + 2 + Len(name))
  <2>1. c \in Contents /\ Entry(c, end, ino, name, NWORDS - end) /\ Elsewhere(a, c, end, end + 2 + Len(name))
    BY <1>3, <1>4, <1>6, <1>7, PlacedIs
  <2>2. QED
    BY <2>1 DEF Entry
<1>9. ASSUME NEW q \in S
      PROVE  /\ q \in Nat /\ q <= last /\ NameLen(b, q) \in Nat
             /\ q + 2 + NameLen(b, q) <= end
             /\ q # last => q + 2 + NameLen(b, q) <= last /\ q + RecLen(b, q) <= last
             /\ RecLen(b, q) \in Nat
  <2>1. /\ q \in Nat /\ NameLen(b, q) \in Nat /\ RecLen(b, q) \in Nat
        /\ 2 + NameLen(b, q) <= RecLen(b, q)
        /\ q < last => q + RecLen(b, q) <= last
    BY <1>1, EntryFits
  <2>2. q <= last
    BY <1>1
  <2>3. CASE q = last
    BY <1>2, <1>4, <2>1, <2>3
  <2>4. CASE q # last
    <3>1. q + RecLen(b, q) <= last
      BY <2>1, <2>2, <2>4
    <3>2. q + 2 + NameLen(b, q) <= last
      BY <2>1, <3>1
    <3>3. QED
      BY <1>4, <2>1, <2>2, <3>1, <3>2
  <2>5. QED
    BY <2>3, <2>4
<1>10. ASSUME NEW q \in S
      PROVE  Same(b, q, a, q) /\ (q # last => RecLen(a, q) = RecLen(b, q))
  <2>1. q + 2 + NameLen(b, q) <= NWORDS
    BY <1>3, <1>4, <1>9, WordsAre
  <2>2. q \in Nat /\ NameLen(b, q) \in Nat /\ (q = last \/ q + 2 + NameLen(b, q) <= last)
    BY <1>9
  <2>3. QED
    BY <1>2, <1>5, <1>6, <2>1, <2>2, SetRecLenKeeps
<1>11. ASSUME NEW q \in S
       PROVE  Same(a, q, c, q) /\ RecLen(c, q) = RecLen(a, q)
  <2>1. NameLen(a, q) = NameLen(b, q)
    BY <1>10 DEF Same
  <2>2. ASSUME NEW j \in q .. q + 1 + NameLen(b, q)
        PROVE  c[j] = a[j]
    <3>1. q \in Nat /\ NameLen(b, q) \in Nat /\ q + 2 + NameLen(b, q) <= end
      BY <1>9
    <3>2. j \in Nat /\ j <= q + 1 + NameLen(b, q)
      BY <3>1
    <3>3. j < end
      BY <3>1, <3>2
    <3>4. j \in Nat /\ j < end /\ j < NWORDS
      BY <1>3, <1>4, <3>2, <3>3, WordsAre
    <3>5. QED
      BY <1>8, <3>4, WordsAre DEF Elsewhere
  <2>3. QED
    BY <1>9, <2>1, <2>2, EntryKept
<1>12. ASSUME NEW q \in S
       PROVE  Same(b, q, c, q) /\ RecLen(c, q) = IF q = last THEN len ELSE RecLen(b, q)
  BY <1>7, <1>10, <1>11, SameTwice
<1>13. Chain(c, S \cup {end})
  <2>1. S \cup {end} \subseteq Index /\ 0 \in S \cup {end}
    <3>1. S \subseteq Index /\ 0 \in S
      BY DEF SoundWith, Chain
    <3>2. QED
      BY <1>3, <1>4, <3>1, WordsAre
  <2>2. ASSUME NEW p \in S \cup {end}
        PROVE  /\ p + 1 \in Index
               /\ RecLen(c, p) \in Nat \ {0}
               /\ p + RecLen(c, p) \in S \cup {end} \cup {NWORDS}
    <3>1. CASE p = end
      <4>1. end + 1 \in Index
        BY <1>3, <1>4, WordsAre
      <4>2. QED
        BY <1>4, <1>8, <3>1, <4>1, WordsAre
    <3>2. CASE p = last
      <4>1. last \in S /\ last + 1 \in Index
        BY <1>1, <1>2
      <4>2. len \in Nat \ {0} /\ last + len = end
        BY <1>2, <1>4
      <4>3. RecLen(c, last) = len
        BY <1>12, <4>1
      <4>4. QED
        BY <3>2, <4>1, <4>2, <4>3
    <3>3. CASE p \in S \ {last}
      <4>1. /\ p + 1 \in Index
            /\ RecLen(b, p) \in Nat \ {0}
            /\ p + RecLen(b, p) \in S \cup {NWORDS}
        BY <3>3 DEF SoundWith, Chain
      <4>2. QED
        BY <1>12, <3>3, <4>1
    <3>4. QED
      BY <1>1, <3>1, <3>2, <3>3
  <2>3. ASSUME NEW p \in (S \cup {end}) \ {0}
        PROVE  \E q \in S \cup {end} : q + RecLen(c, q) = p
    <3>1. CASE p = end
      BY <1>1, <1>4, <1>12, <3>1
    <3>2. CASE p \in S
      <4>1. PICK q \in S : q + RecLen(b, q) = p
        BY <3>2 DEF SoundWith, Chain
      <4>2. q # last
        BY <1>1, <1>2, <1>9, <3>2, <4>1, WordsAre DEF SoundWith, Chain
      <4>3. QED
        BY <1>12, <4>1, <4>2
    <3>3. QED
      BY <3>1, <3>2
  <2>4. QED
    BY <2>1, <2>2, <2>3 DEF Chain
<1>14. ASSUME NEW p \in S \cup {end}
       PROVE  Sized(c, p) /\ NameAt(c, p) \in Name \cup Fixed /\ c[p] \in Ino
  <2>1. CASE p = end
    <3>1. RecLen(c, end) >= Ideal(NameLen(c, end)) /\ end + RecLen(c, end) = NWORDS
      BY <1>3, <1>4, <1>8, WordsAre
    <3>2. QED
      BY <1>8, <2>1, <3>1 DEF Sized, AtEnd
  <2>2. CASE p \in S
    <3>1. Same(b, p, c, p) /\ Sized(b, p) /\ NameAt(b, p) \in Name \cup Fixed /\ b[p] \in Ino
      BY <1>12, <2>2 DEF SoundWith
    <3>2. RecLen(c, p) = Ideal(NameLen(c, p)) /\ p + RecLen(c, p) # NWORDS
      <4>1. CASE p = last
        <5>1. RecLen(c, p) = len /\ NameLen(c, p) = NameLen(b, last)
          BY <1>12, <2>2, <3>1, <4>1 DEF Same
        <5>2. p + len = end /\ end < NWORDS /\ len = Ideal(NameLen(b, last))
          BY <1>3, <1>4, <4>1, WordsAre DEF Insertion
        <5>3. QED
          BY <1>4, <5>1, <5>2, WordsAre
      <4>2. CASE p # last
        <5>1. p + RecLen(b, p) # NWORDS
          BY <1>1, <1>2, <1>9, <2>2, <4>2, WordsAre
        <5>2. RecLen(b, p) = Ideal(NameLen(b, p))
          BY <3>1, <5>1 DEF Sized, AtEnd
        <5>3. QED
          BY <1>12, <2>2, <3>1, <4>2, <5>1, <5>2 DEF Same
      <4>3. QED
        BY <4>1, <4>2
    <3>3. QED
      BY <3>1, <3>2 DEF Sized, AtEnd, Same
  <2>3. QED
    BY <2>1, <2>2
<1>15. Starts(b) = S
  BY SoundStarts
<1>16. ASSUME NEW p \in S \cup {end}, NEW q \in S \cup {end}, NameAt(c, p) = NameAt(c, q)
       PROVE  p = q
  <2>1. \A x \in S : NameAt(c, x) = NameAt(b, x) /\ NameAt(b, x) # name
    BY <1>12, <1>15 DEF Same, NamesOf
  <2>2. CASE p \in S /\ q \in S
    BY <1>16, <2>1, <2>2 DEF SoundWith
  <2>3. CASE ~(p \in S /\ q \in S)
    BY <1>8, <1>16, <2>1, <2>3
  <2>4. QED
    BY <2>2, <2>3
<1>17. SoundWith(c, S \cup {end})
  BY <1>8, <1>13, <1>14, <1>16 DEF SoundWith
<1>18. Starts(c) = S \cup {end}
  BY <1>17, SoundStarts
<1>19. Listed(c) = Listed(b) \cup {<<name, ino>>}
  <2>1. \A q \in S : NameAt(c, q) = NameAt(b, q) /\ c[q] = b[q]
    BY <1>12 DEF Same
  <2>2. NameAt(c, end) = name /\ c[end] = ino
    BY <1>8
  <2>3. QED
    BY <1>15, <1>18, <2>1, <2>2 DEF Listed
<1>20. QED
  BY <1>17, <1>19

\* The same, without the places.
LEMMA InsertIntoSound ==
    ASSUME NEW b, Sound(b), NEW name \in Name, NEW ino \in Ino, name \notin NamesOf(b),
           NEW last \in Nat, NEW len \in Nat, NEW end \in Nat, NEW a, NEW c,
           Insertion(b, name, ino, last, len, end, a, c)
    PROVE  Sound(c) /\ Gains(b, c, name, ino)
<1>1. PICK S : SoundWith(b, S)
  BY DEF Sound
<1>2. name \in Name \cup Fixed
  OBVIOUS
<1>3. SoundWith(c, S \cup {end}) /\ Listed(c) = Listed(b) \cup {<<name, ino>>}
  BY <1>1, <1>2, InsertInto
<1>4. QED
  BY <1>3, SoundStarts DEF Gains

\* The block makedir writes.
LEMMA TwoEntries ==
    /\ \E S : SoundWith(FirstBlock(Self, Up), S)
    /\ Listed(FirstBlock(Self, Up)) = {<<Dot, Self>>, <<DotDot, Up>>}
<1> DEFINE d == Placed(Zeros, 0, Self, Dot, NWORDS)
           len == Ideal(Len(Dot))
           a == SetRecLen(d, 0, len)
           c == Placed(a, len, Up, DotDot, NWORDS - len)
<1>1. /\ Dot \in Name \cup Fixed /\ DotDot \in Name \cup Fixed /\ Dot # DotDot
      /\ Self \in Ino /\ Up \in Ino
  BY WordsAssumption DEF Fixed
<1>2. SoundWith(d, {0}) /\ Listed(d) = {<<Dot, Self>>}
  <2> HIDE DEF d
  <2>1. d = Placed(Zeros, 0, Self, Dot, NWORDS)
    BY DEF d
  <2>2. QED
    BY <1>1, <2>1, OneEntry
<1>3. Len(Dot) \in Nat /\ len \in Nat /\ len = 2 + Len(Dot) /\ Ideal(Len(DotDot)) = 2 + Len(DotDot)
  BY <1>1, WordsAssumption DEF Ideal
<1>4. NameLen(d, 0) = Len(Dot) /\ d \in Contents
  <2>1. d \in Contents /\ 0 + 1 \in Index /\ 0 \in Nat
    BY <1>2, EntryFits DEF SoundWith
  <2>2. Len(Dot) \in 0 .. HDR - 1 /\ NWORDS \in Nat
    BY <1>1, WordsAssumption
  <2>3. d[0 + 1] = Header(NWORDS, Len(Dot))
    BY <2>1 DEF Placed
  <2>4. QED
    BY <2>1, <2>2, <2>3, HeaderParts DEF NameLen
<1>5. a = Placed(Zeros, 0, Self, Dot, len)
  <2>1. a = [d EXCEPT ![0 + 1] = Header(len, Len(Dot))]
    BY <1>4 DEF SetRecLen
  <2>2. a = [j \in Index |-> IF j = 0 + 1 THEN Header(len, Len(Dot)) ELSE d[j]]
    <3> HIDE DEF d, a, len
    <3>1. QED
      BY <1>4, <2>1 DEF Contents
  <2>3. \A j \in Index : j # 0 + 1 => d[j] = Placed(Zeros, 0, Self, Dot, len)[j]
    BY DEF Placed
  <2>4. \A j \in Index : j = 0 + 1 => Placed(Zeros, 0, Self, Dot, len)[j] = Header(len, Len(Dot))
    BY DEF Placed
  <2>5. Placed(Zeros, 0, Self, Dot, len) = [j \in Index |-> Placed(Zeros, 0, Self, Dot, len)[j]]
    BY DEF Placed
  <2>6. QED
    <3> DEFINE e == Placed(Zeros, 0, Self, Dot, len)
    <3> HIDE DEF d, a, len, e
    <3>1. e = [j \in Index |-> e[j]]
      BY <2>5 DEF e
    <3>2. \A j \in Index : e[j] = IF j = 0 + 1 THEN Header(len, Len(Dot)) ELSE d[j]
      BY <2>3, <2>4 DEF e
    <3>3. a = e
      BY <2>2, <3>1, <3>2
    <3>4. QED
      BY <3>3 DEF e
<1>6. FirstBlock(Self, Up) = c
  BY <1>5 DEF FirstBlock
<1>7. PICK last \in Nat : last = LastStart(d) /\ last = 0
  <2> HIDE DEF d
  <2>1. LastStart(d) \in {0}
    BY <1>2, LastIs
  <2>2. QED
    BY <2>1
<1>8. DotDot \notin NamesOf(d)
  <2>1. \A p \in Starts(d) : NameAt(d, p) = Dot
    <3> HIDE DEF d
    <3>1. \A p \in Starts(d) : <<NameAt(d, p), d[p]>> \in Listed(d)
      BY DEF Listed
    <3>2. QED
      BY <1>2, <3>1
  <2> HIDE DEF d
  <2>2. QED
    BY <1>1, <2>1 DEF NamesOf
<1>9. Insertion(d, DotDot, Up, last, len, len, a, c)
  <2>1. len + Ideal(Len(DotDot)) <= NWORDS
    BY <1>1, <1>3, WordsAssumption
  <2>2. len = Ideal(NameLen(d, last)) /\ len = last + len /\ a = SetRecLen(d, last, len)
    BY <1>3, <1>4, <1>7
  <2> HIDE DEF d, len
  <2>3. QED
    BY <1>7, <2>1, <2>2 DEF Insertion
<1> HIDE DEF d, len, a, c
<1>10. PICK S : SoundWith(d, S)
  BY <1>2
<1>11. SoundWith(c, S \cup {len}) /\ Listed(c) = Listed(d) \cup {<<DotDot, Up>>}
  <2>1. len \in Nat
    BY <1>3
  <2>2. QED
    BY <1>1, <1>8, <1>9, <1>10, <2>1, InsertInto
<1>12. QED
  BY <1>2, <1>6, <1>11

-----------------------------------------------------------------------------
(* remove_entry.                                                           *)

\* What is left when a name goes.
Less(b, name) == {x \in Listed(b) : x[1] # name}

\* A block of only one entry is taken away with it.
LEMMA OnlyIs ==
    ASSUME NEW b, NEW S, SoundWith(b, S), NEW p \in S, Only(b, p)
    PROVE  S = {p} /\ Less(b, NameAt(b, p)) = {}
<1>1. /\ p \in Nat /\ RecLen(b, p) = NWORDS /\ p + RecLen(b, p) <= NWORDS
      /\ \A q \in S : p < q => p + RecLen(b, p) <= q
  BY EntryFits DEF Only
<1>2. p = 0
  BY <1>1, WordsAre
<1>3. \A q \in S : q \in Nat /\ q < NWORDS
  BY WordsAre DEF SoundWith, Chain
<1>4. S = {p}
  <2>1. ASSUME NEW q \in S
        PROVE  q = p
    BY <1>1, <1>2, <1>3, WordsAre
  <2>2. QED
    BY <2>1
<1>5. Starts(b) = S
  BY SoundStarts
<1>6. QED
  BY <1>4, <1>5 DEF Less, Listed

\* The entry before the last takes the rest of the block.
LEMMA RemoveAtEnd ==
    ASSUME NEW b, NEW S, SoundWith(b, S), NEW p \in S, AtEnd(b, p),
           NEW pre \in S, pre + RecLen(b, pre) = p,
           NEW c, c = SetRecLen(b, pre, NWORDS - pre)
    PROVE  SoundWith(c, S \ {p}) /\ Listed(c) = Less(b, NameAt(b, p))
<1>1. /\ pre \in Nat /\ pre + 1 \in Index /\ RecLen(b, pre) \in Nat /\ NameLen(b, pre) \in Nat
      /\ 2 + NameLen(b, pre) <= RecLen(b, pre) /\ p <= NWORDS
      /\ Ideal(NameLen(b, pre)) = 2 + NameLen(b, pre)
      /\ \A q \in S : pre < q => p <= q
  BY EntryFits
<1>2. p \in Nat /\ p + RecLen(b, p) = NWORDS /\ RecLen(b, p) \in Nat /\ \A q \in S : ~(p < q)
  <2>1. /\ p \in Nat /\ RecLen(b, p) \in Nat /\ p + RecLen(b, p) = NWORDS
        /\ \A q \in S : p < q => p + RecLen(b, p) <= q
    BY EntryFits DEF AtEnd
  <2>2. \A q \in S : q \in Nat /\ q < NWORDS
    BY WordsAre DEF SoundWith, Chain
  <2>3. QED
    BY <2>1, <2>2, WordsAre
<1>3. pre < p /\ NWORDS - pre \in Nat /\ NWORDS - pre > 0 /\ NWORDS - pre >= 2 + NameLen(b, pre)
  BY <1>1, <1>2, WordsAre
<1>4. b \in Contents
  BY DEF SoundWith
<1>5. c \in Contents /\ RecLen(c, pre) = NWORDS - pre
  BY <1>1, <1>3, <1>4, SetRecLenIs
<1>6. ASSUME NEW q \in S \ {p}
      PROVE  /\ q \in Nat /\ NameLen(b, q) \in Nat /\ RecLen(b, q) \in Nat
             /\ q + 2 + NameLen(b, q) <= NWORDS
             /\ q = pre \/ (q + 2 + NameLen(b, q) <= pre /\ q + RecLen(b, q) <= pre)
  <2>1. /\ q \in Nat /\ NameLen(b, q) \in Nat /\ RecLen(b, q) \in Nat
        /\ 2 + NameLen(b, q) <= RecLen(b, q) /\ q + RecLen(b, q) <= NWORDS
        /\ q < pre => q + RecLen(b, q) <= pre
    BY EntryFits
  <2>2. q <= pre
    BY <1>1, <1>2, <2>1
  <2>3. q + 2 + NameLen(b, q) <= NWORDS
    BY <2>1, WordsAre
  <2>4. CASE q = pre
    BY <2>1, <2>3, <2>4
  <2>5. CASE q # pre
    <3>1. q + RecLen(b, q) <= pre
      BY <1>1, <2>1, <2>2, <2>5
    <3>2. QED
      BY <1>1, <2>1, <2>3, <3>1
  <2>6. QED
    BY <2>4, <2>5
<1>7. ASSUME NEW q \in S \ {p}
      PROVE  Same(b, q, c, q) /\ RecLen(c, q) = IF q = pre THEN NWORDS - pre ELSE RecLen(b, q)
  <2>1. /\ q \in Nat /\ NameLen(b, q) \in Nat /\ q + 2 + NameLen(b, q) <= NWORDS
        /\ q = pre \/ q + 2 + NameLen(b, q) <= pre
    BY <1>6
  <2>2. Same(b, q, c, q) /\ (q # pre => RecLen(c, q) = RecLen(b, q))
    BY <1>1, <1>3, <1>4, <2>1, SetRecLenKeeps
  <2>3. QED
    BY <1>5, <2>2
<1>8. Chain(c, S \ {p})
  <2>1. S \ {p} \subseteq Index /\ 0 \in S \ {p}
    <3>1. p # 0
      BY <1>1, <1>2, <1>3
    <3>2. QED
      BY <3>1 DEF SoundWith, Chain
  <2>2. ASSUME NEW q \in S \ {p}
        PROVE  /\ q + 1 \in Index
               /\ RecLen(c, q) \in Nat \ {0}
               /\ q + RecLen(c, q) \in (S \ {p}) \cup {NWORDS}
    <3>1. CASE q = pre
      BY <1>1, <1>3, <1>7, <3>1, WordsAre
    <3>2. CASE q # pre
      <4>1. /\ q + 1 \in Index
            /\ RecLen(b, q) \in Nat \ {0}
            /\ q + RecLen(b, q) \in S \cup {NWORDS}
        BY DEF SoundWith, Chain
      <4>2. q + RecLen(b, q) # p
        BY <1>1, <1>2, <1>3, <1>6, <3>2
      <4>3. QED
        BY <1>7, <3>2, <4>1, <4>2
    <3>3. QED
      BY <3>1, <3>2
  <2>3. ASSUME NEW q \in (S \ {p}) \ {0}
        PROVE  \E r \in S \ {p} : r + RecLen(c, r) = q
    <3>1. PICK r \in S : r + RecLen(b, r) = q
      BY DEF SoundWith, Chain
    <3>2. r # p
      BY <1>2, <3>1, WordsAre DEF SoundWith, Chain
    <3>3. r # pre
      BY <3>1
    <3>4. QED
      BY <1>7, <3>1, <3>2, <3>3
  <2>4. QED
    BY <2>1, <2>2, <2>3 DEF Chain
<1>9. ASSUME NEW q \in S \ {p}
      PROVE  Sized(c, q) /\ NameAt(c, q) \in Name \cup Fixed /\ c[q] \in Ino
  <2>1. Same(b, q, c, q) /\ Sized(b, q) /\ NameAt(b, q) \in Name \cup Fixed /\ b[q] \in Ino
    BY <1>7 DEF SoundWith
  <2>2. Sized(c, q)
    <3>1. CASE q = pre
      <4>1. RecLen(c, q) >= Ideal(NameLen(c, q)) /\ q + RecLen(c, q) = NWORDS
        BY <1>1, <1>3, <1>7, <2>1, <3>1, WordsAre DEF Same
      <4>2. QED
        BY <4>1 DEF Sized, AtEnd
    <3>2. CASE q # pre
      BY <1>7, <2>1, <3>2 DEF Sized, AtEnd, Same
    <3>3. QED
      BY <3>1, <3>2
  <2>3. QED
    BY <2>1, <2>2 DEF Same
<1>10. \A q, r \in S \ {p} : NameAt(c, q) = NameAt(c, r) => q = r
  BY <1>7 DEF Same, SoundWith
<1>11. SoundWith(c, S \ {p})
  BY <1>5, <1>8, <1>9, <1>10 DEF SoundWith
<1>12. Starts(b) = S /\ Starts(c) = S \ {p}
  BY <1>11, SoundStarts
<1>13. \A q \in S : q # p => NameAt(b, q) # NameAt(b, p)
  BY DEF SoundWith
<1>14. \A q \in S \ {p} : NameAt(c, q) = NameAt(b, q) /\ c[q] = b[q]
  BY <1>7 DEF Same
<1>15. Listed(c) = Less(b, NameAt(b, p))
  BY <1>12, <1>13, <1>14 DEF Listed, Less
<1>16. QED
  BY <1>11, <1>15

\* Copied, of an entry moved down in e by off words to t.
CopiedOf(e, t, off) ==
    [j \in Index |->
        IF j = t THEN e[t + off]
        ELSE IF j = t + 1 THEN Header(RecLen(e, t), NameLen(e, t + off))
        ELSE IF j \in t + 2 .. t + 1 + NameLen(e, t + off) THEN e[j + off]
        ELSE e[j]]

\* strncpy copies the name of dn whole, also where both names overlap.
LEMMA CopiedIs ==
    ASSUME NEW e \in Contents, NEW t \in Nat, NEW off \in Nat, NEW nl \in Nat,
           nl = NameLen(e, t + off), t + off + 2 + nl <= NWORDS,
           NEW g, g = CopiedOf(e, t, off)
    PROVE  g \in Contents /\ Same(e, t + off, g, t) /\ Elsewhere(e, g, t, t + 2 + nl)
<1>1. t \in Index /\ t + 1 \in Index /\ t + off \in Index /\ t + off + 1 \in Index
  BY WordsAre
<1> DEFINE h == Header(RecLen(e, t), nl)
<1>2. h \in Nat /\ h \div HDR = RecLen(e, t) /\ h % HDR = nl
  <2>1. nl \in 0 .. HDR - 1 /\ RecLen(e, t) \in Nat
    BY <1>1, LengthsTyped
  <2>2. QED
    BY <2>1, HeaderParts
<1> HIDE DEF h
<1>3. g = [j \in Index |-> IF j = t THEN e[t + off] ELSE IF j = t + 1 THEN h
                           ELSE IF j \in t + 2 .. t + 1 + nl THEN e[j + off] ELSE e[j]]
  BY DEF CopiedOf, h
<1>4. \A j \in Index : e[j] \in Nat
  BY DEF Contents
<1>5. ASSUME NEW j \in t + 2 .. t + 1 + nl
      PROVE  j \in Nat /\ j + off \in Index /\ j \in Index
  <2>1. j \in Nat /\ j <= t + 1 + nl
    OBVIOUS
  <2>2. j + off < NWORDS /\ j < NWORDS
    BY <2>1, WordsAre
  <2>3. QED
    BY <2>1, <2>2, WordsAre
<1>6. g \in Contents
  BY <1>1, <1>2, <1>3, <1>4, <1>5 DEF Contents
<1>7. g[t] = e[t + off] /\ g[t + 1] = h
  BY <1>1, <1>3
<1>8. NameLen(g, t) = nl
  BY <1>2, <1>7 DEF NameLen
<1>9. ASSUME NEW k \in 1 .. nl
      PROVE  g[t + 1 + k] = e[t + off + 1 + k]
  <2>1. t + 1 + k \in t + 2 .. t + 1 + nl /\ t + 1 + k # t /\ t + 1 + k # t + 1
    OBVIOUS
  <2>2. t + 1 + k + off = t + off + 1 + k
    OBVIOUS
  <2>3. QED
    BY <1>3, <1>5, <2>1, <2>2
<1>10. Same(e, t + off, g, t)
  <2>1. t + off \in Nat
    OBVIOUS
  <2>2. QED
    BY <1>7, <1>8, <1>9, <2>1, SameWords
<1>11. Elsewhere(e, g, t, t + 2 + nl)
  <2>1. ASSUME NEW j \in Index, j < t \/ j >= t + 2 + nl
        PROVE  g[j] = e[j]
    <3>1. j # t /\ j # t + 1 /\ j \notin t + 2 .. t + 1 + nl
      BY <2>1, WordsAre
    <3>2. QED
      BY <1>3, <3>1
  <2>2. QED
    BY <2>1 DEF Elsewhere
<1>12. QED
  BY <1>6, <1>10, <1>11

\* Of two blocks that agree elsewhere the entries below are the same.
LEMMA Untouched ==
    ASSUME NEW e, NEW h, NEW lo \in Nat, NEW hi, Elsewhere(e, h, lo, hi), lo <= NWORDS,
           NEW x \in Nat, NameLen(e, x) \in Nat, x + 2 + NameLen(e, x) <= lo
    PROVE  Same(e, x, h, x) /\ RecLen(h, x) = RecLen(e, x)
<1>1. ASSUME NEW j \in x .. x + 1 + NameLen(e, x)
      PROVE  h[j] = e[j]
  <2>1. j \in Nat /\ j <= x + 1 + NameLen(e, x)
    OBVIOUS
  <2>2. j < lo /\ j < NWORDS
    BY <2>1, WordsAre
  <2>3. QED
    BY <2>1, <2>2, WordsAre DEF Elsewhere
<1>2. QED
  BY <1>1, EntryKept

\* How far the loop has come that moves the entries behind p down by off words,
\* in a copy e of b: those below t have their new places, and from t + off on
\* nothing has changed.
Shifting(b, S, p, off, e, t) ==
    /\ e \in Contents
    /\ off = RecLen(b, p) /\ t + off \in S /\ p <= t
    /\ \A q \in S : q < p => Same(b, q, e, q) /\ RecLen(e, q) = RecLen(b, q)
    /\ \A q \in S : p < q /\ q < t + off => Same(b, q, e, q - off) /\ RecLen(e, q - off) = RecLen(b, q)
    /\ \A j \in Index : j >= t + off => e[j] = b[j]

\* Before the first pass nothing has moved.
LEMMA ShiftingBegins ==
    ASSUME NEW b, NEW S, SoundWith(b, S), NEW p \in S, ~AtEnd(b, p)
    PROVE  Shifting(b, S, p, RecLen(b, p), b, p)
<1>1. /\ p \in Nat /\ RecLen(b, p) \in Nat /\ p + RecLen(b, p) \in S
      /\ \A q \in S : p < q => p + RecLen(b, p) <= q
  BY EntryFits DEF AtEnd
<1>2. \A q \in S : q \in Nat
  BY WordsAre DEF SoundWith, Chain
<1>3. \A q \in S : ~(p < q /\ q < p + RecLen(b, p))
  BY <1>1, <1>2
<1>4. \A q \in S : Same(b, q, b, q)
  BY DEF Same
<1>5. p <= p /\ b \in Contents
  BY <1>1 DEF SoundWith
<1>6. QED
  BY <1>1, <1>3, <1>4, <1>5 DEF Shifting

\* What is copied next is what was in b.
LEMMA ShiftingFrom ==
    ASSUME NEW b, NEW S, SoundWith(b, S), NEW p \in S, NEW off \in Nat, NEW e, NEW t \in Nat,
           Shifting(b, S, p, off, e, t), NEW from, from = t + off
    PROVE  /\ from \in S /\ from \in Nat /\ p \in Nat /\ p < from /\ p <= t
           /\ off = RecLen(b, p) /\ off >= 2
           /\ e \in Contents /\ b \in Contents
           /\ Same(b, from, e, from) /\ RecLen(e, from) = RecLen(b, from)
<1>1. from \in S /\ p <= t /\ off = RecLen(b, p) /\ e \in Contents
  BY DEF Shifting
<1>2. from \in Nat /\ p \in Nat /\ off >= 2 /\ p < from
  BY <1>1, EntryFits
<1>3. NameLen(b, from) \in Nat /\ from + 2 + NameLen(b, from) <= NWORDS
  <2>1. /\ NameLen(b, from) \in Nat /\ RecLen(b, from) \in Nat
        /\ 2 + NameLen(b, from) <= RecLen(b, from) /\ from + RecLen(b, from) <= NWORDS
    BY <1>1, EntryFits
  <2>2. QED
    BY <1>2, <2>1, WordsAre
<1>4. ASSUME NEW j \in from .. from + 1 + NameLen(b, from)
      PROVE  e[j] = b[j]
  <2>1. j \in Nat /\ j >= from /\ j <= from + 1 + NameLen(b, from)
    BY <1>2, <1>3
  <2>2. j < NWORDS
    BY <1>2, <1>3, <2>1, WordsAre
  <2>3. QED
    BY <2>1, <2>2, WordsAre DEF Shifting
<1>5. Same(b, from, e, from) /\ RecLen(e, from) = RecLen(b, from)
  BY <1>2, <1>3, <1>4, EntryKept
<1>6. QED
  BY <1>1, <1>2, <1>5 DEF SoundWith

\* Where the entries before from are once they are moved.
Settled(b, S, p, off, h, from) ==
    /\ \A q \in S : q < p => Same(b, q, h, q) /\ RecLen(h, q) = RecLen(b, q)
    /\ \A q \in S : p < q /\ q < from => Same(b, q, h, q - off) /\ RecLen(h, q - off) = RecLen(b, q)

\* What a pass writes: the entry at from is now at t, with any length, and the
\* entries that lie below are not touched.
LEMMA MovedDown ==
    ASSUME NEW b, NEW S, SoundWith(b, S), NEW p \in S, NEW off \in Nat, NEW e, NEW t \in Nat,
           Shifting(b, S, p, off, e, t), NEW from \in Nat, from = t + off,
           NEW g, g = CopiedOf(e, t, off), NEW rl \in Nat, NEW h, h = SetRecLen(g, t, rl)
    PROVE  /\ g \in Contents /\ h \in Contents
           /\ Same(b, from, h, t) /\ RecLen(h, t) = rl
           /\ Settled(b, S, p, off, h, from)
           /\ Elsewhere(e, g, t, t + 2 + NameLen(b, from))
           /\ Elsewhere(e, h, t, t + 2 + NameLen(b, from))
<1>1. /\ from \in S /\ p \in Nat /\ p < from /\ p <= t
      /\ off = RecLen(b, p) /\ off >= 2
      /\ e \in Contents /\ b \in Contents
      /\ Same(b, from, e, from) /\ RecLen(e, from) = RecLen(b, from)
  BY ShiftingFrom
<1>2. PICK nl \in Nat : nl = NameLen(b, from) /\ from + 2 + nl <= NWORDS
  <2>1. /\ NameLen(b, from) \in Nat /\ RecLen(b, from) \in Nat
        /\ 2 + NameLen(b, from) <= RecLen(b, from) /\ from + RecLen(b, from) <= NWORDS
    BY <1>1, EntryFits
  <2>2. QED
    BY <2>1, WordsAre
<1>3. nl = NameLen(e, t + off) /\ t + off + 2 + nl <= NWORDS
  BY <1>1, <1>2 DEF Same
<1>4. g \in Contents /\ Same(e, t + off, g, t) /\ Elsewhere(e, g, t, t + 2 + nl)
  BY <1>1, <1>3, CopiedIs
<1>5. t + 1 \in Index
  BY <1>3, WordsAre
<1>6. h \in Contents /\ RecLen(h, t) = rl /\ NameLen(h, t) = NameLen(g, t) /\ Elsewhere(g, h, t + 1, t + 2)
  BY <1>4, <1>5, SetRecLenIs
<1>7. Same(b, from, h, t)
  <2>1. NameLen(g, t) = nl
    BY <1>3, <1>4 DEF Same
  <2>2. NameLen(g, t) \in Nat /\ t + 2 + NameLen(g, t) <= NWORDS
    BY <1>2, <2>1, WordsAre
  <2>3. Same(g, t, h, t)
    BY <1>4, <1>5, <2>2, SetRecLenKeeps
  <2>4. QED
    BY <1>1, <1>4, <2>3, SameTwice
<1>8. Elsewhere(e, h, t, t + 2 + nl)
  <2>1. ASSUME NEW j \in Index, j < t \/ j >= t + 2 + nl
        PROVE  h[j] = e[j]
    <3>1. g[j] = e[j]
      BY <1>4, <2>1 DEF Elsewhere
    <3>2. j < t + 1 \/ j >= t + 2
      BY <2>1, WordsAre
    <3>3. QED
      BY <1>6, <3>1, <3>2 DEF Elsewhere
  <2>2. QED
    BY <2>1 DEF Elsewhere
<1>9. t <= NWORDS
  BY <1>2, WordsAre
<1>10. ASSUME NEW q \in S, q < p
       PROVE  Same(b, q, h, q) /\ RecLen(h, q) = RecLen(b, q)
  <2>1. Same(b, q, e, q) /\ RecLen(e, q) = RecLen(b, q)
    BY <1>10 DEF Shifting
  <2>2. /\ q \in Nat /\ NameLen(b, q) \in Nat /\ RecLen(b, q) \in Nat
        /\ 2 + NameLen(b, q) <= RecLen(b, q) /\ q + RecLen(b, q) <= p
    BY <1>10, EntryFits
  <2>3. q + 2 + NameLen(b, q) <= t
    BY <1>1, <2>2
  <2>4. NameLen(e, q) = NameLen(b, q)
    BY <2>1 DEF Same
  <2>5. Same(e, q, h, q) /\ RecLen(h, q) = RecLen(e, q)
    BY <1>8, <1>9, <2>2, <2>3, <2>4, Untouched
  <2>6. QED
    BY <2>1, <2>5, SameTwice
<1>11. ASSUME NEW q \in S, p < q, q < from
       PROVE  Same(b, q, h, q - off) /\ RecLen(h, q - off) = RecLen(b, q)
  <2>1. Same(b, q, e, q - off) /\ RecLen(e, q - off) = RecLen(b, q)
    BY <1>11 DEF Shifting
  <2>2. /\ q \in Nat /\ NameLen(b, q) \in Nat /\ RecLen(b, q) \in Nat
        /\ 2 + NameLen(b, q) <= RecLen(b, q) /\ q + RecLen(b, q) <= from
    BY <1>1, <1>11, EntryFits
  <2>3. p + off <= q
    BY <1>1, <1>11, EntryFits
  <2>4. PICK x \in Nat : x = q - off
    BY <1>1, <2>2, <2>3
  <2>5. x + 2 + NameLen(b, q) <= t
    BY <1>1, <2>2, <2>4
  <2>6. NameLen(e, x) = NameLen(b, q)
    BY <2>1, <2>4 DEF Same
  <2>7. Same(e, x, h, x) /\ RecLen(h, x) = RecLen(e, x)
    BY <1>8, <1>9, <2>2, <2>5, <2>6, Untouched
  <2>8. Same(b, q, h, x) /\ RecLen(h, x) = RecLen(b, q)
    BY <2>1, <2>4, <2>7, SameTwice
  <2>9. QED
    BY <2>4, <2>8
<1>12. Settled(b, S, p, off, h, from)
  BY <1>10, <1>11 DEF Settled
<1>13. QED
  BY <1>2, <1>4, <1>6, <1>7, <1>8, <1>12

\* A pass that is not the last one goes on to the next entry, if the name it
\* moved did not reach the length of its own record.
LEMMA ShiftingGoesOn ==
    ASSUME NEW b, NEW S, SoundWith(b, S), NEW p \in S, NEW off \in Nat, NEW e, NEW t \in Nat,
           Shifting(b, S, p, off, e, t), NEW from \in Nat, from = t + off,
           ~AtEnd(b, from), NameLen(b, from) < off,
           NEW g, g = CopiedOf(e, t, off), NEW rl, rl = RecLen(g, from),
           NEW h, h = SetRecLen(g, t, rl), NEW next, next = from + rl
    PROVE  /\ rl \in Nat /\ t + rl \in Nat
           /\ Shifting(b, S, p, off, h, t + rl)
           /\ next + 1 \in Index /\ RecLen(h, next) # 0
<1>1. /\ from \in S /\ p \in Nat /\ p < from /\ p <= t
      /\ off = RecLen(b, p) /\ off >= 2
      /\ e \in Contents /\ b \in Contents
      /\ Same(b, from, e, from) /\ RecLen(e, from) = RecLen(b, from)
  BY ShiftingFrom
<1>2. /\ NameLen(b, from) \in Nat /\ RecLen(b, from) \in Nat /\ from + 1 \in Index
      /\ from + RecLen(b, from) \in S
      /\ \A q \in S : from < q => from + RecLen(b, from) <= q
  BY <1>1, EntryFits DEF AtEnd
<1>3. PICK nl \in Nat : nl = NameLen(b, from)
  BY <1>2
<1>4. Elsewhere(e, g, t, t + 2 + nl)
  <2>1. 0 \in Nat
    OBVIOUS
  <2>2. PICK h0 : h0 = SetRecLen(g, t, 0)
    OBVIOUS
  <2>3. QED
    BY <1>3, <2>1, <2>2, MovedDown
<1>5. rl = RecLen(b, from)
  <2>1. from + 1 >= t + 2 + nl
    BY <1>3
  <2>2. g[from + 1] = e[from + 1]
    BY <1>2, <1>4, <2>1 DEF Elsewhere
  <2>3. QED
    BY <1>1, <2>2 DEF RecLen
<1>6. rl \in Nat /\ rl > 0 /\ next \in S /\ next \in Nat /\ t + rl + off = next
  <2>1. RecLen(b, from) > 0
    BY <1>1 DEF SoundWith, Chain
  <2>2. QED
    BY <1>2, <1>5, <2>1
<1>7. /\ h \in Contents
      /\ Same(b, from, h, t) /\ RecLen(h, t) = rl
      /\ Settled(b, S, p, off, h, from)
      /\ Elsewhere(e, h, t, t + 2 + nl)
  BY <1>3, <1>6, MovedDown
<1>8. \A j \in Index : j >= next => h[j] = b[j]
  <2> SUFFICES ASSUME NEW j \in Index, j >= next
               PROVE  h[j] = b[j]
    OBVIOUS
  <2>1. j \in Nat /\ j >= from /\ j >= t + 2 + nl
    BY <1>3, <1>6, WordsAre
  <2>2. h[j] = e[j]
    BY <1>7, <2>1 DEF Elsewhere
  <2>3. e[j] = b[j]
    BY <2>1 DEF Shifting
  <2>4. QED
    BY <2>2, <2>3
<1>9. \A q \in S : q < p => Same(b, q, h, q) /\ RecLen(h, q) = RecLen(b, q)
  BY <1>7 DEF Settled
<1>10. ASSUME NEW q \in S, p < q, q < next
       PROVE  Same(b, q, h, q - off) /\ RecLen(h, q - off) = RecLen(b, q)
  <2>1. q \in Nat /\ ~(from < q)
    <3>1. q \in Nat
      BY EntryFits
    <3>2. QED
      BY <1>2, <1>5, <1>6, <1>10, <3>1
  <2>2. CASE q = from
    <3>1. q - off = t
      BY <2>2
    <3>2. QED
      BY <1>5, <1>7, <2>2, <3>1
  <2>3. CASE q < from
    BY <1>7, <1>10, <2>3 DEF Settled
  <2>4. QED
    BY <2>1, <2>2, <2>3
<1>11. Shifting(b, S, p, off, h, t + rl)
  <2>1. p <= t + rl /\ t + rl + off \in S
    BY <1>1, <1>6
  <2>2. QED
    BY <1>1, <1>6, <1>7, <1>8, <1>9, <1>10, <2>1 DEF Shifting
<1>12. next + 1 \in Index /\ RecLen(h, next) # 0
  <2>1. next + 1 \in Index /\ RecLen(b, next) # 0
    BY <1>6 DEF SoundWith, Chain
  <2>2. h[next + 1] = b[next + 1]
    BY <1>6, <1>8, <2>1
  <2>3. QED
    BY <2>1, <2>2 DEF RecLen
<1>13. QED
  BY <1>6, <1>11, <1>12

\* The place of an entry once the one at p, of off words, is gone.
Down(p, off, q) == IF q < p THEN q ELSE q - off

\* The last pass leaves a block without the entry at p.
LEMMA ShiftingEnds ==
    ASSUME NEW b, NEW S, SoundWith(b, S), NEW p \in S, NEW off \in Nat, NEW e, NEW t \in Nat,
           Shifting(b, S, p, off, e, t), NEW from \in Nat, from = t + off, AtEnd(b, from),
           NEW g, g = CopiedOf(e, t, off), NEW h, h = SetRecLen(g, t, NWORDS - t)
    PROVE  SoundWith(h, {Down(p, off, q) : q \in S \ {p}}) /\ Listed(h) = Less(b, NameAt(b, p))
<1> DEFINE R == S \ {p}
           T == {Down(p, off, q) : q \in R}
<1>1. /\ from \in S /\ p \in Nat /\ p < from /\ p <= t
      /\ off = RecLen(b, p) /\ off >= 2
      /\ e \in Contents /\ b \in Contents
  BY ShiftingFrom
<1>2. /\ NameLen(b, from) \in Nat /\ RecLen(b, from) \in Nat /\ from + RecLen(b, from) = NWORDS
      /\ 2 + NameLen(b, from) <= RecLen(b, from)
  BY <1>1, EntryFits DEF AtEnd
<1>3. NWORDS - t \in Nat /\ NWORDS - t >= 2 + NameLen(b, from) /\ t + (NWORDS - t) = NWORDS
  BY <1>2, WordsAre
<1>4. /\ h \in Contents
      /\ Same(b, from, h, t) /\ RecLen(h, t) = NWORDS - t
      /\ Settled(b, S, p, off, h, from)
  BY <1>3, MovedDown
<1>5. ASSUME NEW q \in S
      PROVE  /\ q \in Nat /\ RecLen(b, q) \in Nat /\ RecLen(b, q) > 0 /\ q <= from
             /\ q < p => q + RecLen(b, q) <= p
             /\ p < q => p + off <= q
             /\ q < from => q + RecLen(b, q) \in S /\ q + RecLen(b, q) <= from
             /\ q + RecLen(b, q) = NWORDS => q = from
  <2>1. /\ q \in Nat /\ RecLen(b, q) \in Nat
        /\ q < p => q + RecLen(b, q) <= p
        /\ p < q => p + off <= q
        /\ q < from => q + RecLen(b, q) <= from
        /\ from < q => NWORDS <= q
        /\ q + RecLen(b, q) \in S \cup {NWORDS}
    BY <1>1, <1>2, EntryFits
  <2>2. q < NWORDS /\ RecLen(b, q) > 0
    BY WordsAre DEF SoundWith, Chain
  <2>3. q <= from
    BY <2>1, <2>2, WordsAre
  <2>4. from < NWORDS
    BY <1>1, WordsAre DEF SoundWith, Chain
  <2>5. q < from => q + RecLen(b, q) # NWORDS
    BY <2>1, <2>4, WordsAre
  <2>6. QED
    BY <2>1, <2>2, <2>3, <2>5
<1>6. Down(p, off, from) = t
  BY <1>1 DEF Down
<1>7. ASSUME NEW q \in R
      PROVE  /\ Same(b, q, h, Down(p, off, q)) /\ Down(p, off, q) \in Nat /\ Down(p, off, q) <= q
             /\ RecLen(h, Down(p, off, q)) = IF q = from THEN NWORDS - t ELSE RecLen(b, q)
  <2>1. q \in S /\ q \in Nat /\ q # p /\ q <= from /\ (p < q => p + off <= q)
    BY <1>5
  <2>2. CASE q < p
    BY <1>1, <1>4, <2>1, <2>2 DEF Settled, Down
  <2>3. CASE p < q /\ q < from
    <3>1. Down(p, off, q) = q - off /\ q - off \in Nat
      BY <1>1, <2>1, <2>3 DEF Down
    <3>2. Same(b, q, h, q - off) /\ RecLen(h, q - off) = RecLen(b, q)
      BY <1>4, <2>1, <2>3 DEF Settled
    <3>3. QED
      BY <1>1, <2>1, <2>3, <3>1, <3>2
  <2>4. CASE q = from
    BY <1>1, <1>4, <1>6, <2>4
  <2>5. QED
    BY <1>1, <2>1, <2>2, <2>3, <2>4
<1>8. \* A record ends where the next one begins.
      ASSUME NEW q \in R, q # from
      PROVE  /\ q + RecLen(b, q) # p =>
                   q + RecLen(b, q) \in R
                   /\ Down(p, off, q) + RecLen(b, q) = Down(p, off, q + RecLen(b, q))
             /\ q + RecLen(b, q) = p => Down(p, off, q) + RecLen(b, q) = p
  <2>1. /\ q \in S /\ q \in Nat /\ q # p /\ q < from /\ RecLen(b, q) \in Nat /\ RecLen(b, q) > 0
        /\ q + RecLen(b, q) \in S
        /\ (p < q => p + off <= q) /\ (q < p => q + RecLen(b, q) <= p)
    BY <1>1, <1>5, <1>8
  <2>2. CASE q < p
    BY <1>1, <2>1, <2>2 DEF Down
  <2>3. CASE p < q
    BY <1>1, <2>1, <2>3 DEF Down
  <2>4. QED
    BY <1>1, <2>1, <2>2, <2>3
<1>9. p + off \in R /\ Down(p, off, p + off) = p
  <2>1. p + off \in S
    BY <1>1, <1>5
  <2>2. QED
    BY <1>1, <2>1 DEF Down
<1>10. Chain(h, T)
  <2>1. T \subseteq Index
    <3>1. ASSUME NEW q \in R
          PROVE  Down(p, off, q) \in Index
      <4>1. q < NWORDS
        BY WordsAre DEF SoundWith, Chain
      <4>2. Down(p, off, q) < NWORDS
        BY <1>5, <1>7, <4>1, WordsAre
      <4>3. QED
        BY <1>7, <4>2, WordsAre
    <3>2. QED
      BY <3>1
  <2>2. 0 \in T
    <3>1. 0 \in S
      BY DEF SoundWith, Chain
    <3>2. CASE p = 0
      BY <1>9, <3>2
    <3>3. CASE p # 0
      <4>1. Down(p, off, 0) = 0
        BY <1>1, <3>3 DEF Down
      <4>2. QED
        BY <3>1, <3>3, <4>1
    <3>4. QED
      BY <3>2, <3>3
  <2>3. ASSUME NEW q \in R
        PROVE  LET x == Down(p, off, q) IN
               /\ x + 1 \in Index
               /\ RecLen(h, x) \in Nat \ {0}
               /\ x + RecLen(h, x) \in T \cup {NWORDS}
    <3>1. Down(p, off, q) + 1 \in Index
      <4>1. q + 1 < NWORDS
        BY WordsAre DEF SoundWith, Chain
      <4>2. Down(p, off, q) + 1 < NWORDS /\ Down(p, off, q) + 1 \in Nat
        BY <1>5, <1>7, <4>1, WordsAre
      <4>3. QED
        BY <4>2, WordsAre
    <3>2. CASE q = from
      BY <1>3, <1>6, <1>7, <3>1, <3>2, WordsAre
    <3>3. CASE q # from
      <4>1. RecLen(h, Down(p, off, q)) = RecLen(b, q) /\ RecLen(b, q) \in Nat \ {0}
        BY <1>5, <1>7, <3>3
      <4>2. Down(p, off, q) + RecLen(b, q) \in T
        BY <1>8, <1>9, <3>3
      <4>3. QED
        BY <3>1, <4>1, <4>2
    <3>4. QED
      BY <3>2, <3>3
  <2>4. ASSUME NEW q \in R, Down(p, off, q) # 0
        PROVE  \E r \in R : Down(p, off, r) + RecLen(h, Down(p, off, r)) = Down(p, off, q)
    <3>1. q # 0
      <4>1. q = 0 => Down(p, off, q) = 0
        BY <1>7
      <4>2. QED
        BY <2>4, <4>1
    <3>2. PICK r \in S : r + RecLen(b, r) = q
      BY <3>1 DEF SoundWith, Chain
    <3>3. r # from
      <4>1. q < NWORDS
        BY WordsAre DEF SoundWith, Chain
      <4>2. QED
        BY <1>2, <3>2, <4>1, WordsAre
    <3>4. CASE r # p
      BY <1>7, <1>8, <3>2, <3>3, <3>4
    <3>5. CASE r = p
      <4>1. Down(p, off, q) = p
        BY <1>1, <1>9, <3>2, <3>5
      <4>2. PICK s \in S : s + RecLen(b, s) = p
        BY <2>4, <4>1 DEF SoundWith, Chain
      <4>3. s \in R /\ s # from
        BY <1>1, <1>5, <4>2
      <4>4. Down(p, off, s) + RecLen(h, Down(p, off, s)) = p
        BY <1>7, <1>8, <4>2, <4>3
      <4>5. QED
        BY <4>1, <4>3, <4>4
    <3>6. QED
      BY <3>4, <3>5
  <2>5. QED
    <3>1. \A x \in T : /\ x + 1 \in Index
                       /\ RecLen(h, x) \in Nat \ {0}
                       /\ x + RecLen(h, x) \in T \cup {NWORDS}
      BY <2>3
    <3>2. \A x \in T \ {0} : \E y \in T : y + RecLen(h, y) = x
      BY <2>4
    <3> HIDE DEF T
    <3>3. QED
      BY <2>1, <2>2, <3>1, <3>2 DEF Chain
<1>11. ASSUME NEW q \in R
       PROVE  LET x == Down(p, off, q) IN
              Sized(h, x) /\ NameAt(h, x) \in Name \cup Fixed /\ h[x] \in Ino
  <2>1. /\ Same(b, q, h, Down(p, off, q))
        /\ Sized(b, q) /\ NameAt(b, q) \in Name \cup Fixed /\ b[q] \in Ino
    BY <1>7 DEF SoundWith
  <2>2. CASE q = from
    <3>1. t + RecLen(h, t) = NWORDS /\ RecLen(h, t) >= Ideal(NameLen(h, t))
      BY <1>3, <1>4, <1>6, <2>1, <2>2 DEF Same, Ideal
    <3>2. QED
      BY <1>6, <2>1, <2>2, <3>1 DEF Sized, AtEnd, Same
  <2>3. CASE q # from
    <3>1. RecLen(b, q) = Ideal(NameLen(b, q))
      BY <1>5, <2>1, <2>3 DEF Sized, AtEnd
    <3>2. RecLen(h, Down(p, off, q)) = Ideal(NameLen(h, Down(p, off, q)))
      BY <1>7, <2>1, <2>3, <3>1 DEF Same
    <3>3. RecLen(h, Down(p, off, q)) \in Nat
      BY <1>5, <1>7, <2>3
    <3>4. Sized(h, Down(p, off, q))
      BY <3>2, <3>3 DEF Sized
    <3>5. QED
      BY <2>1, <3>4 DEF Same
  <2>4. QED
    BY <2>2, <2>3
<1>12. \A x, y \in T : NameAt(h, x) = NameAt(h, y) => x = y
  BY <1>7 DEF Same, SoundWith
<1>13. SoundWith(h, T)
  <2>1. \A x \in T : Sized(h, x) /\ NameAt(h, x) \in Name \cup Fixed /\ h[x] \in Ino
    BY <1>11
  <2> HIDE DEF T
  <2>2. QED
    BY <1>4, <1>10, <1>12, <2>1 DEF SoundWith
<1>14. Starts(b) = S /\ Starts(h) = T
  <2> HIDE DEF T
  <2>1. QED
    BY <1>13, SoundStarts
<1>15. \A q \in R : NameAt(b, q) # NameAt(b, p)
  BY DEF SoundWith
<1>16. \A q \in R : NameAt(h, Down(p, off, q)) = NameAt(b, q) /\ h[Down(p, off, q)] = b[q]
  BY <1>7 DEF Same
<1>17. Listed(h) = {<<NameAt(b, q), b[q]>> : q \in R}
  <2>1. Listed(h) = {<<NameAt(h, x), h[x]>> : x \in T}
    BY <1>14 DEF Listed
  <2>2. QED
    BY <1>16, <2>1
<1>18. Listed(h) = Less(b, NameAt(b, p))
  BY <1>14, <1>15, <1>17 DEF Listed, Less
<1>19. QED
  BY <1>13, <1>18

\* The same, without the places.
LEMMA ShiftingEndsSound ==
    ASSUME NEW b, NEW S, SoundWith(b, S), NEW p \in S, NEW off \in Nat, NEW e, NEW t \in Nat,
           Shifting(b, S, p, off, e, t), NEW from \in Nat, from = t + off, AtEnd(b, from),
           NEW g, g = CopiedOf(e, t, off), NEW h, h = SetRecLen(g, t, NWORDS - t)
    PROVE  Sound(h) /\ Listed(h) = Less(b, NameAt(b, p))
<1>1. SoundWith(h, {Down(p, off, q) : q \in S \ {p}}) /\ Listed(h) = Less(b, NameAt(b, p))
  BY ShiftingEnds
<1>2. QED
  BY <1>1, SoundStarts

-----------------------------------------------------------------------------
(* The blocks of a directory.                                              *)

\* No name is in two blocks, and the first one has . and ..
DirInv(bs) ==
    /\ bs \in Seq(Contents) /\ Len(bs) \in 1 .. 12
    /\ \A i \in DOMAIN bs : Sound(bs[i])
    /\ \A i, j \in DOMAIN bs : i # j => NamesOf(bs[i]) \cap NamesOf(bs[j]) = {}
    /\ Fixed \subseteq NamesOf(bs[1])

Listing(bs) == UNION {Listed(bs[i]) : i \in DOMAIN bs}

\* A listing has the names of its block.
LEMMA NamesListed ==
    ASSUME NEW b
    PROVE  /\ \A x \in Listed(b) : x[1] \in NamesOf(b) /\ x = <<x[1], x[2]>>
           /\ \A n \in NamesOf(b) : \E x \in Listed(b) : x[1] = n
<1>1. ASSUME NEW x \in Listed(b)
      PROVE  x[1] \in NamesOf(b) /\ x = <<x[1], x[2]>>
  <2>1. PICK p \in Starts(b) : x = <<NameAt(b, p), b[p]>>
    BY DEF Listed
  <2>2. x[1] = NameAt(b, p)
    BY <2>1
  <2>3. QED
    BY <2>1, <2>2 DEF NamesOf
<1>2. ASSUME NEW n \in NamesOf(b)
      PROVE  \E x \in Listed(b) : x[1] = n
  <2>1. PICK p \in Starts(b) : n = NameAt(b, p)
    BY DEF NamesOf
  <2>2. <<NameAt(b, p), b[p]>> \in Listed(b) /\ <<NameAt(b, p), b[p]>>[1] = n
    BY <2>1 DEF Listed
  <2>3. QED
    BY <2>2
<1>3. QED
  BY <1>1, <1>2

\* The blocks of a directory are sound.
LEMMA DirIs ==
    ASSUME NEW bs, DirInv(bs)
    PROVE  /\ Len(bs) \in Nat /\ DOMAIN bs = 1 .. Len(bs) /\ 1 \in DOMAIN bs /\ Len(bs) \in DOMAIN bs
           /\ \A i \in DOMAIN bs : i \in Nat /\ SoundWith(bs[i], Starts(bs[i])) /\ bs[i] \in Contents
<1>1. bs \in Seq(Contents) /\ Len(bs) \in 1 .. 12
  BY DEF DirInv
<1>2. DOMAIN bs = 1 .. Len(bs)
  BY <1>1, LenProperties
<1>3. \A i \in DOMAIN bs : SoundWith(bs[i], Starts(bs[i]))
  BY DEF DirInv, Sound
<1>4. QED
  BY <1>1, <1>2, <1>3 DEF SoundWith

Replaced(bs, i, c, new) == new = [bs EXCEPT ![i] = c]

\* A block changes: another name comes.
LEMMA BlockGains ==
    ASSUME NEW bs, DirInv(bs), NEW i \in DOMAIN bs, NEW c, Sound(c), NEW name, NEW ino,
           Gains(bs[i], c, name, ino), \A j \in DOMAIN bs : name \notin NamesOf(bs[j]),
           NEW new, Replaced(bs, i, c, new)
    PROVE  DirInv(new) /\ Len(new) = Len(bs) /\ Listing(new) = Listing(bs) \cup {<<name, ino>>}
<1>1. /\ Len(bs) \in Nat /\ DOMAIN bs = 1 .. Len(bs) /\ 1 \in DOMAIN bs
      /\ bs \in Seq(Contents) /\ Len(bs) \in 1 .. 12 /\ c \in Contents
  BY DirIs DEF DirInv, Sound, SoundWith
<1>2. new \in Seq(Contents) /\ Len(new) = Len(bs) /\ DOMAIN new = DOMAIN bs
  BY <1>1, ExceptSeq DEF Replaced
<1>3. new[i] = c /\ \A j \in DOMAIN bs : j # i => new[j] = bs[j]
  BY <1>1 DEF Replaced
<1>4. NamesOf(c) = NamesOf(bs[i]) \cup {name}
  <2>1. \A n \in NamesOf(c) : n \in NamesOf(bs[i]) \/ n = name
    BY NamesListed DEF Gains
  <2>2. \A n \in NamesOf(bs[i]) : n \in NamesOf(c)
    BY NamesListed DEF Gains
  <2>3. name \in NamesOf(c)
    <3>1. <<name, ino>> \in Listed(c)
      BY DEF Gains
    <3>2. <<name, ino>>[1] \in NamesOf(c)
      BY <3>1, NamesListed
    <3>3. QED
      BY <3>2
  <2>4. QED
    BY <2>1, <2>2, <2>3
<1>5. \A j \in DOMAIN new : Sound(new[j])
  BY <1>2, <1>3 DEF DirInv
<1>6. \A j, k \in DOMAIN new : j # k => NamesOf(new[j]) \cap NamesOf(new[k]) = {}
  BY <1>2, <1>3, <1>4 DEF DirInv
<1>7. Fixed \subseteq NamesOf(new[1])
  BY <1>1, <1>3, <1>4 DEF DirInv
<1>8. DirInv(new)
  BY <1>1, <1>2, <1>5, <1>6, <1>7 DEF DirInv
<1>9. Listing(new) = Listing(bs) \cup {<<name, ino>>}
  <2>1. \A x : x \in Listing(new) <=> \E j \in DOMAIN bs : x \in Listed(new[j])
    BY <1>2 DEF Listing
  <2>2. \A x : x \in Listing(bs) <=> \E j \in DOMAIN bs : x \in Listed(bs[j])
    BY DEF Listing
  <2>3. \A x : x \in Listed(c) <=> x \in Listed(bs[i]) \/ x = <<name, ino>>
    BY DEF Gains
  <2>4. QED
    BY <1>3, <2>1, <2>2, <2>3
<1>10. QED
  BY <1>2, <1>8, <1>9

Removed(L, name) == {x \in L : x[1] # name}

\* A block changes: a name goes.
LEMMA BlockLoses ==
    ASSUME NEW bs, DirInv(bs), NEW i \in DOMAIN bs, NEW c, Sound(c),
           NEW name \in NamesOf(bs[i]), name \notin Fixed, Listed(c) = Less(bs[i], name),
           NEW new, Replaced(bs, i, c, new)
    PROVE  DirInv(new) /\ Len(new) = Len(bs) /\ Listing(new) = Removed(Listing(bs), name)
<1>1. /\ Len(bs) \in Nat /\ DOMAIN bs = 1 .. Len(bs) /\ 1 \in DOMAIN bs
      /\ bs \in Seq(Contents) /\ Len(bs) \in 1 .. 12 /\ c \in Contents
  BY DirIs DEF DirInv, Sound, SoundWith
<1>2. new \in Seq(Contents) /\ Len(new) = Len(bs) /\ DOMAIN new = DOMAIN bs
  BY <1>1, ExceptSeq DEF Replaced
<1>3. new[i] = c /\ \A j \in DOMAIN bs : j # i => new[j] = bs[j]
  BY <1>1 DEF Replaced
<1>4. \A n : n \in NamesOf(c) <=> n \in NamesOf(bs[i]) /\ n # name
  <2>1. \A x : x \in Listed(c) <=> x \in Listed(bs[i]) /\ x[1] # name
    BY DEF Less
  <2>2. QED
    BY <2>1, NamesListed
<1>5. \A j \in DOMAIN new : Sound(new[j])
  BY <1>2, <1>3 DEF DirInv
<1>6. \A j, k \in DOMAIN new : j # k => NamesOf(new[j]) \cap NamesOf(new[k]) = {}
  BY <1>2, <1>3, <1>4 DEF DirInv
<1>7. Fixed \subseteq NamesOf(new[1])
  BY <1>1, <1>3, <1>4 DEF DirInv
<1>8. DirInv(new)
  BY <1>1, <1>2, <1>5, <1>6, <1>7 DEF DirInv
<1>9. Listing(new) = Removed(Listing(bs), name)
  <2>1. \A x : x \in Listing(new) <=> \E j \in DOMAIN bs : x \in Listed(new[j])
    BY <1>2 DEF Listing
  <2>2. \A x : x \in Removed(Listing(bs), name) <=> x[1] # name /\ \E j \in DOMAIN bs : x \in Listed(bs[j])
    BY DEF Listing, Removed
  <2>3. \A x : x \in Listed(c) <=> x \in Listed(bs[i]) /\ x[1] # name
    BY DEF Less
  <2>4. \A j \in DOMAIN bs : j # i => \A x \in Listed(bs[j]) : x[1] # name
    BY NamesListed DEF DirInv
  <2>5. QED
    BY <1>3, <2>1, <2>2, <2>3, <2>4
<1>10. QED
  BY <1>2, <1>8, <1>9

\* One block fewer is still at least one.
LEMMA OneFewer ==
    ASSUME NEW n \in Nat, n \in 1 .. 12, NEW i, i \in 1 .. n, i # 1
    PROVE  n - 1 \in Nat /\ n - 1 \in 1 .. 12
OBVIOUS

\* A block goes with its only entry, and those behind it move up.
Without(bs, i) == [j \in 1 .. Len(bs) - 1 |-> bs[IF j < i THEN j ELSE j + 1]]

\* The block goes with its only entry.
LEMMA BlockGoes ==
    ASSUME NEW bs, DirInv(bs), NEW i \in DOMAIN bs, NEW name \in NamesOf(bs[i]), name \notin Fixed,
           Less(bs[i], name) = {},
           NEW new, new = Without(bs, i)
    PROVE  DirInv(new) /\ Len(new) = Len(bs) - 1 /\ Listing(new) = Removed(Listing(bs), name)
<1>1. /\ Len(bs) \in Nat /\ DOMAIN bs = 1 .. Len(bs) /\ 1 \in DOMAIN bs
      /\ \A j \in DOMAIN bs : bs[j] \in Contents
      /\ Len(bs) \in 1 .. 12 /\ i \in Nat
  BY DirIs DEF DirInv
<1>2. NamesOf(bs[i]) = {name}
  <2>1. \A n \in NamesOf(bs[i]) : n = name
    BY NamesListed DEF Less
  <2>2. QED
    BY <2>1
<1>3. i # 1
  <2>1. Dot \in Fixed /\ Fixed \subseteq NamesOf(bs[1])
    BY DEF Fixed, DirInv
  <2>2. QED
    BY <1>2, <2>1
<1> DEFINE from(j) == IF j < i THEN j ELSE j + 1
<1>4. Len(bs) - 1 \in Nat /\ Len(bs) - 1 \in 1 .. 12
  <2>1. PICK n \in Nat : n = Len(bs) /\ n \in 1 .. 12 /\ i \in 1 .. n
    BY <1>1
  <2>2. n - 1 \in Nat /\ n - 1 \in 1 .. 12
    BY <1>3, <2>1, OneFewer
  <2>3. QED
    BY <2>1, <2>2
<1>5. \A j \in 1 .. Len(bs) - 1 : from(j) \in DOMAIN bs /\ from(j) # i /\ new[j] = bs[from(j)]
  BY <1>1 DEF Without
<1>6. \A k \in DOMAIN bs : k # i => \E j \in 1 .. Len(bs) - 1 : from(j) = k
  <2> SUFFICES ASSUME NEW k \in DOMAIN bs, k # i
               PROVE  \E j \in 1 .. Len(bs) - 1 : from(j) = k
    OBVIOUS
  <2>1. CASE k < i
    <3>1. k \in 1 .. Len(bs) - 1 /\ from(k) = k
      BY <1>1, <2>1
    <3>2. QED
      BY <3>1
  <2>2. CASE k > i
    <3>1. k - 1 \in 1 .. Len(bs) - 1 /\ from(k - 1) = k
      BY <1>1, <2>2
    <3>2. QED
      BY <3>1
  <2>3. QED
    BY <1>1, <2>1, <2>2
<1>7. \A j, k \in 1 .. Len(bs) - 1 : from(j) = from(k) => j = k
  BY <1>1
<1>8. from(1) = 1 /\ 1 \in 1 .. Len(bs) - 1
  <2>1. i \in 1 .. Len(bs)
    BY <1>1
  <2>2. 1 < i /\ i <= Len(bs)
    BY <1>1, <1>3, <2>1
  <2>3. QED
    BY <1>1, <2>2
<1>9. DOMAIN new = 1 .. Len(bs) - 1 /\ new \in Seq(Contents) /\ Len(new) = Len(bs) - 1
  <2>1. new \in [1 .. Len(bs) - 1 -> Contents]
    BY <1>1, <1>5 DEF Without
  <2>2. QED
    BY <1>4, <2>1
<1> HIDE DEF from
<1>10. DirInv(new)
  <2>1. \A j \in DOMAIN new : Sound(new[j])
    BY <1>5, <1>9 DEF DirInv
  <2>2. ASSUME NEW j \in DOMAIN new, NEW k \in DOMAIN new, j # k
        PROVE  NamesOf(new[j]) \cap NamesOf(new[k]) = {}
    <3>1. from(j) # from(k) /\ from(j) \in DOMAIN bs /\ from(k) \in DOMAIN bs
      BY <1>5, <1>7, <1>9, <2>2
    <3>2. new[j] = bs[from(j)] /\ new[k] = bs[from(k)]
      BY <1>5, <1>9
    <3>3. QED
      BY <3>1, <3>2 DEF DirInv
  <2>3. new[1] = bs[1]
    BY <1>5, <1>8
  <2>4. QED
    BY <1>4, <1>9, <2>1, <2>2, <2>3 DEF DirInv
<1>11. Listing(new) = Removed(Listing(bs), name)
  <2>1. \A x : x \in Listing(new) <=> \E j \in 1 .. Len(bs) - 1 : x \in Listed(bs[from(j)])
    BY <1>5, <1>9 DEF Listing
  <2>2. \A x : x \in Removed(Listing(bs), name) <=> x[1] # name /\ \E j \in DOMAIN bs : x \in Listed(bs[j])
    BY DEF Listing, Removed
  <2>3. \A x \in Listed(bs[i]) : x[1] = name
    BY DEF Less
  <2>4. \A j \in DOMAIN bs : j # i => \A x \in Listed(bs[j]) : x[1] # name
    BY NamesListed DEF DirInv
  <2>5. ASSUME NEW x \in Listing(new)
        PROVE  x \in Removed(Listing(bs), name)
    BY <1>5, <2>1, <2>2, <2>4
  <2>6. ASSUME NEW x \in Removed(Listing(bs), name)
        PROVE  x \in Listing(new)
    <3>1. PICK k \in DOMAIN bs : x \in Listed(bs[k]) /\ x[1] # name
      BY <2>2
    <3>2. PICK j \in 1 .. Len(bs) - 1 : from(j) = k
      BY <1>6, <2>3, <3>1
    <3>3. QED
      BY <2>1, <3>1, <3>2
  <2>7. QED
    BY <2>5, <2>6
<1>12. QED
  BY <1>9, <1>10, <1>11

-----------------------------------------------------------------------------
(* What search finds.                                                      *)

\* What search looks through.
LEMMA PlacesAre ==
    ASSUME NEW name
    PROVE  \A x : x \in Places(name) <=>
               \E i \in DOMAIN blocks : \E p \in Starts(blocks[i]) :
                   NameAt(blocks[i], p) = name /\ x = <<i, p>>
BY DEF Places

\* A name is found at its only place.
LEMMA PlaceIs ==
    ASSUME DirInv(blocks), NEW i \in DOMAIN blocks, NEW p \in Starts(blocks[i]),
           NEW name, name = NameAt(blocks[i], p)
    PROVE  /\ Places(name) = {<<i, p>>} /\ Place(name) = <<i, p>>
           /\ Search(name) = blocks[i][p]
<1>1. Places(name) = {<<i, p>>}
  <2>1. ASSUME NEW j \in DOMAIN blocks, NEW q \in Starts(blocks[j]), NameAt(blocks[j], q) = name
        PROVE  j = i /\ q = p
    <3>1. name \in NamesOf(blocks[i]) /\ name \in NamesOf(blocks[j])
      BY <2>1 DEF NamesOf
    <3>2. j = i
      BY <3>1 DEF DirInv
    <3>3. SoundWith(blocks[i], Starts(blocks[i]))
      BY DirIs
    <3>4. QED
      BY <2>1, <3>2, <3>3 DEF SoundWith
  <2>2. <<i, p>> \in Places(name)
    BY PlacesAre
  <2>3. \A x \in Places(name) : x = <<i, p>>
    BY <2>1, PlacesAre
  <2>4. QED
    BY <2>2, <2>3
<1>2. i \in Nat /\ p \in Nat
  <2>1. i \in Nat /\ SoundWith(blocks[i], Starts(blocks[i]))
    BY DirIs
  <2>2. QED
    BY <2>1, EntryFits
<1>3. Place(name) = <<i, p>>
  <2> DEFINE First(x) == \A y \in Places(name) : x[1] < y[1] \/ (x[1] = y[1] /\ x[2] <= y[2])
  <2>1. First(<<i, p>>)
    BY <1>1, <1>2
  <2>2. Place(name) = CHOOSE x \in Places(name) : First(x)
    BY DEF Place
  <2> HIDE DEF First
  <2>3. QED
    BY <1>1, <2>1, <2>2
<1>4. QED
  BY <1>1, <1>3 DEF Search

\* search finds the names of all blocks.
LEMMA FoundInListing ==
    ASSUME DirInv(blocks), NEW name
    PROVE  Places(name) # {} <=> \E i \in DOMAIN blocks : name \in NamesOf(blocks[i])
<1>1. ASSUME NEW x \in Places(name)
      PROVE  \E i \in DOMAIN blocks : name \in NamesOf(blocks[i])
  <2>1. PICK i \in DOMAIN blocks : \E p \in Starts(blocks[i]) : NameAt(blocks[i], p) = name
    BY PlacesAre
  <2>2. name \in NamesOf(blocks[i])
    BY <2>1 DEF NamesOf
  <2>3. QED
    BY <2>2
<1>2. ASSUME NEW i \in DOMAIN blocks, name \in NamesOf(blocks[i])
      PROVE  Places(name) # {}
  <2>1. PICK p \in Starts(blocks[i]) : NameAt(blocks[i], p) = name
    BY <1>2 DEF NamesOf
  <2>2. <<i, p>> \in Places(name)
    BY <2>1, PlacesAre
  <2>3. QED
    BY <2>2
<1>3. QED
  BY <1>1, <1>2

\* The function e has the names and numbers in L.
Holds(e, L) ==
    /\ DOMAIN e = {x[1] : x \in L}
    /\ e = [n \in DOMAIN e |-> e[n]]
    /\ \A x \in L : e[x[1]] = x[2]

\* What is listed in the blocks is what search finds.
LEMMA FoundIs == DirInv(blocks) => Holds(Found, Listing(blocks))
<1> SUFFICES ASSUME DirInv(blocks)
             PROVE  Holds(Found, Listing(blocks))
  OBVIOUS
<1>1. ASSUME NEW x \in Listing(blocks)
      PROVE  x[1] \in Name \cup Fixed /\ Search(x[1]) = x[2] /\ x[2] # 0
  <2>1. PICK i \in DOMAIN blocks : x \in Listed(blocks[i])
    BY DEF Listing
  <2>2. PICK p \in Starts(blocks[i]) : x = <<NameAt(blocks[i], p), blocks[i][p]>>
    BY <2>1 DEF Listed
  <2>3. x[1] = NameAt(blocks[i], p) /\ x[2] = blocks[i][p]
    BY <2>2
  <2>4. Search(x[1]) = x[2]
    BY <2>3, PlaceIs
  <2>5. NameAt(blocks[i], p) \in Name \cup Fixed /\ blocks[i][p] \in Ino
    BY DirIs DEF SoundWith
  <2>6. QED
    BY <2>3, <2>4, <2>5, WordsAssumption
<1>2. ASSUME NEW n, Search(n) # 0
      PROVE  \E x \in Listing(blocks) : x[1] = n
  <2>1. Places(n) # {}
    BY <1>2 DEF Search
  <2>2. PICK i \in DOMAIN blocks : n \in NamesOf(blocks[i])
    BY <2>1, FoundInListing
  <2>3. PICK x \in Listed(blocks[i]) : x[1] = n
    BY <2>2, NamesListed
  <2>4. QED
    BY <2>3 DEF Listing
<1>3. DOMAIN Found = {n \in Name \cup Fixed : Search(n) # 0}
  BY DEF Found
<1>4. \A n \in DOMAIN Found : Found[n] = Search(n)
  BY DEF Found
<1>5. Found = [n \in DOMAIN Found |-> Found[n]]
  BY DEF Found
<1> HIDE DEF Found
<1>6. \A n : n \in DOMAIN Found <=> \E x \in Listing(blocks) : x[1] = n
  BY <1>1, <1>2, <1>3
<1>7. DOMAIN Found = {x[1] : x \in Listing(blocks)}
  BY <1>6
<1>8. \A x \in Listing(blocks) : Found[x[1]] = x[2]
  BY <1>1, <1>4, <1>6
<1>9. QED
  BY <1>5, <1>7, <1>8 DEF Holds

-----------------------------------------------------------------------------
(* The inductive invariant.                                                *)

Bounded == MayOverrun = FALSE /\ MayOverlap = FALSE

\* The loop of remove_entry works on a copy of the block that holds the name.
ShiftInv(i, t, off) ==
    /\ i \in DOMAIN blocks /\ t \in Nat /\ off \in Nat
    /\ \E p \in Starts(blocks[i]) :
        /\ NameAt(blocks[i], p) \in Name
        /\ Separate(blocks[i], p)
        /\ Shifting(blocks[i], Starts(blocks[i]), p, off, buf, t)

IInv ==
    /\ DirInv(blocks)
    /\ size = Len(blocks)
    /\ buf \in Contents
    /\ \/ cur = Idle
       \/ /\ cur = [pc |-> "shift", i |-> cur.i, len |-> cur.len, offset |-> cur.offset]
          /\ ShiftInv(cur.i, cur.len, cur.offset)

\* The names in the first block of a new directory.
LEMMA FirstBlockIs ==
    LET b == FirstBlock(Self, Up) IN
    Sound(b) /\ Fixed \subseteq NamesOf(b) /\ NamesOf(b) \subseteq Fixed
<1> DEFINE b == FirstBlock(Self, Up)
<1>1. Sound(b)
  BY TwoEntries, SoundStarts
<1>2. Listed(b) = {<<Dot, Self>>, <<DotDot, Up>>}
  BY TwoEntries
<1> HIDE DEF b
<1>3. Dot \in NamesOf(b) /\ DotDot \in NamesOf(b)
  <2>1. <<Dot, Self>> \in Listed(b) /\ <<DotDot, Up>> \in Listed(b)
    BY <1>2
  <2>2. <<Dot, Self>>[1] = Dot /\ <<DotDot, Up>>[1] = DotDot
    OBVIOUS
  <2>3. QED
    BY <2>1, <2>2, NamesListed
<1>4. ASSUME NEW n \in NamesOf(b)
      PROVE  n \in Fixed
  <2>1. PICK x \in Listed(b) : x[1] = n
    BY NamesListed
  <2>2. x[1] = Dot \/ x[1] = DotDot
    BY <1>2, <2>1
  <2>3. QED
    BY <2>1, <2>2 DEF Fixed
<1>5. QED
  BY <1>1, <1>3, <1>4 DEF Fixed, b

\* A new directory, and one with a second block, satisfy the invariant.
LEMMA InitInv == Init => IInv
<1> SUFFICES ASSUME Init
             PROVE  IInv
  OBVIOUS
<1> DEFINE b == FirstBlock(Self, Up)
<1>1. Sound(b) /\ Fixed \subseteq NamesOf(b) /\ NamesOf(b) \subseteq Fixed
  BY FirstBlockIs
<1>2. b \in Contents
  BY <1>1 DEF Sound, SoundWith
<1>3. size = Len(blocks) /\ cur = Idle /\ buf \in Contents
  BY DEF Init, Zeros, Contents
<1>4. CASE blocks = <<b>>
  <2>1. blocks \in Seq(Contents) /\ Len(blocks) = 1 /\ DOMAIN blocks = {1} /\ blocks[1] = b
    <3> HIDE DEF b
    <3>1. QED
      BY <1>2, <1>4
  <2> HIDE DEF b
  <2>2. DirInv(blocks)
    BY <1>1, <2>1 DEF DirInv
  <2>3. QED
    BY <1>3, <2>2 DEF IInv
<1>5. ASSUME NEW name \in Name, NEW ino \in Ino,
             blocks = <<b, Placed(Zeros, 0, ino, name, NWORDS)>>
      PROVE  IInv
  <2> DEFINE c == Placed(Zeros, 0, ino, name, NWORDS)
  <2>1. SoundWith(c, {0}) /\ Listed(c) = {<<name, ino>>}
    BY OneEntry
  <2>2. blocks = <<b, c>>
    BY <1>5
  <2> HIDE DEF b, c
  <2>3. Sound(c) /\ c \in Contents
    BY <2>1, SoundStarts DEF SoundWith
  <2>4. NamesOf(c) \subseteq {name}
    <3>1. \A x \in Listed(c) : x[1] = name
      BY <2>1
    <3>2. QED
      BY <3>1, NamesListed
  <2>5. /\ blocks \in Seq(Contents) /\ Len(blocks) = 2 /\ DOMAIN blocks = {1, 2}
        /\ blocks[1] = b /\ blocks[2] = c
    BY <1>2, <2>2, <2>3
  <2>6. name \notin Fixed
    BY WordsAssumption
  <2>7. DirInv(blocks)
    <3>1. NamesOf(b) \cap NamesOf(c) = {}
      BY <1>1, <2>4, <2>6
    <3>2. QED
      BY <1>1, <2>3, <2>5, <3>1 DEF DirInv
  <2>8. QED
    BY <1>3, <2>7 DEF IInv
<1>6. QED
  BY <1>4, <1>5 DEF Init

-----------------------------------------------------------------------------
(* The steps.  Each is shown to keep the invariant and to add one name to  *)
(* the listing of the blocks, to take one away, or to leave it as it is.   *)

Now == Listing(blocks)

InsertStep(name, ino) ==
    /\ IInv'
    /\ \A x \in Now : x[1] # name
    /\ Now' = Now \cup {<<name, ino>>}

DropStep(name) ==
    /\ IInv'
    /\ \E x \in Now : x[1] = name
    /\ Now' = Removed(Now, name)

\* insert_entry adds a name.
LEMMA InsertKeeps ==
    ASSUME Bounded, IInv, NEW name \in Name, NEW ino \in Ino, Insert(name, ino)
    PROVE  InsertStep(name, ino)
<1> DEFINE i == Len(blocks)
           b == blocks[i]
           last == LastStart(b)
           len == Ideal(NameLen(b, last))
           end == last + len
           a == SetRecLen(b, last, len)
           c == Placed(a, end, ino, name, NWORDS - end)
<1>1. DirInv(blocks) /\ size = Len(blocks) /\ buf \in Contents /\ cur = Idle
  BY DEF IInv, Insert
<1>2. i \in DOMAIN blocks /\ SoundWith(b, Starts(b))
  BY <1>1, DirIs
<1>3. \A j \in DOMAIN blocks : name \notin NamesOf(blocks[j])
  BY <1>1, FoundInListing DEF Insert
<1>4. /\ last \in Nat /\ NameLen(b, last) \in Nat /\ len = 2 + NameLen(b, last)
      /\ len <= RecLen(b, last) /\ last + RecLen(b, last) = NWORDS /\ RecLen(b, last) \in Nat
  <2> HIDE DEF b
  <2>1. last \in Starts(b) /\ last + RecLen(b, last) = NWORDS
    BY <1>2, LastIs
  <2> HIDE DEF last
  <2>2. QED
    BY <1>2, <2>1, EntryFits
<1>5. /\ blocks' = [blocks EXCEPT ![i] = c] /\ end + Ideal(Len(name)) <= NWORDS
      /\ UNCHANGED <<size, cur, buf>>
  <2>1. NWORDS - last >= len /\ ~(end + Ideal(Len(name)) > NWORDS)
        /\ end + Ideal(Len(name)) <= NWORDS
    <3>1. end + Ideal(Len(name)) <= NWORDS
      BY DEF Insert, Bounded
    <3>2. Len(name) \in Nat
      BY WordsAssumption
    <3>3. end \in Nat /\ Ideal(Len(name)) \in Nat /\ NWORDS \in Nat
      BY <1>4, <3>2, WordsAre DEF Ideal
    <3> HIDE DEF end, len, last, b
    <3>4. ~(end + Ideal(Len(name)) > NWORDS)
      BY <3>1, <3>3
    <3>5. NWORDS - last >= len
      BY <1>4, WordsAre
    <3>6. QED
      BY <3>1, <3>4, <3>5
  <2>2. QED
    BY <2>1 DEF Insert
<1>6. Insertion(b, name, ino, last, len, end, a, c)
  BY <1>5 DEF Insertion
<1>7. len \in Nat /\ end \in Nat
  BY <1>4
<1> HIDE DEF c, a, end, len, last
<1>8. b = blocks[i] /\ Sound(b) /\ name \notin NamesOf(b)
  BY <1>2, <1>3 DEF Sound
<1> HIDE DEF b, i
<1>9. Sound(c) /\ Gains(b, c, name, ino)
  BY <1>4, <1>6, <1>7, <1>8, InsertIntoSound
<1>10. DirInv(blocks') /\ Len(blocks') = Len(blocks) /\ Listing(blocks') = Listing(blocks) \cup {<<name, ino>>}
  <2>1. Replaced(blocks, i, c, blocks')
    BY <1>5 DEF Replaced
  <2>2. QED
    BY <1>1, <1>2, <1>3, <1>8, <1>9, <2>1, BlockGains
<1>11. IInv'
  BY <1>1, <1>5, <1>10 DEF IInv, Idle
<1>12. \A x \in Now : x[1] # name
  BY <1>3, NamesListed DEF Now, Listing
<1>13. QED
  BY <1>10, <1>11, <1>12 DEF InsertStep, Now

\* What the three cases of remove_entry begin with.
Located(name, i, p) ==
    /\ i \in DOMAIN blocks /\ p \in Starts(blocks[i])
    /\ Place(name)[1] = i /\ Place(name)[2] = p
    /\ NameAt(blocks[i], p) = name /\ name \in NamesOf(blocks[i])
    /\ SoundWith(blocks[i], Starts(blocks[i]))
    /\ name \notin Fixed /\ \E x \in Now : x[1] = name

\* A name that is found has a place.
LEMMA PlaceFound ==
    ASSUME IInv, NEW name \in Name, Places(name) # {}
    PROVE  \E i, p : Located(name, i, p)
<1>1. DirInv(blocks)
  BY DEF IInv
<1>2. PICK i \in DOMAIN blocks : name \in NamesOf(blocks[i])
  BY <1>1, FoundInListing
<1>3. PICK p \in Starts(blocks[i]) : name = NameAt(blocks[i], p)
  BY <1>2 DEF NamesOf
<1>4. Place(name) = <<i, p>>
  BY <1>1, <1>3, PlaceIs
<1>5. SoundWith(blocks[i], Starts(blocks[i]))
  BY <1>1, DirIs
<1>6. name \notin Fixed
  BY WordsAssumption
<1>7. \E x \in Now : x[1] = name
  <2>1. PICK x \in Listed(blocks[i]) : x[1] = name
    BY <1>2, NamesListed
  <2>2. QED
    BY <2>1 DEF Now, Listing
<1>8. Place(name)[1] = i /\ Place(name)[2] = p
  BY <1>4
<1>9. QED
  BY <1>2, <1>3, <1>5, <1>6, <1>7, <1>8 DEF Located

\* remove_entry of the only entry of a block takes its name away.
LEMMA RemoveOnlyKeeps ==
    ASSUME IInv, NEW name \in Name, RemoveOnly(name)
    PROVE  DropStep(name)
<1>1. DirInv(blocks) /\ size = Len(blocks) /\ buf \in Contents /\ cur = Idle
  BY DEF IInv, RemoveOnly
<1>2. PICK i, p : Located(name, i, p)
  BY PlaceFound DEF RemoveOnly
<1>3. /\ i \in DOMAIN blocks /\ p \in Starts(blocks[i])
      /\ Place(name)[1] = i /\ Place(name)[2] = p
      /\ NameAt(blocks[i], p) = name /\ name \in NamesOf(blocks[i])
      /\ SoundWith(blocks[i], Starts(blocks[i]))
      /\ name \notin Fixed /\ \E x \in Now : x[1] = name
  BY <1>2 DEF Located
<1>4. Only(blocks[i], p) /\ blocks' = Without(blocks, i) /\ UNCHANGED <<buf, cur>> /\ size' = size - 1
  BY <1>3 DEF RemoveOnly, Without
<1>5. Less(blocks[i], name) = {}
  BY <1>3, <1>4, OnlyIs
<1>6. DirInv(blocks') /\ Len(blocks') = Len(blocks) - 1 /\ Listing(blocks') = Removed(Listing(blocks), name)
  BY <1>1, <1>3, <1>4, <1>5, BlockGoes
<1>7. IInv'
  BY <1>1, <1>4, <1>6 DEF IInv, Idle
<1>8. QED
  BY <1>3, <1>6, <1>7 DEF DropStep, Now

\* remove_entry of the last entry takes its name away.
LEMMA RemoveLastKeeps ==
    ASSUME IInv, NEW name \in Name, RemoveLast(name)
    PROVE  DropStep(name)
<1>1. DirInv(blocks) /\ size = Len(blocks) /\ buf \in Contents /\ cur = Idle
  BY DEF IInv, RemoveLast
<1>2. PICK i, p : Located(name, i, p)
  BY PlaceFound DEF RemoveLast
<1>3. /\ i \in DOMAIN blocks /\ p \in Starts(blocks[i])
      /\ Place(name)[1] = i /\ Place(name)[2] = p
      /\ NameAt(blocks[i], p) = name /\ name \in NamesOf(blocks[i])
      /\ SoundWith(blocks[i], Starts(blocks[i]))
      /\ name \notin Fixed /\ \E x \in Now : x[1] = name
  BY <1>2 DEF Located
<1>4. AtEnd(blocks[i], p) /\ UNCHANGED <<size, buf, cur>>
  BY <1>3 DEF RemoveLast
<1>5. PICK pre \in Starts(blocks[i]) :
          /\ pre + RecLen(blocks[i], pre) = p
          /\ Replaced(blocks, i, SetRecLen(blocks[i], pre, NWORDS - pre), blocks')
  BY <1>3 DEF RemoveLast, Replaced
<1> DEFINE c == SetRecLen(blocks[i], pre, NWORDS - pre)
<1>6. SoundWith(c, Starts(blocks[i]) \ {p}) /\ Listed(c) = Less(blocks[i], NameAt(blocks[i], p))
  BY <1>3, <1>4, <1>5, RemoveAtEnd
<1>7. Replaced(blocks, i, c, blocks')
  BY <1>5
<1> HIDE DEF c
<1>8. Sound(c) /\ Listed(c) = Less(blocks[i], name)
  BY <1>3, <1>6, SoundStarts
<1>9. DirInv(blocks') /\ Len(blocks') = Len(blocks) /\ Listing(blocks') = Removed(Listing(blocks), name)
  BY <1>1, <1>3, <1>7, <1>8, BlockLoses
<1>10. IInv'
  BY <1>1, <1>4, <1>9 DEF IInv, Idle
<1>11. QED
  BY <1>3, <1>9, <1>10 DEF DropStep, Now

\* remove_entry of another entry begins with the blocks as they are.
LEMMA RemoveMiddleKeeps ==
    ASSUME Bounded, IInv, NEW name \in Name, RemoveMiddle(name)
    PROVE  IInv' /\ UNCHANGED blocks
<1>1. DirInv(blocks) /\ size = Len(blocks) /\ buf \in Contents /\ cur = Idle
  BY DEF IInv, RemoveMiddle
<1>2. PICK i, p : Located(name, i, p)
  BY PlaceFound DEF RemoveMiddle
<1>3. /\ i \in DOMAIN blocks /\ p \in Starts(blocks[i])
      /\ Place(name)[1] = i /\ Place(name)[2] = p
      /\ NameAt(blocks[i], p) = name /\ name \in NamesOf(blocks[i])
      /\ SoundWith(blocks[i], Starts(blocks[i]))
      /\ name \notin Fixed /\ \E x \in Now : x[1] = name
  BY <1>2 DEF Located
<1>4. /\ ~AtEnd(blocks[i], p) /\ Separate(blocks[i], p) /\ buf' = blocks[i]
      /\ cur' = [pc |-> "shift", i |-> i, len |-> p, offset |-> RecLen(blocks[i], p)]
      /\ UNCHANGED <<blocks, size>>
  BY <1>3 DEF RemoveMiddle, Bounded
<1>5. Shifting(blocks[i], Starts(blocks[i]), p, RecLen(blocks[i], p), buf', p)
  BY <1>3, <1>4, ShiftingBegins
<1>6. p \in Nat /\ RecLen(blocks[i], p) \in Nat /\ blocks[i] \in Contents
  BY <1>3, EntryFits DEF SoundWith
<1>7. ShiftInv(i, p, RecLen(blocks[i], p))'
  <2>1. i \in DOMAIN blocks' /\ p \in Starts(blocks'[i]) /\ NameAt(blocks'[i], p) \in Name
        /\ Separate(blocks'[i], p)
    BY <1>3, <1>4
  <2>2. Shifting(blocks'[i], Starts(blocks'[i]), p, RecLen(blocks'[i], p), buf', p)
    BY <1>4, <1>5
  <2>3. RecLen(blocks'[i], p) \in Nat
    BY <1>4, <1>6
  <2>4. QED
    BY <1>6, <2>1, <2>2, <2>3 DEF ShiftInv
<1>8. cur'.pc = "shift" /\ cur'.i = i /\ cur'.len = p /\ cur'.offset = RecLen(blocks[i], p)
  BY <1>4
<1>9. IInv'
  <2>1. DirInv(blocks') /\ size' = Len(blocks') /\ buf' \in Contents
    BY <1>1, <1>4, <1>6
  <2>2. cur' = [pc |-> "shift", i |-> cur'.i, len |-> cur'.len, offset |-> cur'.offset]
    BY <1>4
  <2>3. ShiftInv(cur.i, cur.len, cur.offset)'
    BY <1>4, <1>7, <1>8
  <2>4. QED
    BY <2>1, <2>2, <2>3 DEF IInv
<1>10. QED
  BY <1>4, <1>9

\* Between two passes of the loop.
LEMMA ShiftIs ==
    ASSUME IInv, cur.pc = "shift"
    PROVE  /\ DirInv(blocks) /\ size = Len(blocks) /\ buf \in Contents
           /\ cur = [pc |-> "shift", i |-> cur.i, len |-> cur.len, offset |-> cur.offset]
           /\ ShiftInv(cur.i, cur.len, cur.offset)
<1>1. cur # Idle
  BY DEF Idle
<1>2. QED
  BY <1>1 DEF IInv

\* The pass of the loop in terms of its locals.
LEMMA CopiedHere ==
    To = cur.len /\ From = cur.len + cur.offset /\ Copied = CopiedOf(buf, cur.len, cur.offset)
BY DEF To, From, Copied, CopiedOf

\* A pass changes the copy only.
LEMMA ShiftPassKeeps ==
    ASSUME IInv, ShiftPass
    PROVE  IInv' /\ UNCHANGED blocks
<1>1. /\ DirInv(blocks) /\ size = Len(blocks) /\ buf \in Contents
      /\ cur = [pc |-> "shift", i |-> cur.i, len |-> cur.len, offset |-> cur.offset]
      /\ ShiftInv(cur.i, cur.len, cur.offset)
  BY ShiftIs DEF ShiftPass
<1>2. PICK i, t, off : i = cur.i /\ t = cur.len /\ off = cur.offset
  OBVIOUS
<1>3. i \in DOMAIN blocks /\ t \in Nat /\ off \in Nat
  BY <1>1, <1>2 DEF ShiftInv
<1>4. PICK p \in Starts(blocks[i]) :
        /\ NameAt(blocks[i], p) \in Name
        /\ Separate(blocks[i], p)
        /\ Shifting(blocks[i], Starts(blocks[i]), p, off, buf, t)
  BY <1>1, <1>2 DEF ShiftInv
<1>5. PICK b, S : b = blocks[i] /\ S = Starts(b)
  OBVIOUS
<1>6. SoundWith(b, S) /\ p \in S /\ Shifting(b, S, p, off, buf, t)
  BY <1>1, <1>3, <1>4, <1>5, DirIs
<1>7. PICK from : from = t + off
  OBVIOUS
<1>8. /\ from \in S /\ from \in Nat /\ p < from /\ off = RecLen(b, p)
      /\ RecLen(buf, from) = RecLen(b, from)
  BY <1>3, <1>6, <1>7, ShiftingFrom
<1>9. PICK g, rl, h, next : /\ g = CopiedOf(buf, t, off) /\ rl = RecLen(g, from)
                            /\ h = SetRecLen(g, t, rl) /\ next = from + rl
  OBVIOUS
<1>10. To = t /\ From = from /\ Copied = g
  BY <1>2, <1>7, <1>9, CopiedHere
<1>11. ~AtEnd(b, from)
  <2>1. from + RecLen(b, from) < NWORDS
    BY <1>8, <1>10 DEF ShiftPass
  <2>2. from + RecLen(b, from) \in Nat
    BY <1>6, <1>8, EntryFits
  <2>3. QED
    BY <2>1, <2>2, WordsAre DEF AtEnd
<1>12. NameLen(b, from) < off
  BY <1>4, <1>5, <1>8, <1>11 DEF Separate
<1>13. /\ rl \in Nat /\ t + rl \in Nat
       /\ Shifting(b, S, p, off, h, t + rl)
       /\ next + 1 \in Index /\ RecLen(h, next) # 0
  BY <1>3, <1>6, <1>7, <1>8, <1>9, <1>11, <1>12, ShiftingGoesOn
<1>14. buf' = h /\ cur' = [cur EXCEPT !.len = @ + rl] /\ UNCHANGED <<blocks, size>>
  BY <1>9, <1>10, <1>13 DEF ShiftPass
<1>15. /\ cur' = [pc |-> "shift", i |-> cur'.i, len |-> cur'.len, offset |-> cur'.offset]
       /\ cur'.i = i /\ cur'.len = t + rl /\ cur'.offset = off
  BY <1>1, <1>2, <1>14
<1>16. ShiftInv(cur.i, cur.len, cur.offset)'
  BY <1>3, <1>4, <1>5, <1>13, <1>14, <1>15 DEF ShiftInv
<1>17. h \in Contents
  BY <1>13 DEF Shifting
<1>18. QED
  BY <1>1, <1>14, <1>15, <1>16, <1>17 DEF IInv

\* The last pass takes the name away.
LEMMA ShiftLastKeeps ==
    ASSUME IInv, ShiftLast
    PROVE  \E name \in Name : DropStep(name)
<1>1. /\ DirInv(blocks) /\ size = Len(blocks) /\ buf \in Contents
      /\ cur = [pc |-> "shift", i |-> cur.i, len |-> cur.len, offset |-> cur.offset]
      /\ ShiftInv(cur.i, cur.len, cur.offset)
  BY ShiftIs DEF ShiftLast
<1>2. PICK i, t, off : i = cur.i /\ t = cur.len /\ off = cur.offset
  OBVIOUS
<1>3. i \in DOMAIN blocks /\ t \in Nat /\ off \in Nat
  BY <1>1, <1>2 DEF ShiftInv
<1>4. PICK p \in Starts(blocks[i]) :
        /\ NameAt(blocks[i], p) \in Name
        /\ Separate(blocks[i], p)
        /\ Shifting(blocks[i], Starts(blocks[i]), p, off, buf, t)
  BY <1>1, <1>2 DEF ShiftInv
<1>5. PICK b, S, name : b = blocks[i] /\ S = Starts(b) /\ name = NameAt(b, p)
  OBVIOUS
<1>6. SoundWith(b, S) /\ p \in S /\ Shifting(b, S, p, off, buf, t)
  BY <1>1, <1>3, <1>4, <1>5, DirIs
<1>7. PICK from : from = t + off
  OBVIOUS
<1>8. from \in S /\ from \in Nat /\ RecLen(buf, from) = RecLen(b, from)
  BY <1>3, <1>6, <1>7, ShiftingFrom
<1>9. PICK g, h : g = CopiedOf(buf, t, off) /\ h = SetRecLen(g, t, NWORDS - t)
  OBVIOUS
<1>10. To = t /\ From = from /\ Copied = g
  BY <1>2, <1>7, <1>9, CopiedHere
<1>11. AtEnd(b, from)
  <2>1. from + RecLen(b, from) >= NWORDS
    BY <1>8, <1>10 DEF ShiftLast
  <2>2. from + RecLen(b, from) \in Nat /\ from + RecLen(b, from) <= NWORDS
    BY <1>6, <1>8, EntryFits
  <2>3. QED
    BY <2>1, <2>2, WordsAre DEF AtEnd
<1>12. Sound(h) /\ Listed(h) = Less(b, name)
  <2>1. Sound(h) /\ Listed(h) = Less(b, NameAt(b, p))
    BY <1>3, <1>6, <1>7, <1>8, <1>9, <1>11, ShiftingEndsSound
  <2>2. QED
    BY <1>5, <2>1
<1>13. Replaced(blocks, i, h, blocks') /\ cur' = Idle /\ buf' = Zeros /\ UNCHANGED size
  BY <1>2, <1>9, <1>10 DEF ShiftLast, Replaced
<1>14. name \in Name /\ name \notin Fixed /\ name \in NamesOf(blocks[i])
  BY <1>4, <1>5, WordsAssumption DEF NamesOf
<1>15. DirInv(blocks') /\ Len(blocks') = Len(blocks) /\ Listing(blocks') = Removed(Listing(blocks), name)
  BY <1>1, <1>3, <1>5, <1>12, <1>13, <1>14, BlockLoses
<1>16. \E x \in Now : x[1] = name
  <2>1. PICK x \in Listed(blocks[i]) : x[1] = name
    BY <1>14, NamesListed
  <2>2. QED
    BY <1>3, <2>1 DEF Now, Listing
<1>17. Zeros \in Contents
  BY DEF Zeros, Contents
<1>18. IInv'
  BY <1>1, <1>13, <1>15, <1>17 DEF IInv, Idle
<1>19. QED
  BY <1>14, <1>15, <1>16, <1>18 DEF DropStep, Now

\* A step that changes nothing.
LEMMA StutterKeeps ==
    ASSUME IInv, UNCHANGED vars
    PROVE  IInv'
<1>1. UNCHANGED <<blocks, size, buf, cur>>
  BY DEF vars
<1>2. DirInv(blocks') /\ size' = Len(blocks') /\ buf' \in Contents
  BY <1>1 DEF IInv
<1>3. CASE cur = Idle
  BY <1>1, <1>2, <1>3 DEF IInv, Idle
<1>4. CASE cur # Idle
  <2>1. /\ cur = [pc |-> "shift", i |-> cur.i, len |-> cur.len, offset |-> cur.offset]
        /\ ShiftInv(cur.i, cur.len, cur.offset)
    BY <1>4 DEF IInv
  <2>2. ShiftInv(cur.i, cur.len, cur.offset)'
    BY <1>1, <2>1 DEF ShiftInv
  <2>3. QED
    BY <1>1, <1>2, <2>1, <2>2 DEF IInv
<1>5. QED
  BY <1>3, <1>4

\* What a step does to the listing.
LEMMA StepIs ==
    ASSUME Bounded, IInv, [Next]_vars
    PROVE  /\ IInv'
           /\ \/ \E name \in Name, ino \in Ino : InsertStep(name, ino)
              \/ \E name \in Name : DropStep(name)
              \/ UNCHANGED blocks
<1>1. ASSUME NEW name \in Name, NEW ino \in Ino, Insert(name, ino)
      PROVE  InsertStep(name, ino)
  BY <1>1, InsertKeeps
<1>2. ASSUME NEW name \in Name, RemoveOnly(name) \/ RemoveLast(name)
      PROVE  DropStep(name)
  BY <1>2, RemoveOnlyKeeps, RemoveLastKeeps
<1>3. ASSUME NEW name \in Name, RemoveMiddle(name)
      PROVE  IInv' /\ UNCHANGED blocks
  BY <1>3, RemoveMiddleKeeps
<1>4. CASE ShiftPass
  BY <1>4, ShiftPassKeeps
<1>5. CASE ShiftLast
  BY <1>5, ShiftLastKeeps DEF DropStep
<1>6. CASE UNCHANGED vars
  BY <1>6, StutterKeeps DEF vars
<1>7. CASE Next
  BY <1>1, <1>2, <1>3, <1>4, <1>5, <1>7 DEF Next, InsertStep, DropStep
<1>8. QED
  BY <1>6, <1>7

\* The invariant holds in every state.
LEMMA Invariance == ASSUME Bounded PROVE Spec => []IInv
<1>1. Init => IInv
  BY InitInv
<1>2. IInv /\ [Next]_vars => IInv'
  BY StepIs
<1>3. QED
  BY <1>1, <1>2, PTL DEF Spec

-----------------------------------------------------------------------------
(* The theorems.                                                           *)

\* Every variable has its type: blocks hold numbers in all their words, i_size
\* is the number of blocks, and the loop that moves entries stays in its block.
THEOREM TypeCorrect == ASSUME Bounded PROVE Spec => []TypeOK
<1>1. IInv => TypeOK
  <2> SUFFICES ASSUME IInv
               PROVE  TypeOK
    OBVIOUS
  <2>1. blocks \in Seq([Index -> Nat]) /\ size = Len(blocks) /\ size \in 1 .. 12 /\ buf \in [Index -> Nat]
    BY DEF IInv, DirInv, Contents
  <2>2. CASE cur = Idle
    <3>1. cur.pc = "idle"
      BY <2>2 DEF Idle
    <3>2. QED
      BY <2>1, <3>1 DEF TypeOK
  <2>3. CASE cur # Idle
    <3>1. /\ cur = [pc |-> "shift", i |-> cur.i, len |-> cur.len, offset |-> cur.offset]
          /\ ShiftInv(cur.i, cur.len, cur.offset)
      BY <2>3 DEF IInv
    <3>2. cur.pc = "shift"
      BY <3>1
    <3>3. PICK i, t, off : i = cur.i /\ t = cur.len /\ off = cur.offset
      OBVIOUS
    <3>4. i \in DOMAIN blocks /\ t \in Nat /\ off \in Nat /\ t + off \in Starts(blocks[i])
      BY <3>1, <3>3 DEF ShiftInv, Shifting
    <3>5. t + off \in Index
      <4>1. SoundWith(blocks[i], Starts(blocks[i]))
        BY <3>4, DirIs DEF IInv
      <4>2. QED
        BY <3>4, <4>1 DEF SoundWith, Chain
    <3>6. t \in Index /\ off \in Index
      BY <3>4, <3>5, WordsAre DEF Index
    <3>7. QED
      BY <2>1, <3>2, <3>3, <3>4, <3>6 DEF TypeOK
  <2>4. QED
    BY <2>2, <2>3
<1>2. QED
  BY <1>1, Invariance, PTL

\* Entries lie one behind the other up to the end of each block, and but the
\* last each is exactly as long as its name needs.
THEOREM BlocksAreTiled == ASSUME Bounded PROVE Spec => []BlocksTiled
<1>1. IInv => BlocksTiled
  <2> SUFFICES ASSUME IInv, NEW i \in DOMAIN blocks
               PROVE  EntriesTile(blocks[i])
    BY DEF BlocksTiled
  <2>1. SoundWith(blocks[i], Starts(blocks[i]))
    BY DirIs DEF IInv
  <2>2. QED
    BY <2>1 DEF SoundWith, Chain, Sized, EntriesTile
<1>2. QED
  BY <1>1, Invariance, PTL

\* What a listing says of the function that holds it.
LEMMA AddsName ==
    ASSUME NEW e, NEW e2, NEW L, NEW L2, Holds(e, L), Holds(e2, L2), NEW name, NEW ino,
           \A x \in L : x[1] # name, L2 = L \cup {<<name, ino>>}
    PROVE  name \notin DOMAIN e /\ e2 = Names!With(e, name, ino)
<1>1. /\ \A n : n \in DOMAIN e <=> \E x \in L : x[1] = n
      /\ \A n : n \in DOMAIN e2 <=> \E x \in L2 : x[1] = n
  BY DEF Holds
<1>2. /\ e = [n \in DOMAIN e |-> e[n]] /\ e2 = [n \in DOMAIN e2 |-> e2[n]]
      /\ \A x \in L : e[x[1]] = x[2]
      /\ \A x \in L2 : e2[x[1]] = x[2]
  BY DEF Holds
<1>3. <<name, ino>>[1] = name /\ <<name, ino>>[2] = ino /\ <<name, ino>> \in L2
  OBVIOUS
<1>4. name \notin DOMAIN e
  BY <1>1
<1>5. DOMAIN e2 = DOMAIN e \cup {name}
  <2>1. \A n \in DOMAIN e2 : n \in DOMAIN e \cup {name}
    BY <1>1, <1>3
  <2>2. \A n \in DOMAIN e \cup {name} : n \in DOMAIN e2
    BY <1>1, <1>3
  <2>3. QED
    BY <2>1, <2>2
<1>6. e2[name] = ino
  BY <1>2, <1>3
<1>7. ASSUME NEW n \in DOMAIN e
      PROVE  e2[n] = e[n]
  <2>1. PICK x \in L : x[1] = n
    BY <1>1
  <2>2. x \in L2
    OBVIOUS
  <2>3. QED
    BY <1>2, <2>1, <2>2
<1>8. e2 = [n \in DOMAIN e \cup {name} |-> IF n = name THEN ino ELSE e[n]]
  <2>1. \A n \in DOMAIN e2 : e2[n] = IF n = name THEN ino ELSE e[n]
    BY <1>5, <1>6, <1>7
  <2>2. QED
    BY <1>2, <1>5, <2>1
<1>9. QED
  BY <1>4, <1>8 DEF Names!With

\* The same of a name that goes.
LEMMA DropsName ==
    ASSUME NEW e, NEW e2, NEW L, NEW L2, Holds(e, L), Holds(e2, L2), NEW name,
           \E x \in L : x[1] = name, L2 = Removed(L, name)
    PROVE  name \in DOMAIN e /\ e2 = Names!Without(e, name)
<1>1. /\ \A n : n \in DOMAIN e <=> \E x \in L : x[1] = n
      /\ \A n : n \in DOMAIN e2 <=> \E x \in L2 : x[1] = n
  BY DEF Holds
<1>2. /\ e2 = [n \in DOMAIN e2 |-> e2[n]]
      /\ \A x \in L : e[x[1]] = x[2]
      /\ \A x \in L2 : e2[x[1]] = x[2]
  BY DEF Holds
<1>3. \A x : x \in L2 <=> x \in L /\ x[1] # name
  BY DEF Removed
<1>4. DOMAIN e2 = DOMAIN e \ {name}
  <2>1. \A n : n \in DOMAIN e2 <=> n \in DOMAIN e /\ n # name
    BY <1>1, <1>3
  <2>2. QED
    BY <2>1
<1>5. ASSUME NEW n \in DOMAIN e2
      PROVE  e2[n] = e[n]
  <2>1. PICK x \in L2 : x[1] = n
    BY <1>1
  <2>2. QED
    BY <1>2, <1>3, <2>1
<1>6. e2 = [n \in DOMAIN e \ {name} |-> e[n]]
  BY <1>2, <1>4, <1>5
<1>7. QED
  BY <1>1, <1>6 DEF Names!Without

\* And of a listing that stays.
LEMMA SameNames ==
    ASSUME NEW e, NEW e2, NEW L, Holds(e, L), Holds(e2, L)
    PROVE  e2 = e
<1>1. DOMAIN e2 = DOMAIN e /\ \A n : n \in DOMAIN e <=> \E x \in L : x[1] = n
  BY DEF Holds
<1>2. e = [n \in DOMAIN e |-> e[n]] /\ e2 = [n \in DOMAIN e2 |-> e2[n]]
  BY DEF Holds
<1>3. \A n \in DOMAIN e : e2[n] = e[n]
  BY <1>1 DEF Holds
<1>4. QED
  BY <1>1, <1>2, <1>3

\* The names found are a function from names, with . and .., to inode numbers.
LEMMA FoundAtFirst == ASSUME IInv PROVE Names!Init
<1>1. DirInv(blocks) /\ Holds(Found, Listing(blocks))
  BY FoundIs DEF IInv
<1>2. ASSUME NEW n \in DOMAIN Found
      PROVE  n \in Name \cup Fixed /\ Found[n] \in Ino
  <2>1. PICK x \in Listing(blocks) : x[1] = n
    BY <1>1 DEF Holds
  <2>2. PICK i \in DOMAIN blocks : x \in Listed(blocks[i])
    BY <2>1 DEF Listing
  <2>3. PICK p \in Starts(blocks[i]) : x = <<NameAt(blocks[i], p), blocks[i][p]>>
    BY <2>2 DEF Listed
  <2>4. NameAt(blocks[i], p) \in Name \cup Fixed /\ blocks[i][p] \in Ino
    BY <1>1, DirIs DEF SoundWith
  <2>5. x[1] = NameAt(blocks[i], p) /\ x[2] = blocks[i][p]
    BY <2>3
  <2>6. Found[n] = x[2]
    BY <1>1, <2>1 DEF Holds
  <2>7. QED
    BY <2>1, <2>4, <2>5, <2>6
<1>3. Fixed \subseteq DOMAIN Found
  <2> SUFFICES ASSUME NEW n \in Fixed
               PROVE  n \in DOMAIN Found
    OBVIOUS
  <2>1. 1 \in DOMAIN blocks /\ n \in NamesOf(blocks[1])
    BY <1>1, DirIs DEF DirInv
  <2>2. PICK x \in Listed(blocks[1]) : x[1] = n
    BY <2>1, NamesListed
  <2>3. x \in Listing(blocks)
    BY <2>1, <2>2 DEF Listing
  <2>4. QED
    BY <1>1, <2>2, <2>3 DEF Holds
<1>4. Found = [n \in DOMAIN Found |-> Found[n]]
  BY <1>1 DEF Holds
<1> DEFINE S == DOMAIN Found
           T == S \cap Name
<1>5. S = Fixed \cup T /\ T \in SUBSET Name
  BY <1>2, <1>3
<1>6. Found \in [S -> Ino]
  BY <1>2, <1>4
<1> HIDE DEF S, T
<1>7. QED
  BY <1>5, <1>6 DEF Names!Init

\* Inserting adds a name that was not there to the function of names, removing
\* takes one away when it ends, and no pass that moves entries changes it.
THEOREM Refinement == ASSUME Bounded PROVE Spec => ImplementsDirectory
<1>1. Init => Names!Init
  BY InitInv, FoundAtFirst
<1>2. IInv /\ [Next]_vars => [Names!Next]_Found
  <2> SUFFICES ASSUME IInv, [Next]_vars
               PROVE  [Names!Next]_Found
    OBVIOUS
  <2>1. DirInv(blocks) => Holds(Found, Listing(blocks))
    BY FoundIs
  <2>2. (DirInv(blocks) => Holds(Found, Listing(blocks)))'
    BY FoundIs, PTL
  <2>3. Holds(Found, Now)
    BY <2>1 DEF IInv, Now
  <2>4. IInv'
    BY StepIs
  <2>5. Holds(Found', Now')
    BY <2>2, <2>4 DEF IInv, Now
  <2>6. CASE \E name \in Name, ino \in Ino : InsertStep(name, ino)
    <3>1. PICK name \in Name, ino \in Ino : InsertStep(name, ino)
      BY <2>6
    <3>2. name \notin DOMAIN Found /\ Found' = Names!With(Found, name, ino)
      BY <2>3, <2>5, <3>1, AddsName DEF InsertStep
    <3>3. QED
      BY <3>2 DEF Names!Next, Names!Add
  <2>7. CASE \E name \in Name : DropStep(name)
    <3>1. PICK name \in Name : DropStep(name)
      BY <2>7
    <3>2. name \in DOMAIN Found /\ Found' = Names!Without(Found, name)
      BY <2>3, <2>5, <3>1, DropsName DEF DropStep
    <3>3. QED
      BY <3>2 DEF Names!Next, Names!Drop
  <2>8. CASE UNCHANGED blocks
    <3>1. Now' = Now
      BY <2>8 DEF Now, Listing
    <3>2. QED
      BY <2>3, <2>5, <3>1, SameNames
  <2>9. QED
    BY <2>6, <2>7, <2>8, StepIs
<1>3. QED
  BY <1>1, <1>2, Invariance, PTL DEF Spec, ImplementsDirectory, Names!Spec

=============================================================================
