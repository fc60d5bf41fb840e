-------------------------- MODULE InodeCacheProofs --------------------------
(***************************************************************************)
(* Proofs about InodeCache for any number of slots, pointers and inodes.   *)
(***************************************************************************)
EXTENDS InodeCache, FiniteSetTheorems, TLAPS

LEMMA TypeStep == TypeOK /\ [Next]_vars => TypeOK'
<1> SUFFICES ASSUME TypeOK, [Next]_vars
             PROVE  TypeOK'
  OBVIOUS
<1> USE DEF TypeOK, MINODE
<1>1. ASSUME NEW c \in Client, NEW k \in Key, IgetHit(c, k)
      PROVE  TypeOK'
  BY <1>1 DEF IgetHit
<1>2. ASSUME NEW c \in Client, NEW k \in Key, IgetMiss(c, k)
      PROVE  TypeOK'
  BY <1>2 DEF IgetMiss
<1>3. ASSUME NEW c \in Client, NEW d \in Client, CopyPointer(c, d)
      PROVE  TypeOK'
  BY <1>3 DEF CopyPointer
<1>4. ASSUME NEW c \in Client, ReadInode(c)
      PROVE  TypeOK'
  BY <1>4 DEF ReadInode
<1>5. ASSUME NEW c \in Client, NEW v \in Inode, WriteInode(c, v)
      PROVE  TypeOK'
  BY <1>5 DEF WriteInode
<1>6. ASSUME NEW c \in Client, IputShared(c)
      PROVE  TypeOK'
  <2>1. m_inodes' \in [Slot -> MINODE]
    BY <1>6 DEF IputShared
  <2>2. QED
    BY <1>6, <2>1 DEF IputShared
<1>7. ASSUME NEW c \in Client, IputLast(c)
      PROVE  TypeOK'
  BY <1>7 DEF IputLast, Cleared
<1>8. ASSUME NEW c \in Client, LosePointer(c)
      PROVE  TypeOK'
  <2>1. lost' \in [Slot -> 0 .. MaxLost]
    BY <1>8, LostAssumption DEF LosePointer
  <2>2. QED
    BY <1>8, <2>1 DEF LosePointer
<1>9. CASE Quit
  BY <1>9, LostAssumption DEF Quit, Cached, Cleared
<1>10. QED
  BY <1>1, <1>2, <1>3, <1>4, <1>5, <1>6, <1>7, <1>8, <1>9 DEF Next, vars, IgetFull

-----------------------------------------------------------------------------
(* The number of pointers to a slot, when a pointer is set or reset.        *)

LEMMA HoldersFinite ==
    ASSUME NEW i
    PROVE  IsFiniteSet(Holders(i)) /\ Cardinality(Holders(i)) \in Nat
<1>1. IsFiniteSet(Holders(i))
  BY ClientAssumption, FS_Subset DEF Holders
<1>2. QED
  BY <1>1, FS_CardinalityType

LEMMA GainHolder ==
    ASSUME TypeOK, NEW c \in Client, ptr[c] = NULL, NEW i \in Slot,
           ptr' = [ptr EXCEPT ![c] = i], NEW j \in Slot
    PROVE  Cardinality(Holders(j)') =
             IF j = i THEN Cardinality(Holders(j)) + 1 ELSE Cardinality(Holders(j))
<1>1. NULL \notin Slot
  BY NMINODESAssumption DEF NULL, Slot
<1>2. CASE j = i
  <2>1. Holders(j)' = Holders(j) \cup {c} /\ c \notin Holders(j)
    BY <1>1, <1>2 DEF TypeOK, Holders
  <2>2. QED
    BY <1>2, <2>1, HoldersFinite, FS_AddElement
<1>3. CASE j # i
  <2>1. Holders(j)' = Holders(j)
    BY <1>1, <1>3 DEF TypeOK, Holders
  <2>2. QED
    BY <1>3, <2>1
<1>4. QED
  BY <1>2, <1>3

LEMMA LoseHolder ==
    ASSUME TypeOK, NEW c \in Client, ptr[c] # NULL,
           ptr' = [ptr EXCEPT ![c] = NULL], NEW j \in Slot
    PROVE  Cardinality(Holders(j)') =
             IF j = ptr[c] THEN Cardinality(Holders(j)) - 1 ELSE Cardinality(Holders(j))
<1>1. NULL \notin Slot
  BY NMINODESAssumption DEF NULL, Slot
<1>2. CASE j = ptr[c]
  <2>1. Holders(j)' = Holders(j) \ {c} /\ c \in Holders(j)
    BY <1>1, <1>2 DEF TypeOK, Holders
  <2>2. QED
    BY <1>2, <2>1, HoldersFinite, FS_RemoveElement
<1>3. CASE j # ptr[c]
  <2>1. Holders(j)' = Holders(j)
    BY <1>1, <1>3 DEF TypeOK, Holders
  <2>2. QED
    BY <1>3, <2>1
<1>4. QED
  BY <1>2, <1>3

\* A pointer that is not NULL points at a slot in use.
LEMMA HolderInUse ==
    ASSUME TypeOK, RefCountAccounted, NEW c \in Client, ptr[c] # NULL
    PROVE  /\ ptr[c] \in Slot
           /\ m_inodes[ptr[c]].ref_count \in Nat
           /\ m_inodes[ptr[c]].ref_count > 0
<1>1. ptr[c] \in Slot
  BY DEF TypeOK
<1>2. c \in Holders(ptr[c])
  BY DEF Holders
<1>3. Cardinality(Holders(ptr[c])) # 0
  BY <1>2, HoldersFinite, FS_EmptySet
<1>4. lost[ptr[c]] \in Nat
  BY <1>1, LostAssumption DEF TypeOK
<1>5. QED
  BY <1>1, <1>3, <1>4, HoldersFinite DEF RefCountAccounted

-----------------------------------------------------------------------------
(* The invariants of the runs are inductive together: that ref_count counts *)
(* no fewer than the pointers keeps a slot from being recycled under one of them, which   *)
(* keeps copies unique, which makes a write-back safe for the clean slots.  *)

IInv ==
    /\ TypeOK
    /\ RefCountAccounted
    /\ UniqueCopy
    /\ CleanAgreesWithDisk

LEMMA InitIInv == Init => IInv
<1> SUFFICES ASSUME Init PROVE IInv
  OBVIOUS
<1>1. TypeOK
  BY NMINODESAssumption, LostAssumption DEF Init, TypeOK, MINODE, Slot, NULL
<1>2. RefCountAccounted
  <2>1. ASSUME NEW i \in Slot PROVE Holders(i) = {}
    BY NMINODESAssumption DEF Init, Holders, Slot, NULL
  <2>2. QED
    <3>1. \A i \in Slot : m_inodes[i].ref_count = 0 /\ lost[i] = 0
      BY DEF Init
    <3>2. QED
      BY <2>1, <3>1, FS_EmptySet DEF RefCountAccounted
<1>3. UniqueCopy
  BY DEF UniqueCopy, Init, Cached
<1>4. CleanAgreesWithDisk
  BY DEF CleanAgreesWithDisk, Init, Free
<1>5. QED
  BY <1>1, <1>2, <1>3, <1>4 DEF IInv

LEMMA RefCountStep == IInv /\ [Next]_vars => RefCountAccounted'
<1> SUFFICES ASSUME IInv, [Next]_vars, NEW j \in Slot
             PROVE  m_inodes'[j].ref_count = Cardinality(Holders(j)') + lost'[j]
  BY DEF RefCountAccounted, Holders
<1>t. TypeOK /\ RefCountAccounted
  BY DEF IInv
<1>0. /\ m_inodes[j].ref_count = Cardinality(Holders(j)) + lost[j]
      /\ Cardinality(Holders(j)) \in Nat /\ lost[j] \in Nat
  BY <1>t, HoldersFinite, LostAssumption DEF RefCountAccounted, TypeOK
<1>1. ASSUME NEW c \in Client, NEW k \in Key, IgetHit(c, k)
      PROVE  m_inodes'[j].ref_count = Cardinality(Holders(j)') + lost'[j]
  <2>1. PICK i \in Slot :
          /\ m_inodes' = [m_inodes EXCEPT ![i].ref_count = @ + 1]
          /\ ptr' = [ptr EXCEPT ![c] = i]
    BY <1>1 DEF IgetHit
  <2>2. Cardinality(Holders(j)') =
          IF j = i THEN Cardinality(Holders(j)) + 1 ELSE Cardinality(Holders(j))
    BY <1>t, <1>1, <2>1, GainHolder DEF IgetHit
  <2>3. m_inodes'[j].ref_count =
          IF j = i THEN m_inodes[j].ref_count + 1 ELSE m_inodes[j].ref_count
    BY <1>t, <2>1 DEF TypeOK, MINODE
  <2>4. lost' = lost
    BY <1>1 DEF IgetHit
  <2>5. QED
    BY <1>0, <2>2, <2>3, <2>4
<1>2. ASSUME NEW c \in Client, NEW k \in Key, IgetMiss(c, k)
      PROVE  m_inodes'[j].ref_count = Cardinality(Holders(j)') + lost'[j]
  <2>1. PICK i \in Slot :
          /\ m_inodes[i].ref_count = 0
          /\ m_inodes' = [m_inodes EXCEPT ![i] =
                [key |-> k, ref_count |-> 1, dirty |-> @.dirty, inode |-> disk[k]]]
          /\ ptr' = [ptr EXCEPT ![c] = i]
    BY <1>2 DEF IgetMiss, Free
  <2>2. Cardinality(Holders(j)') =
          IF j = i THEN Cardinality(Holders(j)) + 1 ELSE Cardinality(Holders(j))
    BY <1>t, <1>2, <2>1, GainHolder DEF IgetMiss
  <2>3. m_inodes'[j].ref_count = IF j = i THEN 1 ELSE m_inodes[j].ref_count
    BY <1>t, <2>1 DEF TypeOK, MINODE
  <2>4. lost' = lost
    BY <1>2 DEF IgetMiss
  <2>5. QED
    BY <1>0, <2>1, <2>2, <2>3, <2>4
<1>3. ASSUME NEW c \in Client, NEW d \in Client, CopyPointer(c, d)
      PROVE  m_inodes'[j].ref_count = Cardinality(Holders(j)') + lost'[j]
  <2>1. ptr[d] \in Slot
    BY <1>t, <1>3, HolderInUse DEF CopyPointer
  <2>2. Cardinality(Holders(j)') =
          IF j = ptr[d] THEN Cardinality(Holders(j)) + 1 ELSE Cardinality(Holders(j))
    BY <1>t, <1>3, <2>1, GainHolder DEF CopyPointer
  <2>3. m_inodes'[j].ref_count =
          IF j = ptr[d] THEN m_inodes[j].ref_count + 1 ELSE m_inodes[j].ref_count
    BY <1>t, <1>3, <2>1 DEF CopyPointer, TypeOK, MINODE
  <2>4. lost' = lost
    BY <1>3 DEF CopyPointer
  <2>5. QED
    BY <1>0, <2>2, <2>3, <2>4
<1>4. ASSUME NEW c \in Client, NEW v \in Inode, WriteInode(c, v)
      PROVE  m_inodes'[j].ref_count = Cardinality(Holders(j)') + lost'[j]
  <2>1. /\ Holders(j)' = Holders(j) /\ lost' = lost
        /\ m_inodes'[j].ref_count = m_inodes[j].ref_count
    BY <1>t, <1>4 DEF WriteInode, Holders, TypeOK, MINODE
  <2>2. QED
    BY <1>0, <2>1
<1>5. ASSUME NEW c \in Client, IputShared(c)
      PROVE  m_inodes'[j].ref_count = Cardinality(Holders(j)') + lost'[j]
  <2>1. ptr[c] \in Slot
    BY <1>t, <1>5, HolderInUse DEF IputShared
  <2>2. Cardinality(Holders(j)') =
          IF j = ptr[c] THEN Cardinality(Holders(j)) - 1 ELSE Cardinality(Holders(j))
    BY <1>t, <1>5, LoseHolder DEF IputShared
  <2>3. m_inodes'[j].ref_count =
          IF j = ptr[c] THEN m_inodes[j].ref_count - 1 ELSE m_inodes[j].ref_count
    BY <1>t, <1>5, <2>1 DEF IputShared, TypeOK, MINODE
  <2>4. lost' = lost
    BY <1>5 DEF IputShared
  <2>5. QED
    BY <1>0, <2>2, <2>3, <2>4
<1>6. ASSUME NEW c \in Client, IputLast(c)
      PROVE  m_inodes'[j].ref_count = Cardinality(Holders(j)') + lost'[j]
  <2>1. ptr[c] \in Slot /\ m_inodes[ptr[c]].ref_count = 1
    BY <1>t, <1>6, HolderInUse DEF IputLast
  <2>2. Cardinality(Holders(j)') =
          IF j = ptr[c] THEN Cardinality(Holders(j)) - 1 ELSE Cardinality(Holders(j))
    BY <1>t, <1>6, LoseHolder DEF IputLast
  <2>3. m_inodes'[j].ref_count = IF j = ptr[c] THEN 0 ELSE m_inodes[j].ref_count
    BY <1>t, <1>6, <2>1 DEF IputLast, Cleared, TypeOK, MINODE
  <2>4. lost' = lost
    BY <1>6 DEF IputLast
  <2>5. QED
    BY <1>0, <2>1, <2>2, <2>3, <2>4
<1>7. ASSUME NEW c \in Client, LosePointer(c)
      PROVE  m_inodes'[j].ref_count = Cardinality(Holders(j)') + lost'[j]
  <2>1. ptr[c] \in Slot
    BY <1>t, <1>7, HolderInUse DEF LosePointer
  <2>2. Cardinality(Holders(j)') =
          IF j = ptr[c] THEN Cardinality(Holders(j)) - 1 ELSE Cardinality(Holders(j))
    BY <1>t, <1>7, LoseHolder DEF LosePointer
  <2>3. lost'[j] = IF j = ptr[c] THEN lost[j] + 1 ELSE lost[j]
    BY <1>t, <1>7, <2>1 DEF LosePointer, TypeOK
  <2>4. QED
    BY <1>0, <1>7, <2>2, <2>3 DEF LosePointer
<1>8. CASE Quit
  <2>1. Holders(j)' = {}
    BY <1>8, NMINODESAssumption DEF Quit, Holders, NULL, Slot
  <2>2. m_inodes'[j].ref_count = 0 /\ lost'[j] = 0
    BY <1>8 DEF Quit, Cleared
  <2>3. QED
    BY <2>1, <2>2, FS_EmptySet
<1>9. CASE UNCHANGED <<m_inodes, ptr, lost>>
  <2>1. Holders(j)' = Holders(j) /\ m_inodes'[j] = m_inodes[j] /\ lost' = lost
    BY <1>9 DEF Holders
  <2>2. QED
    BY <1>0, <2>1
<1>10. QED
  BY <1>1, <1>2, <1>3, <1>4, <1>5, <1>6, <1>7, <1>8, <1>9
     DEF Next, vars, IgetFull, ReadInode

\* No step brings a second copy of an inode into the table: iget takes a free
\* slot only when no slot holds the inode.
LEMMA UniqueStep == IInv /\ [Next]_vars => UniqueCopy'
<1> SUFFICES ASSUME IInv, [Next]_vars, NEW i \in Slot, NEW j \in Slot, NEW q \in Key,
                    Cached(i, q)', Cached(j, q)'
             PROVE  i = j
  BY DEF UniqueCopy
<1> USE DEF IInv, TypeOK, MINODE, Cached
<1>0. Cached(i, q) /\ Cached(j, q) => i = j
  BY DEF UniqueCopy
<1>1. ASSUME NEW c \in Client, NEW k \in Key, IgetHit(c, k)
      PROVE  i = j
  BY <1>0, <1>1 DEF IgetHit
<1>2. ASSUME NEW c \in Client, NEW k \in Key, IgetMiss(c, k)
      PROVE  i = j
  BY <1>0, <1>2 DEF IgetMiss
<1>3. ASSUME NEW c \in Client, NEW d \in Client, CopyPointer(c, d)
      PROVE  i = j
  BY <1>0, <1>3, HolderInUse DEF CopyPointer
<1>4. ASSUME NEW c \in Client, NEW v \in Inode, WriteInode(c, v)
      PROVE  i = j
  BY <1>0, <1>4 DEF WriteInode
<1>5. ASSUME NEW c \in Client, IputShared(c)
      PROVE  i = j
  BY <1>0, <1>5 DEF IputShared
<1>6. ASSUME NEW c \in Client, IputLast(c)
      PROVE  i = j
  BY <1>0, <1>6 DEF IputLast, Cleared
<1>7. CASE Quit
  BY <1>7 DEF Quit, Cleared
<1>8. CASE UNCHANGED m_inodes
  BY <1>0, <1>8
<1>9. QED
  BY <1>1, <1>2, <1>3, <1>4, <1>5, <1>6, <1>7, <1>8
     DEF Next, vars, IgetFull, ReadInode, LosePointer

\* A write-back changes the disk only for the inode of the slot that is
\* cleared, and by UniqueCopy no other slot in use holds that inode.
LEMMA CleanStep == IInv /\ [Next]_vars => CleanAgreesWithDisk'
<1> SUFFICES ASSUME IInv, [Next]_vars, NEW i \in Slot
             PROVE  /\ ~Free(i)' => m_inodes'[i].key \in Key
                    /\ ~Free(i)' /\ m_inodes'[i].dirty = 0
                         => m_inodes'[i].inode = disk'[m_inodes'[i].key]
                    /\ Free(i)' => m_inodes'[i].dirty = 0
  BY DEF CleanAgreesWithDisk, Free
<1> USE DEF IInv, TypeOK, MINODE, Free
<1>0. /\ ~Free(i) => m_inodes[i].key \in Key
      /\ ~Free(i) /\ m_inodes[i].dirty = 0 => m_inodes[i].inode = disk[m_inodes[i].key]
      /\ Free(i) => m_inodes[i].dirty = 0
  BY DEF CleanAgreesWithDisk
<1>1. ASSUME NEW c \in Client, NEW k \in Key, IgetHit(c, k)
      PROVE  CleanAgreesWithDisk'
  BY <1>1 DEF IgetHit, CleanAgreesWithDisk, Cached
<1>2. ASSUME NEW c \in Client, NEW k \in Key, IgetMiss(c, k)
      PROVE  CleanAgreesWithDisk'
  BY <1>2 DEF IgetMiss, CleanAgreesWithDisk
<1>3. ASSUME NEW c \in Client, NEW d \in Client, CopyPointer(c, d)
      PROVE  CleanAgreesWithDisk'
  BY <1>3, HolderInUse DEF CopyPointer, CleanAgreesWithDisk
<1>4. ASSUME NEW c \in Client, NEW v \in Inode, WriteInode(c, v)
      PROVE  CleanAgreesWithDisk'
  BY <1>4, HolderInUse DEF WriteInode, CleanAgreesWithDisk
<1>5. ASSUME NEW c \in Client, IputShared(c)
      PROVE  CleanAgreesWithDisk'
  BY <1>5 DEF IputShared, CleanAgreesWithDisk
<1>6. ASSUME NEW c \in Client, IputLast(c)
      PROVE  CleanAgreesWithDisk'
  <2>1. /\ ptr[c] \in Slot
        /\ Cached(ptr[c], m_inodes[ptr[c]].key)
        /\ m_inodes[ptr[c]].key \in Key
    BY <1>6, HolderInUse DEF IputLast, Cached, CleanAgreesWithDisk
  <2>2. ASSUME NEW j \in Slot, j # ptr[c], ~Free(j)
        PROVE  m_inodes[j].key # m_inodes[ptr[c]].key
    BY <2>1, <2>2 DEF UniqueCopy, Cached
  <2>3. QED
    BY <1>6, <2>1, <2>2 DEF IputLast, Cleared, CleanAgreesWithDisk
<1>7. CASE Quit
  BY <1>7 DEF Quit, Cleared, CleanAgreesWithDisk
<1>8. CASE UNCHANGED <<disk, m_inodes>>
  BY <1>8 DEF CleanAgreesWithDisk
<1>9. QED
  BY <1>1, <1>2, <1>3, <1>4, <1>5, <1>6, <1>7, <1>8
     DEF Next, vars, IgetFull, ReadInode, LosePointer, CleanAgreesWithDisk

LEMMA StepIInv == IInv /\ [Next]_vars => IInv'
  BY TypeStep, RefCountStep, UniqueStep, CleanStep DEF IInv

LEMMA Invariance == Spec => []IInv
  BY InitIInv, StepIInv, PTL DEF Spec

\* The table is well typed.
THEOREM TypeCorrect == Spec => []TypeOK
<1>1. IInv => TypeOK
  BY DEF IInv
<1>2. QED
  BY <1>1, Invariance, PTL

\* At most one copy of an inode is in memory, for any number of pointers and
\* slots (the comment of iget in util.c).
THEOREM CopiesUnique == Spec => []UniqueCopy
<1>1. IInv => UniqueCopy
  BY DEF IInv
<1>2. QED
  BY <1>1, Invariance, PTL

\* ref_count is the number of pointers to the slot and of the references that
\* opens lost: no slot is recycled under a pointer, whatever opens lose.
THEOREM RefCountExact == Spec => []RefCountAccounted
<1>1. IInv => RefCountAccounted
  BY DEF IInv
<1>2. QED
  BY <1>1, Invariance, PTL

\* A slot that is not dirty agrees with the disk, and a free one is not dirty.
THEOREM CleanSlotsAgree == Spec => []CleanAgreesWithDisk
<1>1. IInv => CleanAgreesWithDisk
  BY DEF IInv
<1>2. QED
  BY <1>1, Invariance, PTL

-----------------------------------------------------------------------------
(* The refinement of InodeStore.  The lemmas say what the mapped variables  *)
(* are, before and after a step, without the CHOOSE of Current.             *)

LEMMA CurrentNow ==
    ASSUME UniqueCopy, NEW k \in Key
    PROVE  /\ \A i \in Slot : Cached(i, k) => Current[k] = m_inodes[i].inode
           /\ (\A i \in Slot : ~Cached(i, k)) => Current[k] = disk[k]
  BY DEF UniqueCopy, Current

LEMMA CurrentNext ==
    ASSUME UniqueCopy', NEW k \in Key
    PROVE  /\ \A i \in Slot : Cached(i, k)' => Current'[k] = m_inodes'[i].inode
           /\ (\A i \in Slot : ~Cached(i, k)') => Current'[k] = disk'[k]
  BY DEF UniqueCopy, Current

\* Two equal functions on Key, from their values.
LEMMA CurrentSame ==
    ASSUME \A k \in Key : Current'[k] = Current[k]
    PROVE  Current' = Current
  BY DEF Current

\* What a pointer that is not NULL denotes is an inode that is cached.
LEMMA DenotesKey ==
    ASSUME IInv, NEW c \in Client, ptr[c] # NULL
    PROVE  /\ ptr[c] \in Slot
           /\ ~Free(ptr[c])
           /\ Denotes[c] = m_inodes[ptr[c]].key
           /\ Denotes[c] \in Key
           /\ Denotes[c] # NoKey
           /\ Cached(ptr[c], Denotes[c])
           /\ Current[Denotes[c]] = m_inodes[ptr[c]].inode
<1>1. ptr[c] \in Slot /\ m_inodes[ptr[c]].ref_count > 0
  BY HolderInUse DEF IInv
<1>2. ~Free(ptr[c])
  BY <1>1 DEF Free
<1>3. m_inodes[ptr[c]].key \in Key
  BY <1>1, <1>2 DEF IInv, CleanAgreesWithDisk
<1>4. Denotes[c] = m_inodes[ptr[c]].key /\ Cached(ptr[c], Denotes[c])
  BY <1>1 DEF Denotes, Cached
<1>5. QED
  BY <1>1, <1>2, <1>3, <1>4, CurrentNow, CacheKeyAssumption DEF IInv

LEMMA InitStore == Init => Store!Init
<1> SUFFICES ASSUME Init PROVE Store!Init
  OBVIOUS
<1>1. Current \in [Key -> Inode]
  BY DEF Init, Current, Cached
<1>2. Denotes = [c \in Client |-> NoKey]
  BY DEF Init, Denotes
<1>3. QED
  BY <1>1, <1>2 DEF Store!Init, Init

\* Each step of the table is a step of the store or changes nothing of it.
LEMMA StoreStep == IInv /\ IInv' /\ [Next]_vars => [Store!Next]_Store!vars
<1> SUFFICES ASSUME IInv, IInv', [Next]_vars
             PROVE  [Store!Next]_Store!vars
  OBVIOUS
<1>t. TypeOK /\ UniqueCopy /\ UniqueCopy' /\ CleanAgreesWithDisk
  BY DEF IInv
<1>1. ASSUME NEW c \in Client, NEW k \in Key, IgetHit(c, k)
      PROVE  Store!Acquire(c, k)
  <2>1. PICK i \in Slot :
          /\ Cached(i, k)
          /\ m_inodes' = [m_inodes EXCEPT ![i].ref_count = @ + 1]
          /\ ptr' = [ptr EXCEPT ![c] = i]
    BY <1>1 DEF IgetHit
  <2>2. \A j \in Slot : /\ m_inodes'[j].key = m_inodes[j].key
                        /\ m_inodes'[j].inode = m_inodes[j].inode
    BY <1>t, <2>1 DEF TypeOK, MINODE
  <2>3. \A j \in Slot, q \in Key : Cached(j, q)' <=> Cached(j, q)
    BY <1>t, <2>1 DEF TypeOK, MINODE, Cached
  <2>4. \A q \in Key : Current'[q] = Current[q]
    BY <1>t, <1>1, <2>2, <2>3, CurrentNow, CurrentNext DEF IgetHit
  <2>5. Denotes' = [Denotes EXCEPT ![c] = k]
    <3>1. i # NULL /\ m_inodes'[i].key = k
      BY <2>1, <2>2, NMINODESAssumption DEF Cached, Slot, NULL
    <3>2. \A d \in Client : Denotes'[d] = IF d = c THEN k ELSE Denotes[d]
      BY <1>t, <2>1, <2>2, <3>1 DEF TypeOK, Denotes
    <3>3. QED
      BY <3>2 DEF Denotes
  <2>6. QED
    BY <1>1, <2>4, <2>5, CurrentSame DEF Store!Acquire, IgetHit, Denotes
<1>2. ASSUME NEW c \in Client, NEW k \in Key, IgetMiss(c, k)
      PROVE  Store!Acquire(c, k)
  <2>1. PICK i \in Slot :
          /\ Free(i)
          /\ m_inodes' = [m_inodes EXCEPT ![i] =
                [key |-> k, ref_count |-> 1, dirty |-> @.dirty, inode |-> disk[k]]]
          /\ ptr' = [ptr EXCEPT ![c] = i]
    BY <1>2 DEF IgetMiss
  <2>2. /\ m_inodes'[i].key = k /\ m_inodes'[i].ref_count = 1 /\ m_inodes'[i].inode = disk[k]
        /\ \A j \in Slot : j # i => m_inodes'[j] = m_inodes[j]
    BY <1>t, <2>1 DEF TypeOK
  <2>3. \A j \in Slot, q \in Key :
          Cached(j, q)' <=> (Cached(j, q) \/ (j = i /\ q = k))
    BY <2>1, <2>2 DEF Cached, Free
  <2>4. \A q \in Key : Current'[q] = Current[q]
    <3> SUFFICES ASSUME NEW q \in Key PROVE Current'[q] = Current[q]
      OBVIOUS
    <3>1. CASE q = k
      BY <1>t, <1>2, <2>2, <2>3, <3>1, CurrentNow, CurrentNext DEF IgetMiss
    <3>2. CASE q # k /\ \E j \in Slot : Cached(j, q)
      <4>1. PICK j \in Slot : Cached(j, q)
        BY <3>2
      <4>2. j # i
        BY <2>1, <4>1 DEF Free, Cached
      <4>3. QED
        BY <1>t, <2>2, <2>3, <4>1, <4>2, CurrentNow, CurrentNext
    <3>3. CASE q # k /\ \A j \in Slot : ~Cached(j, q)
      BY <1>t, <1>2, <2>3, <3>3, CurrentNow, CurrentNext DEF IgetMiss
    <3>4. QED
      BY <3>1, <3>2, <3>3
  <2>5. \A d \in Client : ptr[d] # i
    BY <2>1, DenotesKey, NMINODESAssumption DEF Slot, NULL
  <2>6. Denotes' = [Denotes EXCEPT ![c] = k]
    <3>1. i # NULL
      BY NMINODESAssumption DEF Slot, NULL
    <3>2. \A d \in Client : Denotes'[d] = IF d = c THEN k ELSE Denotes[d]
      BY <1>t, <2>1, <2>2, <2>5, <3>1 DEF TypeOK, Denotes
    <3>3. QED
      BY <3>2 DEF Denotes
  <2>7. QED
    BY <1>2, <2>4, <2>6, CurrentSame DEF Store!Acquire, IgetMiss, Denotes
<1>3. ASSUME NEW c \in Client, NEW d \in Client, CopyPointer(c, d)
      PROVE  \E k \in Key : Store!Acquire(c, k)
  <2>1. /\ ptr[d] \in Slot /\ Denotes[d] \in Key
        /\ Denotes[d] = m_inodes[ptr[d]].key /\ ~Free(ptr[d])
    BY <1>3, DenotesKey DEF CopyPointer
  <2>2. \A j \in Slot : /\ m_inodes'[j].key = m_inodes[j].key
                        /\ m_inodes'[j].inode = m_inodes[j].inode
    BY <1>t, <1>3, <2>1 DEF CopyPointer, TypeOK, MINODE
  <2>3. \A j \in Slot, q \in Key : Cached(j, q)' <=> Cached(j, q)
    BY <1>t, <1>3, <2>1 DEF CopyPointer, TypeOK, MINODE, Cached, Free
  <2>4. \A q \in Key : Current'[q] = Current[q]
    BY <1>t, <1>3, <2>2, <2>3, CurrentNow, CurrentNext DEF CopyPointer
  <2>5. Denotes' = [Denotes EXCEPT ![c] = Denotes[d]]
    BY <1>t, <1>3, <2>1, <2>2, NMINODESAssumption
       DEF CopyPointer, TypeOK, Denotes, Slot, NULL
  <2>6. QED
    BY <1>3, <2>1, <2>4, <2>5, CurrentSame DEF Store!Acquire, CopyPointer, Denotes
<1>4. ASSUME NEW c \in Client, ReadInode(c)
      PROVE  Store!Read(c)
  <2>1. Current' = Current /\ Denotes' = Denotes
    BY <1>4 DEF ReadInode, Current, Denotes, Cached
  <2>2. QED
    BY <1>4, <2>1, DenotesKey DEF Store!Read, ReadInode
<1>5. ASSUME NEW c \in Client, NEW v \in Inode, WriteInode(c, v)
      PROVE  Store!Write(c, v)
  <2>1. /\ ptr[c] \in Slot /\ Denotes[c] \in Key
        /\ Denotes[c] # NoKey /\ Cached(ptr[c], Denotes[c])
    BY <1>5, DenotesKey DEF WriteInode
  <2>2. \A j \in Slot :
          /\ m_inodes'[j].key = m_inodes[j].key
          /\ m_inodes'[j].ref_count = m_inodes[j].ref_count
          /\ m_inodes'[j].inode = IF j = ptr[c] THEN v ELSE m_inodes[j].inode
    BY <1>t, <1>5, <2>1 DEF WriteInode, TypeOK, MINODE
  <2>3. \A j \in Slot, q \in Key : Cached(j, q)' <=> Cached(j, q)
    BY <2>2 DEF Cached
  <2>4. \A q \in Key : Current'[q] = IF q = Denotes[c] THEN v ELSE Current[q]
    <3> SUFFICES ASSUME NEW q \in Key
                 PROVE  Current'[q] = IF q = Denotes[c] THEN v ELSE Current[q]
      OBVIOUS
    <3>1. CASE q = Denotes[c]
      BY <1>t, <2>1, <2>2, <2>3, <3>1, CurrentNext
    <3>2. CASE q # Denotes[c] /\ \E j \in Slot : Cached(j, q)
      <4>1. PICK j \in Slot : Cached(j, q)
        BY <3>2
      <4>2. j # ptr[c]
        BY <2>1, <3>2, <4>1 DEF Cached
      <4>3. QED
        BY <1>t, <2>2, <2>3, <3>2, <4>1, <4>2, CurrentNow, CurrentNext
    <3>3. CASE q # Denotes[c] /\ \A j \in Slot : ~Cached(j, q)
      BY <1>t, <1>5, <2>3, <3>3, CurrentNow, CurrentNext DEF WriteInode
    <3>4. QED
      BY <3>1, <3>2, <3>3
  <2>5. Current' = [Current EXCEPT ![Denotes[c]] = v]
    BY <2>1, <2>4 DEF Current
  <2>6. Denotes' = Denotes
    BY <1>t, <1>5, <2>2 DEF WriteInode, Denotes, TypeOK
  <2>7. QED
    BY <1>5, <2>1, <2>5, <2>6 DEF Store!Write, WriteInode
<1>6. ASSUME NEW c \in Client, IputShared(c)
      PROVE  Store!Release(c)
  <2>1. ptr[c] \in Slot /\ Denotes[c] # NoKey
    BY <1>6, DenotesKey DEF IputShared
  <2>2. \A j \in Slot : /\ m_inodes'[j].key = m_inodes[j].key
                        /\ m_inodes'[j].inode = m_inodes[j].inode
    BY <1>t, <1>6, <2>1 DEF IputShared, TypeOK, MINODE
  <2>3. \A j \in Slot, q \in Key : Cached(j, q)' <=> Cached(j, q)
    BY <1>t, <1>6, <2>1 DEF IputShared, TypeOK, MINODE, Cached
  <2>4. \A q \in Key : Current'[q] = Current[q]
    BY <1>t, <1>6, <2>2, <2>3, CurrentNow, CurrentNext DEF IputShared
  <2>5. Denotes' = [Denotes EXCEPT ![c] = NoKey]
    BY <1>t, <1>6, <2>2 DEF IputShared, TypeOK, Denotes
  <2>6. QED
    BY <1>6, <2>1, <2>4, <2>5, CurrentSame DEF Store!Release, IputShared
<1>7. ASSUME NEW c \in Client, IputLast(c)
      PROVE  Store!Release(c)
  <2>0. PICK i \in Slot : i = ptr[c]
    BY <1>7, DenotesKey DEF IputLast
  <2> DEFINE k == m_inodes[i].key
  <2>1. /\ i \in Slot /\ k \in Key /\ Denotes[c] # NoKey /\ Cached(i, k)
        /\ Current[k] = m_inodes[i].inode
    BY <1>7, <2>0, DenotesKey DEF IputLast
  <2>2. /\ m_inodes'[i].ref_count = 0
        /\ \A j \in Slot : j # i => m_inodes'[j] = m_inodes[j]
    BY <1>t, <1>7, <2>0 DEF IputLast, Cleared, TypeOK
  <2>3. \A j \in Slot, q \in Key : Cached(j, q)' <=> (Cached(j, q) /\ j # i)
    BY <2>2 DEF Cached
  <2>4. \A q \in Key : disk'[q] = IF q = k THEN m_inodes[i].inode ELSE disk[q]
    <3>1. m_inodes[i].dirty = 0 => m_inodes[i].inode = disk[k]
      BY <1>t, <2>1 DEF CleanAgreesWithDisk, Cached, Free
    <3>2. m_inodes[i].dirty \in {0, 1}
      BY <1>t, <2>1 DEF TypeOK, MINODE
    <3>3. QED
      BY <1>t, <1>7, <2>0, <3>1, <3>2 DEF IputLast, TypeOK
  <2>5. \A q \in Key : Current'[q] = Current[q]
    <3> SUFFICES ASSUME NEW q \in Key PROVE Current'[q] = Current[q]
      OBVIOUS
    <3>1. CASE q = k
      <4>1. \A j \in Slot : ~Cached(j, q)'
        BY <1>t, <2>1, <2>3, <3>1 DEF UniqueCopy
      <4>2. QED
        BY <1>t, <2>1, <2>4, <3>1, <4>1, CurrentNext
    <3>2. CASE q # k /\ \E j \in Slot : Cached(j, q)
      <4>1. PICK j \in Slot : Cached(j, q)
        BY <3>2
      <4>2. j # i
        BY <3>2, <4>1 DEF Cached
      <4>3. QED
        BY <1>t, <2>2, <2>3, <4>1, <4>2, CurrentNow, CurrentNext
    <3>3. CASE q # k /\ \A j \in Slot : ~Cached(j, q)
      BY <1>t, <2>3, <2>4, <3>3, CurrentNow, CurrentNext
    <3>4. QED
      BY <3>1, <3>2, <3>3
  <2>6. \A d \in Client : ptr[d] = i /\ d # c => FALSE
    <3> SUFFICES ASSUME NEW d \in Client, ptr[d] = i, d # c PROVE FALSE
      OBVIOUS
    <3>1. d \in Holders(i)'
      BY <1>t, <1>7, <2>0 DEF IputLast, TypeOK, Holders
    <3>2. Cardinality(Holders(i)') = 0
      <4>1. /\ Cardinality(Holders(i)') \in Nat /\ lost'[i] \in Nat
            /\ m_inodes'[i].ref_count = Cardinality(Holders(i)') + lost'[i]
        <5>1. (Cardinality(Holders(i)) \in Nat)'
          BY HoldersFinite, PTL
        <5>2. QED
          BY <2>1, <5>1, LostAssumption DEF IInv, TypeOK, RefCountAccounted
      <4>2. QED
        BY <2>2, <4>1
    <3>3. IsFiniteSet(Holders(i)')
      BY ClientAssumption, FS_Subset DEF Holders
    <3>4. QED
      BY <3>1, <3>2, <3>3, FS_EmptySet
  <2>7. Denotes' = [Denotes EXCEPT ![c] = NoKey]
    BY <1>t, <1>7, <2>0, <2>2, <2>6 DEF IputLast, TypeOK, Denotes
  <2>8. QED
    BY <1>7, <2>1, <2>5, <2>7, CurrentSame DEF Store!Release, IputLast
<1>8. CASE Quit
  <2>1. \A j \in Slot, q \in Key : ~Cached(j, q)'
    BY <1>8 DEF Quit, Cleared, Cached
  <2>2. \A q \in Key : Current'[q] = disk'[q]
    BY <1>t, <2>1, CurrentNext
  <2>3. \A q \in Key : disk'[q] = Current[q]
    <3> SUFFICES ASSUME NEW q \in Key PROVE disk'[q] = Current[q]
      OBVIOUS
    <3>1. CASE \E j \in Slot : Cached(j, q) /\ m_inodes[j].dirty = 1
      BY <1>t, <1>8, <3>1, CurrentNow DEF Quit
    <3>2. CASE \E j \in Slot : Cached(j, q) /\ m_inodes[j].dirty # 1
      <4>1. PICK j \in Slot : Cached(j, q) /\ m_inodes[j].dirty # 1
        BY <3>2
      <4>2. ~ \E l \in Slot : Cached(l, q) /\ m_inodes[l].dirty = 1
        BY <1>t, <4>1 DEF UniqueCopy
      <4>3. disk'[q] = disk[q]
        BY <1>8, <4>2 DEF Quit
      <4>4. m_inodes[j].inode = disk[q]
        <5>1. m_inodes[j].dirty \in {0, 1} /\ m_inodes[j].ref_count \in Nat
          BY <1>t DEF TypeOK, MINODE
        <5>2. QED
          BY <1>t, <4>1, <5>1 DEF CleanAgreesWithDisk, Cached, Free
      <4>5. QED
        BY <1>t, <4>1, <4>3, <4>4, CurrentNow
    <3>3. CASE \A j \in Slot : ~Cached(j, q)
      BY <1>t, <1>8, <3>3, CurrentNow DEF Quit
    <3>4. QED
      BY <3>1, <3>2, <3>3
  <2>4. Denotes' = [c \in Client |-> NoKey]
    BY <1>8 DEF Quit, Denotes
  <2>5. QED
    BY <1>8, <2>2, <2>3, <2>4, CurrentSame DEF Store!Next, Store!Restart, Quit
<1>9. ASSUME NEW c \in Client, LosePointer(c)
      PROVE  Store!Release(c)
  <2>1. Denotes[c] # NoKey
    BY <1>9, DenotesKey DEF LosePointer
  <2>2. Current' = Current
    BY <1>9 DEF LosePointer, Current, Cached
  <2>3. Denotes' = [Denotes EXCEPT ![c] = NoKey]
    BY <1>t, <1>9 DEF LosePointer, TypeOK, Denotes
  <2>4. QED
    BY <1>9, <2>1, <2>2, <2>3 DEF Store!Release, LosePointer
<1>10. CASE UNCHANGED vars
  BY <1>10 DEF vars, Store!vars, Current, Denotes, Cached
<1>11. QED
  BY <1>1, <1>2, <1>3, <1>4, <1>5, <1>6, <1>7, <1>8, <1>9, <1>10
     DEF Next, IgetFull, Store!Next

\* The table implements the store of inodes, for any number of slots,
\* pointers and inodes: no reader sees a stale inode and no write is lost,
\* whichever slots are shared, recycled, written back or flushed by quit.
THEOREM Refinement == Spec => ImplementsStore
<1>1. IInv /\ IInv' /\ [Next]_vars => [Store!Next]_Store!vars
  BY StoreStep
<1>2. QED
  BY <1>1, InitStore, Invariance, PTL DEF Spec, ImplementsStore, Store!Spec
=============================================================================
