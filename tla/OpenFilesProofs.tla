-------------------------- MODULE OpenFilesProofs --------------------------
(***************************************************************************)
(* Proofs about OpenFiles for any tables, processes, devices and files.    *)
(***************************************************************************)
EXTENDS OpenFiles, FiniteSetTheorems, SequenceTheorems, TLAPS

-----------------------------------------------------------------------------
(* The inductive invariant, first of the tables.                           *)

\* The part of TypeOK that is about the tables, without the bound of pins.
TablesTyped ==
    /\ name \in [Path -> Key \cup {NoKey}]
    /\ content \in [Key -> Content]
    /\ pins \in [Key -> Nat]
    /\ oft \in [OftSlot -> OFT]
    /\ fd \in [Proc -> [Fd -> OftSlot \cup {NULL}]]
    /\ running \in Proc
    /\ stale \subseteq OftSlot

NamesInjective ==
    \A p, q \in Path : name[p] = name[q] /\ name[p] # NoKey => p = q

\* Entries in use differ even in the inode number, which is all that find_oft
\* compares: the file_open of another device's inode takes the entry over.
OneEntryPerNumber ==
    \A i, j \in OftSlot :
        InUse(i) /\ InUse(j) /\ oft[i].inodeptr[2] = oft[j].inodeptr[2] => i = j

KeyWhileOpen == \A i \in OftSlot : InUse(i) => oft[i].inodeptr \in Key

\* creat truncates an inode without a name: only a stale entry can have it.
NamedUnlessStale ==
    \A i \in OftSlot :
        InUse(i) /\ i \notin stale => \E p \in Path : name[p] = oft[i].inodeptr

TablesInv ==
    /\ TablesTyped
    /\ NamesInjective
    /\ EntriesCounted
    /\ OneEntryPerNumber
    /\ KeyWhileOpen
    /\ PinnedWhileOpen
    /\ NamedUnlessStale
    /\ OffsetInFile

-----------------------------------------------------------------------------
(* Then of the command that is executed.                                   *)

Descriptors == [Fd -> OftSlot \cup {NULL}]

CommandTyped ==
    cmd \in [pc: {"idle", "catRead", "catClose", "cpAccess", "cpOpen",
                  "cpRead", "cpWrite", "cpCloseSrc", "cpCloseDst"},
             src: Path \cup {NULL}, dst: Path \cup {NULL},
             fd: Fd \cup {NULL}, gd: Fd \cup {NULL},
             buf: Content, fds: Descriptors \cup {<<>>},
             before: Content, apart: BOOLEAN]

\* The descriptors that the command has opened and not yet closed are its own,
\* all the others of the process are as they were when it began.
CommandDescriptors ==
    /\ cmd.pc # "catClose"
    /\ cmd.pc # "idle" =>
        /\ cmd.src \in Path /\ cmd.fd \in Fd /\ cmd.fds \in Descriptors
        /\ cmd.fds[cmd.fd] = NULL
        /\ cmd.pc # "cpCloseDst" <=> fd[running][cmd.fd] # NULL
        /\ \A f \in Fd \ {cmd.fd, cmd.gd} : fd[running][f] = cmd.fds[f]
    /\ cmd.gd # NULL =>
        /\ cmd.gd # cmd.fd
        /\ cmd.fds[cmd.gd] = NULL
        /\ fd[running][cmd.gd] # NULL
    /\ cmd.pc \in {"idle", "catRead", "cpAccess", "cpOpen"} => cmd.gd = NULL
    /\ cmd.pc \in {"cpRead", "cpWrite", "cpCloseDst"} => cmd.gd # NULL
    /\ cmd.pc \notin {"idle", "catRead"} => cmd.dst \in Path

\* cp has taken its first reference and there is room for the second.
RoomForPins ==
    /\ \A k \in Key : pins[k] <= MaxPins
    /\ cmd.pc \in {"cpAccess", "cpOpen"} =>
        /\ name[cmd.src] # NoKey
        /\ \A k \in Key : k # name[cmd.src] => pins[k] < MaxPins
        /\ cmd.src = cmd.dst => pins[name[cmd.src]] < MaxPins

\* How far cp of two files that nobody else has open has come. Not yet opened:
\* dst is open nowhere, src at its beginning. Being copied: dst and buf together
\* are what was read of src. Copied: dst equals src.
CopyBegun ==
    LET s == oft[fd[running][cmd.fd]] IN
    /\ s.inodeptr = name[cmd.src] /\ s.mode = R /\ s.offset = 0
    /\ Unopened(cmd.dst)

CopyUnderWay ==
    LET s == oft[fd[running][cmd.fd]]
        d == oft[fd[running][cmd.gd]]
        copied == Len(content[name[cmd.dst]])
    IN  /\ s.inodeptr = name[cmd.src] /\ s.mode = R
        /\ d.inodeptr = name[cmd.dst] /\ d.mode = W
        /\ d.offset = copied
        /\ s.offset = copied + Len(cmd.buf)
        /\ s.offset <= Len(cmd.before)
        /\ \A n \in 1 .. copied : content[name[cmd.dst]][n] = cmd.before[n]
        /\ \A n \in 1 .. Len(cmd.buf) : cmd.buf[n] = cmd.before[copied + n]

CopyInv ==
    /\ cmd.pc # "cpWrite" => cmd.buf = <<>>
    /\ cmd.apart =>
        /\ cmd.pc \notin {"idle", "catRead"}
        /\ name[cmd.src] # NoKey /\ name[cmd.src][2] # name[cmd.dst][2]
        /\ content[name[cmd.src]] = cmd.before
        /\ cmd.pc \in {"cpAccess", "cpOpen"} => CopyBegun
        /\ cmd.pc \in {"cpRead", "cpWrite"} => name[cmd.dst] # NoKey /\ CopyUnderWay
        /\ cmd.pc \in {"cpCloseSrc", "cpCloseDst"} /\ cmd.gd # NULL =>
             content[name[cmd.dst]] = cmd.before

IInv ==
    /\ TablesInv
    /\ CommandTyped
    /\ CommandDescriptors
    /\ RoomForPins
    /\ CopyInv

-----------------------------------------------------------------------------
(* Files.                                                                  *)

LEMMA IntervalsEqual ==
    ASSUME NEW m \in Nat, NEW n \in Nat, 1 .. m = 1 .. n
    PROVE  m = n
<1>1. (m < n => n \notin 1 .. m) /\ (n < m => m \notin 1 .. n)
  OBVIOUS
<1>2. QED
  BY <1>1

\* The contents of files are the sequences of at most MaxLen blocks.
LEMMA ContentIsSeq ==
    ASSUME NEW c
    PROVE  c \in Content <=> c \in Seq(Data \cup {Hole}) /\ Len(c) <= MaxLen
<1>1. ASSUME c \in Content
      PROVE  c \in Seq(Data \cup {Hole}) /\ Len(c) <= MaxLen
  <2>1. PICK n \in 0 .. MaxLen : c \in [1 .. n -> Data \cup {Hole}]
    BY <1>1 DEF Content
  <2>2. n \in Nat /\ n <= MaxLen
    BY BoundAssumption
  <2>3. c \in Seq(Data \cup {Hole})
    BY <2>1, <2>2, SeqDef
  <2>4. Len(c) = n
    <3>1. DOMAIN c = 1 .. Len(c) /\ Len(c) \in Nat
      BY <2>3, LenProperties
    <3>2. DOMAIN c = 1 .. n
      BY <2>1
    <3>3. QED
      BY <2>2, <3>1, <3>2, IntervalsEqual
  <2>5. QED
    BY <2>2, <2>3, <2>4
<1>2. ASSUME c \in Seq(Data \cup {Hole}), Len(c) <= MaxLen
      PROVE  c \in Content
  <2>1. Len(c) \in Nat /\ c \in [1 .. Len(c) -> Data \cup {Hole}]
    BY <1>2, LenProperties
  <2>2. Len(c) \in 0 .. MaxLen
    BY <1>2, <2>1, BoundAssumption
  <2>3. QED
    BY <2>1, <2>2 DEF Content
<1>3. QED
  BY <1>1, <1>2

\* A function on 1 .. n is a content of length n.
LEMMA FunctionIsContent ==
    ASSUME NEW n \in 0 .. MaxLen, NEW c \in [1 .. n -> Data \cup {Hole}]
    PROVE  c \in Content /\ Len(c) = n
<1>1. c \in Content
  BY DEF Content
<1>2. c \in Seq(Data \cup {Hole})
  BY <1>1, ContentIsSeq
<1>3. DOMAIN c = 1 .. Len(c) /\ Len(c) \in Nat
  BY <1>2, LenProperties
<1>4. n \in Nat /\ DOMAIN c = 1 .. n
  BY BoundAssumption
<1>5. Len(c) = n
  BY <1>3, <1>4
<1>6. QED
  BY <1>1, <1>5

LEMMA EmptyContent == <<>> \in Content /\ Len(<<>>) = 0
<1>1. <<>> \in Seq(Data \cup {Hole}) /\ Len(<<>>) = 0
  BY EmptySeq
<1>2. Len(<<>>) <= MaxLen
  BY <1>1, BoundAssumption
<1>3. QED
  BY <1>1, <1>2, ContentIsSeq, Zenon

LEMMA ContentType ==
    ASSUME NEW c \in Content
    PROVE  /\ Len(c) \in 0 .. MaxLen
           /\ c \in [1 .. Len(c) -> Data \cup {Hole}]
           /\ c # <<>> => Len(c) > 0
  BY ContentIsSeq, LenProperties, EmptySeq, BoundAssumption

-----------------------------------------------------------------------------
(* The number of descriptors that point to an entry, when one is set or reset. *)

LEMMA OpenersFinite ==
    ASSUME NEW i
    PROVE  IsFiniteSet(Openers(i)) /\ Cardinality(Openers(i)) \in Nat
<1>1. IsFiniteSet(Fd)
  BY FS_Interval, SizeAssumption DEF Fd
<1>2. IsFiniteSet(Proc \X Fd)
  BY <1>1, ProcAssumption, FS_Product
<1>3. IsFiniteSet(Openers(i))
  BY <1>2, FS_Subset DEF Openers
<1>4. QED
  BY <1>3, FS_CardinalityType

LEMMA GainOpener ==
    ASSUME TablesTyped, NEW f \in Fd, fd[running][f] = NULL, NEW i \in OftSlot,
           fd' = [fd EXCEPT ![running][f] = i], NEW j \in OftSlot
    PROVE  Cardinality(Openers(j)') =
             IF j = i THEN Cardinality(Openers(j)) + 1 ELSE Cardinality(Openers(j))
<1>1. NULL \notin OftSlot
  BY SizeAssumption DEF NULL, OftSlot
<1>2. CASE j = i
  <2>1. Openers(j)' = Openers(j) \cup {<<running, f>>}
    BY <1>2 DEF TablesTyped, Openers
  <2>2. <<running, f>> \notin Openers(j)
    BY <1>1 DEF Openers
  <2>3. QED
    BY <1>2, <2>1, <2>2, OpenersFinite, FS_AddElement
<1>3. CASE j # i
  <2>1. Openers(j)' = Openers(j)
    BY <1>1, <1>3 DEF TablesTyped, Openers
  <2>2. QED
    BY <1>3, <2>1
<1>4. QED
  BY <1>2, <1>3

LEMMA LoseOpener ==
    ASSUME TablesTyped, NEW f \in Fd, fd[running][f] # NULL,
           fd' = [fd EXCEPT ![running][f] = NULL], NEW j \in OftSlot
    PROVE  Cardinality(Openers(j)') =
             IF j = fd[running][f] THEN Cardinality(Openers(j)) - 1
                                   ELSE Cardinality(Openers(j))
<1>1. NULL \notin OftSlot
  BY SizeAssumption DEF NULL, OftSlot
<1>2. CASE j = fd[running][f]
  <2>1. Openers(j)' = Openers(j) \ {<<running, f>>}
    BY <1>1, <1>2 DEF TablesTyped, Openers
  <2>2. <<running, f>> \in Openers(j)
    BY <1>2 DEF TablesTyped, Openers
  <2>3. QED
    BY <1>2, <2>1, <2>2, OpenersFinite, FS_RemoveElement
<1>3. CASE j # fd[running][f]
  <2>1. Openers(j)' = Openers(j)
    BY <1>1, <1>3 DEF TablesTyped, Openers
  <2>2. QED
    BY <1>3, <2>1
<1>4. QED
  BY <1>2, <1>3

\* A descriptor that is open points to an entry in use.
LEMMA OpenFdInUse ==
    ASSUME TablesTyped, EntriesCounted, NEW f \in Fd, fd[running][f] # NULL
    PROVE  /\ fd[running][f] \in OftSlot
           /\ InUse(fd[running][f])
<1>1. fd[running][f] \in OftSlot
  BY DEF TablesTyped
<1>2. <<running, f>> \in Openers(fd[running][f])
  BY DEF TablesTyped, Openers
<1>3. Cardinality(Openers(fd[running][f])) # 0
  BY <1>2, OpenersFinite, FS_EmptySet
<1>4. QED
  BY <1>1, <1>3, OpenersFinite DEF EntriesCounted, InUse

-----------------------------------------------------------------------------
(* What each call does to the tables. First open.                           *)

LEMMA NullNotSlot == NULL \notin OftSlot
  BY SizeAssumption DEF NULL, OftSlot

LEMMA KeyNotNoKey == NoKey \notin Key
  BY InoAssumption DEF Key, NoKey

LEMMA EntryTyped ==
    ASSUME NEW e \in OFT
    PROVE  /\ \A n \in Nat : [e EXCEPT !.ref_count = n] \in OFT
           /\ \A o \in 0 .. MaxLen : [e EXCEPT !.offset = o] \in OFT
  BY DEF OFT

LEMMA OpenJoinTables ==
    ASSUME TablesInv, NEW path \in Path, NEW f \in Fd, OpenJoin(path, f),
           name' = name, running' = running
    PROVE  TablesInv'
<1> USE DEF TablesInv
<1>1. PICK i \in OftSlot :
        /\ InUse(i)
        /\ oft' = [oft EXCEPT ![i].ref_count = @ + 1]
        /\ fd' = [fd EXCEPT ![running][f] = i]
  BY DEF OpenJoin
<1>2. /\ name[path] \in Key /\ pins' = [pins EXCEPT ![name[path]] = @ + 1]
      /\ fd[running][f] = NULL
      /\ content' = content /\ stale' = stale
  BY DEF OpenJoin, IsFd, TablesTyped
<1>3. TablesTyped'
  <2>1. pins' \in [Key -> Nat]
    BY <1>2 DEF TablesTyped
  <2>2. oft' \in [OftSlot -> OFT]
    <3>1. oft[i].ref_count + 1 \in Nat
      BY DEF TablesTyped, OFT
    <3>2. QED
      BY <1>1, <3>1, EntryTyped DEF TablesTyped
  <2>3. fd' \in [Proc -> [Fd -> OftSlot \cup {NULL}]]
    BY <1>1 DEF TablesTyped
  <2>4. QED
    BY <1>2, <2>1, <2>2, <2>3 DEF TablesTyped
<1>4. \A j \in OftSlot :
        /\ InUse(j)' <=> InUse(j)
        /\ oft'[j].inodeptr = oft[j].inodeptr
        /\ oft'[j].offset = oft[j].offset
        /\ oft'[j].ref_count = IF j = i THEN oft[j].ref_count + 1 ELSE oft[j].ref_count
        /\ j # i => oft'[j] = oft[j]
  BY <1>1 DEF TablesTyped, OFT, InUse
<1>5. \A k \in Key : pins'[k] >= pins[k]
  BY <1>2 DEF TablesTyped
<1>6. EntriesCounted'
  BY <1>1, <1>2, <1>4, GainOpener DEF EntriesCounted, InUse
<1>7. NamesInjective' /\ OneEntryPerNumber' /\ KeyWhileOpen'
  BY <1>4 DEF NamesInjective, OneEntryPerNumber, KeyWhileOpen
<1>8. PinnedWhileOpen'
  BY <1>2, <1>4, <1>5 DEF PinnedWhileOpen, KeyWhileOpen, TablesTyped
<1>9. NamedUnlessStale' /\ OffsetInFile'
  BY <1>2, <1>4 DEF NamedUnlessStale, OffsetInFile
<1>10. QED
  BY <1>3, <1>6, <1>7, <1>8, <1>9

\* The entry that OpenSet sets up: a free one, or the only one with the number.
LEMMA OpenSetEntry ==
    ASSUME TablesInv, NEW path \in Path, NEW mode \in {R, W, RW, APPEND}, NEW f \in Fd,
           OpenSet(path, mode, f)
    PROVE  \E i \in OftSlot :
             /\ \A j \in OftSlot :
                  InUse(j) /\ oft[j].inodeptr[2] = name[path][2] => j = i
             /\ InUse(i) => oft[i].inodeptr[2] = name[path][2]
             /\ oft' = [oft EXCEPT ![i] =
                  [inodeptr |-> name[path], mode |-> mode,
                   ref_count |-> oft[i].ref_count + 1,
                   offset |-> IF mode = APPEND THEN Len(content[name[path]]) ELSE 0]]
             /\ fd' = [fd EXCEPT ![running][f] = i]
             /\ stale' = stale \ {i}
<1>1. PICK i \in OftSlot :
        /\ IsOft(i, name[path])
        /\ oft' = [oft EXCEPT ![i] =
                  [inodeptr |-> name[path], mode |-> mode,
                   ref_count |-> oft[i].ref_count + 1,
                   offset |-> IF mode = APPEND THEN Len(content[name[path]]) ELSE 0]]
        /\ fd' = [fd EXCEPT ![running][f] = i]
        /\ stale' = stale \ {i}
  BY DEF OpenSet, OpenAt, TablesInv, TablesTyped
<1>2. /\ \A j \in OftSlot :
           InUse(j) /\ oft[j].inodeptr[2] = name[path][2] => j = i
      /\ InUse(i) => oft[i].inodeptr[2] = name[path][2]
  BY <1>1 DEF IsOft, TablesInv, OneEntryPerNumber
<1>3. QED
  BY <1>1, <1>2

LEMMA OpenSetTables ==
    ASSUME TablesInv, NEW path \in Path, NEW mode \in {R, W, RW, APPEND}, NEW f \in Fd,
           OpenSet(path, mode, f), name' = name, running' = running
    PROVE  TablesInv'
<1> DEFINE k == name[path]
<1> USE DEF TablesInv
<1>1. PICK i \in OftSlot :
        /\ \A j \in OftSlot : InUse(j) /\ oft[j].inodeptr[2] = k[2] => j = i
        /\ InUse(i) => oft[i].inodeptr[2] = k[2]
        /\ oft' = [oft EXCEPT ![i] =
             [inodeptr |-> k, mode |-> mode, ref_count |-> oft[i].ref_count + 1,
              offset |-> IF mode = APPEND THEN Len(content[k]) ELSE 0]]
        /\ fd' = [fd EXCEPT ![running][f] = i]
        /\ stale' = stale \ {i}
  BY OpenSetEntry
<1>2. /\ k \in Key
      /\ pins' = [pins EXCEPT ![k] = @ + 1]
      /\ fd[running][f] = NULL
      /\ content' = IF mode = W THEN [content EXCEPT ![k] = <<>>] ELSE content
  BY DEF OpenSet, OpenAt, IsFd, TablesTyped
<1>3. Len(content[k]) \in 0 .. MaxLen /\ content[k] \in Content
  BY <1>2, ContentType DEF TablesTyped
<1>4. TablesTyped'
  <2>1. content' \in [Key -> Content]
    BY <1>2, EmptyContent DEF TablesTyped
  <2>2. oft' \in [OftSlot -> OFT]
    BY <1>1, <1>2, <1>3, BoundAssumption DEF TablesTyped, OFT
  <2>3. QED
    BY <1>1, <1>2, <2>1, <2>2 DEF TablesTyped
<1>5. /\ InUse(i)' /\ oft'[i].inodeptr = k
      /\ oft'[i].offset = IF mode = APPEND THEN Len(content[k]) ELSE 0
      /\ oft'[i].ref_count = oft[i].ref_count + 1
      /\ \A j \in OftSlot \ {i} : oft'[j] = oft[j] /\ (InUse(j)' <=> InUse(j))
  BY <1>1 DEF TablesTyped, OFT, InUse
<1>6. \A j \in OftSlot \ {i} :
        InUse(j) => oft[j].inodeptr # k /\ oft[j].inodeptr[2] # k[2]
  BY <1>1
<1>7. EntriesCounted'
  BY <1>1, <1>2, <1>5, GainOpener DEF EntriesCounted, InUse
<1>8. OneEntryPerNumber' /\ KeyWhileOpen' /\ NamesInjective'
  BY <1>2, <1>5, <1>6 DEF OneEntryPerNumber, KeyWhileOpen, NamesInjective
<1>9. PinnedWhileOpen'
  <2>1. pins'[k] > 0 /\ \A x \in Key \ {k} : pins'[x] = pins[x]
    BY <1>2 DEF TablesTyped
  <2>2. QED
    BY <1>5, <1>6, <2>1 DEF PinnedWhileOpen, KeyWhileOpen
<1>10. NamedUnlessStale'
  BY <1>1, <1>5 DEF NamedUnlessStale
<1>11. OffsetInFile'
  <2>1. \A x \in Key \ {k} : content'[x] = content[x]
    BY <1>2 DEF TablesTyped
  <2>2. oft'[i].offset <= Len(content'[k])
    <3>1. CASE mode = W
      BY <1>2, <1>5, <3>1, EmptyContent DEF TablesTyped, W, APPEND
    <3>2. CASE mode # W
      BY <1>2, <1>3, <1>5, <3>2
    <3>3. QED
      BY <3>1, <3>2
  <2>3. ASSUME NEW j \in OftSlot \ {i}, InUse(j)', j \notin stale'
        PROVE  oft'[j].offset <= Len(content'[oft'[j].inodeptr])
    <3>1. oft[j].inodeptr \in Key \ {k}
      BY <1>5, <1>6, <2>3 DEF KeyWhileOpen
    <3>2. oft[j].offset <= Len(content[oft[j].inodeptr])
      BY <1>1, <1>5, <2>3 DEF OffsetInFile
    <3>3. QED
      BY <1>5, <2>1, <3>1, <3>2
  <2>4. QED
    BY <1>5, <2>2, <2>3 DEF OffsetInFile
<1>12. QED
  BY <1>4, <1>7, <1>8, <1>9, <1>10, <1>11

-----------------------------------------------------------------------------
(* Close, lseek, read and write.                                            *)

LEMMA CloseFdTables ==
    ASSUME TablesInv, NEW f \in Fd, CloseFd(f), name' = name, running' = running
    PROVE  TablesInv'
<1> USE DEF TablesInv
<1>1. PICK i \in OftSlot :
        i = fd[running][f] /\ InUse(i) /\ fd[running][f] # NULL
  BY OpenFdInUse DEF CloseFd
<1> DEFINE k == oft[i].inodeptr
<1>2. /\ fd' = [fd EXCEPT ![running][f] = NULL]
      /\ content' = content
      /\ fd' \in [Proc -> [Fd -> OftSlot \cup {NULL}]]
  BY DEF CloseFd, TablesTyped
<1>3. k \in Key /\ pins[k] \in Nat /\ pins[k] > 0
  BY <1>1 DEF KeyWhileOpen, PinnedWhileOpen, TablesTyped
<1>4. CASE oft[i].ref_count > 1
  <2>1. /\ oft' = [oft EXCEPT ![i].ref_count = @ - 1]
        /\ pins' = pins /\ stale' = stale
    BY <1>1, <1>4 DEF CloseFd
  <2>2. oft' \in [OftSlot -> OFT]
    <3>1. oft[i].ref_count - 1 \in Nat
      BY <1>1, <1>4 DEF TablesTyped, OFT
    <3>2. QED
      BY <1>1, <2>1, <3>1, EntryTyped DEF TablesTyped
  <2>3. \A j \in OftSlot :
          /\ InUse(j)' <=> InUse(j)
          /\ oft'[j].inodeptr = oft[j].inodeptr
          /\ oft'[j].offset = oft[j].offset
          /\ oft'[j].ref_count = IF j = i THEN oft[j].ref_count - 1 ELSE oft[j].ref_count
          /\ j # i => oft'[j] = oft[j]
    BY <1>1, <1>4, <2>1 DEF TablesTyped, OFT, InUse
  <2>4. TablesTyped'
    BY <1>1, <1>2, <2>1, <2>2 DEF TablesTyped
  <2>5. EntriesCounted'
    <3>1. \A j \in OftSlot :
            Cardinality(Openers(j)') =
              IF j = i THEN Cardinality(Openers(j)) - 1 ELSE Cardinality(Openers(j))
      BY <1>1, <1>2, LoseOpener
    <3>2. QED
      BY <1>1, <2>3, <3>1 DEF EntriesCounted, InUse
  <2>6. NamesInjective' /\ OneEntryPerNumber' /\ KeyWhileOpen' /\ PinnedWhileOpen'
    BY <2>1, <2>3 DEF NamesInjective, OneEntryPerNumber, KeyWhileOpen, PinnedWhileOpen
  <2>7. NamedUnlessStale' /\ OffsetInFile'
    BY <1>2, <2>1, <2>3 DEF NamedUnlessStale, OffsetInFile
  <2>8. QED
    BY <2>4, <2>5, <2>6, <2>7
<1>5. CASE ~(oft[i].ref_count > 1)
  <2>1. /\ oft' = [oft EXCEPT ![i] = FreeEntry]
        /\ pins' = [pins EXCEPT ![k] = @ - 1]
        /\ stale' = stale \ {i}
    BY <1>1, <1>5 DEF CloseFd
  <2>2. FreeEntry \in OFT
    BY BoundAssumption DEF FreeEntry, OFT
  <2>3. oft[i].ref_count = 1
    BY <1>1, <1>5 DEF TablesTyped, OFT, InUse
  <2>4. /\ oft'[i] = FreeEntry /\ ~InUse(i)' /\ oft'[i].ref_count = oft[i].ref_count - 1
        /\ \A j \in OftSlot \ {i} : oft'[j] = oft[j] /\ (InUse(j)' <=> InUse(j))
    BY <1>1, <2>1, <2>3 DEF TablesTyped, FreeEntry, InUse
  <2>5. TablesTyped'
    <3>1. pins' \in [Key -> Nat]
      BY <1>3, <2>1 DEF TablesTyped
    <3>2. QED
      BY <1>1, <1>2, <2>1, <2>2, <3>1 DEF TablesTyped
  <2>6. EntriesCounted'
    <3>1. \A j \in OftSlot :
            Cardinality(Openers(j)') =
              IF j = i THEN Cardinality(Openers(j)) - 1 ELSE Cardinality(Openers(j))
      BY <1>1, <1>2, LoseOpener
    <3>2. QED
      BY <1>1, <2>4, <3>1 DEF EntriesCounted, InUse
  <2>7. NamesInjective' /\ OneEntryPerNumber' /\ KeyWhileOpen'
    BY <2>4 DEF NamesInjective, OneEntryPerNumber, KeyWhileOpen
  <2>8. PinnedWhileOpen'
    <3>1. \A j \in OftSlot \ {i} : InUse(j) => oft[j].inodeptr \in Key \ {k}
      BY <1>1 DEF OneEntryPerNumber, KeyWhileOpen
    <3>2. \A x \in Key \ {k} : pins'[x] = pins[x]
      BY <2>1 DEF TablesTyped
    <3>3. QED
      BY <2>4, <3>1, <3>2 DEF PinnedWhileOpen
  <2>9. NamedUnlessStale' /\ OffsetInFile'
    BY <1>2, <2>1, <2>4 DEF NamedUnlessStale, OffsetInFile
  <2>10. QED
    BY <2>5, <2>6, <2>7, <2>8, <2>9
<1>6. QED
  BY <1>4, <1>5

\* A new offset within the file, and nothing else, for the entry of f.
LEMMA MoveTables ==
    ASSUME TablesInv, NEW f \in Fd, fd[running][f] # NULL, NEW o \in Nat,
           o <= Len(content[oft[fd[running][f]].inodeptr]),
           oft' = [oft EXCEPT ![fd[running][f]].offset = o],
           UNCHANGED <<name, content, pins, fd, running, stale>>
    PROVE  TablesInv'
<1> DEFINE i == fd[running][f]
<1> USE DEF TablesInv
<1>1. i \in OftSlot /\ InUse(i)
  BY OpenFdInUse
<1>2. oft' \in [OftSlot -> OFT]
  <2>1. Len(content[oft[i].inodeptr]) \in 0 .. MaxLen
    BY <1>1, ContentType DEF KeyWhileOpen, TablesTyped
  <2>2. o \in 0 .. MaxLen
    BY <2>1, BoundAssumption
  <2>3. QED
    BY <1>1, <2>2, EntryTyped DEF TablesTyped
<1>3. \A j \in OftSlot :
        /\ InUse(j)' <=> InUse(j)
        /\ oft'[j].inodeptr = oft[j].inodeptr
        /\ oft'[j].ref_count = oft[j].ref_count
        /\ oft'[j].offset = IF j = i THEN o ELSE oft[j].offset
        /\ j # i => oft'[j] = oft[j]
  BY <1>1 DEF TablesTyped, OFT, InUse
<1>4. TablesTyped'
  BY <1>2 DEF TablesTyped
<1>5. EntriesCounted'
  <2>1. \A j \in OftSlot : Openers(j)' = Openers(j)
    BY DEF Openers
  <2>2. QED
    BY <1>1, <1>3, <2>1 DEF EntriesCounted
<1>6. NamesInjective' /\ OneEntryPerNumber' /\ KeyWhileOpen' /\ PinnedWhileOpen'
  BY <1>3 DEF NamesInjective, OneEntryPerNumber, KeyWhileOpen, PinnedWhileOpen
<1>7. NamedUnlessStale' /\ OffsetInFile'
  BY <1>3 DEF NamedUnlessStale, OffsetInFile
<1>8. QED
  BY <1>4, <1>5, <1>6, <1>7

\* The part of a file from offset o up to t.
LEMMA SubSeqContent ==
    ASSUME NEW c \in Content, NEW o \in Nat, NEW t \in Nat, t <= Len(c)
    PROVE  /\ SubSeq(c, o + 1, t) \in Content
           /\ Len(SubSeq(c, o + 1, t)) = IF o < t THEN t - o ELSE 0
           /\ \A j \in 1 .. Len(SubSeq(c, o + 1, t)) :
                SubSeq(c, o + 1, t)[j] = c[o + j]
<1> DEFINE S == Data \cup {Hole}
<1> DEFINE b == SubSeq(c, o + 1, t)
<1>1. c \in Seq(S) /\ Len(c) \in Nat /\ Len(c) <= MaxLen /\ MaxLen \in Nat
  BY ContentIsSeq, ContentType, BoundAssumption
<1>2. \A j \in o + 1 .. t : c[j] \in S
  <2> HIDE DEF S
  <2>1. \A j \in 1 .. Len(c) : c[j] \in S
    BY <1>1, ElementOfSeq
  <2>2. QED
    BY <1>1, <2>1
<1>3. /\ b \in Seq(S)
      /\ Len(b) = IF o + 1 <= t THEN t - (o + 1) + 1 ELSE 0
      /\ \A j \in 1 .. t - (o + 1) + 1 : b[j] = c[o + 1 + j - 1]
  <2> HIDE DEF S
  <2>1. o + 1 \in Int /\ t \in Int
    OBVIOUS
  <2>2. QED
    BY <1>2, <2>1, SubSeqProperties
<1> HIDE DEF b
<1>4. Len(b) = IF o < t THEN t - o ELSE 0
  BY <1>3
<1>5. b \in Content
  BY <1>1, <1>3, <1>4, ContentIsSeq
<1>6. \A j \in 1 .. Len(b) : b[j] = c[o + j]
  <2> TAKE j \in 1 .. Len(b)
  <2>1. j \in 1 .. t - (o + 1) + 1 /\ o + 1 + j - 1 = o + j
    BY <1>4
  <2>2. QED
    BY <1>3, <2>1
<1>7. QED
  BY <1>4, <1>5, <1>6 DEF b

\* What file_read returns is the part of the file from the offset on.
LEMMA ReadableType ==
    ASSUME TablesInv, NEW f \in Fd, fd[running][f] # NULL, NEW n \in Nat
    PROVE  LET op == oft[fd[running][f]]
               data == content[op.inodeptr]
               buf == Readable(f, n)
           IN  /\ buf \in Content
               /\ op.offset \in Nat /\ Len(data) \in Nat /\ Len(buf) \in Nat
               /\ buf = <<>> => op.mode \notin {R, RW} \/ n = 0 \/ op.offset >= Len(data)
               /\ buf # <<>> =>
                    /\ op.mode \in {R, RW}
                    /\ Len(buf) > 0 /\ Len(buf) <= n
                    /\ op.offset + Len(buf) <= Len(data)
                    /\ \A j \in 1 .. Len(buf) : buf[j] = data[op.offset + j]
<1> DEFINE op == oft[fd[running][f]]
           data == content[op.inodeptr]
           buf == Readable(f, n)
           to == IF op.offset + n < Len(data) THEN op.offset + n ELSE Len(data)
<1>1. op \in OFT /\ data \in Content
  BY OpenFdInUse DEF TablesInv, TablesTyped, KeyWhileOpen
<1>2. op.offset \in Nat /\ Len(data) \in 0 .. MaxLen /\ MaxLen \in Nat
  BY <1>1, ContentType, BoundAssumption DEF OFT
<1>3. CASE op.mode \in {R, RW}
  <2>1. buf = SubSeq(data, op.offset + 1, to)
    BY <1>3 DEF Readable
  <2>2. to \in Nat /\ to <= Len(data) /\ to <= op.offset + n
    BY <1>2
  <2>3. /\ buf \in Content
        /\ Len(buf) = IF op.offset < to THEN to - op.offset ELSE 0
        /\ \A j \in 1 .. Len(buf) : buf[j] = data[op.offset + j]
    <3> HIDE DEF to, data, buf, op
    <3>1. data \in Content /\ op.offset \in Nat
      BY <1>1, <1>2
    <3>2. QED
      BY <2>1, <2>2, <3>1, SubSeqContent
  <2>4. Len(buf) > 0 <=> buf # <<>>
    BY <2>3, ContentType, EmptyContent
  <2>5. op.offset < to => Len(buf) <= n /\ op.offset + Len(buf) <= Len(data)
    <3> HIDE DEF to, data, buf, op
    <3>1. QED
      BY <1>2, <2>2, <2>3
  <2>6. ~(op.offset < to) => n = 0 \/ op.offset >= Len(data)
    BY <1>2
  <2> HIDE DEF to, buf, data, op
  <2>7. QED
    BY <1>2, <1>3, <2>2, <2>3, <2>4, <2>5, <2>6 DEF op, data, buf
<1>4. CASE op.mode \notin {R, RW}
  <2>1. buf = <<>>
    BY <1>4 DEF Readable
  <2>2. QED
    BY <1>2, <1>4, <2>1, EmptyContent
<1>5. QED
  BY <1>3, <1>4

LEMMA ReadFdTables ==
    ASSUME TablesInv, NEW f \in Fd, NEW n \in Nat, ReadFd(f, n),
           name' = name, running' = running
    PROVE  TablesInv'
<1> DEFINE op == oft[fd[running][f]]
           o == op.offset + Len(Readable(f, n))
<1>1. /\ fd[running][f] # NULL
      /\ Readable(f, n) # <<>>
      /\ oft' = [oft EXCEPT ![fd[running][f]].offset = @ + Len(Readable(f, n))]
      /\ UNCHANGED <<name, content, pins, fd, running, stale>>
  BY DEF ReadFd
<1>2. /\ o \in Nat /\ o <= Len(content[op.inodeptr])
      /\ fd[running][f] \in OftSlot
  BY <1>1, ReadableType, OpenFdInUse DEF TablesInv
<1>3. oft' = [oft EXCEPT ![fd[running][f]].offset = o]
  BY <1>1, <1>2 DEF TablesInv, TablesTyped
<1> HIDE DEF o
<1>4. QED
  BY <1>1, <1>2, <1>3, MoveTables

\* What file_write does: entry i's file becomes new, in which the blocks from
\* the offset on are those of buf and the others are as they were.
Wrote(f, buf, i, new) ==
    LET op == oft[i]
        old == content[op.inodeptr]
        end == op.offset + Len(buf)
    IN  /\ i = fd[running][f] /\ InUse(i) /\ op.inodeptr \in Key /\ op.mode # R
        /\ op.offset \in Nat /\ end \in 0 .. MaxLen
        /\ content' = [content EXCEPT ![op.inodeptr] = new]
        /\ oft' = [oft EXCEPT ![i].offset = end]
        /\ Len(new) = IF end > Len(old) THEN end ELSE Len(old)
        /\ \A j \in 1 .. Len(new) :
             new[j] = IF j > op.offset /\ j <= end THEN buf[j - op.offset]
                      ELSE IF j <= Len(old) THEN old[j] ELSE Hole

LEMMA WriteFdEffect ==
    ASSUME TablesInv, NEW f \in Fd, NEW buf \in Content, WriteFd(f, buf)
    PROVE  \E i \in OftSlot, new \in Content : Wrote(f, buf, i, new)
<1>1. PICK i \in OftSlot : i = fd[running][f] /\ InUse(i)
  BY OpenFdInUse DEF TablesInv, WriteFd
<1> DEFINE op == oft[i]
           old == content[op.inodeptr]
           end == op.offset + Len(buf)
           len == IF end > Len(old) THEN end ELSE Len(old)
           new == [j \in 1 .. len |->
                     IF j > op.offset /\ j <= end THEN buf[j - op.offset]
                     ELSE IF j <= Len(old) THEN old[j] ELSE Hole]
<1>2. op \in OFT /\ op.inodeptr \in Key /\ old \in Content
  BY <1>1 DEF TablesInv, TablesTyped, KeyWhileOpen
<1>3. /\ op.mode # R /\ end <= MaxLen
      /\ content' = [content EXCEPT ![op.inodeptr] = new]
      /\ oft' = [oft EXCEPT ![i].offset = end]
  BY <1>1 DEF WriteFd
<1>4. /\ op.offset \in Nat
      /\ Len(old) \in 0 .. MaxLen /\ old \in [1 .. Len(old) -> Data \cup {Hole}]
      /\ Len(buf) \in 0 .. MaxLen /\ buf \in [1 .. Len(buf) -> Data \cup {Hole}]
      /\ MaxLen \in Nat
  BY <1>2, ContentType, BoundAssumption DEF OFT
<1>5. end \in 0 .. MaxLen /\ len \in 0 .. MaxLen
  <2> HIDE DEF op, old
  <2>1. QED
    BY <1>3, <1>4
<1>6. new \in [1 .. len -> Data \cup {Hole}]
  <2> HIDE DEF op, old
  <2> SUFFICES ASSUME NEW j \in 1 .. len
               PROVE  (IF j > op.offset /\ j <= end THEN buf[j - op.offset]
                       ELSE IF j <= Len(old) THEN old[j] ELSE Hole) \in Data \cup {Hole}
    OBVIOUS
  <2>1. j > op.offset /\ j <= end => j - op.offset \in 1 .. Len(buf)
    BY <1>4, <1>5
  <2>2. j <= Len(old) => j \in 1 .. Len(old)
    BY <1>4, <1>5
  <2>3. QED
    BY <1>4, <2>1, <2>2
<1>7. new \in Content /\ Len(new) = len
  <2> HIDE DEF len, new
  <2>1. QED
    BY <1>5, <1>6, FunctionIsContent
<1>8. \A j \in 1 .. Len(new) :
        new[j] = IF j > op.offset /\ j <= end THEN buf[j - op.offset]
                 ELSE IF j <= Len(old) THEN old[j] ELSE Hole
  <2> HIDE DEF len, op, old, end
  <2>1. QED
    BY <1>7
<1> HIDE DEF new
<1>9. Wrote(f, buf, i, new)
  BY <1>1, <1>2, <1>3, <1>4, <1>5, <1>7, <1>8 DEF Wrote
<1>10. QED
  BY <1>7, <1>9

LEMMA WriteFdTables ==
    ASSUME TablesInv, NEW f \in Fd, NEW buf \in Content, WriteFd(f, buf),
           name' = name, running' = running
    PROVE  TablesInv'
<1> USE DEF TablesInv
<1>0. PICK i \in OftSlot, new \in Content : Wrote(f, buf, i, new)
  BY WriteFdEffect
<1>1. /\ InUse(i)
      /\ oft[i].inodeptr \in Key /\ oft[i].offset + Len(buf) \in 0 .. MaxLen
      /\ content' = [content EXCEPT ![oft[i].inodeptr] = new]
      /\ oft' = [oft EXCEPT ![i].offset = oft[i].offset + Len(buf)]
      /\ Len(new) = IF oft[i].offset + Len(buf) > Len(content[oft[i].inodeptr])
                    THEN oft[i].offset + Len(buf) ELSE Len(content[oft[i].inodeptr])
  BY <1>0 DEF Wrote
<1> DEFINE k == oft[i].inodeptr
           end == oft[i].offset + Len(buf)
<1>2. pins' = pins /\ fd' = fd /\ stale' = stale
  BY DEF WriteFd
<1>3. Len(new) >= end /\ Len(new) >= Len(content[k])
  <2>1. end \in Nat /\ Len(content[k]) \in Nat
    BY <1>1, ContentType, BoundAssumption DEF TablesTyped
  <2> HIDE DEF end, k
  <2>2. QED
    BY <1>1, <2>1 DEF end, k
<1>4. /\ content'[k] = new
      /\ \A x \in Key \ {k} : content'[x] = content[x]
  BY <1>1 DEF TablesTyped
<1>5. \A j \in OftSlot :
        /\ InUse(j)' <=> InUse(j)
        /\ oft'[j].inodeptr = oft[j].inodeptr
        /\ oft'[j].ref_count = oft[j].ref_count
        /\ oft'[j].offset = IF j = i THEN end ELSE oft[j].offset
        /\ j # i => oft'[j] = oft[j]
  BY <1>1 DEF TablesTyped, OFT, InUse
<1>6. TablesTyped'
  <2>1. oft' \in [OftSlot -> OFT]
    BY <1>1, EntryTyped DEF TablesTyped
  <2>2. content' \in [Key -> Content]
    BY <1>1 DEF TablesTyped
  <2>3. QED
    BY <1>2, <2>1, <2>2 DEF TablesTyped
<1>7. EntriesCounted'
  <2>1. \A j \in OftSlot : Openers(j)' = Openers(j)
    BY <1>2 DEF Openers
  <2>2. QED
    BY <1>1, <1>5, <2>1 DEF EntriesCounted
<1>8. NamesInjective' /\ OneEntryPerNumber' /\ KeyWhileOpen' /\ PinnedWhileOpen'
  BY <1>2, <1>5 DEF NamesInjective, OneEntryPerNumber, KeyWhileOpen, PinnedWhileOpen
<1>9. NamedUnlessStale'
  BY <1>2, <1>5 DEF NamedUnlessStale
<1>10. OffsetInFile'
  <2> SUFFICES ASSUME NEW j \in OftSlot, InUse(j), j \notin stale
               PROVE  oft'[j].offset <= Len(content'[oft[j].inodeptr])
    BY <1>2, <1>5 DEF OffsetInFile
  <2>1. CASE j = i
    BY <1>3, <1>4, <1>5, <2>1
  <2>2. CASE j # i
    <3>1. oft[j].inodeptr \in Key \ {k}
      BY <1>1, <2>2 DEF OneEntryPerNumber, KeyWhileOpen
    <3>2. QED
      BY <1>4, <1>5, <2>2, <3>1 DEF OffsetInFile
  <2>3. QED
    BY <2>1, <2>2
<1>11. QED
  BY <1>6, <1>7, <1>8, <1>9, <1>10

-----------------------------------------------------------------------------
(* Creat and unlink of files that may be open.                              *)

LEMMA CreatFileTables ==
    ASSUME TablesInv, NEW path \in Path, CreatFile(path),
           UNCHANGED <<pins, oft, fd, running, stale>>
    PROVE  TablesInv'
<1> USE DEF TablesInv
<1>1. PICK k \in Key :
        /\ \A p \in Path : name[p] # k
        /\ name' = [name EXCEPT ![path] = k]
        /\ content' = [content EXCEPT ![k] = <<>>]
  BY DEF CreatFile
<1>2. name[path] = NoKey
  BY DEF CreatFile
<1>3. TablesTyped'
  BY <1>1, EmptyContent DEF TablesTyped
<1>4. NamesInjective'
  BY <1>1 DEF NamesInjective, TablesTyped
<1>5. \A j \in OftSlot : Openers(j)' = Openers(j) /\ (InUse(j)' <=> InUse(j))
  BY DEF Openers, InUse
<1>6. EntriesCounted' /\ OneEntryPerNumber' /\ KeyWhileOpen' /\ PinnedWhileOpen'
  BY <1>5 DEF EntriesCounted, OneEntryPerNumber, KeyWhileOpen, PinnedWhileOpen
<1>7. ASSUME NEW j \in OftSlot, InUse(j), j \notin stale
      PROVE  /\ \E p \in Path : name'[p] = oft[j].inodeptr
             /\ oft[j].offset <= Len(content'[oft[j].inodeptr])
  <2>1. PICK p \in Path : name[p] = oft[j].inodeptr
    BY <1>7 DEF NamedUnlessStale
  <2>2. oft[j].inodeptr \in Key \ {k}
    BY <1>1, <1>7, <2>1 DEF KeyWhileOpen
  <2>3. p # path
    BY <1>2, <2>1, <2>2, KeyNotNoKey
  <2>4. name'[p] = name[p] /\ content'[oft[j].inodeptr] = content[oft[j].inodeptr]
    BY <1>1, <2>2, <2>3 DEF TablesTyped
  <2>5. QED
    BY <1>7, <2>1, <2>4 DEF OffsetInFile
<1>8. NamedUnlessStale' /\ OffsetInFile'
  BY <1>5, <1>7 DEF NamedUnlessStale, OffsetInFile
<1>9. QED
  BY <1>3, <1>4, <1>6, <1>8

LEMMA UnlinkTables ==
    ASSUME TablesInv, NEW path \in Path, Unlink(path)
    PROVE  TablesInv'
<1> DEFINE k == name[path]
<1> USE DEF TablesInv
<1>1. /\ k \in Key
      /\ name' = [name EXCEPT ![path] = NoKey]
      /\ content' = [content EXCEPT ![k] = <<>>]
      /\ stale' = stale \cup {i \in OftSlot : oft[i].inodeptr = k}
      /\ UNCHANGED <<pins, oft, fd, running>>
  BY DEF Unlink, TablesTyped
<1>2. TablesTyped'
  BY <1>1, EmptyContent DEF TablesTyped
<1>3. NamesInjective'
  BY <1>1 DEF NamesInjective, TablesTyped
<1>4. \A j \in OftSlot : Openers(j)' = Openers(j) /\ (InUse(j)' <=> InUse(j))
  BY <1>1 DEF Openers, InUse
<1>5. EntriesCounted' /\ OneEntryPerNumber' /\ KeyWhileOpen' /\ PinnedWhileOpen'
  BY <1>1, <1>4 DEF EntriesCounted, OneEntryPerNumber, KeyWhileOpen, PinnedWhileOpen
<1>6. ASSUME NEW j \in OftSlot, InUse(j), j \notin stale'
      PROVE  /\ \E p \in Path : name'[p] = oft[j].inodeptr
             /\ oft[j].offset <= Len(content'[oft[j].inodeptr])
  <2>1. j \notin stale /\ oft[j].inodeptr # k
    BY <1>1, <1>6
  <2>2. PICK p \in Path : name[p] = oft[j].inodeptr
    BY <1>6, <2>1 DEF NamedUnlessStale
  <2>3. p # path /\ oft[j].inodeptr \in Key
    BY <1>6, <2>1, <2>2 DEF KeyWhileOpen
  <2>4. name'[p] = name[p] /\ content'[oft[j].inodeptr] = content[oft[j].inodeptr]
    BY <1>1, <2>1, <2>3 DEF TablesTyped
  <2>5. QED
    BY <1>6, <2>1, <2>2, <2>4 DEF OffsetInFile
<1>7. NamedUnlessStale' /\ OffsetInFile'
  BY <1>1, <1>4, <1>6 DEF NamedUnlessStale, OffsetInFile
<1>8. QED
  BY <1>2, <1>3, <1>5, <1>7

-----------------------------------------------------------------------------
(* Every step keeps the tables.                                             *)

LEMMA OpenTables ==
    ASSUME TablesInv, NEW path \in Path, NEW mode \in {R, W, RW, APPEND}, NEW f \in Fd,
           OpenSucceeds(path, mode, f), name' = name, running' = running
    PROVE  TablesInv'
  BY OpenSetTables, OpenJoinTables DEF OpenSucceeds

LEMMA StutterTables ==
    ASSUME TablesInv, UNCHANGED <<name, content, pins, oft, fd, stale>>, running' \in Proc
    PROVE  TablesInv'
<1> USE DEF TablesInv
<1>1. \A j \in OftSlot : Openers(j)' = Openers(j)
  BY DEF Openers
<1>2. EntriesCounted'
  BY <1>1 DEF EntriesCounted, InUse
<1>3. TablesTyped' /\ NamesInjective'
  BY DEF TablesTyped, NamesInjective
<1>4. OneEntryPerNumber' /\ KeyWhileOpen' /\ PinnedWhileOpen'
  BY DEF OneEntryPerNumber, KeyWhileOpen, PinnedWhileOpen, InUse
<1>5. NamedUnlessStale' /\ OffsetInFile'
  BY DEF NamedUnlessStale, OffsetInFile, InUse
<1>6. QED
  BY <1>2, <1>3, <1>4, <1>5

LEMMA BufferIsContent == Buffer \subseteq Content
<1> SUFFICES ASSUME NEW n \in 1 .. MaxLen, NEW b \in [1 .. n -> Data]
             PROVE  b \in Content
  BY DEF Buffer
<1>1. n \in 0 .. MaxLen /\ b \in [1 .. n -> Data \cup {Hole}]
  BY BoundAssumption
<1>2. QED
  BY <1>1, FunctionIsContent

LEMMA TablesStep ==
    ASSUME TablesInv, CommandTyped, CommandDescriptors, [Next]_vars
    PROVE  TablesInv'
<1>0. running' = running => running' \in Proc
  BY DEF TablesInv, TablesTyped
<1>1. ASSUME NEW path \in Path, NEW mode \in {R, W, RW, APPEND}, Open(path, mode)
      PROVE  TablesInv'
  BY <1>1, OpenTables DEF Open
<1>2. ASSUME NEW path \in Path, NEW mode \in {R, W, RW, APPEND}, OpenRefused(path, mode)
      PROVE  TablesInv'
  BY <1>0, <1>2, StutterTables DEF OpenRefused, vars
<1>3. ASSUME NEW path \in Path, Creat(path)
      PROVE  TablesInv'
  BY <1>3, CreatFileTables DEF Creat
<1>4. ASSUME NEW path \in Path, Unlink(path)
      PROVE  TablesInv'
  BY <1>4, UnlinkTables
<1>5. ASSUME NEW path \in Path, CatOpen(path)
      PROVE  TablesInv'
  BY <1>5, OpenTables DEF CatOpen
<1>6. ASSUME NEW path \in Path, NEW dst \in Path, CpOpenSrc(path, dst)
      PROVE  TablesInv'
  BY <1>6, OpenTables DEF CpOpenSrc
<1>7. ASSUME NEW f \in Fd, Close(f)
      PROVE  TablesInv'
  BY <1>7, CloseFdTables DEF Close
<1>8. ASSUME NEW f \in Fd, NEW pos \in 0 .. MaxLen, Lseek(f, pos)
      PROVE  TablesInv'
  <2>1. oft[fd[running][f]].inodeptr \in Key
    BY <1>8, OpenFdInUse DEF TablesInv, KeyWhileOpen, Lseek
  <2>2. Len(content[oft[fd[running][f]].inodeptr]) \in Nat
    BY <2>1, ContentType, BoundAssumption DEF TablesInv, TablesTyped
  <2>3. pos \in Nat /\ pos <= Len(content[oft[fd[running][f]].inodeptr])
    BY <1>8, <2>2, BoundAssumption DEF Lseek
  <2>4. QED
    BY <1>8, <2>3, MoveTables DEF Lseek
<1>9. ASSUME NEW f \in Fd, NEW n \in 1 .. MaxLen, Read(f, n)
      PROVE  TablesInv'
  <2>1. n \in Nat
    BY BoundAssumption
  <2>2. QED
    BY <1>9, <2>1, ReadFdTables DEF Read
<1>10. ASSUME NEW f \in Fd, NEW buf \in Buffer, Write(f, buf)
      PROVE  TablesInv'
  BY <1>10, BufferIsContent, WriteFdTables DEF Write
<1>11. ASSUME NEW uid \in Proc, Switch(uid)
      PROVE  TablesInv'
  BY <1>11, StutterTables DEF Switch
<1>12. CASE CommandStep
  <2> USE DEF CommandDescriptors
  <2>1. CASE CatRead
    BY <2>1, ReadFdTables DEF CatRead
  <2>2. CASE CatClose
    BY <2>2, CloseFdTables DEF CatClose
  <2>3. CASE CpAccess
    <3>1. CASE name[cmd.dst] = NoKey
      BY <2>3, <3>1, CreatFileTables DEF CpAccess
    <3>2. CASE name[cmd.dst] # NoKey
      BY <1>0, <2>3, <3>2, StutterTables DEF CpAccess
    <3>3. QED
      BY <3>1, <3>2
  <2>4. CASE CpOpenDst
    BY <2>4, OpenTables DEF CpOpenDst
  <2>5. CASE CpAccessFails \/ CpOpenDstFails
    BY <1>0, <2>5, StutterTables DEF CpAccessFails, CpOpenDstFails
  <2>6. CASE CpRead
    BY <2>6, ReadFdTables DEF CpRead
  <2>7. CASE CpWrite
    <3>1. cmd.gd \in Fd /\ cmd.buf \in Content
      BY <2>7 DEF CpWrite, CommandTyped
    <3>2. QED
      BY <2>7, <3>1, WriteFdTables DEF CpWrite
  <2>8. CASE CpReadEnds
    BY <1>0, <2>8, StutterTables DEF CpReadEnds
  <2>9. CASE CpCloseSrc
    BY <2>9, CloseFdTables DEF CpCloseSrc
  <2>10. CASE CpCloseDst
    <3>1. cmd.gd \in Fd
      BY <2>10 DEF CpCloseDst, CommandTyped
    <3>2. QED
      BY <2>10, <3>1, CloseFdTables DEF CpCloseDst
  <2>11. QED
    BY <1>12, <2>1, <2>2, <2>3, <2>4, <2>5, <2>6, <2>7, <2>8, <2>9, <2>10
       DEF CommandStep
<1>13. CASE UNCHANGED vars
  BY <1>0, <1>13, StutterTables DEF vars
<1>14. QED
  BY <1>1, <1>2, <1>3, <1>4, <1>5, <1>6, <1>7, <1>8, <1>9, <1>10, <1>11, <1>12,
     <1>13 DEF Next

-----------------------------------------------------------------------------
(* Every step keeps the descriptors of the command apart from the others.   *)

LEMMA OpenEffect ==
    ASSUME TablesInv, NEW path \in Path, NEW mode \in {R, W, RW, APPEND}, NEW f \in Fd,
           OpenSucceeds(path, mode, f)
    PROVE  /\ name[path] \in Key
           /\ pins' = [pins EXCEPT ![name[path]] = @ + 1]
           /\ fd[running][f] = NULL
           /\ \E i \in OftSlot : fd' = [fd EXCEPT ![running][f] = i]
<1>1. CASE OpenSet(path, mode, f)
  BY <1>1 DEF OpenSet, OpenAt, IsFd, TablesInv, TablesTyped
<1>2. CASE OpenJoin(path, f)
  BY <1>2 DEF OpenJoin, IsFd, TablesInv, TablesTyped
<1>3. QED
  BY <1>1, <1>2 DEF OpenSucceeds

LEMMA NullNotFd == NULL \notin Fd
  BY SizeAssumption DEF NULL, Fd

LEMMA IdleTyped == cmd' = Idle => CommandTyped'
<1>1. <<>> \in Content
  BY EmptyContent
<1>2. QED
  BY <1>1 DEF CommandTyped, Idle

LEMMA BegunTyped ==
    ASSUME NEW s \in Path, NEW d \in Path, NEW f \in Fd,
           NEW t \in Descriptors, NEW b \in Content, NEW a \in BOOLEAN
    PROVE  /\ cmd' = [Idle EXCEPT !.pc = "catRead", !.src = s, !.fd = f, !.fds = t]
                => CommandTyped'
           /\ cmd' = [Idle EXCEPT !.pc = "cpAccess", !.src = s, !.dst = d, !.fd = f,
                        !.fds = t, !.before = b, !.apart = a] => CommandTyped'
<1>1. <<>> \in Content
  BY EmptyContent
<1>2. QED
  BY <1>1 DEF CommandTyped, Idle

\* A command of the user that is one call leaves cmd idle.
LEMMA ReadyStep ==
    ASSUME CommandTyped, CommandDescriptors, Ready, cmd' = cmd
    PROVE  CommandTyped' /\ CommandDescriptors'
  BY DEF CommandTyped, CommandDescriptors, Ready

LEMMA DescriptorsStep ==
    ASSUME TablesInv, CommandTyped, CommandDescriptors, [Next]_vars
    PROVE  CommandTyped' /\ CommandDescriptors'
<1> USE NullNotFd, NullNotSlot
<1>0. fd \in [Proc -> Descriptors] /\ running \in Proc /\ fd[running] \in Descriptors
  BY DEF TablesInv, TablesTyped, Descriptors
<1>1. ASSUME NEW path \in Path, NEW mode \in {R, W, RW, APPEND},
             Open(path, mode) \/ OpenRefused(path, mode)
      PROVE  CommandTyped' /\ CommandDescriptors'
  BY <1>1, ReadyStep DEF Open, OpenRefused, vars
<1>2. ASSUME NEW path \in Path, Creat(path) \/ Unlink(path)
      PROVE  CommandTyped' /\ CommandDescriptors'
  BY <1>2, ReadyStep DEF Creat, Unlink
<1>3. ASSUME NEW path \in Path, CatOpen(path)
      PROVE  CommandTyped' /\ CommandDescriptors'
  <2>1. PICK f \in Fd :
          /\ OpenSucceeds(path, R, f)
          /\ cmd' = [Idle EXCEPT !.pc = "catRead", !.src = path, !.fd = f,
                                 !.fds = fd[running]]
    BY <1>3 DEF CatOpen
  <2>2. PICK i \in OftSlot : fd' = [fd EXCEPT ![running][f] = i]
    BY <2>1, OpenEffect
  <2>3. fd[running][f] = NULL /\ running' = running
    BY <1>3, <2>1, OpenEffect DEF CatOpen
  <2>4. CommandTyped'
    BY <1>0, <2>1, BegunTyped, EmptyContent
  <2>5. /\ fd'[running][f] = i
        /\ \A g \in Fd \ {f} : fd'[running][g] = fd[running][g]
    BY <1>0, <2>2 DEF Descriptors
  <2>6. CommandDescriptors'
    BY <1>0, <2>1, <2>3, <2>5 DEF CommandDescriptors, Idle
  <2>7. QED
    BY <2>4, <2>6
<1>4. ASSUME NEW path \in Path, NEW dst \in Path, CpOpenSrc(path, dst)
      PROVE  CommandTyped' /\ CommandDescriptors'
  <2>1. PICK f \in Fd, a \in BOOLEAN :
          /\ OpenSucceeds(path, R, f)
          /\ cmd' = [Idle EXCEPT !.pc = "cpAccess", !.src = path, !.dst = dst, !.fd = f,
                       !.fds = fd[running], !.before = content[name[path]], !.apart = a]
    BY <1>4 DEF CpOpenSrc
  <2>2. PICK i \in OftSlot : fd' = [fd EXCEPT ![running][f] = i]
    BY <2>1, OpenEffect
  <2>3. fd[running][f] = NULL /\ running' = running /\ content[name[path]] \in Content
    BY <1>4, <2>1, OpenEffect DEF CpOpenSrc, TablesInv, TablesTyped
  <2>4. CommandTyped'
    BY <1>0, <2>1, <2>3, BegunTyped
  <2>5. /\ fd'[running][f] = i
        /\ \A g \in Fd \ {f} : fd'[running][g] = fd[running][g]
    BY <1>0, <2>2 DEF Descriptors
  <2>6. CommandDescriptors'
    BY <1>0, <2>1, <2>3, <2>5 DEF CommandDescriptors, Idle
  <2>7. QED
    BY <2>4, <2>6
<1>5. ASSUME NEW f \in Fd, \/ Close(f)
                           \/ \E pos \in 0 .. MaxLen : Lseek(f, pos)
                           \/ \E n \in 1 .. MaxLen : Read(f, n)
                           \/ \E buf \in Buffer : Write(f, buf)
      PROVE  CommandTyped' /\ CommandDescriptors'
  BY <1>5, ReadyStep DEF Close, Lseek, Read, Write
<1>6. ASSUME NEW uid \in Proc, Switch(uid)
      PROVE  CommandTyped' /\ CommandDescriptors'
  BY <1>6, ReadyStep DEF Switch
<1>7. CASE CommandStep
  <2>1. CASE CatRead
    BY <2>1 DEF CatRead, ReadFd, CommandTyped, CommandDescriptors
  <2>2. CASE CatClose
    BY <2>2, IdleTyped DEF CatClose, CommandDescriptors, Idle
  <2>3. CASE CpAccess
    <3>1. PICK a \in BOOLEAN : cmd' = [cmd EXCEPT !.pc = "cpOpen", !.apart = a]
      <4>1. CASE name[cmd.dst] = NoKey
        BY <2>3, <4>1 DEF CpAccess
      <4>2. CASE name[cmd.dst] # NoKey
        BY <2>3, <4>2 DEF CpAccess, Call, CommandTyped
      <4>3. QED
        BY <4>1, <4>2
    <3>2. fd' = fd /\ running' = running
      BY <2>3 DEF CpAccess
    <3>3. CommandTyped'
      BY <3>1 DEF CommandTyped
    <3>4. CommandDescriptors'
      BY <2>3, <3>1, <3>2 DEF CpAccess, CommandTyped, CommandDescriptors
    <3>5. QED
      BY <3>3, <3>4
  <2>4. CASE CpOpenDst
    <3>1. PICK g \in Fd :
            /\ OpenSucceeds(cmd.dst, W, g)
            /\ cmd' = [cmd EXCEPT !.pc = "cpRead", !.gd = g]
      BY <2>4 DEF CpOpenDst
    <3>2. cmd.pc = "cpOpen" /\ cmd.dst \in Path /\ running' = running
      BY <2>4 DEF CpOpenDst, CommandDescriptors
    <3>3. PICK i \in OftSlot : fd' = [fd EXCEPT ![running][g] = i]
      BY <3>1, <3>2, OpenEffect
    <3>4. fd[running][g] = NULL
      BY <3>1, <3>2, OpenEffect
    <3>5. /\ fd'[running][g] = i
          /\ \A h \in Fd \ {g} : fd'[running][h] = fd[running][h]
      BY <1>0, <3>3 DEF Descriptors
    <3>6. CommandTyped'
      BY <3>1 DEF CommandTyped
    <3>7. g # cmd.fd /\ cmd.gd = NULL /\ cmd.fds[g] = NULL
      BY <3>2, <3>4 DEF CommandDescriptors
    <3>8. /\ cmd'.pc = "cpRead" /\ cmd'.gd = g
          /\ cmd'.src = cmd.src /\ cmd'.dst = cmd.dst /\ cmd'.fd = cmd.fd
          /\ cmd'.fds = cmd.fds
      BY <3>1 DEF CommandTyped
    <3>9. CommandDescriptors'
      BY <3>2, <3>5, <3>7, <3>8 DEF CommandDescriptors
    <3>10. QED
      BY <3>6, <3>9
  <2>5. CASE CpAccessFails \/ CpOpenDstFails \/ CpReadEnds
    BY <2>5 DEF CpAccessFails, CpOpenDstFails, CpReadEnds, Call, CommandTyped, CommandDescriptors
  <2>6. CASE CpRead
    <3>1. Readable(cmd.fd, 1) \in Content
      BY <2>6, ReadableType DEF CpRead, CommandDescriptors
    <3>2. QED
      BY <2>6, <3>1 DEF CpRead, ReadFd, CommandTyped, CommandDescriptors
  <2>7. CASE CpWrite
    BY <2>7, EmptyContent DEF CpWrite, WriteFd, CommandTyped, CommandDescriptors
  <2>8. CASE CpCloseSrc
    <3>1. CASE cmd.gd = NULL
      BY <2>8, <3>1, IdleTyped DEF CpCloseSrc, CommandDescriptors, Idle
    <3>2. CASE cmd.gd # NULL
      <4>1. /\ cmd' = [cmd EXCEPT !.pc = "cpCloseDst"]
            /\ fd' = [fd EXCEPT ![running][cmd.fd] = NULL]
            /\ running' = running /\ cmd.pc = "cpCloseSrc"
        BY <2>8, <3>2 DEF CpCloseSrc, CloseFd, Call
      <4>2. cmd.fd \in Fd
        BY <4>1 DEF CommandDescriptors
      <4>3. /\ fd'[running][cmd.fd] = NULL
            /\ \A h \in Fd \ {cmd.fd} : fd'[running][h] = fd[running][h]
        BY <1>0, <4>1, <4>2 DEF Descriptors
      <4>4. CommandTyped'
        BY <4>1 DEF CommandTyped
      <4>5. /\ cmd'.pc = "cpCloseDst" /\ cmd'.gd = cmd.gd
            /\ cmd'.src = cmd.src /\ cmd'.dst = cmd.dst /\ cmd'.fd = cmd.fd
            /\ cmd'.fds = cmd.fds /\ cmd.gd \in Fd
        BY <3>2, <4>1 DEF CommandTyped
      <4>6. CommandDescriptors'
        BY <3>2, <4>1, <4>3, <4>5 DEF CommandDescriptors
      <4>7. QED
        BY <4>4, <4>6
    <3>3. QED
      BY <3>1, <3>2
  <2>9. CASE CpCloseDst
    BY <2>9, IdleTyped DEF CpCloseDst, CommandDescriptors, Idle
  <2>10. QED
    BY <1>7, <2>1, <2>2, <2>3, <2>4, <2>5, <2>6, <2>7, <2>8, <2>9 DEF CommandStep
<1>8. CASE UNCHANGED vars
  BY <1>8 DEF vars, CommandTyped, CommandDescriptors
<1>9. QED
  BY <1>1, <1>2, <1>3, <1>4, <1>5, <1>6, <1>7, <1>8 DEF Next

-----------------------------------------------------------------------------
(* Every step keeps room for the references.                                *)

LEMMA PinMore ==
    ASSUME TablesInv, \A k \in Key : pins[k] <= MaxPins,
           NEW x \in Key, pins[x] < MaxPins, pins' = [pins EXCEPT ![x] = @ + 1]
    PROVE  /\ \A k \in Key : pins'[k] <= MaxPins
           /\ pins'[x] = pins[x] + 1
           /\ \A k \in Key : k # x => pins'[k] = pins[k]
<1>1. pins \in [Key -> Nat]
  BY DEF TablesInv, TablesTyped
<1>2. /\ pins'[x] = pins[x] + 1
      /\ \A k \in Key : k # x => pins'[k] = pins[k]
  BY <1>1
<1>3. \A k \in Key : pins[k] \in Nat
  BY <1>1
<1>4. QED
  BY <1>2, <1>3, BoundAssumption

LEMMA PinLess ==
    ASSUME TablesInv, \A k \in Key : pins[k] <= MaxPins, NEW f \in Fd, CloseFd(f)
    PROVE  \A k \in Key : pins'[k] <= MaxPins
<1>1. pins \in [Key -> Nat]
  BY DEF TablesInv, TablesTyped
<1>2. pins' = pins \/ \E x : pins' = [pins EXCEPT ![x] = @ - 1]
  BY DEF CloseFd
<1>3. \A k \in Key : pins[k] \in Nat /\ (pins'[k] = pins[k] \/ pins'[k] = pins[k] - 1)
  BY <1>1, <1>2
<1>4. QED
  BY <1>3, BoundAssumption

LEMMA RoomStep ==
    ASSUME TablesInv, CommandTyped, CommandDescriptors, RoomForPins, [Next]_vars
    PROVE  RoomForPins'
<1>0. \A k \in Key : pins[k] <= MaxPins
  BY DEF RoomForPins
<1>1. ASSUME NEW path \in Path, NEW mode \in {R, W, RW, APPEND}, Open(path, mode)
      PROVE  RoomForPins'
  <2>1. name[path] \in Key /\ pins[name[path]] < MaxPins
    BY <1>1 DEF Open, TablesInv, TablesTyped
  <2>2. pins' = [pins EXCEPT ![name[path]] = @ + 1]
    BY <1>1, OpenEffect DEF Open
  <2>3. \A k \in Key : pins'[k] <= MaxPins
    BY <1>0, <2>1, <2>2, PinMore
  <2>4. QED
    BY <1>1, <2>3 DEF RoomForPins, Open, Ready
<1>2. ASSUME NEW path \in Path, NEW mode \in {R, W, RW, APPEND}, OpenRefused(path, mode)
      PROVE  RoomForPins'
  BY <1>2 DEF OpenRefused, vars, RoomForPins
<1>3. ASSUME NEW path \in Path, Creat(path) \/ Unlink(path)
      PROVE  RoomForPins'
  BY <1>3 DEF Creat, Unlink, Ready, RoomForPins
<1>4. ASSUME NEW path \in Path, CatOpen(path)
      PROVE  RoomForPins'
  <2>1. name[path] \in Key /\ pins[name[path]] < MaxPins
    BY <1>4 DEF CatOpen, TablesInv, TablesTyped
  <2>2. pins' = [pins EXCEPT ![name[path]] = @ + 1]
    BY <1>4, OpenEffect DEF CatOpen
  <2>3. \A k \in Key : pins'[k] <= MaxPins
    BY <1>0, <2>1, <2>2, PinMore
  <2>4. cmd'.pc = "catRead"
    BY <1>4 DEF CatOpen, Idle
  <2>5. QED
    BY <2>3, <2>4 DEF RoomForPins
<1>5. ASSUME NEW path \in Path, NEW dst \in Path, CpOpenSrc(path, dst)
      PROVE  RoomForPins'
  <2>1. /\ name[path] \in Key /\ name' = name
        /\ \A k \in Key : pins[k] < MaxPins
        /\ path = dst => pins[name[path]] + 2 <= MaxPins
    BY <1>5 DEF CpOpenSrc, TablesInv, TablesTyped
  <2>2. pins' = [pins EXCEPT ![name[path]] = @ + 1]
    BY <1>5, OpenEffect DEF CpOpenSrc
  <2>3. /\ \A k \in Key : pins'[k] <= MaxPins
        /\ pins'[name[path]] = pins[name[path]] + 1
        /\ \A k \in Key : k # name[path] => pins'[k] = pins[k]
    BY <1>0, <2>1, <2>2, PinMore
  <2>4. cmd'.pc = "cpAccess" /\ cmd'.src = path /\ cmd'.dst = dst
    BY <1>5 DEF CpOpenSrc, Idle
  <2>5. name'[path] # NoKey
    BY <2>1, KeyNotNoKey
  <2>6. pins[name[path]] \in Nat
    BY <2>1 DEF TablesInv, TablesTyped
  <2>7. path = dst => pins'[name'[path]] < MaxPins
    BY <2>1, <2>3, <2>6, BoundAssumption
  <2>8. QED
    BY <2>1, <2>3, <2>4, <2>5, <2>7 DEF RoomForPins
<1>6. ASSUME NEW f \in Fd, Close(f)
      PROVE  RoomForPins'
  BY <1>0, <1>6, PinLess DEF RoomForPins, Close, Ready
<1>7. ASSUME NEW f \in Fd, \/ \E pos \in 0 .. MaxLen : Lseek(f, pos)
                           \/ \E n \in 1 .. MaxLen : Read(f, n)
                           \/ \E buf \in Buffer : Write(f, buf)
      PROVE  RoomForPins'
  BY <1>7 DEF Lseek, Read, Write, ReadFd, WriteFd, Ready, RoomForPins
<1>8. ASSUME NEW uid \in Proc, Switch(uid)
      PROVE  RoomForPins'
  BY <1>8 DEF Switch, Ready, RoomForPins
<1>9. CASE CommandStep
  <2>1. CASE CatRead \/ CpRead \/ CpWrite \/ CpAccessFails \/ CpOpenDstFails \/ CpReadEnds
    BY <1>0, <2>1 DEF CatRead, CpRead, CpWrite, CpAccessFails, CpOpenDstFails, CpReadEnds, Call,
       ReadFd, WriteFd, CommandTyped, RoomForPins
  <2>2. CASE CatClose
    BY <1>0, <2>2, PinLess DEF CatClose, Idle, RoomForPins, CommandDescriptors
  <2>3. CASE CpCloseSrc
    <3>1. cmd'.pc \in {"idle", "cpCloseDst"}
      BY <2>3 DEF CpCloseSrc, Call, Idle, CommandTyped
    <3>2. cmd.fd \in Fd /\ CloseFd(cmd.fd)
      BY <2>3 DEF CpCloseSrc, CommandDescriptors
    <3>3. QED
      BY <1>0, <3>1, <3>2, PinLess DEF RoomForPins
  <2>4. CASE CpCloseDst
    <3>1. cmd.gd \in Fd
      BY <2>4 DEF CpCloseDst, CommandTyped, CommandDescriptors
    <3>2. QED
      BY <1>0, <2>4, <3>1, PinLess DEF CpCloseDst, Idle, RoomForPins
  <2>5. CASE CpAccess
    <3>1. /\ cmd.pc = "cpAccess" /\ pins' = pins /\ cmd.src \in Path /\ cmd.dst \in Path
      BY <2>5 DEF CpAccess, CommandDescriptors
    <3>2. /\ cmd'.pc = "cpOpen" /\ cmd'.src = cmd.src /\ cmd'.dst = cmd.dst
      BY <2>5 DEF CpAccess, Call, CommandTyped
    <3>3. name'[cmd.src] = name[cmd.src]
      <4>1. CASE name[cmd.dst] = NoKey
        <5>1. PICK k \in Key : name' = [name EXCEPT ![cmd.dst] = k]
          BY <2>5, <4>1 DEF CpAccess, CreatFile
        <5>2. cmd.src # cmd.dst
          BY <3>1, <4>1 DEF RoomForPins
        <5>3. QED
          BY <3>1, <5>1, <5>2 DEF TablesInv, TablesTyped
      <4>2. CASE name[cmd.dst] # NoKey
        BY <2>5, <4>2 DEF CpAccess
      <4>3. QED
        BY <4>1, <4>2
    <3>4. QED
      BY <3>1, <3>2, <3>3 DEF RoomForPins
  <2>6. CASE CpOpenDst
    <3>1. PICK g \in Fd :
            /\ OpenSucceeds(cmd.dst, W, g)
            /\ cmd' = [cmd EXCEPT !.pc = "cpRead", !.gd = g]
      BY <2>6 DEF CpOpenDst
    <3>2. cmd.pc = "cpOpen" /\ cmd.src \in Path /\ cmd.dst \in Path
      BY <2>6 DEF CpOpenDst, CommandDescriptors
    <3>3. name[cmd.dst] \in Key /\ pins' = [pins EXCEPT ![name[cmd.dst]] = @ + 1]
      BY <3>1, <3>2, OpenEffect
    <3>4. pins[name[cmd.dst]] < MaxPins
      <4>1. CASE cmd.src = cmd.dst
        BY <3>2, <4>1 DEF RoomForPins
      <4>2. CASE cmd.src # cmd.dst
        <5>1. name[cmd.dst] # name[cmd.src]
          BY <3>2, <4>2 DEF RoomForPins, TablesInv, NamesInjective
        <5>2. QED
          BY <3>2, <3>3, <5>1 DEF RoomForPins
      <4>3. QED
        BY <4>1, <4>2
    <3>5. \A k \in Key : pins'[k] <= MaxPins
      BY <1>0, <3>3, <3>4, PinMore
    <3>6. cmd'.pc = "cpRead"
      BY <3>1 DEF CommandTyped
    <3>7. QED
      BY <3>5, <3>6 DEF RoomForPins
  <2>7. QED
    BY <1>9, <2>1, <2>2, <2>3, <2>4, <2>5, <2>6 DEF CommandStep
<1>10. CASE UNCHANGED vars
  BY <1>10 DEF vars, RoomForPins
<1>11. QED
  BY <1>1, <1>2, <1>3, <1>4, <1>5, <1>6, <1>7, <1>8, <1>9, <1>10 DEF Next

-----------------------------------------------------------------------------
(* Every step keeps what cp has copied.                                     *)

\* cp has opened src: it was opened nowhere, so its entry is new.
LEMMA CopyOpensSrc ==
    ASSUME TablesInv, NEW src \in Path, NEW dst \in Path, CpOpenSrc(src, dst)
    PROVE  CopyInv'
<1>1. PICK f \in Fd :
        /\ OpenSucceeds(src, R, f)
        /\ cmd' = [Idle EXCEPT !.pc = "cpAccess", !.src = src, !.dst = dst, !.fd = f,
                     !.fds = fd[running], !.before = content[name[src]],
                     !.apart = /\ src # dst /\ Unopened(src) /\ Unopened(dst)
                               /\ name[src][2] # name[dst][2]]
  BY DEF CpOpenSrc
<1>2. /\ cmd'.pc = "cpAccess" /\ cmd'.src = src /\ cmd'.dst = dst /\ cmd'.fd = f
      /\ cmd'.before = content[name[src]] /\ cmd'.buf = <<>>
      /\ cmd'.apart => /\ Unopened(src) /\ Unopened(dst)
                       /\ name[src][2] # name[dst][2]
  BY <1>1 DEF Idle
<1>3. name' = name /\ running' = running /\ name[src] # NoKey
  BY DEF CpOpenSrc
<1> SUFFICES ASSUME cmd'.apart
             PROVE  CopyInv'
  BY <1>2 DEF CopyInv
<1>4. OpenSet(src, R, f)
  <2>1. ~OpenJoin(src, f)
    BY <1>2 DEF OpenJoin, IsOft, Unopened
  <2>2. QED
    BY <1>1, <2>1 DEF OpenSucceeds
<1>5. content' = content
  BY <1>4 DEF OpenSet, OpenAt, R, W
<1>6. PICK i \in OftSlot :
        /\ oft' = [oft EXCEPT ![i] =
             [inodeptr |-> name[src], mode |-> R, ref_count |-> oft[i].ref_count + 1,
              offset |-> IF R = APPEND THEN Len(content[name[src]]) ELSE 0]]
        /\ fd' = [fd EXCEPT ![running][f] = i]
  BY <1>4, OpenSetEntry
<1>7. /\ fd'[running][f] = i
      /\ oft'[i].inodeptr = name[src] /\ oft'[i].mode = R /\ oft'[i].offset = 0
      /\ \A j \in OftSlot : j # i => oft'[j] = oft[j]
  BY <1>6 DEF TablesInv, TablesTyped, R, APPEND
<1>8. \A j \in OftSlot : oft'[j].ref_count > 0 => oft'[j].inodeptr[2] # name[dst][2]
  BY <1>2, <1>7 DEF Unopened, InUse
<1>9. CopyBegun'
  BY <1>2, <1>3, <1>7, <1>8 DEF CopyBegun, Unopened, InUse
<1>10. QED
  BY <1>2, <1>3, <1>5, <1>9 DEF CopyInv

\* cp has made sure that dst exists; a new dst has an inode nobody has open.
LEMMA CopyAccesses ==
    ASSUME TablesInv, CommandTyped, CommandDescriptors, CopyInv, CpAccess
    PROVE  CopyInv'
<1>1. /\ cmd.pc = "cpAccess" /\ cmd.src \in Path /\ cmd.dst \in Path /\ cmd.fd \in Fd
      /\ fd[running][cmd.fd] # NULL
      /\ UNCHANGED <<oft, fd, running>>
  BY DEF CpAccess, CommandDescriptors
<1> DEFINE i == fd[running][cmd.fd]
<1>2. /\ cmd'.pc = "cpOpen" /\ cmd'.src = cmd.src /\ cmd'.dst = cmd.dst
      /\ cmd'.fd = cmd.fd /\ cmd'.before = cmd.before /\ cmd'.buf = <<>>
      /\ cmd'.apart => cmd.apart
  BY DEF CpAccess, Call, CommandTyped, CopyInv
<1> SUFFICES ASSUME cmd'.apart
             PROVE  CopyInv'
  BY <1>2 DEF CopyInv
<1>3. /\ name[cmd.src] # NoKey /\ name[cmd.src][2] # name[cmd.dst][2]
      /\ content[name[cmd.src]] = cmd.before
      /\ oft[i].inodeptr = name[cmd.src] /\ oft[i].mode = R /\ oft[i].offset = 0
      /\ Unopened(cmd.dst)
  BY <1>1, <1>2 DEF CopyInv, CopyBegun
<1>4. CASE name[cmd.dst] = NoKey
  <2>1. PICK k \in Key : /\ \A p \in Path : name[p] # k
                         /\ name' = [name EXCEPT ![cmd.dst] = k]
                         /\ content' = [content EXCEPT ![k] = <<>>]
    BY <1>4 DEF CpAccess, CreatFile
  <2>2. name' \in [Path -> Key \cup {NoKey}] /\ name'[cmd.dst] = k
    BY <1>1, <2>1 DEF TablesInv, TablesTyped
  <2>3. \A j \in OftSlot : InUse(j) => oft[j].inodeptr[2] # k[2]
    BY <1>4, <2>2 DEF CpAccess, CommandTyped
  <2>4. name'[cmd.src] = name[cmd.src]
    BY <1>1, <1>3, <1>4, <2>1 DEF TablesInv, TablesTyped
  <2>5. content'[name[cmd.src]] = content[name[cmd.src]]
    BY <1>1, <1>3, <2>1 DEF TablesInv, TablesTyped
  <2>6. name[cmd.src][2] # k[2]
    BY <1>1, <1>3, <2>3, OpenFdInUse DEF TablesInv
  <2>7. CopyBegun'
    BY <1>1, <1>2, <1>3, <2>2, <2>3, <2>4 DEF CopyBegun, Unopened, InUse
  <2>8. QED
    BY <1>2, <1>3, <2>2, <2>4, <2>5, <2>6, <2>7 DEF CopyInv
<1>5. CASE name[cmd.dst] # NoKey
  <2>1. name' = name /\ content' = content
    BY <1>5 DEF CpAccess
  <2>2. CopyBegun'
    BY <1>1, <1>2, <1>3, <2>1 DEF CopyBegun, Unopened, InUse
  <2>3. QED
    BY <1>2, <1>3, <2>1, <2>2 DEF CopyInv
<1>6. QED
  BY <1>4, <1>5

\* cp has opened dst, with an entry of its own: dst is empty.
LEMMA CopyOpensDst ==
    ASSUME TablesInv, CommandTyped, CommandDescriptors, CopyInv, CpOpenDst
    PROVE  CopyInv'
<1>1. /\ cmd.pc = "cpOpen" /\ cmd.src \in Path /\ cmd.dst \in Path /\ cmd.fd \in Fd
      /\ fd[running][cmd.fd] # NULL
      /\ name' = name /\ running' = running
  BY DEF CpOpenDst, CommandDescriptors
<1>2. PICK g \in Fd :
        /\ OpenSucceeds(cmd.dst, W, g)
        /\ cmd' = [cmd EXCEPT !.pc = "cpRead", !.gd = g]
  BY DEF CpOpenDst
<1>3. /\ cmd'.pc = "cpRead" /\ cmd'.src = cmd.src /\ cmd'.dst = cmd.dst
      /\ cmd'.fd = cmd.fd /\ cmd'.gd = g /\ cmd'.before = cmd.before
      /\ cmd'.apart = cmd.apart /\ cmd'.buf = <<>>
  BY <1>1, <1>2 DEF CommandTyped, CopyInv
<1> SUFFICES ASSUME cmd.apart
             PROVE  CopyInv'
  BY <1>3 DEF CopyInv
<1>4. PICK s \in OftSlot : s = fd[running][cmd.fd] /\ InUse(s)
  BY <1>1, OpenFdInUse DEF TablesInv
<1>5. /\ name[cmd.src] # NoKey /\ name[cmd.src][2] # name[cmd.dst][2]
      /\ content[name[cmd.src]] = cmd.before
      /\ oft[s].inodeptr = name[cmd.src] /\ oft[s].mode = R /\ oft[s].offset = 0
      /\ Unopened(cmd.dst)
  BY <1>1, <1>4 DEF CopyInv, CopyBegun
<1>6. OpenSet(cmd.dst, W, g)
  BY <1>2 DEF OpenSucceeds, R, W
<1>7. PICK i \in OftSlot :
        /\ InUse(i) => oft[i].inodeptr[2] = name[cmd.dst][2]
        /\ oft' = [oft EXCEPT ![i] =
             [inodeptr |-> name[cmd.dst], mode |-> W, ref_count |-> oft[i].ref_count + 1,
              offset |-> IF W = APPEND THEN Len(content[name[cmd.dst]]) ELSE 0]]
        /\ fd' = [fd EXCEPT ![running][g] = i]
  BY <1>1, <1>6, OpenSetEntry
<1>8. /\ name[cmd.dst] \in Key /\ name[cmd.src] \in Key
      /\ content' = [content EXCEPT ![name[cmd.dst]] = <<>>]
      /\ fd[running][g] = NULL
  BY <1>1, <1>5, <1>6 DEF OpenSet, OpenAt, IsFd, TablesInv, TablesTyped
<1>9. i # s /\ g # cmd.fd
  BY <1>1, <1>4, <1>5, <1>7, <1>8 DEF Unopened
<1>10. /\ fd'[running][g] = i /\ fd'[running][cmd.fd] = s
       /\ oft'[i].inodeptr = name[cmd.dst] /\ oft'[i].mode = W /\ oft'[i].offset = 0
       /\ oft'[s] = oft[s]
  BY <1>1, <1>4, <1>7, <1>9 DEF TablesInv, TablesTyped, W, APPEND
<1>11. /\ content'[name[cmd.dst]] = <<>>
       /\ content'[name[cmd.src]] = cmd.before
  BY <1>5, <1>8 DEF TablesInv, TablesTyped
<1>12. Len(cmd.before) \in Nat /\ Len(cmd.before) >= 0
  BY ContentType, BoundAssumption DEF CommandTyped
<1>13. CopyUnderWay'
  BY <1>1, <1>3, <1>5, <1>10, <1>11, <1>12, EmptyContent DEF CopyUnderWay
<1>14. QED
  BY <1>1, <1>3, <1>5, <1>8, <1>11, <1>13, KeyNotNoKey DEF CopyInv

\* The entries that cp uses while it copies.
LEMMA CopyEntries ==
    ASSUME TablesInv, CommandDescriptors, CommandTyped, CopyInv, cmd.apart,
           cmd.pc \in {"cpRead", "cpWrite"}
    PROVE  \E s, d \in OftSlot :
             /\ s = fd[running][cmd.fd] /\ d = fd[running][cmd.gd] /\ s # d
             /\ cmd.fd \in Fd /\ cmd.gd \in Fd
             /\ name[cmd.src] \in Key /\ name[cmd.dst] \in Key
             /\ name[cmd.src] # name[cmd.dst]
<1>1. /\ cmd.fd \in Fd /\ cmd.gd \in Fd /\ cmd.src \in Path /\ cmd.dst \in Path
      /\ fd[running][cmd.fd] # NULL /\ fd[running][cmd.gd] # NULL
  BY DEF CommandDescriptors, CommandTyped
<1>2. fd[running][cmd.fd] \in OftSlot /\ fd[running][cmd.gd] \in OftSlot
  BY <1>1, OpenFdInUse DEF TablesInv
<1>3. /\ name[cmd.src] # NoKey /\ name[cmd.src][2] # name[cmd.dst][2]
      /\ name[cmd.dst] # NoKey /\ CopyUnderWay
  BY DEF CopyInv
<1>4. name[cmd.src] \in Key /\ name[cmd.dst] \in Key /\ name[cmd.src] # name[cmd.dst]
  BY <1>1, <1>3 DEF TablesInv, TablesTyped
<1>5. fd[running][cmd.fd] # fd[running][cmd.gd]
  BY <1>3, <1>4 DEF CopyUnderWay
<1>6. QED
  BY <1>1, <1>2, <1>4, <1>5

\* cp reads the next block of src into buf.
LEMMA CopyReads ==
    ASSUME TablesInv, CommandTyped, CommandDescriptors, CopyInv, CpRead
    PROVE  CopyInv'
<1> DEFINE buf == Readable(cmd.fd, 1)
<1>1. /\ cmd.pc = "cpRead" /\ cmd.fd \in Fd /\ fd[running][cmd.fd] # NULL
      /\ buf # <<>>
      /\ cmd' = [cmd EXCEPT !.pc = "cpWrite", !.buf = buf]
      /\ oft' = [oft EXCEPT ![fd[running][cmd.fd]].offset = @ + Len(buf)]
      /\ UNCHANGED <<name, content, fd, running>>
  BY DEF CpRead, ReadFd, CommandDescriptors
<1>2. /\ cmd'.pc = "cpWrite" /\ cmd'.src = cmd.src /\ cmd'.dst = cmd.dst
      /\ cmd'.fd = cmd.fd /\ cmd'.gd = cmd.gd /\ cmd'.before = cmd.before
      /\ cmd'.apart = cmd.apart /\ cmd'.buf = buf
  BY <1>1 DEF CommandTyped
<1> SUFFICES ASSUME cmd.apart
             PROVE  CopyInv'
  BY <1>2 DEF CopyInv
<1>3. PICK s, d \in OftSlot :
        s = fd[running][cmd.fd] /\ d = fd[running][cmd.gd] /\ s # d
  BY <1>1, CopyEntries
<1> DEFINE copied == Len(content[name[cmd.dst]])
<1>4. /\ name[cmd.src] # NoKey /\ name[cmd.src][2] # name[cmd.dst][2]
      /\ content[name[cmd.src]] = cmd.before /\ name[cmd.dst] # NoKey
      /\ oft[s].inodeptr = name[cmd.src] /\ oft[s].mode = R
      /\ oft[d].inodeptr = name[cmd.dst] /\ oft[d].mode = W
      /\ oft[d].offset = copied
      /\ oft[s].offset = copied + Len(cmd.buf)
      /\ \A n \in 1 .. copied : content[name[cmd.dst]][n] = cmd.before[n]
      /\ cmd.buf = <<>>
  BY <1>1, <1>3 DEF CopyInv, CopyUnderWay
<1>5. /\ oft[s].offset \in Nat /\ Len(buf) > 0 /\ Len(buf) <= 1 /\ Len(buf) \in Nat
      /\ oft[s].offset + Len(buf) <= Len(cmd.before)
      /\ \A n \in 1 .. Len(buf) : buf[n] = cmd.before[oft[s].offset + n]
  <2> HIDE DEF buf
  <2>1. /\ oft[s].offset \in Nat /\ Len(buf) > 0 /\ Len(buf) <= 1 /\ Len(buf) \in Nat
        /\ oft[s].offset + Len(buf) <= Len(content[oft[s].inodeptr])
        /\ \A n \in 1 .. Len(buf) : buf[n] = content[oft[s].inodeptr][oft[s].offset + n]
    BY <1>1, <1>3, ReadableType, 1 \in Nat DEF buf
  <2>2. QED
    BY <1>4, <2>1
<1>6. oft'[d] = oft[d]
  BY <1>1, <1>3 DEF TablesInv, TablesTyped
<1>7. /\ oft'[s].inodeptr = oft[s].inodeptr /\ oft'[s].mode = oft[s].mode
      /\ oft'[s].offset = oft[s].offset + Len(buf)
  BY <1>1, <1>3 DEF TablesInv, TablesTyped, OFT
<1>8. copied \in Nat /\ oft[s].offset = copied
  <2>1. Len(cmd.buf) = 0
    BY <1>4, EmptyContent
  <2>2. oft[d].offset \in Nat
    BY BoundAssumption DEF TablesInv, TablesTyped, OFT
  <2>3. QED
    BY <1>4, <2>1, <2>2
<1> HIDE DEF buf
<1>9. CopyUnderWay'
  <2>1. /\ fd'[running'][cmd'.fd] = s /\ fd'[running'][cmd'.gd] = d
        /\ content'[name'[cmd'.dst]] = content[name[cmd.dst]]
        /\ name'[cmd'.src] = name[cmd.src] /\ name'[cmd'.dst] = name[cmd.dst]
    BY <1>1, <1>2, <1>3
  <2>2. /\ oft'[s].inodeptr = name[cmd.src] /\ oft'[s].mode = R
        /\ oft'[d].inodeptr = name[cmd.dst] /\ oft'[d].mode = W
        /\ oft'[d].offset = copied
        /\ oft'[s].offset = copied + Len(buf)
        /\ oft'[s].offset <= Len(cmd.before)
    BY <1>4, <1>5, <1>6, <1>7, <1>8
  <2>3. \A n \in 1 .. Len(buf) : buf[n] = cmd.before[copied + n]
    BY <1>5, <1>8
  <2>4. QED
    BY <1>2, <1>4, <2>1, <2>2, <2>3 DEF CopyUnderWay
<1>10. QED
  BY <1>1, <1>2, <1>4, <1>9 DEF CopyInv

\* cp writes buf behind what it has copied.
LEMMA CopyWrites ==
    ASSUME TablesInv, CommandTyped, CommandDescriptors, CopyInv, CpWrite
    PROVE  CopyInv'
<1>1. /\ cmd.pc = "cpWrite" /\ cmd.gd \in Fd /\ cmd.buf \in Content
      /\ cmd' = [cmd EXCEPT !.pc = "cpRead", !.buf = <<>>]
      /\ WriteFd(cmd.gd, cmd.buf)
      /\ UNCHANGED <<name, fd, running>>
  BY DEF CpWrite, WriteFd, CommandDescriptors, CommandTyped
<1>2. /\ cmd'.pc = "cpRead" /\ cmd'.src = cmd.src /\ cmd'.dst = cmd.dst
      /\ cmd'.fd = cmd.fd /\ cmd'.gd = cmd.gd /\ cmd'.before = cmd.before
      /\ cmd'.apart = cmd.apart /\ cmd'.buf = <<>>
  BY <1>1 DEF CommandTyped
<1> SUFFICES ASSUME cmd.apart
             PROVE  CopyInv'
  BY <1>2 DEF CopyInv
<1>3. PICK s, d \in OftSlot :
        /\ s = fd[running][cmd.fd] /\ d = fd[running][cmd.gd] /\ s # d
        /\ name[cmd.src] \in Key /\ name[cmd.dst] \in Key
        /\ name[cmd.src] # name[cmd.dst]
  BY <1>1, CopyEntries
<1> DEFINE old == content[name[cmd.dst]]
<1>4. /\ name[cmd.src] # NoKey /\ name[cmd.src][2] # name[cmd.dst][2]
      /\ content[name[cmd.src]] = cmd.before /\ name[cmd.dst] # NoKey
      /\ oft[s].inodeptr = name[cmd.src] /\ oft[s].mode = R
      /\ oft[d].inodeptr = name[cmd.dst] /\ oft[d].mode = W
      /\ oft[d].offset = Len(old)
      /\ oft[s].offset = Len(old) + Len(cmd.buf)
      /\ oft[s].offset <= Len(cmd.before)
      /\ \A n \in 1 .. Len(old) : old[n] = cmd.before[n]
      /\ \A n \in 1 .. Len(cmd.buf) : cmd.buf[n] = cmd.before[Len(old) + n]
  BY <1>1, <1>3 DEF CopyInv, CopyUnderWay
<1>5. PICK i \in OftSlot, new \in Content : Wrote(cmd.gd, cmd.buf, i, new)
  BY <1>1, WriteFdEffect
<1>6. /\ i = d
      /\ content' = [content EXCEPT ![name[cmd.dst]] = new]
      /\ oft' = [oft EXCEPT ![d].offset = Len(old) + Len(cmd.buf)]
      /\ Len(new) = IF Len(old) + Len(cmd.buf) > Len(old) THEN Len(old) + Len(cmd.buf)
                    ELSE Len(old)
      /\ \A j \in 1 .. Len(new) :
           new[j] = IF j > Len(old) /\ j <= Len(old) + Len(cmd.buf)
                    THEN cmd.buf[j - Len(old)]
                    ELSE IF j <= Len(old) THEN old[j] ELSE Hole
  BY <1>3, <1>4, <1>5 DEF Wrote
<1>7. /\ content'[name[cmd.dst]] = new
      /\ content'[name[cmd.src]] = cmd.before
  BY <1>3, <1>4, <1>6 DEF TablesInv, TablesTyped
<1>8. /\ oft'[s] = oft[s]
      /\ oft'[d].inodeptr = oft[d].inodeptr /\ oft'[d].mode = oft[d].mode
      /\ oft'[d].offset = Len(old) + Len(cmd.buf)
  BY <1>3, <1>6 DEF TablesInv, TablesTyped, OFT
<1>9. Len(old) \in Nat /\ Len(cmd.buf) \in Nat
  BY <1>1, <1>3, ContentType, BoundAssumption DEF TablesInv, TablesTyped
<1> HIDE DEF old
<1>10. Len(new) = Len(old) + Len(cmd.buf)
  BY <1>6, <1>9
<1>11. ASSUME NEW j \in 1 .. Len(new)
       PROVE  new[j] = cmd.before[j]
  <2>1. CASE j <= Len(old)
    BY <1>4, <1>6, <1>9, <1>10, <2>1
  <2>2. CASE j > Len(old)
    <3>1. j - Len(old) \in 1 .. Len(cmd.buf) /\ Len(old) + (j - Len(old)) = j
      BY <1>9, <1>10, <2>2
    <3>2. new[j] = cmd.buf[j - Len(old)]
      BY <1>6, <1>9, <1>10, <2>2
    <3>3. QED
      BY <1>4, <3>1, <3>2
  <2>3. QED
    BY <1>9, <2>1, <2>2
<1>12. CopyUnderWay'
  <2>1. Len(<<>>) = 0
    BY EmptyContent
  <2>2. Len(new) = Len(new) + Len(<<>>)
    BY <1>9, <1>10, <2>1
  <2>3. \A n \in 1 .. Len(<<>>) : <<>>[n] = cmd.before[Len(new) + n]
    BY <2>1
  <2>4. /\ oft'[d].offset = Len(new)
        /\ oft'[s].offset = Len(new) + Len(<<>>)
        /\ oft'[s].offset <= Len(cmd.before)
    BY <1>4, <1>8, <1>10, <2>2
  <2>5. /\ fd'[running'][cmd'.fd] = s /\ fd'[running'][cmd'.gd] = d
        /\ content'[name'[cmd'.dst]] = new
        /\ name'[cmd'.src] = name[cmd.src] /\ name'[cmd'.dst] = name[cmd.dst]
    BY <1>1, <1>2, <1>3, <1>7
  <2>6. QED
    BY <1>2, <1>4, <1>8, <1>11, <2>3, <2>4, <2>5 DEF CopyUnderWay
<1>13. QED
  BY <1>1, <1>2, <1>4, <1>7, <1>12 DEF CopyInv

\* cp has reached the end of src: dst is now what src is.
LEMMA CopyEnds ==
    ASSUME TablesInv, CommandTyped, CommandDescriptors, CopyInv, CpReadEnds
    PROVE  CopyInv'
<1>1. /\ cmd.pc = "cpRead" /\ cmd.fd \in Fd /\ fd[running][cmd.fd] # NULL
      /\ Readable(cmd.fd, 1) = <<>>
      /\ cmd' = [cmd EXCEPT !.pc = "cpCloseSrc"]
      /\ UNCHANGED <<name, content, oft, fd, running>>
  BY DEF CpReadEnds, Call, CommandDescriptors
<1>2. /\ cmd'.pc = "cpCloseSrc" /\ cmd'.src = cmd.src /\ cmd'.dst = cmd.dst
      /\ cmd'.before = cmd.before /\ cmd'.apart = cmd.apart
      /\ cmd'.buf = <<>> /\ cmd.buf = <<>>
  BY <1>1 DEF CommandTyped, CopyInv
<1> SUFFICES ASSUME cmd.apart
             PROVE  CopyInv'
  BY <1>2 DEF CopyInv
<1>3. PICK s, d \in OftSlot :
        /\ s = fd[running][cmd.fd] /\ d = fd[running][cmd.gd]
        /\ name[cmd.dst] \in Key
  BY <1>1, CopyEntries
<1> DEFINE new == content[name[cmd.dst]]
<1>4. /\ name[cmd.src] # NoKey /\ name[cmd.src][2] # name[cmd.dst][2]
      /\ content[name[cmd.src]] = cmd.before
      /\ oft[s].inodeptr = name[cmd.src] /\ oft[s].mode = R
      /\ oft[s].offset = Len(new) + Len(cmd.buf)
      /\ oft[s].offset <= Len(cmd.before)
      /\ \A n \in 1 .. Len(new) : new[n] = cmd.before[n]
  BY <1>1, <1>3 DEF CopyInv, CopyUnderWay
<1>5. oft[s].offset >= Len(cmd.before) /\ Len(cmd.before) \in Nat
  <2>1. /\ oft[s].offset \in Nat /\ Len(content[oft[s].inodeptr]) \in Nat
        /\ oft[s].mode \notin {R, RW} \/ 1 = 0 \/ oft[s].offset >= Len(content[oft[s].inodeptr])
    BY <1>1, <1>3, ReadableType, 1 \in Nat
  <2>2. content[oft[s].inodeptr] = cmd.before /\ oft[s].mode \in {R, RW}
    BY <1>4
  <2>3. QED
    BY <2>1, <2>2
<1>6. new \in Content /\ cmd.before \in Content
  BY <1>3 DEF TablesInv, TablesTyped, CommandTyped
<1>7. new = cmd.before
  <2>1. Len(new) \in Nat /\ Len(cmd.buf) = 0
    BY <1>2, <1>6, ContentType, EmptyContent, BoundAssumption
  <2>2. oft[s].offset = Len(new)
    BY <1>4, <2>1
  <2>3. Len(new) = Len(cmd.before)
    BY <1>4, <1>5, <2>1, <2>2
  <2>4. new \in Seq(Data \cup {Hole}) /\ cmd.before \in Seq(Data \cup {Hole})
    BY <1>6, ContentIsSeq
  <2> HIDE DEF new
  <2>5. QED
    BY <1>4, <2>3, <2>4, SeqEqual
<1>8. QED
  BY <1>1, <1>2, <1>4, <1>7 DEF CopyInv

LEMMA CopyStep ==
    ASSUME TablesInv, CommandTyped, CommandDescriptors, CopyInv, [Next]_vars
    PROVE  CopyInv'
<1>1. ASSUME Ready, cmd' = cmd
      PROVE  CopyInv'
  BY <1>1 DEF CopyInv, Ready
<1>2. ASSUME cmd' = Idle
      PROVE  CopyInv'
  BY <1>2 DEF CopyInv, Idle
<1>3. ASSUME NEW path \in Path, CatOpen(path)
      PROVE  CopyInv'
  BY <1>3 DEF CatOpen, CopyInv, Idle
<1>4. CASE CommandStep
  <2>1. CASE CatRead
    BY <2>1 DEF CatRead, ReadFd, CopyInv
  <2>2. CASE CatClose \/ CpCloseDst
    BY <1>2, <2>2 DEF CatClose, CpCloseDst
  <2>3. CASE CpAccessFails \/ CpOpenDstFails
    <3>1. /\ cmd.pc \in {"cpAccess", "cpOpen"} /\ cmd.gd = NULL
          /\ cmd' = [cmd EXCEPT !.pc = "cpCloseSrc"]
          /\ UNCHANGED <<name, content>>
      BY <2>3 DEF CpAccessFails, CpOpenDstFails, Call, CommandDescriptors
    <3>2. QED
      BY <3>1 DEF CopyInv, CommandTyped
  <2>4. CASE CpCloseSrc
    <3>1. CASE cmd.gd = NULL
      BY <1>2, <2>4, <3>1 DEF CpCloseSrc
    <3>2. CASE cmd.gd # NULL
      <4>1. /\ cmd.pc = "cpCloseSrc"
            /\ cmd' = [cmd EXCEPT !.pc = "cpCloseDst"]
            /\ UNCHANGED <<name, content>>
        BY <2>4, <3>2 DEF CpCloseSrc, CloseFd, Call
      <4>2. QED
        BY <3>2, <4>1 DEF CopyInv, CommandTyped
    <3>3. QED
      BY <3>1, <3>2
  <2>5. QED
    BY <1>4, <2>1, <2>2, <2>3, <2>4, CopyAccesses, CopyOpensDst, CopyReads, CopyWrites,
       CopyEnds DEF CommandStep
<1>5. CASE UNCHANGED vars
  BY <1>5 DEF vars, CopyInv, CopyBegun, CopyUnderWay, Unopened, InUse
<1>6. ASSUME NEW path \in Path, NEW mode \in {R, W, RW, APPEND},
             Open(path, mode) \/ OpenRefused(path, mode)
      PROVE  CopyInv'
  BY <1>1, <1>5, <1>6 DEF Open, OpenRefused
<1>7. ASSUME NEW path \in Path, Creat(path) \/ Unlink(path)
      PROVE  CopyInv'
  BY <1>1, <1>7 DEF Creat, Unlink
<1>8. ASSUME NEW f \in Fd, \/ Close(f)
                           \/ \E pos \in 0 .. MaxLen : Lseek(f, pos)
                           \/ \E n \in 1 .. MaxLen : Read(f, n)
                           \/ \E buf \in Buffer : Write(f, buf)
      PROVE  CopyInv'
  BY <1>1, <1>8 DEF Close, Lseek, Read, Write
<1>9. ASSUME NEW uid \in Proc, Switch(uid)
      PROVE  CopyInv'
  BY <1>1, <1>9 DEF Switch
<1>10. QED
  BY <1>3, <1>4, <1>5, <1>6, <1>7, <1>8, <1>9, CopyOpensSrc DEF Next

-----------------------------------------------------------------------------
LEMMA InitIInv == Init => IInv
<1> SUFFICES ASSUME Init PROVE IInv
  OBVIOUS
<1>1. <<>> \in Content
  BY EmptyContent
<1>2. \A i \in OftSlot : oft[i] = FreeEntry /\ ~InUse(i)
  BY DEF Init, InUse, FreeEntry
<1>3. TablesTyped
  <2>1. FreeEntry \in OFT
    BY BoundAssumption DEF FreeEntry, OFT
  <2>2. oft \in [OftSlot -> OFT]
    BY <2>1 DEF Init
  <2>3. QED
    BY <1>1, <2>2, ProcAssumption DEF Init, TablesTyped
<1>4. EntriesCounted
  <2> SUFFICES ASSUME NEW i \in OftSlot
               PROVE  oft[i].ref_count = Cardinality(Openers(i))
    BY <1>2 DEF EntriesCounted
  <2>1. Openers(i) = {}
    BY NullNotSlot DEF Init, Openers
  <2>2. QED
    BY <1>2, <2>1, FS_EmptySet DEF FreeEntry
<1>5. NamesInjective
  BY DEF Init, NamesInjective
<1>6. OneEntryPerNumber /\ KeyWhileOpen /\ PinnedWhileOpen /\ NamedUnlessStale /\ OffsetInFile
  BY <1>2 DEF OneEntryPerNumber, KeyWhileOpen, PinnedWhileOpen, NamedUnlessStale, OffsetInFile
<1>7. CommandTyped
  BY <1>1 DEF Init, Idle, CommandTyped
<1>8. CommandDescriptors /\ RoomForPins /\ CopyInv
  BY BoundAssumption DEF Init, Idle, CommandDescriptors, RoomForPins, CopyInv
<1>9. QED
  BY <1>3, <1>4, <1>5, <1>6, <1>7, <1>8 DEF IInv, TablesInv

LEMMA StepIInv == IInv /\ [Next]_vars => IInv'
  BY TablesStep, DescriptorsStep, RoomStep, CopyStep DEF IInv

LEMMA Invariance == Spec => []IInv
  BY InitIInv, StepIInv, PTL DEF Spec

\* The tables keep their types: no descriptor points outside the table, no
\* count drops below 0, no offset exceeds the longest file.
THEOREM TypeCorrect == Spec => []TypeOK
<1>1. IInv => TypeOK
  <2> SUFFICES ASSUME IInv PROVE TypeOK
    OBVIOUS
  <2>1. pins \in [Key -> 0 .. MaxPins]
    <3>1. \A k \in Key : pins[k] \in 0 .. MaxPins
      BY BoundAssumption DEF IInv, TablesInv, TablesTyped, RoomForPins
    <3>2. QED
      BY <3>1 DEF IInv, TablesInv, TablesTyped
  <2>2. QED
    BY <2>1 DEF IInv, TablesInv, TablesTyped, CommandTyped, TypeOK
<1>2. QED
  BY <1>1, Invariance, PTL

\* ref_count of file_open and file_close is the number of descriptors of all
\* processes that point to the entry, and a free entry is as it was at the start.
THEOREM CountsAreOpeners == Spec => []EntriesCounted
<1>1. IInv => EntriesCounted
  BY DEF IInv, TablesInv
<1>2. QED
  BY <1>1, Invariance, PTL

\* find_oft never leads file_open to a second entry for an inode that is open.
THEOREM InodesOpenOnce == Spec => []OneEntryPerInode
<1>1. IInv => OneEntryPerInode
  BY DEF IInv, TablesInv, OneEntryPerNumber, OneEntryPerInode
<1>2. QED
  BY <1>1, Invariance, PTL

\* The references that file_open keeps and file_close drops pin the minode of
\* every entry in use, also when entries are shared or taken over.
THEOREM OpenInodesPinned == Spec => []PinnedWhileOpen
<1>1. IInv => PinnedWhileOpen
  BY DEF IInv, TablesInv
<1>2. QED
  BY <1>1, Invariance, PTL

\* No open, lseek, read, write, creat or unlink leaves an offset behind the end
\* of a file that still has its name.
THEOREM OffsetsInFiles == Spec => []OffsetInFile
<1>1. IInv => OffsetInFile
  BY DEF IInv, TablesInv
<1>2. QED
  BY <1>1, Invariance, PTL

\* cat and cp, on every way to their end, leave the process the descriptors it had.
THEOREM CommandsClose == Spec => CommandsCloseTheirs
<1>1. ASSUME IInv, [Next]_vars, cmd.pc # "idle", cmd'.pc = "idle"
      PROVE  fd'[running] = cmd.fds
  <2> USE DEF IInv
  <2>1. /\ fd \in [Proc -> Descriptors] /\ running \in Proc
        /\ fd[running] \in Descriptors /\ cmd.fds \in Descriptors
    BY <1>1 DEF TablesInv, TablesTyped, Descriptors, CommandDescriptors
  <2>2. CatClose \/ CpCloseSrc \/ CpCloseDst
    <3>1. cmd' # cmd
      BY <1>1
    <3>2. CommandStep
      BY <1>1, <3>1 DEF Next, vars, Open, OpenRefused, Creat, Unlink, CatOpen, CpOpenSrc,
         Close, Lseek, Read, Write, Switch, Ready
    <3>3. ~(CatRead \/ CpAccess \/ CpAccessFails \/ CpOpenDst \/ CpOpenDstFails \/ CpRead
              \/ CpWrite \/ CpReadEnds)
      BY <1>1 DEF CatRead, CpAccess, CpAccessFails, CpOpenDst, CpOpenDstFails, CpRead, CpWrite, CpReadEnds,
         Call, CommandTyped
    <3>4. QED
      BY <3>2, <3>3 DEF CommandStep
  <2>3. CASE CatClose \/ CpCloseSrc
    <3>1. cmd.gd = NULL
      BY <1>1, <2>3 DEF CatClose, CpCloseSrc, Call, CommandDescriptors, CommandTyped
    <3>2. fd' = [fd EXCEPT ![running][cmd.fd] = NULL]
      BY <2>3 DEF CatClose, CpCloseSrc, CloseFd
    <3>3. /\ cmd.fd \in Fd /\ cmd.fds[cmd.fd] = NULL
          /\ \A f \in Fd \ {cmd.fd} : fd[running][f] = cmd.fds[f]
      BY <1>1, <3>1, NullNotFd DEF CommandDescriptors
    <3>4. QED
      BY <2>1, <3>2, <3>3 DEF Descriptors
  <2>4. CASE CpCloseDst
    <3>1. fd' = [fd EXCEPT ![running][cmd.gd] = NULL]
      BY <2>4 DEF CpCloseDst, CloseFd
    <3>2. /\ cmd.pc = "cpCloseDst" /\ cmd.gd # NULL /\ cmd.gd \in Fd
      BY <1>1, <2>4 DEF CpCloseDst, CommandDescriptors, CommandTyped
    <3>3. /\ cmd.fd \in Fd /\ cmd.fds[cmd.fd] = NULL /\ cmd.fds[cmd.gd] = NULL
          /\ fd[running][cmd.fd] = NULL
          /\ \A f \in Fd \ {cmd.fd, cmd.gd} : fd[running][f] = cmd.fds[f]
      BY <1>1, <3>2 DEF CommandDescriptors
    <3>4. fd'[running] = [fd[running] EXCEPT ![cmd.gd] = NULL]
      BY <2>1, <3>1
    <3>5. \A f \in Fd : fd'[running][f] = cmd.fds[f]
      BY <2>1, <3>2, <3>3, <3>4 DEF Descriptors
    <3>6. fd'[running] \in Descriptors
      BY <2>1, <3>4 DEF Descriptors
    <3>7. QED
      BY <2>1, <3>5, <3>6 DEF Descriptors
  <2>5. QED
    BY <2>2, <2>3, <2>4
<1>2. IInv /\ [Next]_vars =>
        [cmd.pc # "idle" /\ cmd'.pc = "idle" => fd'[running] = cmd.fds]_vars
  BY <1>1
<1>3. QED
  BY <1>2, Invariance, PTL DEF Spec, CommandsCloseTheirs

\* When cp has copied a file that nobody has open to another one that nobody
\* has open, dst is what src was when cp began, and so is src.
THEOREM CopiesAreEqual == Spec => CpCopies
<1>1. IInv /\ [Next]_vars =>
        [cmd.pc = "cpCloseDst" /\ cmd.apart
           => content[name[cmd.dst]] = cmd.before /\ content[name[cmd.src]] = cmd.before]_vars
  BY DEF IInv, CopyInv, CommandDescriptors
<1>2. QED
  BY <1>1, Invariance, PTL DEF Spec, CpCopies

=============================================================================
