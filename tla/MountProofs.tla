---------------------------- MODULE MountProofs ----------------------------
(***************************************************************************)
(* Proofs about Mount for any images, devices, processes and paths, as     *)
(* long as nobody is stranded (MayStrand = FALSE).                         *)
(***************************************************************************)
EXTENDS Mount, Induction, SequenceTheorems

-----------------------------------------------------------------------------
(* The inductive invariant. First the images: each holds one tree.         *)

\* Whoever goes up from a directory of an image comes to its root: there is
\* no other set of directories that one cannot leave upwards. Entries of one
\* directory differ in the name.
Directories(image, t) ==
    /\ ROOT_INODE \in DOMAIN t /\ DOMAIN t \subseteq InoOf[image]
    /\ t[ROOT_INODE].up = ROOT_INODE
    /\ \A i \in DOMAIN t \ {ROOT_INODE} : t[i] \in [up: DOMAIN t, name: Name]
    /\ \A i, j \in DOMAIN t \ {ROOT_INODE} : t[i] = t[j] => i = j
    /\ \A C \in SUBSET DOMAIN t :
        C # {} /\ (\A i \in C : t[i].up \in C) => ROOT_INODE \in C

TreesInv == DOMAIN tree = Image /\ \A image \in Image : Directories(image, tree[image])

\* No image is open twice.
HostInv ==
    /\ host \in [Dev -> Image \cup {None}]
    /\ \A d, e \in Dev : host[d] = host[e] /\ host[d] # None => d = e

-----------------------------------------------------------------------------
(* The mount table and the minodes.                                        *)

TableTyped ==
    mounttab \in [Slot -> [dev: Dev \cup {0}, name: Image \cup {""}, mounted_inode: Key \cup {Gone}]]

TableInv ==
    /\ TableTyped
    /\ \A i \in Slot : mounttab[i].dev = 0 => mounttab[i] = Free
    /\ mounttab[0] = Started.mounttab[0]

\* Of the devices, too, there is no set that one cannot leave upwards, other
\* than those with the root device: from a device to that of its mount point.
DevicesRooted ==
    \A D \in SUBSET Dev :
        /\ D # {}
        /\ \A d \in D : \E i \in Slot : mounttab[i].dev = d /\ mounttab[i].mounted_inode[1] \in D
        => mounttab[0].dev \in D

MinodeTyped == [ref_count: Nat \ {0}, mounted: {0, 1}, mountptr: Slot \cup {-1}]
MinodesTyped(m) == DOMAIN m \subseteq Key /\ \A k \in DOMAIN m : m[k] \in MinodeTyped

\* Of a directory that is mounted on the mount table has the only reference,
\* and nothing is in it: mount makes it, and no path leads there.
PointsAlone ==
    \A k \in DOMAIN minodes : minodes[k].mounted = 1 =>
        /\ minodes[k].ref_count = 1
        /\ k[2] # ROOT_INODE
        /\ minodes[k].mountptr \in Mounted
        /\ mounttab[minodes[k].mountptr].mounted_inode = k
        /\ \A i \in DOMAIN Tree(k) : Tree(k)[i].up # k[2]

MinodesInv ==
    /\ MinodesTyped(minodes)
    /\ \A k \in DOMAIN minodes : Exists(k)
    /\ PointsAlone

-----------------------------------------------------------------------------
(* The processes and pwd.                                                  *)

PlacesInv == cwd \in [Proc -> Places] /\ running \in Proc

\* Every call of help_pwd holds the parent of the current directory, and if
\* that is not root no call returns.
PwdInv ==
    \/ pwd = Idle
    \/ LET parent == Step(cwd[running], "..") IN
        /\ pwd = [pc |-> pwd.pc, held |-> pwd.held, out |-> pwd.out]
        /\ pwd.held \in Seq(Places)
        /\ \A n \in DOMAIN pwd.held : pwd.held[n] = parent
        /\ \/ /\ pwd.pc = "down" /\ pwd.out = <<>>
              /\ pwd.held # <<>> => cwd[running] # Root
              /\ Len(pwd.held) <= 1 \/ parent # Root
           \/ /\ pwd.pc = "up" /\ pwd.held = <<>>
              /\ cwd[running] # Root /\ parent = Root
              /\ pwd.out = <<EntryName(Root, cwd[running][2])>>

IInv ==
    /\ TreesInv
    /\ HostInv
    /\ TableInv
    /\ DevicesRooted
    /\ MinodesInv
    /\ MountsAgree
    /\ RefCountIsHolders
    /\ PlacesInv
    /\ PwdInv

-----------------------------------------------------------------------------
(* Minodes: what iget and iput do to the counts and to the mount points.   *)

Count(m, k) == IF k \in DOMAIN m THEN m[k].ref_count ELSE 0
PointsOf(m) == {k \in DOMAIN m : m[k].mounted = 1}
SamePoints(m, n) == PointsOf(m) = PointsOf(n) /\ \A k \in PointsOf(m) : m[k] = n[k]

\* iget adds one reference to the minode that it finds or makes.
LEMMA IgetAdds ==
    ASSUME NEW m, MinodesTyped(m), NEW k \in Key
    PROVE  /\ MinodesTyped(Iget(m, k))
           /\ DOMAIN Iget(m, k) = DOMAIN m \cup {k}
           /\ \A x \in Key : Count(Iget(m, k), x) = Count(m, x) + (IF x = k THEN 1 ELSE 0)
           /\ k \notin PointsOf(m) => SamePoints(m, Iget(m, k))
<1>1. CASE k \in DOMAIN m
  <2>1. Iget(m, k) = [x \in DOMAIN m |-> IF x = k THEN [m[k] EXCEPT !.ref_count = @ + 1] ELSE m[x]]
    BY <1>1 DEF Iget
  <2>2. [m[k] EXCEPT !.ref_count = @ + 1] \in MinodeTyped
    BY <1>1 DEF MinodesTyped, MinodeTyped
  <2>3. [m[k] EXCEPT !.ref_count = @ + 1].ref_count = m[k].ref_count + 1
        /\ [m[k] EXCEPT !.ref_count = @ + 1].mounted = m[k].mounted
    BY <1>1 DEF MinodesTyped, MinodeTyped
  <2>4. \A x \in DOMAIN m : m[x].ref_count \in Nat
    BY DEF MinodesTyped, MinodeTyped
  <2>5. QED
    BY <1>1, <2>1, <2>2, <2>3, <2>4 DEF MinodesTyped, Count, PointsOf, SamePoints
<1>2. CASE k \notin DOMAIN m
  <2> DEFINE new == [ref_count |-> 1, mounted |-> 0, mountptr |-> -1]
  <2>1. Iget(m, k) = [x \in DOMAIN m \cup {k} |-> IF x = k THEN new ELSE m[x]]
    BY <1>2 DEF Iget
  <2>2. new \in MinodeTyped /\ new.ref_count = 1 /\ new.mounted = 0
    BY DEF MinodeTyped
  <2>3. \A x \in DOMAIN m : m[x].ref_count \in Nat
    BY DEF MinodesTyped, MinodeTyped
  <2> HIDE DEF new
  <2>4. QED
    BY <1>2, <2>1, <2>2, <2>3 DEF MinodesTyped, Count, PointsOf, SamePoints
<1>3. QED
  BY <1>1, <1>2

\* iput takes one reference from it, and the last one frees the minode.
LEMMA IputTakes ==
    ASSUME NEW m, MinodesTyped(m), NEW k \in DOMAIN m
    PROVE  /\ MinodesTyped(Iput(m, k))
           /\ DOMAIN Iput(m, k) \in {DOMAIN m, DOMAIN m \ {k}}
           /\ m[k].ref_count = 1 => Iput(m, k) = [x \in DOMAIN m \ {k} |-> m[x]]
           /\ \A x \in Key : Count(Iput(m, k), x) = Count(m, x) - (IF x = k THEN 1 ELSE 0)
           /\ k \notin PointsOf(m) => SamePoints(m, Iput(m, k))
<1>1. CASE m[k].ref_count > 1
  <2>1. Iput(m, k) = [x \in DOMAIN m |-> IF x = k THEN [m[k] EXCEPT !.ref_count = @ - 1] ELSE m[x]]
    BY <1>1 DEF Iput
  <2>2. [m[k] EXCEPT !.ref_count = @ - 1] \in MinodeTyped
    BY <1>1 DEF MinodesTyped, MinodeTyped
  <2>3. [m[k] EXCEPT !.ref_count = @ - 1].ref_count = m[k].ref_count - 1
        /\ [m[k] EXCEPT !.ref_count = @ - 1].mounted = m[k].mounted
    BY <1>1 DEF MinodesTyped, MinodeTyped
  <2>4. \A x \in DOMAIN m : m[x].ref_count \in Nat
    BY DEF MinodesTyped, MinodeTyped
  <2>5. QED
    BY <1>1, <2>1, <2>2, <2>3, <2>4 DEF MinodesTyped, Count, PointsOf, SamePoints
<1>2. CASE ~ (m[k].ref_count > 1)
  <2>1. Iput(m, k) = [x \in DOMAIN m \ {k} |-> m[x]]
    BY <1>2 DEF Iput
  <2>2. m[k].ref_count = 1 /\ \A x \in DOMAIN m : m[x].ref_count \in Nat
    BY <1>2 DEF MinodesTyped, MinodeTyped
  <2>3. QED
    BY <2>1, <2>2 DEF MinodesTyped, Count, PointsOf, SamePoints
<1>3. QED
  BY <1>1, <1>2

-----------------------------------------------------------------------------
(* Counting.                                                               *)

\* The places of a table that hold a value, when one entry is written.
At(f, S, x) == {s \in S : f[s] = x}

LEMMA EntryWritten ==
    ASSUME NEW S, IsFiniteSet(S), NEW i \in S, NEW v, NEW x,
           NEW f, NEW g, g[i] = v, \A s \in S \ {i} : g[s] = f[s]
    PROVE  Cardinality(At(g, S, x)) =
             Cardinality(At(f, S, x))
               + (IF v = x THEN 1 ELSE 0) - (IF f[i] = x THEN 1 ELSE 0)
<1> DEFINE A == At(f, S, x)
           B == At(g, S, x)
<1>1. IsFiniteSet(A) /\ IsFiniteSet(B)
  BY FS_Subset DEF At
<1>2. Cardinality(A) \in Nat /\ Cardinality(B) \in Nat
  BY <1>1, FS_CardinalityType
<1>3. CASE v = x /\ f[i] # x
  <2>1. B = A \cup {i} /\ i \notin A
    BY <1>3 DEF At
  <2> HIDE DEF A, B
  <2>2. Cardinality(B) = Cardinality(A) + 1
    BY <1>1, <2>1, FS_AddElement
  <2> USE DEF A, B
  <2>3. QED
    BY <1>2, <1>3, <2>2
<1>4. CASE v # x /\ f[i] = x
  <2>1. B = A \ {i} /\ i \in A
    BY <1>4 DEF At
  <2> HIDE DEF A, B
  <2>2. Cardinality(B) = Cardinality(A) - 1
    BY <1>1, <2>1, FS_RemoveElement
  <2> USE DEF A, B
  <2>3. QED
    BY <1>2, <1>4, <2>2
<1>5. CASE (v = x) <=> (f[i] = x)
  <2>1. A = B
    BY <1>5 DEF At
  <2>2. QED
    BY <1>2, <1>5, <2>1
<1>6. QED
  BY <1>3, <1>4, <1>5

\* The same for a sequence that becomes longer.
LEMMA EntryAppended ==
    ASSUME NEW N \in Nat, NEW e, NEW x,
           NEW s, NEW t, t[N + 1] = e, \A n \in 1 .. N : t[n] = s[n]
    PROVE  Cardinality(At(t, 1 .. N + 1, x)) =
             Cardinality(At(s, 1 .. N, x)) + (IF e = x THEN 1 ELSE 0)
<1> DEFINE A == At(s, 1 .. N, x)
           B == At(t, 1 .. N + 1, x)
<1>3. IsFiniteSet(A)
  <2>1. IsFiniteSet(1 .. N)
    BY FS_Interval
  <2>2. QED
    BY <2>1, FS_Subset DEF At
<1>4. N + 1 \notin A
  BY DEF At
<1>5. B = IF e = x THEN A \cup {N + 1} ELSE A
  BY DEF At
<1> HIDE DEF A, B
<1>6. Cardinality(A \cup {N + 1}) = Cardinality(A) + 1
  BY <1>3, <1>4, FS_AddElement
<1>7. Cardinality(A) \in Nat
  BY <1>3, FS_CardinalityType
<1>8. Cardinality(B) = Cardinality(A) + (IF e = x THEN 1 ELSE 0)
  BY <1>5, <1>6, <1>7
<1>9. QED
  BY <1>8 DEF A, B

-----------------------------------------------------------------------------
(* Images, and the devices they are opened under.                          *)

\* A device that is not in use is found, and so Started is a state.
LEMMA FirstDevFree ==
    ASSUME NEW h, \E d \in Dev : h[d] = None
    PROVE  FirstDev(h) \in Dev /\ h[FirstDev(h)] = None
<1> DEFINE S == {d \in Dev : h[d] = None}
<1>1. S \in SUBSET Nat /\ S # {}
  BY DevAssumption
<1>2. PICK m \in S : \A n \in S : m <= n
  <2> HIDE DEF S
  <2>1. QED
    BY <1>1, LeastElement
<1>3. m \in Dev /\ h[m] = None /\ \A e \in Dev : h[e] = None => m <= e
  BY <1>2
<1>4. QED
  BY <1>3 DEF FirstDev

LEMMA StartDev ==
    /\ Started.mounttab[0] = [dev |-> FirstDev([d \in Dev |-> None]), name |-> RootImage,
                              mounted_inode |-> <<FirstDev([d \in Dev |-> None]), ROOT_INODE>>]
    /\ FirstDev([d \in Dev |-> None]) \in Dev
<1>1. Dev # {}
  <2> SUFFICES ASSUME Dev = {}
               PROVE  FALSE
    OBVIOUS
  <2>1. Cardinality(Dev) = 0 /\ Cardinality(Image) \in Nat
    BY ImageAssumption, FS_EmptySet, FS_CardinalityType
  <2>2. Cardinality(Image) = 0
    BY <2>1, DevAssumption
  <2>3. QED
    BY <2>2, ImageAssumption, FS_EmptySet
<1>2. FirstDev([d \in Dev |-> None]) \in Dev
  BY <1>1, FirstDevFree
<1>3. 0 \in Slot
  BY BoundAssumption DEF Slot
<1>4. QED
  BY <1>2, <1>3 DEF Started, MountRoot

LEMMA KeyIs ==
    /\ Gone \notin Key
    /\ \A k \in Key : k[1] \in Dev /\ k[2] \in Nat /\ k[2] # 0 /\ k = <<k[1], k[2]>>
    /\ \A d \in Dev, image \in Image : \A i \in InoOf[image] : <<d, i>> \in Key
<1> DEFINE Inos == UNION {InoOf[image] : image \in Image}
<1>1. \A i \in Inos : i \in Nat /\ i # 0
  BY ImageAssumption
<1>2. \A image \in Image : \A i \in InoOf[image] : i \in Inos
  OBVIOUS
<1>3. \A d \in Dev : d \in Nat /\ d # 0
  BY DevAssumption
<1>4. Key = Dev \X Inos
  BY DEF Key
<1> HIDE DEF Inos
<1>5. \A k \in Key : k[1] \in Dev /\ k[2] \in Inos /\ k = <<k[1], k[2]>>
  BY <1>4
<1>6. Gone \notin Key
  BY <1>3, <1>4 DEF Gone
<1>7. QED
  BY <1>1, <1>2, <1>4, <1>5, <1>6

\* An image with nothing but a root.
LEMMA RootOnly ==
    ASSUME NEW image \in Image
    PROVE  Directories(image, [i \in {ROOT_INODE} |-> [up |-> ROOT_INODE, name |-> ".."]])
BY ImageAssumption DEF Directories

Grown(t, j, u, n) ==
    [i \in DOMAIN t \cup {j} |-> IF i = j THEN [up |-> u, name |-> n] ELSE t[i]]

\* A new directory, under a name that its parent has not.
LEMMA DirectoryMade ==
    ASSUME NEW image \in Image, NEW t, Directories(image, t), NEW j \in InoOf[image] \ DOMAIN t,
           NEW u \in DOMAIN t, NEW n \in Name,
           \A i \in DOMAIN t \ {ROOT_INODE} : t[i] # [up |-> u, name |-> n]
    PROVE  Directories(image, Grown(t, j, u, n))
<1> DEFINE g == Grown(t, j, u, n)
           e == [up |-> u, name |-> n]
<1>1. DOMAIN g = DOMAIN t \cup {j} /\ g[j] = e /\ \A i \in DOMAIN t : g[i] = t[i]
  BY DEF Grown
<1>2. e.up = u /\ e \in [up: DOMAIN t, name: Name] /\ j # ROOT_INODE
  BY DEF Directories
<1> HIDE DEF g, e
<1>3. ROOT_INODE \in DOMAIN g /\ DOMAIN g \subseteq InoOf[image] /\ g[ROOT_INODE].up = ROOT_INODE
  BY <1>1 DEF Directories
<1>4. \A i \in DOMAIN g \ {ROOT_INODE} : g[i] \in [up: DOMAIN g, name: Name]
  <2> SUFFICES ASSUME NEW i \in DOMAIN g \ {ROOT_INODE}
               PROVE  g[i] \in [up: DOMAIN g, name: Name]
    OBVIOUS
  <2>1. g[i] \in [up: DOMAIN t, name: Name]
    BY <1>1, <1>2 DEF Directories
  <2>2. DOMAIN t \subseteq DOMAIN g
    BY <1>1
  <2>3. QED
    BY <2>1, <2>2
<1>5. \A i, k \in DOMAIN g \ {ROOT_INODE} : g[i] = g[k] => i = k
  <2>1. \A i \in DOMAIN t \ {ROOT_INODE} : t[i] # e
    BY DEF e
  <2>2. QED
    BY <1>1, <2>1 DEF Directories
<1>6. ASSUME NEW C \in SUBSET DOMAIN g, C # {}, \A i \in C : g[i].up \in C
      PROVE  ROOT_INODE \in C
  <2>1. C \ {j} # {}
    <3>1. j \in C => u \in C /\ u # j
      BY <1>1, <1>2, <1>6
    <3>2. QED
      BY <1>6, <3>1
  <2>2. \A i \in C \ {j} : t[i].up \in C \ {j}
    <3>1. \A i \in DOMAIN t : t[i].up \in DOMAIN t
      BY DEF Directories
    <3>2. QED
      BY <1>1, <1>6, <3>1
  <2>3. C \ {j} \in SUBSET DOMAIN t
    BY <1>1
  <2>4. QED
    BY <2>1, <2>2, <2>3 DEF Directories
<1>7. QED
  BY <1>3, <1>4, <1>5, <1>6 DEF Directories, g

Shrunk(t, j) == [i \in DOMAIN t \ {j} |-> t[i]]

\* A directory removed that nothing is in.
LEMMA DirectoryRemoved ==
    ASSUME NEW image \in Image, NEW t, Directories(image, t), NEW j \in DOMAIN t \ {ROOT_INODE},
           \A i \in DOMAIN t : t[i].up # j
    PROVE  Directories(image, Shrunk(t, j))
<1> DEFINE g == Shrunk(t, j)
<1>1. DOMAIN g = DOMAIN t \ {j} /\ \A i \in DOMAIN g : g[i] = t[i]
  BY DEF Shrunk
<1> HIDE DEF g
<1>2. \A i \in DOMAIN g \ {ROOT_INODE} : g[i] \in [up: DOMAIN g, name: Name]
  <2> SUFFICES ASSUME NEW i \in DOMAIN g \ {ROOT_INODE}
               PROVE  g[i] \in [up: DOMAIN g, name: Name]
    OBVIOUS
  <2>1. t[i] \in [up: DOMAIN t, name: Name] /\ t[i].up # j
    BY <1>1 DEF Directories
  <2>2. QED
    BY <1>1, <2>1
<1>3. ASSUME NEW C \in SUBSET DOMAIN g, C # {}, \A i \in C : g[i].up \in C
      PROVE  ROOT_INODE \in C
  <2>1. C \in SUBSET DOMAIN t /\ \A i \in C : t[i].up \in C
    BY <1>1, <1>3
  <2>2. QED
    BY <1>3, <2>1 DEF Directories
<1>4. QED
  BY <1>1, <1>2, <1>3 DEF Directories, g

-----------------------------------------------------------------------------
(* Paths.                                                                  *)

\* The walk along a path, as a function of how far it is.
Walked(w, k, names) ==
    /\ w[0] = k /\ \A n \in 1 .. Len(names) : w[n] = Step(w[n - 1], names[n])
    /\ Walk(k, names) = w[Len(names)]

\* It stays within a set that no step leads out of.
LEMMA WalkIs ==
    ASSUME NEW V, NEW k \in V, NEW S, NEW names \in Seq(S),
           \A v \in V, n \in S : Step(v, n) \in V
    PROVE  \E w \in [0 .. Len(names) -> V] : Walked(w, k, names)
<1> DEFINE N == Len(names)
           step == [n \in 1 .. N |-> [v \in V |-> Step(v, names[n])]]
           w == CHOOSE g : g = [n \in 0 .. N |-> IF n = 0 THEN k ELSE Step(g[n - 1], names[n])]
<1>1. N \in Nat /\ \A n \in 1 .. N : names[n] \in S
  BY LenProperties, ElementOfSeq
<1>2. step \in [1 .. N -> [V -> V]]
  BY <1>1
<1>3. PICK f \in [0 .. N -> V] : Recursive(f, N, k, step)
  <2> HIDE DEF step, N
  <2>1. QED
    BY <1>1, <1>2, IntervalRecursion
<1>4. \A n \in 1 .. N : f[n] = Step(f[n - 1], names[n])
  <2> SUFFICES ASSUME NEW n \in 1 .. N
               PROVE  f[n] = Step(f[n - 1], names[n])
    OBVIOUS
  <2>1. f[n - 1] \in V
    <3> HIDE DEF step, N
    <3>1. QED
      BY <1>1
  <2>2. step[n][f[n - 1]] = Step(f[n - 1], names[n])
    BY <2>1
  <2>3. QED
    BY <1>3, <2>2 DEF Recursive
<1>5. f = [n \in 0 .. N |-> IF n = 0 THEN k ELSE Step(f[n - 1], names[n])]
  <2> HIDE DEF N, step
  <2>1. QED
    BY <1>1, <1>3, <1>4 DEF Recursive
<1>6. w = [n \in 0 .. N |-> IF n = 0 THEN k ELSE Step(w[n - 1], names[n])]
  BY <1>5
<1>7. Walk(k, names) = w[N]
  BY DEF Walk
<1>8. \A n \in 0 .. N : w[n] \in V
  <2> DEFINE T == {n \in 0 .. N : w[n] \in V}
  <2> HIDE DEF w, N, step
  <2>1. 0 \in T
    BY <1>1, <1>6
  <2>2. ASSUME NEW n \in 0 .. N, n < N, n \in T
        PROVE  n + 1 \in T
    <3>1. n + 1 \in 1 .. N /\ n + 1 \in 0 .. N
      BY <1>1, <2>2
    <3>2. w[n + 1] = Step(w[n], names[n + 1])
      BY <1>6, <3>1
    <3>3. QED
      BY <1>1, <2>2, <3>1, <3>2
  <2>3. \A n \in 0 .. N : n \in T
    <3> HIDE DEF T
    <3>1. QED
      BY <1>1, <2>1, <2>2, IntervalInduction
  <2>4. QED
    BY <2>3
<1>9. w \in [0 .. N -> V]
  <2> HIDE DEF w, N, step
  <2>1. QED
    BY <1>6, <1>8
<1>10. w[0] = k /\ \A n \in 1 .. N : w[n] = Step(w[n - 1], names[n])
  <2> HIDE DEF w, N, step
  <2>1. QED
    BY <1>1, <1>6
<1>11. Walked(w, k, names)
  <2> HIDE DEF w
  <2>1. QED
    BY <1>7, <1>10 DEF Walked
<1>12. QED
  <2> HIDE DEF w
  <2>1. QED
    BY <1>9, <1>11

\* What paths depend on.
PathsInv == TreesInv /\ HostInv /\ TableInv /\ MinodesInv /\ MountsAgree

LEMMA LiveDevice ==
    ASSUME PathsInv, NEW k \in Key, Exists(k)
    PROVE  /\ host[k[1]] \in Image /\ Directories(host[k[1]], Tree(k))
           /\ k[2] \in DOMAIN Tree(k) /\ Tree(k)[k[2]].up \in DOMAIN Tree(k)
           /\ \A i \in DOMAIN Tree(k) :
                <<k[1], i>> \in Key /\ Exists(<<k[1], i>>) /\ Tree(<<k[1], i>>) = Tree(k)
<1>1. k[1] \in Dev
  BY KeyIs
<1>2. host[k[1]] \in Image /\ k[2] \in DOMAIN Tree(k)
  BY <1>1 DEF PathsInv, HostInv, Exists
<1>3. Directories(host[k[1]], Tree(k))
  BY <1>2 DEF PathsInv, TreesInv, Tree
<1>4. Tree(k)[k[2]].up \in DOMAIN Tree(k)
  BY <1>2, <1>3 DEF Directories
<1>5. ASSUME NEW i \in DOMAIN Tree(k)
      PROVE  <<k[1], i>> \in Key /\ Exists(<<k[1], i>>) /\ Tree(<<k[1], i>>) = Tree(k)
  <2>1. i \in InoOf[host[k[1]]]
    BY <1>3 DEF Directories
  <2>2. <<k[1], i>> \in Key
    BY <1>1, <1>2, <2>1, KeyIs
  <2>3. QED
    BY <1>2, <2>2 DEF Exists, Tree
<1>6. QED
  BY <1>2, <1>3, <1>4, <1>5

LEMMA RootIs ==
    ASSUME PathsInv
    PROVE  /\ mounttab[0].dev \in Dev /\ 0 \in Mounted /\ mounttab[0].mounted_inode = Root
           /\ host[mounttab[0].dev] = RootImage
           /\ Root \in Key /\ Exists(Root) /\ Root \in Places
<1>1. /\ mounttab[0].dev \in Dev /\ mounttab[0].mounted_inode = Root
      /\ mounttab[0].name = RootImage
  BY StartDev DEF PathsInv, TableInv, Root
<1>2. 0 \in Mounted
  BY <1>1, DevAssumption, BoundAssumption DEF Mounted, Slot
<1>3. host[mounttab[0].dev] = RootImage
  BY <1>1, <1>2 DEF PathsInv, MountsAgree
<1>4. Root \in Key
  BY <1>1, ImageAssumption, KeyIs DEF Root
<1>5. Exists(Root)
  BY <1>3, ImageAssumption DEF Exists, Root, Tree, PathsInv, TreesInv, Directories
<1>6. Root \in DOMAIN minodes => minodes[Root].mounted = 0
  BY DEF PathsInv, MinodesInv, PointsAlone, Root, MinodesTyped, MinodeTyped
<1>7. QED
  BY <1>1, <1>2, <1>3, <1>4, <1>5, <1>6 DEF Places

\* What a device is mounted on.
LEMMA PointIs ==
    ASSUME PathsInv, NEW i \in Mounted
    PROVE  LET p == mounttab[i].mounted_inode IN
           /\ i \in Slot /\ mounttab[i].dev \in Dev
           /\ p \in Key /\ Exists(p)
           /\ i # 0 => p \in PointsOf(minodes) /\ minodes[p].mountptr = i
<1>1. i \in Slot /\ mounttab[i].dev \in Dev
  BY DEF PathsInv, TableInv, TableTyped, Mounted
<1>2. CASE i = 0
  BY <1>1, <1>2, RootIs
<1>3. CASE i # 0
  BY <1>1, <1>3 DEF PathsInv, MountsAgree, MinodesInv, MinodesTyped, PointsOf
<1>4. QED
  BY <1>1, <1>2, <1>3

LEMMA PlaceIs ==
    ASSUME PathsInv, NEW k \in Key, Exists(k)
    PROVE  k \in Places <=> k \notin PointsOf(minodes)
BY DEF Places, PointsOf, PathsInv, MinodesInv, MinodesTyped, MinodeTyped

\* The directory that another one is in is no mount point.
LEMMA UpPlace ==
    ASSUME PathsInv, NEW k \in Key, Exists(k)
    PROVE  <<k[1], Tree(k)[k[2]].up>> \in Places
<1> DEFINE u == <<k[1], Tree(k)[k[2]].up>>
<1>1. /\ k[2] \in DOMAIN Tree(k) /\ u \in Key /\ Exists(u) /\ Tree(u) = Tree(k)
      /\ u[2] = Tree(k)[k[2]].up
  BY LiveDevice
<1> HIDE DEF u
<1>2. u \notin PointsOf(minodes)
  BY <1>1 DEF PathsInv, MinodesInv, PointsAlone, PointsOf
<1>3. u \in Places
  BY <1>1, <1>2, PlaceIs
<1>4. QED
  BY <1>3 DEF u

\* .. within a device.
LEMMA StepUpInside ==
    ASSUME PathsInv, NEW k \in Key, Exists(k), k[2] # ROOT_INODE
    PROVE  Step(k, "..") = <<k[1], Tree(k)[k[2]].up>>
<1> DEFINE u == <<k[1], Tree(k)[k[2]].up>>
<1>1. k # Gone /\ u \in Places /\ Search(k, "..") = u[2] /\ u[1] = k[1]
  BY KeyIs, UpPlace DEF Search
<1>2. u = <<k[1], Search(k, "..")>>
  BY <1>1
<1> HIDE DEF u
<1>3. u[2] # 0 /\ ~ (u \in DOMAIN minodes /\ minodes[u].mounted = 1)
  BY <1>1, KeyIs DEF Places
<1>4. Step(k, "..") = u
  BY <1>1, <1>2, <1>3 DEF Step
<1>5. QED
  BY <1>4 DEF u

\* .. out of a device.
LEMMA StepUpOut ==
    ASSUME PathsInv, NEW i \in Mounted, NEW k \in Key, k[2] = ROOT_INODE, k[1] = mounttab[i].dev
    PROVE  LET p == mounttab[i].mounted_inode IN
           Step(k, "..") = <<p[1], Tree(p)[p[2]].up>>
<1> DEFINE entries == {j \in Slot : mounttab[j].dev = mounttab[i].dev}
<1>1. i \in entries /\ \A j \in entries : j = i
  BY PointIs, DevAssumption DEF PathsInv, MountsAgree, Mounted
<1>2. (CHOOSE m \in entries : \A j \in entries : m <= j) = i
  <2>1. i <= i
    BY PointIs DEF Slot
  <2> HIDE DEF entries
  <2>2. QED
    BY <1>1, <2>1
<1>3. entries # {}
  BY <1>1
<1>4. Ascend(mounttab[i].dev) =
        <<mounttab[i].mounted_inode[1], Search(mounttab[i].mounted_inode, "..")>>
  BY <1>2, <1>3 DEF Ascend
<1>5. k # Gone
  BY KeyIs
<1>6. QED
  BY <1>4, <1>5 DEF Step, Search

LEMMA StepUp ==
    ASSUME PathsInv, NEW k \in Key, Exists(k)
    PROVE  Step(k, "..") \in Places
<1>1. CASE k[2] # ROOT_INODE
  BY <1>1, StepUpInside, UpPlace
<1>2. CASE k[2] = ROOT_INODE
  <2>1. PICK i \in Mounted : mounttab[i].dev = k[1]
    BY KeyIs DEF PathsInv, MountsAgree, Exists
  <2>2. mounttab[i].mounted_inode \in Key /\ Exists(mounttab[i].mounted_inode)
    BY PointIs
  <2>3. QED
    BY <1>2, <2>1, <2>2, StepUpOut, UpPlace
<1>3. QED
  BY <1>1, <1>2

LEMMA SearchName ==
    ASSUME PathsInv, NEW k \in Key, NEW n \in Name
    PROVE  LET i == Search(k, n)
               found == {j \in DOMAIN Tree(k) \ {ROOT_INODE} : Tree(k)[j] = [up |-> k[2], name |-> n]}
           IN  IF found = {} THEN i = 0 ELSE i \in found
<1>1. n # ".."
  BY PathAssumption
<1>2. QED
  BY <1>1 DEF Search

\* A name down: the directory of that name, or what is mounted on it.
LEMMA StepDown ==
    ASSUME PathsInv, NEW k \in Places, NEW n \in Name
    PROVE  LET next == <<k[1], Search(k, n)>> IN
           /\ Search(k, n) = 0 => Step(k, n) = Gone
           /\ Search(k, n) # 0 =>
                /\ next \in Key /\ Exists(next)
                /\ IF next \in PointsOf(minodes)
                   THEN Step(k, n) = <<mounttab[minodes[next].mountptr].dev, ROOT_INODE>>
                   ELSE Step(k, n) = next
<1> DEFINE next == <<k[1], Search(k, n)>>
<1>1. k \in Key /\ Exists(k) /\ k # Gone /\ n # ".."
  BY KeyIs, PathAssumption DEF Places
<1>2. next[2] = Search(k, n)
  OBVIOUS
<1>3. Search(k, n) # 0 => next \in Key /\ Exists(next)
  BY <1>1, SearchName, LiveDevice
<1> HIDE DEF next
<1>4. Step(k, n) = IF next[2] = 0 THEN Gone
                   ELSE IF next \in DOMAIN minodes /\ minodes[next].mounted = 1
                   THEN <<mounttab[minodes[next].mountptr].dev, ROOT_INODE>>
                   ELSE next
  BY <1>1 DEF Step, next
<1>5. QED
  BY <1>2, <1>3, <1>4 DEF PointsOf, next

\* The root directory of a device that is mounted.
LEMMA DeviceRoot ==
    ASSUME PathsInv, NEW i \in Mounted
    PROVE  <<mounttab[i].dev, ROOT_INODE>> \in Places
<1> DEFINE r == <<mounttab[i].dev, ROOT_INODE>>
<1>1. mounttab[i].dev \in Dev /\ host[mounttab[i].dev] = mounttab[i].name
  BY PointIs DEF PathsInv, MountsAgree
<1>2. mounttab[i].name # ""
  BY <1>1, ImageAssumption, DevAssumption DEF PathsInv, HostInv, None
<1>3. mounttab[i].name \in Image
  BY <1>2, PointIs DEF PathsInv, TableInv, TableTyped
<1>4. r \in Key
  BY <1>1, <1>3, ImageAssumption, KeyIs
<1>5. Exists(r)
  BY <1>1, <1>3, ImageAssumption DEF Exists, Tree, PathsInv, TreesInv, Directories
<1>6. r \notin PointsOf(minodes)
  BY DEF PathsInv, MinodesInv, PointsAlone, PointsOf
<1>7. QED
  BY <1>4, <1>5, <1>6, PlaceIs

LEMMA StepPlace ==
    ASSUME PathsInv, NEW k \in Places \cup {Gone}, NEW n \in Name \cup {".."}
    PROVE  Step(k, n) \in Places \cup {Gone}
<1>1. CASE k = Gone
  BY <1>1 DEF Step
<1>2. CASE k \in Places /\ n = ".."
  BY <1>2, StepUp DEF Places
<1>3. CASE k \in Places /\ n \in Name
  <2> DEFINE next == <<k[1], Search(k, n)>>
  <2>1. CASE Search(k, n) = 0
    BY <1>3, <2>1, StepDown
  <2>2. CASE Search(k, n) # 0 /\ next \in PointsOf(minodes)
    <3>1. minodes[next].mountptr \in Mounted
      BY <2>2 DEF PathsInv, MinodesInv, PointsAlone, PointsOf
    <3>2. Step(k, n) = <<mounttab[minodes[next].mountptr].dev, ROOT_INODE>>
      BY <1>3, <2>2, StepDown
    <3>3. QED
      BY <3>1, <3>2, DeviceRoot
  <2>3. CASE Search(k, n) # 0 /\ next \notin PointsOf(minodes)
    BY <1>3, <2>3, StepDown, PlaceIs
  <2>4. QED
    BY <2>1, <2>2, <2>3
<1>4. QED
  BY <1>1, <1>2, <1>3

\* getino: every path leads to a place, or nowhere.
LEMMA GetinoPlace ==
    ASSUME PathsInv, PlacesInv,
           NEW path \in [abs: BOOLEAN, names: Seq(Name \cup {".."})]
    PROVE  Getino(path) \in Places \cup {Gone}
<1> DEFINE V == Places \cup {Gone}
           k == IF path.abs THEN Root ELSE cwd[running]
<1>1. k \in V
  BY RootIs DEF PlacesInv
<1>2. path.names \in Seq(Name \cup {".."})
  OBVIOUS
<1>3. \A v \in V, n \in Name \cup {".."} : Step(v, n) \in V
  BY StepPlace
<1> HIDE DEF V, k
<1>4. Walk(k, path.names) \in V
  <2>1. PICK w \in [0 .. Len(path.names) -> V] : Walked(w, k, path.names)
    BY <1>1, <1>2, <1>3, WalkIs
  <2>2. Len(path.names) \in 0 .. Len(path.names)
    BY <1>2, LenProperties
  <2>3. QED
    BY <2>1, <2>2 DEF Walked
<1>5. QED
  BY <1>4 DEF Getino, V, k

LEMMA ParentPlace ==
    ASSUME PathsInv, PlacesInv, NEW path \in Path, Parent(path) # Gone
    PROVE  Parent(path) \in Places
<1> DEFINE shorter == [path EXCEPT !.names = SubSeq(path.names, 1, Len(path.names) - 1)]
<1>1. path \in [abs: BOOLEAN, names: Seq(Name \cup {".."}) \ {<<>>}]
  BY PathAssumption
<1>2. SubSeq(path.names, 1, Len(path.names) - 1) \in Seq(Name \cup {".."})
  <2>1. path.names \in Seq(Name \cup {".."}) /\ path.names # <<>>
    BY <1>1
  <2>2. Len(path.names) \in Nat /\ Len(path.names) # 0
    BY <2>1, EmptySeq, LenProperties
  <2>3. QED
    BY <2>1, <2>2, SubSeqProperties
<1>3. shorter \in [abs: BOOLEAN, names: Seq(Name \cup {".."})]
  BY <1>1, <1>2
<1>4. Parent(path) = Getino(shorter)
  BY DEF Parent
<1>5. QED
  BY <1>3, <1>4, GetinoPlace

-----------------------------------------------------------------------------
(* Steps that leave the mount table as it is.                              *)

\* A step that takes nothing away that the minodes in use and the mount points
\* depend on.
LEMMA TableKept ==
    ASSUME PathsInv, DevicesRooted, TreesInv', UNCHANGED <<host, mounttab>>,
           MinodesTyped(minodes'), SamePoints(minodes, minodes'),
           \A k \in DOMAIN minodes' : Exists(k)',
           \A k \in PointsOf(minodes) : \A i \in DOMAIN Tree(k)' : Tree(k)'[i].up # k[2]
    PROVE  /\ PathsInv' /\ DevicesRooted'
           /\ \A k \in Places : Exists(k)' => k \in Places'
<1>1. HostInv' /\ TableInv' /\ DevicesRooted'
  BY DEF PathsInv, HostInv, TableInv, TableTyped, DevicesRooted
<1>2. Mounted' = Mounted
  BY DEF Mounted
<1>3. \A k \in DOMAIN minodes' : minodes'[k].mounted = 1 =>
        k \in PointsOf(minodes) /\ minodes'[k] = minodes[k]
  BY DEF SamePoints, PointsOf
<1>4. PointsAlone'
  BY <1>2, <1>3 DEF PathsInv, MinodesInv, PointsAlone, PointsOf
<1>5. MinodesInv'
  BY <1>4 DEF MinodesInv
<1>6. MountsAgree'
  <2>1. \A i \in Mounted \ {0} : LET k == mounttab[i].mounted_inode IN
          k \in DOMAIN minodes' /\ minodes'[k].mounted = 1 /\ minodes'[k].mountptr = i
    BY DEF PathsInv, MountsAgree, SamePoints, PointsOf
  <2>2. \A k \in DOMAIN minodes' : minodes'[k].mounted = 1 =>
          mounttab[minodes'[k].mountptr].mounted_inode = k
    BY <1>3 DEF PathsInv, MountsAgree, SamePoints, PointsOf
  <2>3. QED
    BY <1>2, <2>1, <2>2 DEF PathsInv, MountsAgree
<1>7. \A k \in Places : Exists(k)' => k \in Places'
  <2> SUFFICES ASSUME NEW k \in Places, Exists(k)', k \in DOMAIN minodes'
               PROVE  minodes'[k].mounted = 0
    BY DEF Places
  <2>1. minodes'[k].mounted # 1
    BY <1>3 DEF Places, PointsOf
  <2>2. QED
    BY <2>1 DEF MinodesTyped, MinodeTyped
<1>8. QED
  BY <1>1, <1>5, <1>6, <1>7 DEF PathsInv

LEMMA SamePointsTrans ==
    ASSUME NEW l, NEW m, NEW n, SamePoints(l, m), SamePoints(m, n)
    PROVE  SamePoints(l, n)
BY DEF SamePoints

\* mkdir: the directory that it makes, and the tree with it.
LEMMA MkdirMakes ==
    ASSUME PathsInv, PlacesInv, NEW path \in Path, MkdirOK(path),
           tree' = Planted(path), NEW k, k = Made(path)
    PROVE  /\ TreesInv'
           /\ k \in Key /\ k[2] # ROOT_INODE /\ ~ Exists(k)
           /\ Parent(path) \in Places /\ k[1] = Parent(path)[1]
           /\ k[2] \in DOMAIN tree'[host[k[1]]]
           /\ tree'[host[k[1]]][k[2]] = [up |-> Parent(path)[2], name |-> Child(path)]
           /\ \A i \in DOMAIN tree'[host[k[1]]] : tree'[host[k[1]]][i].up # k[2]
           /\ \A x \in Key : Exists(x) =>
                /\ DOMAIN Tree(x) \subseteq DOMAIN tree'[host[x[1]]]
                /\ \A i \in DOMAIN Tree(x) : tree'[host[x[1]]][i] = Tree(x)[i]
                /\ \A i \in DOMAIN tree'[host[x[1]]] \ DOMAIN Tree(x) :
                     host[x[1]] = host[k[1]] /\ i = k[2]
<1> DEFINE parent == Parent(path)
<1>1. parent \in Places
  BY ParentPlace DEF MkdirOK
<1> HIDE DEF parent
<1>2. parent \in Key /\ Exists(parent) /\ parent[1] \in Dev
  BY <1>1, KeyIs DEF Places
<1> DEFINE image == host[parent[1]]
           t == tree[image]
           j == FirstIno(parent)
<1>3. image \in Image /\ Directories(image, t) /\ parent[2] \in DOMAIN t /\ t = Tree(parent)
  BY <1>2, LiveDevice DEF Tree
<1>4. j \in InoOf[image] \ DOMAIN t
  <2>1. FreeIno(parent) \in SUBSET Nat /\ FreeIno(parent) # {}
    BY <1>3, ImageAssumption DEF FreeIno, MkdirOK, parent
  <2>2. PICK m \in FreeIno(parent) : \A n \in FreeIno(parent) : m <= n
    BY <2>1, LeastElement
  <2>3. FirstIno(parent) \in FreeIno(parent)
    BY <2>2 DEF FirstIno
  <2>4. QED
    BY <2>3, <1>3 DEF FreeIno
<1>5. k = <<parent[1], j>>
  BY DEF Made, parent
<1>6. Child(path) \in Name /\ Search(parent, Child(path)) = 0
  BY DEF MkdirOK, parent
<1>7. \A i \in DOMAIN t \ {ROOT_INODE} : t[i] # [up |-> parent[2], name |-> Child(path)]
  <2> DEFINE found == {i \in DOMAIN t \ {ROOT_INODE} : t[i] = [up |-> parent[2], name |-> Child(path)]}
  <2>1. 0 \notin found
    BY <1>3, ImageAssumption DEF Directories
  <2>2. IF found = {} THEN Search(parent, Child(path)) = 0 ELSE Search(parent, Child(path)) \in found
    <3> HIDE DEF t, image
    <3>1. QED
      BY <1>2, <1>3, <1>6, SearchName
  <2>3. found = {}
    BY <1>6, <2>1, <2>2
  <2>4. QED
    BY <2>3
<1> DEFINE g == Grown(t, j, parent[2], Child(path))
<1> HIDE DEF image, t, j
<1>8. Directories(image, g)
  BY <1>3, <1>4, <1>6, <1>7, DirectoryMade
<1>9. DOMAIN g = DOMAIN t \cup {j} /\ g[j] = [up |-> parent[2], name |-> Child(path)]
      /\ \A i \in DOMAIN t : g[i] = t[i]
  BY <1>4 DEF Grown
<1>10. tree' = [tree EXCEPT ![image] = g]
  <2>1. k[1] = parent[1] /\ k[2] = j /\ host[k[1]] = image
    BY <1>5 DEF image
  <2>2. Planted(path) = [tree EXCEPT ![host[k[1]]] = [i \in DOMAIN @ \cup {k[2]} |->
            IF i = k[2] THEN [up |-> parent[2], name |-> Child(path)] ELSE @[i]]]
    BY DEF Planted, parent
  <2>3. QED
    BY <2>1, <2>2 DEF Grown, t
<1>11. DOMAIN tree = Image
  BY DEF PathsInv, TreesInv
<1> HIDE DEF g
<1>12. tree'[image] = g /\ \A other \in Image \ {image} : tree'[other] = tree[other]
  BY <1>3, <1>10, <1>11
<1>13. TreesInv'
  <2>1. DOMAIN tree' = Image
    BY <1>10, <1>11
  <2>2. \A other \in Image : Directories(other, tree'[other])
    BY <1>8, <1>12 DEF PathsInv, TreesInv
  <2>3. QED
    BY <2>1, <2>2 DEF TreesInv, Directories
<1>14. k[1] = parent[1] /\ k[2] = j /\ host[k[1]] = image
  BY <1>5 DEF image
<1>15. k \in Key /\ j # ROOT_INODE /\ ~ Exists(k)
  <2>1. k \in Key
    BY <1>2, <1>3, <1>4, <1>5, KeyIs
  <2>2. j # ROOT_INODE
    BY <1>3, <1>4 DEF Directories
  <2>3. ~ Exists(k)
    BY <1>4, <1>14 DEF Exists, Tree, t
  <2>4. QED
    BY <2>1, <2>2, <2>3
<1>16. \A i \in DOMAIN g : g[i].up # j
  BY <1>3, <1>4, <1>9 DEF Directories
<1>17. ASSUME NEW x \in Key, Exists(x)
       PROVE  /\ DOMAIN Tree(x) \subseteq DOMAIN tree'[host[x[1]]]
              /\ \A i \in DOMAIN Tree(x) : tree'[host[x[1]]][i] = Tree(x)[i]
              /\ \A i \in DOMAIN tree'[host[x[1]]] \ DOMAIN Tree(x) :
                   host[x[1]] = host[k[1]] /\ i = k[2]
  <2>1. host[x[1]] \in Image /\ Tree(x) = tree[host[x[1]]]
    BY <1>17, LiveDevice DEF Tree
  <2>2. CASE host[x[1]] = image
    BY <1>9, <1>12, <1>14, <2>1, <2>2 DEF t
  <2>3. CASE host[x[1]] # image
    BY <1>12, <2>1, <2>3
  <2>4. QED
    BY <2>2, <2>3
<1>18. QED
  BY <1>1, <1>9, <1>12, <1>13, <1>14, <1>15, <1>16, <1>17 DEF parent

-----------------------------------------------------------------------------
(* Who holds a minode.                                                     *)

Held == IF pwd = Idle THEN <<>> ELSE pwd.held
CwdsAt(k) == {p \in Proc : cwd[p] = k}
CallsAt(k) == {n \in DOMAIN Held : Held[n] = k}
EntriesAt(k) == {i \in Mounted : mounttab[i].mounted_inode = k}
Holders(k) == Cardinality(CwdsAt(k)) + Cardinality(CallsAt(k)) + Cardinality(EntriesAt(k))

CountsAgree == \A k \in Key : Count(minodes, k) = Holders(k)

LEMMA HoldersCounted == RefCountIsHolders <=> CountsAgree
<1>1. RefCountIsHolders <=> \A k \in Key :
        IF k \in DOMAIN minodes THEN minodes[k].ref_count = Holders(k) ELSE Holders(k) = 0
  BY DEF RefCountIsHolders, Holders, CwdsAt, CallsAt, EntriesAt, Held
<1>2. QED
  BY <1>1 DEF Count, CountsAgree

LEMMA HeldIs ==
    ASSUME PwdInv
    PROVE  /\ Held \in Seq(Places) /\ Len(Held) \in Nat /\ DOMAIN Held = 1 .. Len(Held)
           /\ pwd = Idle => Held = <<>>
           /\ pwd # Idle => Held = pwd.held
<1>1. Held \in Seq(Places)
  BY EmptySeq DEF Held, PwdInv
<1>2. QED
  BY <1>1, LenProperties DEF Held

LEMMA HoldersFinite ==
    ASSUME PwdInv, NEW k
    PROVE  /\ IsFiniteSet(CwdsAt(k)) /\ Cardinality(CwdsAt(k)) \in Nat
           /\ IsFiniteSet(CallsAt(k)) /\ Cardinality(CallsAt(k)) \in Nat
           /\ IsFiniteSet(EntriesAt(k)) /\ Cardinality(EntriesAt(k)) \in Nat
<1>1. IsFiniteSet(CwdsAt(k))
  BY ProcAssumption, FS_Subset DEF CwdsAt
<1>2. IsFiniteSet(CallsAt(k))
  <2>1. DOMAIN Held = 1 .. Len(Held) /\ Len(Held) \in Nat
    BY HeldIs
  <2>2. IsFiniteSet(DOMAIN Held)
    BY <2>1, FS_Interval
  <2>3. QED
    BY <2>2, FS_Subset DEF CallsAt
<1>3. IsFiniteSet(EntriesAt(k))
  <2>1. IsFiniteSet(Slot)
    BY BoundAssumption, FS_Interval DEF Slot
  <2>2. EntriesAt(k) \subseteq Slot
    BY DEF EntriesAt, Mounted
  <2>3. QED
    BY <2>1, <2>2, FS_Subset
<1>4. QED
  BY <1>1, <1>2, <1>3, FS_CardinalityType

\* What is held is in use, and what is in use is held.
LEMMA HeldInUse ==
    ASSUME PwdInv, RefCountIsHolders, MinodesTyped(minodes), NEW k \in Key
    PROVE  k \in DOMAIN minodes <=> CwdsAt(k) # {} \/ CallsAt(k) # {} \/ EntriesAt(k) # {}
<1>1. Count(minodes, k) = Holders(k)
  BY HoldersCounted DEF CountsAgree
<1>2. k \in DOMAIN minodes <=> Count(minodes, k) # 0
  BY DEF MinodesTyped, MinodeTyped, Count
<1> DEFINE A == CwdsAt(k)
           B == CallsAt(k)
           C == EntriesAt(k)
<1>3. /\ IsFiniteSet(A) /\ Cardinality(A) \in Nat
      /\ IsFiniteSet(B) /\ Cardinality(B) \in Nat
      /\ IsFiniteSet(C) /\ Cardinality(C) \in Nat
      /\ Holders(k) = Cardinality(A) + Cardinality(B) + Cardinality(C)
  BY HoldersFinite DEF Holders
<1> HIDE DEF A, B, C
<1>4. /\ Cardinality(A) = 0 <=> A = {}
      /\ Cardinality(B) = 0 <=> B = {}
      /\ Cardinality(C) = 0 <=> C = {}
  BY <1>3, FS_EmptySet
<1>5. k \in DOMAIN minodes <=> A # {} \/ B # {} \/ C # {}
  BY <1>1, <1>2, <1>3, <1>4
<1>6. QED
  BY <1>5 DEF A, B, C

\* A step that leaves the mount table, and adds and takes as many references as
\* holders.
LEMMA HoldersKept ==
    ASSUME RefCountIsHolders,
           UNCHANGED <<cwd, mounttab, pwd>>,
           \A k \in Key : Count(minodes', k) = Count(minodes, k)
    PROVE  RefCountIsHolders'
<1>1. \A k \in Key : Holders(k)' = Holders(k)
  BY DEF Holders, CwdsAt, CallsAt, EntriesAt, Held, Mounted
<1>2. \A k \in Key : Count(minodes, k) = Holders(k)
  BY HoldersCounted DEF CountsAgree
<1>3. \A k \in Key : Count(minodes', k) = Holders(k)'
  BY <1>1, <1>2
<1>4. (RefCountIsHolders <=> CountsAgree)'
  BY HoldersCounted, PTL
<1>5. QED
  BY <1>3, <1>4 DEF CountsAgree

-----------------------------------------------------------------------------
(* mkdir, and mount when the table is full.                                *)

\* After mkdir everything is as before but for the new directory, which is in
\* no minode.
LEMMA MkdirKeeps ==
    ASSUME IInv, Prompt, NEW path \in Path, MkdirOK(path), tree' = Planted(path),
           UNCHANGED <<host, mounttab, cwd, running, pwd>>,
           MinodesTyped(minodes'), SamePoints(minodes, minodes'), DOMAIN minodes' = DOMAIN minodes,
           \A k \in Key : Count(minodes', k) = Count(minodes, k)
    PROVE  IInv'
<1> DEFINE k == Made(path)
<1>1. PathsInv /\ PlacesInv
  BY DEF IInv, PathsInv
<1>2. PICK new : new = Made(path)
  OBVIOUS
<1>3. /\ TreesInv'
      /\ new \in Key /\ new[2] # ROOT_INODE /\ ~ Exists(new)
      /\ Parent(path) \in Places /\ new[1] = Parent(path)[1]
      /\ tree'[host[new[1]]][new[2]] = [up |-> Parent(path)[2], name |-> Child(path)]
      /\ \A x \in Key : Exists(x) =>
           /\ DOMAIN Tree(x) \subseteq DOMAIN tree'[host[x[1]]]
           /\ \A i \in DOMAIN Tree(x) : tree'[host[x[1]]][i] = Tree(x)[i]
           /\ \A i \in DOMAIN tree'[host[x[1]]] \ DOMAIN Tree(x) :
                host[x[1]] = host[new[1]] /\ i = new[2]
  BY <1>1, <1>2, MkdirMakes
<1>4. \A x \in Key : Exists(x) => Exists(x)'
  BY <1>3 DEF Exists, Tree
<1>5. \A x \in DOMAIN minodes' : Exists(x)'
  BY <1>4 DEF IInv, MinodesInv, MinodesTyped
<1>6. ASSUME NEW x \in PointsOf(minodes), NEW i \in DOMAIN Tree(x)'
      PROVE  Tree(x)'[i].up # x[2]
  <2>1. x \in Key /\ Exists(x) /\ Tree(x)' = tree'[host[x[1]]]
    BY DEF PointsOf, IInv, MinodesInv, MinodesTyped, Tree
  <2>2. CASE i \in DOMAIN Tree(x)
    BY <1>3, <2>1, <2>2 DEF IInv, MinodesInv, PointsAlone, PointsOf
  <2>3. CASE i \notin DOMAIN Tree(x)
    <3>1. host[x[1]] = host[new[1]] /\ i = new[2]
      BY <1>3, <1>6, <2>1, <2>3
    <3>2. Tree(x)'[i].up = Parent(path)[2]
      BY <1>3, <2>1, <3>1
    <3>3. x[1] = new[1]
      BY <1>3, <2>1, <3>1, KeyIs DEF Exists, IInv, HostInv
    <3>4. Parent(path) \in Key /\ Parent(path) \notin PointsOf(minodes)
      BY <1>3 DEF Places, PointsOf
    <3>5. x # Parent(path)
      BY <3>4
    <3>6. QED
      BY <1>3, <2>1, <3>2, <3>3, <3>4, <3>5, KeyIs
  <2>4. QED
    BY <2>2, <2>3
<1>7. PathsInv' /\ DevicesRooted' /\ \A x \in Places : Exists(x)' => x \in Places'
  BY <1>1, <1>3, <1>5, <1>6, TableKept DEF IInv
<1>8. PlacesInv'
  <2>1. Places \subseteq Places'
    BY <1>4, <1>7 DEF Places
  <2>2. QED
    BY <1>1, <2>1 DEF PlacesInv
<1>9. RefCountIsHolders'
  BY HoldersKept DEF IInv
<1>10. PwdInv'
  BY DEF Prompt, PwdInv, Idle
<1>11. QED
  BY <1>7, <1>8, <1>9, <1>10 DEF IInv, PathsInv

LEMMA MkdirStep ==
    ASSUME IInv, NEW path \in Path, Mkdir(path)
    PROVE  IInv'
<1>1. MinodesTyped(minodes') /\ SamePoints(minodes, minodes') /\ DOMAIN minodes' = DOMAIN minodes
  BY DEF IInv, MinodesInv, SamePoints, Mkdir
<1>2. \A k \in Key : Count(minodes', k) = Count(minodes, k)
  BY DEF Mkdir
<1>3. QED
  BY <1>1, <1>2, MkdirKeeps DEF Mkdir

\* The minode that it takes and puts back is a new one.
LEMMA MountTableFullStep ==
    ASSUME IInv, NEW path \in Path, NEW image \in Image, MountTableFull(image, path)
    PROVE  IInv'
<1>1. PathsInv /\ PlacesInv /\ MkdirOK(path) /\ tree' = Planted(path)
  BY DEF IInv, PathsInv, MountTableFull, MountOK
<1>2. PICK new : new = Made(path)
  OBVIOUS
<1>3. new \in Key /\ ~ Exists(new)
  BY <1>1, <1>2, MkdirMakes
<1>4. MinodesTyped(minodes) /\ new \notin DOMAIN minodes
  BY <1>3 DEF IInv, MinodesInv
<1>5. PICK m : m = Iget(minodes, new)
  OBVIOUS
<1>6. /\ MinodesTyped(m) /\ DOMAIN m = DOMAIN minodes \cup {new}
      /\ \A x \in Key : Count(m, x) = Count(minodes, x) + (IF x = new THEN 1 ELSE 0)
      /\ SamePoints(minodes, m)
  BY <1>3, <1>4, <1>5, IgetAdds DEF PointsOf
<1>7. minodes' = Iput(m, new)
  BY <1>2, <1>5 DEF MountTableFull
<1>8. Count(minodes, new) = 0 /\ Count(m, new) = 1 /\ m[new].ref_count = 1
  BY <1>3, <1>4, <1>6 DEF Count
<1>9. new \notin PointsOf(m)
  BY <1>4, <1>6 DEF SamePoints, PointsOf
<1>10. /\ MinodesTyped(minodes') /\ SamePoints(m, minodes')
       /\ minodes' = [x \in DOMAIN m \ {new} |-> m[x]]
       /\ \A x \in Key : Count(minodes', x) = Count(m, x) - (IF x = new THEN 1 ELSE 0)
  <2>1. new \in DOMAIN m
    BY <1>6
  <2>2. /\ MinodesTyped(Iput(m, new)) /\ SamePoints(m, Iput(m, new))
        /\ Iput(m, new) = [x \in DOMAIN m \ {new} |-> m[x]]
        /\ \A x \in Key : Count(Iput(m, new), x) = Count(m, x) - (IF x = new THEN 1 ELSE 0)
    BY <1>6, <1>8, <1>9, <2>1, IputTakes
  <2>3. QED
    BY <1>7, <2>2
<1>11. DOMAIN minodes' = DOMAIN minodes
  BY <1>4, <1>6, <1>10
<1>12. SamePoints(minodes, minodes')
  BY <1>6, <1>10, SamePointsTrans
<1>13. ASSUME NEW x \in Key
       PROVE  Count(minodes', x) = Count(minodes, x)
  <2>1. Count(minodes, x) \in Nat
    BY <1>4 DEF Count, MinodesTyped, MinodeTyped
  <2>2. QED
    <3>1. Count(m, x) = Count(minodes, x) + (IF x = new THEN 1 ELSE 0)
      BY <1>6
    <3>2. Count(minodes', x) = Count(m, x) - (IF x = new THEN 1 ELSE 0)
      BY <1>10
    <3>3. CASE x = new
      BY <2>1, <3>1, <3>2, <3>3
    <3>4. CASE x # new
      BY <2>1, <3>1, <3>2, <3>4
    <3>5. QED
      BY <3>3, <3>4
<1>14. QED
  BY <1>1, <1>10, <1>11, <1>12, <1>13, MkdirKeeps DEF MountTableFull

-----------------------------------------------------------------------------
(* rmdir.                                                                  *)

\* The directory that rmdir removes is empty, and nobody has its minode.
LEMMA RmdirTakes ==
    ASSUME IInv, NEW path \in Path, Rmdir(path),
           NEW child, child = <<Parent(path)[1], Search(Parent(path), Child(path))>>
    PROVE  /\ TreesInv' /\ UNCHANGED <<host, mounttab, minodes, cwd, running, pwd>>
           /\ child \in Key /\ Exists(child) /\ child[2] # ROOT_INODE /\ child \notin DOMAIN minodes
           /\ \A i \in DOMAIN Tree(child) : Tree(child)[i].up # child[2]
           /\ \A x \in Key : Exists(x) =>
                /\ x # child => Exists(x)'
                /\ \A i \in DOMAIN Tree(x)' : i \in DOMAIN Tree(x) /\ Tree(x)'[i] = Tree(x)[i]
<1>1. PathsInv /\ PlacesInv /\ PwdInv /\ MinodesTyped(minodes)
  BY DEF IInv, PathsInv, MinodesInv
<1>2. PICK parent : parent = Parent(path)
  OBVIOUS
<1>3. child = <<parent[1], Search(parent, Child(path))>>
  BY <1>2
<1>4. /\ Prompt /\ Child(path) \in Name /\ parent # Gone /\ child[2] # 0
      /\ Iget(Iget(minodes, parent), child)[child].ref_count = 1
      /\ \A i \in DOMAIN Tree(child) : Tree(child)[i].up # child[2]
      /\ tree' = [tree EXCEPT ![host[child[1]]] = Shrunk(@, child[2])]
      /\ UNCHANGED <<host, mounttab, minodes, cwd, running, pwd>>
  BY <1>2, <1>3 DEF Rmdir, Shrunk
<1>5. parent \in Places /\ parent \in Key /\ Exists(parent)
  BY <1>1, <1>2, <1>4, ParentPlace DEF Places
<1> DEFINE image == host[child[1]]
<1>6. /\ child \in Key /\ Exists(child) /\ child[2] # ROOT_INODE
      /\ image \in Image /\ Directories(image, Tree(child)) /\ child[2] \in DOMAIN Tree(child)
  <2>1. child[1] = parent[1] /\ child[2] = Search(parent, Child(path))
    BY <1>3
  <2>2. child[2] \in DOMAIN Tree(parent) /\ child[2] # ROOT_INODE
    BY <1>1, <1>4, <1>5, <2>1, SearchName
  <2>3. child \in Key /\ Exists(child)
    BY <1>1, <1>3, <1>5, <2>1, <2>2, LiveDevice
  <2>4. QED
    BY <1>1, <2>2, <2>3, LiveDevice
<1> HIDE DEF image
<1>7. child \notin DOMAIN minodes
  <2>1. PICK m : m = Iget(minodes, parent)
    OBVIOUS
  <2>2. MinodesTyped(m) /\ \A x \in Key : Count(m, x) \in Nat /\ Count(m, x) >= Count(minodes, x)
    <3>1. /\ MinodesTyped(m)
          /\ \A x \in Key : Count(m, x) = Count(minodes, x) + (IF x = parent THEN 1 ELSE 0)
      BY <1>1, <1>5, <2>1, IgetAdds
    <3>2. \A x \in Key : Count(minodes, x) \in Nat
      BY <1>1 DEF Count, MinodesTyped, MinodeTyped
    <3>3. QED
      BY <3>1, <3>2
  <2>3. Count(Iget(m, child), child) = Count(m, child) + 1 /\ child \in DOMAIN Iget(m, child)
    BY <1>6, <2>2, IgetAdds
  <2>4. Count(Iget(m, child), child) = 1
    BY <1>4, <2>1, <2>3 DEF Count
  <2>5. Count(minodes, child) \in Nat /\ Count(minodes, child) <= 0
    BY <1>1, <1>6, <2>2, <2>3, <2>4 DEF Count, MinodesTyped, MinodeTyped
  <2>6. QED
    BY <1>1, <2>5 DEF Count, MinodesTyped, MinodeTyped
<1> DEFINE g == Shrunk(Tree(child), child[2])
<1>8. Directories(image, g)
  BY <1>4, <1>6, DirectoryRemoved
<1>9. DOMAIN g = DOMAIN Tree(child) \ {child[2]} /\ \A i \in DOMAIN g : g[i] = Tree(child)[i]
  BY DEF Shrunk
<1>10. tree' = [tree EXCEPT ![image] = g] /\ Tree(child) = tree[image] /\ DOMAIN tree = Image
  BY <1>1, <1>4 DEF image, Tree, PathsInv, TreesInv
<1> HIDE DEF g
<1>11. tree'[image] = g /\ \A other \in Image \ {image} : tree'[other] = tree[other]
  BY <1>6, <1>10
<1>12. TreesInv'
  <2>1. DOMAIN tree' = Image
    BY <1>10
  <2>2. \A other \in Image : Directories(other, tree'[other])
    BY <1>1, <1>8, <1>11 DEF PathsInv, TreesInv
  <2>3. QED
    BY <2>1, <2>2 DEF TreesInv, Directories
<1>13. ASSUME NEW x \in Key, Exists(x)
       PROVE  /\ x # child => Exists(x)'
              /\ \A i \in DOMAIN Tree(x)' : i \in DOMAIN Tree(x) /\ Tree(x)'[i] = Tree(x)[i]
  <2>1. host[x[1]] \in Image /\ Tree(x) = tree[host[x[1]]] /\ Tree(x)' = tree'[host[x[1]]]
        /\ x[2] \in DOMAIN Tree(x)
    BY <1>1, <1>4, <1>13, LiveDevice DEF Tree
  <2>2. CASE host[x[1]] = image
    <3>1. x[1] = child[1]
      BY <1>1, <1>6, <2>2, KeyIs DEF PathsInv, HostInv, image, Exists
    <3>2. x # child => x[2] # child[2]
      BY <1>6, <3>1, KeyIs
    <3>3. QED
      BY <1>4, <1>9, <1>10, <1>11, <1>13, <2>1, <2>2, <3>2 DEF Exists
  <2>3. CASE host[x[1]] # image
    BY <1>4, <1>11, <1>13, <2>1, <2>3 DEF Exists
  <2>4. QED
    BY <2>2, <2>3
<1>14. QED
  BY <1>4, <1>6, <1>7, <1>12, <1>13

LEMMA RmdirStep ==
    ASSUME IInv, NEW path \in Path, Rmdir(path)
    PROVE  IInv'
<1>1. PathsInv /\ PlacesInv /\ PwdInv /\ MinodesTyped(minodes) /\ Prompt
  BY DEF IInv, PathsInv, MinodesInv, Rmdir
<1>2. PICK child : child = <<Parent(path)[1], Search(Parent(path), Child(path))>>
  OBVIOUS
<1>3. /\ TreesInv' /\ UNCHANGED <<host, mounttab, minodes, cwd, running, pwd>>
      /\ child \in Key /\ child \notin DOMAIN minodes
  BY <1>2, RmdirTakes
<1>4. ASSUME NEW x \in Key, Exists(x)
      PROVE  /\ x # child => Exists(x)'
             /\ \A i \in DOMAIN Tree(x)' : i \in DOMAIN Tree(x) /\ Tree(x)'[i] = Tree(x)[i]
  BY <1>2, <1>4, RmdirTakes
<1>5. \A x \in DOMAIN minodes' : Exists(x)'
  BY <1>1, <1>3, <1>4 DEF MinodesTyped, IInv, MinodesInv
<1>6. \A x \in PointsOf(minodes) : \A i \in DOMAIN Tree(x)' : Tree(x)'[i].up # x[2]
  BY <1>1, <1>4 DEF PointsOf, MinodesTyped, IInv, MinodesInv, PointsAlone
<1>7. MinodesTyped(minodes') /\ SamePoints(minodes, minodes')
       /\ \A x \in Key : Count(minodes', x) = Count(minodes, x)
  BY <1>1, <1>3 DEF SamePoints
<1>8. PathsInv' /\ DevicesRooted' /\ \A x \in Places : Exists(x)' => x \in Places'
  BY <1>1, <1>3, <1>5, <1>6, <1>7, TableKept DEF IInv
<1>9. PlacesInv'
  <2>1. \A p \in Proc : cwd[p] \in Places /\ cwd[p] # child
    <3>1. \A p \in Proc : p \in CwdsAt(cwd[p])
      BY DEF CwdsAt
    <3>2. \A p \in Proc : cwd[p] \in DOMAIN minodes
      BY <1>1, <3>1, HeldInUse DEF IInv, PlacesInv, Places
    <3>3. QED
      BY <1>1, <1>3, <3>2 DEF PlacesInv
  <2>2. \A p \in Proc : cwd[p] \in Places'
    BY <1>4, <1>8, <2>1 DEF Places
  <2>3. QED
    BY <1>1, <1>3, <2>2 DEF PlacesInv
<1>10. RefCountIsHolders'
  BY <1>3, <1>7, HoldersKept DEF IInv
<1>11. PwdInv'
  BY <1>1, <1>3 DEF Prompt, PwdInv, Idle
<1>12. QED
  BY <1>8, <1>9, <1>10, <1>11 DEF IInv, PathsInv

-----------------------------------------------------------------------------
(* Steps that leave the directories and mount points as they are: cd,      *)
(* switch and pwd.                                                         *)

LEMMA PathsKept ==
    ASSUME PathsInv, DevicesRooted, UNCHANGED <<host, tree, mounttab>>,
           MinodesTyped(minodes'), SamePoints(minodes, minodes'),
           \A k \in DOMAIN minodes' : Exists(k)
    PROVE  /\ PathsInv' /\ DevicesRooted'
           /\ Root' = Root /\ Places' = Places
           /\ \A k, n : Step(k, n)' = Step(k, n)
           /\ \A k, i : EntryName(k, i)' = EntryName(k, i)
<1>1. \A k : Exists(k)' = Exists(k) /\ Tree(k)' = Tree(k)
  BY DEF Exists, Tree
<1>2. TreesInv'
  BY DEF PathsInv, TreesInv, Directories
<1>3. \A k \in PointsOf(minodes) : \A i \in DOMAIN Tree(k)' : Tree(k)'[i].up # k[2]
  BY <1>1 DEF PathsInv, MinodesInv, PointsAlone, PointsOf
<1>4. PathsInv' /\ DevicesRooted'
  BY <1>1, <1>2, <1>3, TableKept
<1>5. PointsOf(minodes') = PointsOf(minodes)
      /\ \A k \in PointsOf(minodes) : minodes'[k].mountptr = minodes[k].mountptr
  BY DEF SamePoints
<1>6. Places' = Places
  <2>1. Places = {k \in Key : Exists(k) /\ k \notin PointsOf(minodes)}
    BY DEF PathsInv, MinodesInv, Places, PointsOf, MinodesTyped, MinodeTyped
  <2>2. Places' = {k \in Key : Exists(k)' /\ k \notin PointsOf(minodes')}
    BY DEF Places, PointsOf, MinodesTyped, MinodeTyped
  <2>3. QED
    BY <1>1, <1>5, <2>1, <2>2
<1>7. \A k, n : Search(k, n)' = Search(k, n)
  BY DEF Search, Tree
<1>8. \A d : Ascend(d)' = Ascend(d)
  BY DEF Ascend, Search, Tree
<1>9. \A k, n : Step(k, n)' = Step(k, n)
  <2>1. \A k : k \in PointsOf(minodes) <=> k \in DOMAIN minodes /\ minodes[k].mounted = 1
    BY DEF PointsOf
  <2>2. \A k : k \in PointsOf(minodes') <=> k \in DOMAIN minodes' /\ minodes'[k].mounted = 1
    BY DEF PointsOf
  <2>3. QED
    BY <1>5, <1>7, <1>8, <2>1, <2>2 DEF Step
<1>10. \A k, i : EntryName(k, i)' = EntryName(k, i)
  BY DEF EntryName, Search, Tree
<1>11. QED
  BY <1>4, <1>6, <1>9, <1>10 DEF Root

LEMMA SwitchStep ==
    ASSUME IInv, NEW p \in Proc, Switch(p)
    PROVE  IInv'
<1>1. /\ PathsInv /\ DevicesRooted /\ UNCHANGED <<host, tree, mounttab>>
      /\ MinodesTyped(minodes') /\ SamePoints(minodes, minodes')
      /\ \A k \in DOMAIN minodes' : Exists(k)
      /\ \A k \in Key : Count(minodes', k) = Count(minodes, k)
  BY DEF IInv, PathsInv, MinodesInv, SamePoints, Switch
<1>2. PathsInv' /\ DevicesRooted' /\ Places' = Places
  BY <1>1, PathsKept
<1>3. PlacesInv'
  BY <1>2 DEF IInv, PlacesInv, Switch
<1>4. RefCountIsHolders'
  BY <1>1, HoldersKept DEF IInv, Switch
<1>5. PwdInv'
  BY DEF Switch, Prompt, PwdInv, Idle
<1>6. QED
  BY <1>2, <1>3, <1>4, <1>5 DEF IInv, PathsInv

LEMMA MoveToStep ==
    ASSUME IInv, NEW k \in Places, MoveTo(k)
    PROVE  IInv'
<1>1. /\ PathsInv /\ DevicesRooted /\ PlacesInv /\ PwdInv /\ MinodesTyped(minodes)
      /\ \A x \in DOMAIN minodes : Exists(x)
  BY DEF IInv, PathsInv, MinodesInv
<1>2. PICK c : c = cwd[running]
  OBVIOUS
<1>3. c \in Places /\ c \in Key /\ c \in DOMAIN minodes
  <2>1. c \in Places /\ c \in Key
    BY <1>1, <1>2 DEF PlacesInv, Places
  <2>2. running \in CwdsAt(c)
    BY <1>1, <1>2 DEF PlacesInv, CwdsAt
  <2>3. QED
    BY <1>1, <2>1, <2>2, HeldInUse DEF IInv
<1>4. k \in Key /\ Exists(k) /\ k \notin PointsOf(minodes) /\ c \notin PointsOf(minodes)
  BY <1>3 DEF Places, PointsOf
<1>5. PICK m : m = Iget(minodes, k)
  OBVIOUS
<1>6. /\ MinodesTyped(m) /\ DOMAIN m = DOMAIN minodes \cup {k}
      /\ \A x \in Key : Count(m, x) = Count(minodes, x) + (IF x = k THEN 1 ELSE 0)
      /\ SamePoints(minodes, m)
  BY <1>1, <1>4, <1>5, IgetAdds
<1>7. minodes' = Iput(m, c) /\ cwd' = [cwd EXCEPT ![running] = k]
      /\ Prompt /\ UNCHANGED <<host, tree, mounttab, running, pwd>>
  BY <1>2, <1>5 DEF MoveTo
<1>8. c \in DOMAIN m /\ c \notin PointsOf(m)
  BY <1>3, <1>4, <1>6 DEF SamePoints
<1>9. /\ MinodesTyped(Iput(m, c)) /\ DOMAIN Iput(m, c) \in {DOMAIN m, DOMAIN m \ {c}}
      /\ \A x \in Key : Count(Iput(m, c), x) = Count(m, x) - (IF x = c THEN 1 ELSE 0)
      /\ SamePoints(m, Iput(m, c))
  BY <1>6, <1>8, IputTakes
<1>10. SamePoints(minodes, minodes') /\ \A x \in DOMAIN minodes' : Exists(x)
  BY <1>1, <1>4, <1>6, <1>7, <1>9, SamePointsTrans
<1>11. PathsInv' /\ DevicesRooted' /\ Places' = Places
  BY <1>1, <1>7, <1>9, <1>10, PathsKept
<1>12. PlacesInv'
  BY <1>1, <1>7, <1>11 DEF PlacesInv
<1>13. ASSUME NEW x \in Key
       PROVE  Count(minodes', x) = Holders(x)'
  <2>1. CallsAt(x)' = CallsAt(x) /\ EntriesAt(x)' = EntriesAt(x)
    BY <1>7 DEF CallsAt, EntriesAt, Held, Mounted
  <2>2. Cardinality(CwdsAt(x))' = Cardinality(CwdsAt(x)) + (IF k = x THEN 1 ELSE 0) - (IF c = x THEN 1 ELSE 0)
    <3>1. DOMAIN cwd = Proc /\ running \in Proc
      BY <1>1 DEF PlacesInv
    <3>2. Cardinality(At(cwd', Proc, x)) =
            Cardinality(At(cwd, Proc, x))
              + (IF k = x THEN 1 ELSE 0) - (IF cwd[running] = x THEN 1 ELSE 0)
      <4>1. cwd'[running] = k /\ \A p \in Proc \ {running} : cwd'[p] = cwd[p]
        BY <1>7, <3>1
      <4>2. QED
        BY <3>1, <4>1, ProcAssumption, EntryWritten
    <3>3. QED
      BY <1>2, <3>2 DEF CwdsAt, At
  <2>3. Count(minodes, x) = Holders(x)
    BY HoldersCounted DEF IInv, CountsAgree
  <2>4. Count(m, x) = Count(minodes, x) + (IF x = k THEN 1 ELSE 0)
    BY <1>6
  <2>5. Count(minodes', x) = Count(m, x) - (IF x = c THEN 1 ELSE 0)
    BY <1>7, <1>9
  <2>6. /\ Cardinality(CwdsAt(x)) \in Nat
        /\ Cardinality(CallsAt(x)) \in Nat
        /\ Cardinality(EntriesAt(x)) \in Nat
    BY <1>1, HoldersFinite
  <2>7. Holders(x)' = Cardinality(CwdsAt(x))' + Cardinality(CallsAt(x)) + Cardinality(EntriesAt(x))
    BY <2>1 DEF Holders
  <2>8. Holders(x) = Cardinality(CwdsAt(x)) + Cardinality(CallsAt(x)) + Cardinality(EntriesAt(x))
    BY DEF Holders
  <2>9. QED
    BY <2>2, <2>3, <2>4, <2>5, <2>6, <2>7, <2>8
<1>14. RefCountIsHolders'
  <2>1. (RefCountIsHolders <=> CountsAgree)'
    BY HoldersCounted, PTL
  <2>2. QED
    BY <1>13, <2>1 DEF CountsAgree
<1>15. PwdInv'
  BY <1>7 DEF Prompt, PwdInv, Idle
<1>16. QED
  BY <1>11, <1>12, <1>14, <1>15 DEF IInv, PathsInv

-----------------------------------------------------------------------------
(* pwd.                                                                    *)

LEMMA WalkOne ==
    ASSUME PathsInv, NEW k \in Places, NEW n \in Name \cup {".."}
    PROVE  Walk(k, <<n>>) = Step(k, n)
<1> DEFINE V == Places \cup {Gone}
           S == Name \cup {".."}
           names == <<n>>
<1>1. names \in Seq(S) /\ Len(names) = 1 /\ names[1] = n
  OBVIOUS
<1>2. k \in V /\ \A v \in V, x \in S : Step(v, x) \in V
  BY StepPlace
<1> HIDE DEF V, S, names
<1>3. PICK w \in [0 .. Len(names) -> V] : Walked(w, k, names)
  BY <1>1, <1>2, WalkIs
<1>4. w[1] = Step(w[1 - 1], names[1])
  BY <1>1, <1>3 DEF Walked
<1>5. Walk(k, names) = Step(k, n)
  BY <1>1, <1>3, <1>4 DEF Walked
<1>6. QED
  BY <1>5 DEF names

LEMMA PwdBeginStep ==
    ASSUME IInv, PwdBegin
    PROVE  IInv'
<1>1. /\ PathsInv /\ DevicesRooted /\ UNCHANGED <<host, tree, mounttab>>
      /\ MinodesTyped(minodes') /\ SamePoints(minodes, minodes')
      /\ \A k \in DOMAIN minodes' : Exists(k)
  BY DEF IInv, PathsInv, MinodesInv, SamePoints, PwdBegin
<1>2. PathsInv' /\ DevicesRooted' /\ Places' = Places
  BY <1>1, PathsKept
<1>3. PlacesInv'
  BY <1>2 DEF IInv, PlacesInv, PwdBegin
<1>4. pwd = Idle /\ pwd' = [pc |-> "down", held |-> <<>>, out |-> <<>>] /\ pwd' # Idle
  BY DEF PwdBegin, Prompt, Idle
<1>5. RefCountIsHolders'
  <2>1. Held = <<>> /\ Held' = <<>>
    BY <1>4 DEF Held
  <2>2. \A k \in Key : Holders(k)' = Holders(k) /\ Count(minodes, k)' = Count(minodes, k)
    BY <2>1 DEF Holders, CwdsAt, CallsAt, EntriesAt, Mounted, PwdBegin, Count
  <2>3. CountsAgree
    BY HoldersCounted DEF IInv
  <2>4. CountsAgree'
    BY <2>2, <2>3 DEF CountsAgree
  <2>5. (RefCountIsHolders <=> CountsAgree)'
    BY HoldersCounted, PTL
  <2>6. QED
    BY <2>4, <2>5
<1>6. PwdInv'
  <2>1. pwd'.held = <<>> /\ pwd'.out = <<>> /\ pwd'.pc = "down"
    BY <1>4
  <2>2. <<>> \in Seq(Places') /\ Len(<<>>) = 0 /\ DOMAIN <<>> = {}
    BY EmptySeq
  <2>3. QED
    BY <1>4, <2>1, <2>2 DEF PwdInv
<1>7. QED
  BY <1>2, <1>3, <1>5, <1>6 DEF IInv, PathsInv

LEMMA PwdDownStep ==
    ASSUME IInv, PwdDown
    PROVE  IInv'
<1>1. /\ PathsInv /\ DevicesRooted /\ PlacesInv /\ PwdInv /\ MinodesTyped(minodes)
      /\ \A x \in DOMAIN minodes : Exists(x)
      /\ UNCHANGED <<host, tree, mounttab, cwd, running>>
  BY DEF IInv, PathsInv, MinodesInv, PwdDown
<1>2. PICK parent : parent = Step(cwd[running], "..")
  OBVIOUS
<1>3. cwd[running] \in Places
  BY <1>1 DEF PlacesInv
<1>4. parent \in Places /\ parent \in Key /\ Exists(parent) /\ parent \notin PointsOf(minodes)
  <2>1. parent \in Places
    BY <1>1, <1>2, <1>3, StepUp DEF Places
  <2>2. QED
    BY <2>1 DEF Places, PointsOf
<1>5. Getino([abs |-> FALSE, names |-> <<"..">>]) = parent
  BY <1>1, <1>2, <1>3, WalkOne DEF Getino
<1>6. /\ pwd.pc = "down" /\ Innermost # Root
      /\ minodes' = Iget(minodes, parent)
      /\ pwd' = [pwd EXCEPT !.held = Append(pwd.held, parent)]
  BY <1>5 DEF PwdDown
<1>7. /\ MinodesTyped(minodes') /\ DOMAIN minodes' = DOMAIN minodes \cup {parent}
      /\ \A x \in Key : Count(minodes', x) = Count(minodes, x) + (IF x = parent THEN 1 ELSE 0)
      /\ SamePoints(minodes, minodes')
  BY <1>1, <1>4, <1>6, IgetAdds
<1>8. /\ PathsInv' /\ DevicesRooted' /\ Places' = Places /\ Root' = Root
      /\ \A k, n : Step(k, n)' = Step(k, n)
  BY <1>1, <1>4, <1>7, PathsKept
<1>9. PlacesInv'
  BY <1>1, <1>8 DEF PlacesInv
<1>10. /\ pwd # Idle /\ pwd = [pc |-> "down", held |-> pwd.held, out |-> pwd.out]
       /\ pwd.held \in Seq(Places) /\ pwd.out = <<>>
       /\ \A n \in DOMAIN pwd.held : pwd.held[n] = parent
       /\ pwd.held # <<>> => cwd[running] # Root
       /\ Len(pwd.held) <= 1 \/ parent # Root
  BY <1>1, <1>2, <1>6 DEF PwdInv, Idle
<1>11. pwd' = [pc |-> "down", held |-> Append(pwd.held, parent), out |-> <<>>]
  BY <1>6, <1>10
<1>12. /\ pwd' # Idle /\ pwd'.pc = "down" /\ pwd'.held = Append(pwd.held, parent)
       /\ pwd'.out = <<>>
  BY <1>11 DEF Idle
<1>13. /\ Len(pwd.held) \in Nat /\ DOMAIN pwd.held = 1 .. Len(pwd.held)
       /\ pwd'.held \in Seq(Places) /\ Len(pwd'.held) = Len(pwd.held) + 1
       /\ DOMAIN pwd'.held = 1 .. Len(pwd.held) + 1
       /\ \A n \in 1 .. Len(pwd.held) : pwd'.held[n] = pwd.held[n]
       /\ pwd'.held[Len(pwd.held) + 1] = parent
  BY <1>4, <1>10, <1>12, AppendProperties, LenProperties
<1>14. PwdInv'
  <2>1. \A n \in DOMAIN pwd'.held : pwd'.held[n] = parent
    BY <1>10, <1>13
  <2>2. cwd[running] # Root
    <3>1. CASE pwd.held = <<>>
      <4>1. Innermost = cwd[running]
        BY <3>1 DEF Innermost, Mip
      <4>2. QED
        BY <1>6, <4>1
    <3>2. CASE pwd.held # <<>>
      BY <1>10, <3>2
    <3>3. QED
      BY <3>1, <3>2
  <2>3. Len(pwd'.held) <= 1 \/ parent # Root
    <3>1. ASSUME Len(pwd.held) >= 1
          PROVE  parent # Root
      <4>1. Innermost = pwd.held[Len(pwd.held)] /\ Len(pwd.held) \in DOMAIN pwd.held
        BY <1>13, <3>1 DEF Innermost, Mip
      <4>2. QED
        BY <1>6, <1>10, <4>1
    <3>2. QED
      BY <1>13, <3>1
  <2>4. Step(cwd[running], "..")' = parent
    BY <1>1, <1>2, <1>8
  <2>5. cwd'[running'] # Root'
    BY <1>1, <1>8, <2>2
  <2>6. pwd' = [pc |-> pwd'.pc, held |-> pwd'.held, out |-> pwd'.out]
    BY <1>11, <1>12
  <2>7. QED
    BY <1>8, <1>12, <1>13, <2>1, <2>3, <2>4, <2>5, <2>6 DEF PwdInv
<1>15. RefCountIsHolders'
  <2>1. ASSUME NEW x \in Key
        PROVE  Count(minodes, x)' = Holders(x)'
    <3>1. Held = pwd.held /\ Held' = Append(pwd.held, parent)
      BY <1>10, <1>12 DEF Held
    <3>2. CwdsAt(x)' = CwdsAt(x) /\ EntriesAt(x)' = EntriesAt(x)
      BY <1>1 DEF CwdsAt, EntriesAt, Mounted
    <3>3. Cardinality(CallsAt(x)') = Cardinality(CallsAt(x)) + (IF parent = x THEN 1 ELSE 0)
      <4>1. Cardinality(At(Held', DOMAIN Held', x)) =
              Cardinality(At(Held, DOMAIN Held, x)) + (IF parent = x THEN 1 ELSE 0)
        <5>1. PICK N \in Nat : N = Len(pwd.held)
          BY <1>13
        <5>2. /\ DOMAIN Held = 1 .. N /\ DOMAIN Held' = 1 .. N + 1
              /\ Held'[N + 1] = parent /\ \A n \in 1 .. N : Held'[n] = Held[n]
          BY <1>12, <1>13, <3>1, <5>1
        <5>3. Cardinality(At(Held', 1 .. N + 1, x)) =
                Cardinality(At(Held, 1 .. N, x)) + (IF parent = x THEN 1 ELSE 0)
          BY <5>2, EntryAppended
        <5>4. QED
          BY <5>2, <5>3
      <4>2. QED
        BY <4>1 DEF CallsAt, At
    <3>4. Count(minodes, x) = Holders(x)
      BY HoldersCounted DEF IInv, CountsAgree
    <3>5. /\ Cardinality(CwdsAt(x)) \in Nat
          /\ Cardinality(CallsAt(x)) \in Nat
          /\ Cardinality(EntriesAt(x)) \in Nat
      BY <1>1, HoldersFinite
    <3>6. Holders(x)' = Cardinality(CwdsAt(x)) + Cardinality(CallsAt(x)') + Cardinality(EntriesAt(x))
      BY <3>2 DEF Holders
    <3>7. Holders(x) = Cardinality(CwdsAt(x)) + Cardinality(CallsAt(x)) + Cardinality(EntriesAt(x))
      BY DEF Holders
    <3>8. Count(minodes, x)' = Count(minodes, x) + (IF x = parent THEN 1 ELSE 0)
      BY <1>7 DEF Count
    <3>9. QED
      BY <3>3, <3>4, <3>5, <3>6, <3>7, <3>8
  <2>2. (RefCountIsHolders <=> CountsAgree)'
    BY HoldersCounted, PTL
  <2>3. QED
    BY <2>1, <2>2 DEF CountsAgree
<1>16. QED
  BY <1>8, <1>9, <1>14, <1>15 DEF IInv, PathsInv

\* Only the first call, whose caller is in a directory of root, returns.
LEMMA PwdReturns ==
    ASSUME IInv, Returning, pwd # Idle, pwd.held # <<>>
    PROVE  LET parent == Step(cwd[running], "..") IN
           /\ pwd.pc = "down" /\ pwd.out = <<>>
           /\ parent = Root /\ cwd[running] # Root
           /\ pwd.held = <<parent>>
<1>1. PICK parent : parent = Step(cwd[running], "..")
  OBVIOUS
<1>2. /\ pwd.held \in Seq(Places) /\ \A n \in DOMAIN pwd.held : pwd.held[n] = parent
      /\ pwd.pc = "down" /\ pwd.out = <<>> /\ cwd[running] # Root
      /\ Len(pwd.held) <= 1 \/ parent # Root
  BY <1>1 DEF IInv, PwdInv
<1>3. Len(pwd.held) \in Nat /\ DOMAIN pwd.held = 1 .. Len(pwd.held) /\ Len(pwd.held) # 0
  BY <1>2, LenProperties, EmptySeq
<1>4. Innermost = pwd.held[Len(pwd.held)] /\ Innermost = Root
  BY <1>2, <1>3 DEF Innermost, Mip, Returning
<1>5. parent = Root
  <2>1. Len(pwd.held) \in DOMAIN pwd.held
    BY <1>3
  <2>2. QED
    BY <1>2, <1>4, <2>1
<1>6. Len(pwd.held) = 1 /\ pwd.held[1] = parent
  <2>1. Len(pwd.held) = 1
    <3>1. PICK N : N = Len(pwd.held)
      OBVIOUS
    <3>2. N \in Nat /\ N # 0
      BY <1>3, <3>1
    <3>3. N <= 1
      BY <1>2, <1>5, <3>1
    <3>4. N = 1
      BY <3>2, <3>3
    <3>5. QED
      BY <3>1, <3>4
  <2>2. 1 \in DOMAIN pwd.held
    BY <1>3, <2>1
  <2>3. QED
    BY <1>2, <2>1, <2>2
<1>7. pwd.held = <<parent>>
  BY <1>2, <1>6, SeqEqual
<1>8. QED
  BY <1>1, <1>2, <1>5, <1>7

LEMMA PwdUpStep ==
    ASSUME IInv, PwdUp
    PROVE  IInv'
<1>1. /\ PathsInv /\ DevicesRooted /\ PlacesInv /\ PwdInv /\ MinodesTyped(minodes)
      /\ \A x \in DOMAIN minodes : Exists(x)
      /\ Returning /\ pwd.held # <<>>
      /\ UNCHANGED <<host, tree, mounttab, cwd, running>>
  BY DEF IInv, PathsInv, MinodesInv, PwdUp
<1>2. PICK parent : parent = Step(cwd[running], "..")
  OBVIOUS
<1>3. pwd # Idle
  BY <1>1 DEF Returning, Idle
<1>4. /\ pwd.out = <<>> /\ parent = Root /\ cwd[running] # Root
      /\ pwd.held = <<parent>>
  BY <1>1, <1>2, <1>3, PwdReturns
<1>5. /\ Len(pwd.held) = 1 /\ pwd.held[1] = parent /\ Mip(1) = cwd[running]
      /\ SubSeq(pwd.held, 1, 1 - 1) = <<>>
      /\ Append(<<>>, EntryName(parent, cwd[running][2])) = <<EntryName(parent, cwd[running][2])>>
  BY <1>4, SubSeqEmpty DEF Mip
<1>6. /\ minodes' = Iput(minodes, parent)
      /\ pwd' = [pc |-> "up", held |-> SubSeq(pwd.held, 1, 1 - 1),
                 out |-> Append(pwd.out, EntryName(parent, Mip(1)[2]))]
  BY <1>5 DEF PwdUp
<1>7. /\ pwd' # Idle /\ pwd'.pc = "up" /\ pwd'.held = <<>>
      /\ pwd'.out = <<EntryName(Root, cwd[running][2])>>
      /\ pwd' = [pc |-> pwd'.pc, held |-> pwd'.held, out |-> pwd'.out]
  BY <1>4, <1>5, <1>6 DEF Idle
<1>8. Held = <<parent>> /\ Held' = <<>>
  BY <1>3, <1>4, <1>7 DEF Held
<1>9. parent \in Places /\ parent \in Key /\ parent \notin PointsOf(minodes)
  BY <1>1, <1>4, RootIs DEF Places, PointsOf
<1>10. parent \in DOMAIN minodes
  <2>1. 1 \in CallsAt(parent)
    BY <1>8 DEF CallsAt
  <2>2. QED
    BY <1>1, <1>9, <2>1, HeldInUse DEF IInv
<1>11. /\ MinodesTyped(minodes') /\ DOMAIN minodes' \in {DOMAIN minodes, DOMAIN minodes \ {parent}}
       /\ \A x \in Key : Count(minodes', x) = Count(minodes, x) - (IF x = parent THEN 1 ELSE 0)
       /\ SamePoints(minodes, minodes')
  <2>1. /\ MinodesTyped(Iput(minodes, parent))
        /\ DOMAIN Iput(minodes, parent) \in {DOMAIN minodes, DOMAIN minodes \ {parent}}
        /\ \A x \in Key : Count(Iput(minodes, parent), x) =
                            Count(minodes, x) - (IF x = parent THEN 1 ELSE 0)
        /\ SamePoints(minodes, Iput(minodes, parent))
    BY <1>1, <1>9, <1>10, IputTakes
  <2>2. QED
    BY <1>6, <2>1
<1>12. \A x \in DOMAIN minodes' : Exists(x)
  BY <1>1, <1>11
<1>13. /\ PathsInv' /\ DevicesRooted' /\ Places' = Places /\ Root' = Root
       /\ \A k, n : Step(k, n)' = Step(k, n)
       /\ \A k, i : EntryName(k, i)' = EntryName(k, i)
  BY <1>1, <1>11, <1>12, PathsKept
<1>14. PlacesInv'
  BY <1>1, <1>13 DEF PlacesInv
<1>15. PwdInv'
  <2>1. <<>> \in Seq(Places') /\ DOMAIN <<>> = {}
    BY EmptySeq
  <2>2. Step(cwd[running], "..")' = Root
    BY <1>1, <1>2, <1>4, <1>13
  <2>3. cwd'[running'] # Root' /\ Root' = Root
    BY <1>1, <1>4, <1>13
  <2>4. EntryName(Root, cwd[running][2])' = EntryName(Root, cwd[running][2])
    BY <1>1, <1>13
  <2>5. QED
    BY <1>7, <2>1, <2>2, <2>3, <2>4 DEF PwdInv
<1>16. RefCountIsHolders'
  <2>1. ASSUME NEW x \in Key
        PROVE  Count(minodes, x)' = Holders(x)'
    <3>1. CwdsAt(x)' = CwdsAt(x) /\ EntriesAt(x)' = EntriesAt(x)
      BY <1>1 DEF CwdsAt, EntriesAt, Mounted
    <3>2. Cardinality(CallsAt(x)) = Cardinality(CallsAt(x)') + (IF parent = x THEN 1 ELSE 0)
      <4>1. PICK N : N = 0
        OBVIOUS
      <4>2. /\ N \in Nat /\ DOMAIN Held = 1 .. N + 1 /\ DOMAIN Held' = 1 .. N
            /\ Held[N + 1] = parent /\ \A n \in 1 .. N : Held[n] = Held'[n]
        BY <1>8, <4>1
      <4>3. Cardinality(At(Held, 1 .. N + 1, x)) =
              Cardinality(At(Held', 1 .. N, x)) + (IF parent = x THEN 1 ELSE 0)
        BY <4>2, EntryAppended
      <4>4. QED
        BY <4>2, <4>3 DEF CallsAt, At
    <3>3. Count(minodes, x) = Holders(x)
      BY HoldersCounted DEF IInv, CountsAgree
    <3>4. /\ Cardinality(CwdsAt(x)) \in Nat
          /\ Cardinality(EntriesAt(x)) \in Nat
      BY <1>1, HoldersFinite
    <3>5. Cardinality(CallsAt(x)') = 0
      <4>1. CallsAt(x)' = {}
        BY <1>8 DEF CallsAt
      <4>2. QED
        BY <4>1, FS_EmptySet
    <3>6. Holders(x)' = Cardinality(CwdsAt(x)) + Cardinality(CallsAt(x)') + Cardinality(EntriesAt(x))
      BY <3>1 DEF Holders
    <3>7. Holders(x) = Cardinality(CwdsAt(x)) + Cardinality(CallsAt(x)) + Cardinality(EntriesAt(x))
      BY DEF Holders
    <3>8. Count(minodes, x)' = Count(minodes, x) - (IF x = parent THEN 1 ELSE 0)
      BY <1>11 DEF Count
    <3>9. QED
      BY <3>2, <3>3, <3>4, <3>5, <3>6, <3>7, <3>8
  <2>2. (RefCountIsHolders <=> CountsAgree)'
    BY HoldersCounted, PTL
  <2>3. QED
    BY <2>1, <2>2 DEF CountsAgree
<1>17. QED
  BY <1>13, <1>14, <1>15, <1>16 DEF IInv, PathsInv

LEMMA PwdEndStep ==
    ASSUME IInv, PwdEnd
    PROVE  IInv'
<1>1. /\ PathsInv /\ DevicesRooted /\ UNCHANGED <<host, tree, mounttab>>
      /\ MinodesTyped(minodes') /\ SamePoints(minodes, minodes')
      /\ \A k \in DOMAIN minodes' : Exists(k)
  BY DEF IInv, PathsInv, MinodesInv, SamePoints, PwdEnd
<1>2. PathsInv' /\ DevicesRooted' /\ Places' = Places
  BY <1>1, PathsKept
<1>3. PlacesInv'
  BY <1>2 DEF IInv, PlacesInv, PwdEnd
<1>4. PwdInv'
  BY DEF PwdEnd, PwdInv
<1>5. RefCountIsHolders'
  <2>1. Held = <<>> /\ Held' = <<>>
    BY DEF Held, PwdEnd
  <2>2. \A k \in Key : Holders(k)' = Holders(k) /\ Count(minodes, k)' = Count(minodes, k)
    BY <2>1 DEF Holders, CwdsAt, CallsAt, EntriesAt, Mounted, PwdEnd, Count
  <2>3. CountsAgree
    BY HoldersCounted DEF IInv
  <2>4. CountsAgree'
    BY <2>2, <2>3 DEF CountsAgree
  <2>5. (RefCountIsHolders <=> CountsAgree)'
    BY HoldersCounted, PTL
  <2>6. QED
    BY <2>4, <2>5
<1>6. QED
  BY <1>2, <1>3, <1>4, <1>5 DEF IInv, PathsInv

-----------------------------------------------------------------------------
(* The start, and a new one on the images as they have become.             *)

AtStart ==
    /\ host = Started.host
    /\ mounttab = Started.mounttab
    /\ minodes = Started.minodes
    /\ cwd = Started.cwd
    /\ running = 0
    /\ pwd = Idle

LEMMA StartIInv == TreesInv /\ AtStart => IInv
<1> SUFFICES ASSUME TreesInv, AtStart
             PROVE  IInv
  OBVIOUS
<1>1. PICK dev : dev = FirstDev([d \in Dev |-> None])
  OBVIOUS
<1> DEFINE root == <<dev, ROOT_INODE>>
<1>2. dev \in Dev /\ root \in Key /\ dev # 0
  BY <1>1, StartDev, KeyIs, ImageAssumption, DevAssumption
<1>3. /\ host = [d \in Dev |-> IF d = dev THEN RootImage ELSE None]
      /\ mounttab = [i \in Slot |->
            IF i = 0 THEN [dev |-> dev, name |-> RootImage, mounted_inode |-> root] ELSE Free]
      /\ minodes = [k \in {root} |->
            [ref_count |-> 1 + Cardinality(Proc), mounted |-> 0, mountptr |-> 0]]
      /\ cwd = [p \in Proc |-> root]
      /\ running = 0 /\ pwd = Idle
  BY <1>1 DEF AtStart, Started, MountRoot
<1>4. 0 \in Slot
  BY BoundAssumption DEF Slot
<1>5. HostInv
  BY <1>2, <1>3, ImageAssumption DEF HostInv
<1>6. TableInv
  <2>1. TableTyped
    BY <1>2, <1>3, ImageAssumption DEF TableTyped, Free
  <2>2. QED
    BY <1>2, <1>3, <2>1, <1>4 DEF TableInv, AtStart
<1>7. Mounted = {0} /\ mounttab[0].dev = dev /\ mounttab[0].mounted_inode = root
      /\ mounttab[0].name = RootImage
  BY <1>2, <1>3, <1>4 DEF Mounted, Free
<1>8. DevicesRooted
  <2> SUFFICES ASSUME NEW D \in SUBSET Dev, NEW d \in D,
                      \E i \in Slot : mounttab[i].dev = d /\ mounttab[i].mounted_inode[1] \in D
               PROVE  mounttab[0].dev \in D
    BY DEF DevicesRooted
  <2>1. d # 0
    BY DevAssumption
  <2>2. PICK i \in Slot : mounttab[i].dev = d
    OBVIOUS
  <2>3. i = 0
    BY <1>7, <2>1, <2>2 DEF Mounted
  <2>4. QED
    BY <1>7, <2>2, <2>3
<1>9. Cardinality(Proc) \in Nat
  BY ProcAssumption, FS_CardinalityType
<1>10. MinodesTyped(minodes)
  BY <1>2, <1>3, <1>4, <1>9 DEF MinodesTyped, MinodeTyped
<1>11. Exists(root)
  BY <1>2, <1>3, ImageAssumption DEF Exists, Tree, TreesInv, Directories
<1>12. DOMAIN minodes = {root} /\ minodes[root].mounted = 0
       /\ minodes[root].ref_count = 1 + Cardinality(Proc)
  BY <1>3
<1> HIDE DEF root
<1>13. MinodesInv
  BY <1>10, <1>11, <1>12 DEF MinodesInv, PointsAlone
<1>14. MountsAgree
  <2>1. \A i \in Mounted : i = 0
    BY <1>7
  <2>2. host[dev] = RootImage /\ \A d \in Dev : host[d] # None => d = dev
    BY <1>2, <1>3
  <2>3. \A k \in DOMAIN minodes : minodes[k].mounted # 1
    BY <1>12
  <2>4. QED
    BY <1>7, <2>1, <2>2, <2>3 DEF MountsAgree
<1>15. root \in Places
  BY <1>2, <1>11, <1>12 DEF Places
<1>16. PlacesInv
  BY <1>3, <1>15, ProcAssumption DEF PlacesInv
<1>17. RefCountIsHolders
  <2>1. ASSUME NEW x \in Key
        PROVE  Count(minodes, x) = Holders(x)
    <3>1. Held = <<>>
      BY <1>3 DEF Held
    <3>2. CallsAt(x) = {} /\ Cardinality({}) = 0
      BY <3>1, FS_EmptySet DEF CallsAt
    <3>3. CASE x = root
      <4>1. CwdsAt(x) = Proc /\ EntriesAt(x) = {0}
        BY <1>3, <1>7, <3>3 DEF CwdsAt, EntriesAt
      <4>2. Cardinality({0}) = 1
        BY FS_Singleton
      <4>3. QED
        BY <1>9, <1>12, <3>2, <3>3, <4>1, <4>2 DEF Count, Holders
    <3>4. CASE x # root
      <4>1. CwdsAt(x) = {} /\ EntriesAt(x) = {}
        BY <1>3, <1>7, <3>4 DEF CwdsAt, EntriesAt
      <4>2. QED
        BY <1>12, <3>2, <3>4, <4>1 DEF Count, Holders
    <3>5. QED
      BY <3>3, <3>4
  <2>2. QED
    BY <2>1, HoldersCounted DEF CountsAgree
<1>18. PwdInv
  BY <1>3 DEF PwdInv
<1>19. QED
  BY <1>5, <1>6, <1>8, <1>13, <1>14, <1>16, <1>17, <1>18 DEF IInv

LEMMA InitIInv == Init => IInv
<1> SUFFICES ASSUME Init
             PROVE  IInv
  OBVIOUS
<1>1. TreesInv
  BY RootOnly DEF Init, TreesInv
<1>2. AtStart
  BY DEF Init, AtStart
<1>3. QED
  BY <1>1, <1>2, StartIInv

LEMMA RestartStep ==
    ASSUME IInv, Restart
    PROVE  IInv'
<1>1. TreesInv'
  BY DEF IInv, TreesInv, Directories, Restart
<1>2. AtStart'
  BY DEF Restart, AtStart, Started, MountRoot
<1>3. (TreesInv /\ AtStart => IInv)'
  BY StartIInv, PTL
<1>4. QED
  BY <1>1, <1>2, <1>3

-----------------------------------------------------------------------------
(* mount.                                                                  *)

\* As long as an image is not open some device is free.
LEMMA DeviceFree ==
    ASSUME PathsInv, NEW image \in Image, \A i \in Slot : mounttab[i].name # image
    PROVE  /\ \E d \in Dev : host[d] = None
           /\ \A d \in Dev : host[d] # image
<1>1. \A d \in Dev : host[d] # image
  <2>1. image # None
    BY ImageAssumption
  <2>2. \A d \in Dev : host[d] # None => \E i \in Slot : mounttab[i].name = host[d]
    BY DEF PathsInv, MountsAgree, Mounted
  <2>3. QED
    BY <2>1, <2>2
<1>2. ASSUME \A d \in Dev : host[d] # None
      PROVE  FALSE
  <2> DEFINE T == Image \ {image}
  <2>1. host \in [Dev -> T]
    BY <1>1, <1>2 DEF PathsInv, HostInv
  <2>2. IsFiniteSet(T) /\ Cardinality(T) = Cardinality(Image) - 1 /\ Cardinality(Image) \in Nat
    BY ImageAssumption, FS_RemoveElement, FS_CardinalityType
  <2>3. Cardinality(Dev) \in Nat /\ Cardinality(Dev) >= Cardinality(Image) /\ IsFiniteSet(Dev)
    BY DevAssumption, FS_CardinalityType
  <2> HIDE DEF T
  <2>4. Cardinality(T) < Cardinality(Dev)
    BY <2>2, <2>3
  <2>5. \E d, e \in Dev : d # e /\ host[d] = host[e]
    BY <2>1, <2>2, <2>3, <2>4, FS_PigeonHole
  <2>6. QED
    BY <1>2, <2>5 DEF PathsInv, HostInv
<1>3. QED
  BY <1>1, <1>2

PointOf == [i \in Slot |-> mounttab[i].mounted_inode]
EntriesAreAt == \A k \in Key : EntriesAt(k) = At(PointOf, Slot, k)

LEMMA EntriesAre == TableInv => EntriesAreAt
<1> SUFFICES ASSUME TableInv, NEW k \in Key
             PROVE  EntriesAt(k) = At(PointOf, Slot, k)
  BY DEF EntriesAreAt
<1>1. \A i \in Slot : mounttab[i].mounted_inode = k => mounttab[i].dev # 0
  <2>1. Free.mounted_inode = Gone /\ Gone # k
    BY KeyIs DEF Free
  <2>2. QED
    BY <2>1 DEF TableInv
<1>2. QED
  BY <1>1 DEF EntriesAt, At, PointOf, Mounted

LEMMA EntryChanged ==
    ASSUME TableInv, TableInv', NEW i \in Slot, NEW k \in Key,
           \A j \in Slot \ {i} : mounttab'[j] = mounttab[j]
    PROVE  Cardinality(EntriesAt(k)') = Cardinality(EntriesAt(k))
             + (IF mounttab'[i].mounted_inode = k THEN 1 ELSE 0)
             - (IF mounttab[i].mounted_inode = k THEN 1 ELSE 0)
<1>1. EntriesAt(k) = At(PointOf, Slot, k)
  BY EntriesAre DEF EntriesAreAt
<1>2. EntriesAt(k)' = At(PointOf', Slot, k)
  <2>1. (TableInv => EntriesAreAt)'
    BY EntriesAre, PTL
  <2>2. At(PointOf, Slot, k)' = At(PointOf', Slot, k)
    BY DEF At
  <2>3. QED
    BY <2>1, <2>2 DEF EntriesAreAt
<1>3. IsFiniteSet(Slot)
  BY BoundAssumption, FS_Interval DEF Slot
<1>4. PICK v : v = mounttab'[i].mounted_inode
  OBVIOUS
<1>5. PointOf'[i] = v /\ PointOf[i] = mounttab[i].mounted_inode
      /\ \A j \in Slot \ {i} : PointOf'[j] = PointOf[j]
  BY <1>4 DEF PointOf
<1>6. Cardinality(At(PointOf', Slot, k)) = Cardinality(At(PointOf, Slot, k))
        + (IF v = k THEN 1 ELSE 0) - (IF PointOf[i] = k THEN 1 ELSE 0)
  BY <1>3, <1>5, EntryWritten
<1>7. QED
  BY <1>1, <1>2, <1>4, <1>5, <1>6

LEMMA MountStep ==
    ASSUME IInv, NEW path \in Path, NEW image \in Image, Mount(image, path)
    PROVE  IInv'
<1>1. /\ PathsInv /\ PlacesInv /\ PwdInv /\ MinodesTyped(minodes) /\ TableInv
      /\ Prompt /\ MountOK(image, path) /\ MkdirOK(path) /\ tree' = Planted(path)
      /\ \A i \in Slot : mounttab[i].name # image
      /\ UNCHANGED <<cwd, running, pwd>>
  BY DEF IInv, PathsInv, MinodesInv, Mount, MountOK
<1>2. PICK new : new = Made(path)
  OBVIOUS
<1>3. PICK dev : dev = FirstDev(host)
  OBVIOUS
<1>4. PICK md : md = CHOOSE i \in FreeSlots : \A j \in FreeSlots : i <= j
  OBVIOUS
<1>5. /\ FreeSlots # {}
      /\ host' = [host EXCEPT ![dev] = image]
      /\ mounttab' = [mounttab EXCEPT ![md] = [dev |-> dev, name |-> image, mounted_inode |-> new]]
      /\ minodes' = [Iget(minodes, new) EXCEPT ![new].mounted = 1, ![new].mountptr = md]
  BY <1>2, <1>3, <1>4 DEF Mount
<1>6. /\ TreesInv'
      /\ new \in Key /\ new[2] # ROOT_INODE /\ ~ Exists(new)
      /\ Parent(path) \in Places /\ new[1] = Parent(path)[1]
      /\ new[2] \in DOMAIN tree'[host[new[1]]]
      /\ tree'[host[new[1]]][new[2]] = [up |-> Parent(path)[2], name |-> Child(path)]
      /\ \A i \in DOMAIN tree'[host[new[1]]] : tree'[host[new[1]]][i].up # new[2]
      /\ \A x \in Key : Exists(x) =>
           /\ DOMAIN Tree(x) \subseteq DOMAIN tree'[host[x[1]]]
           /\ \A i \in DOMAIN Tree(x) : tree'[host[x[1]]][i] = Tree(x)[i]
           /\ \A i \in DOMAIN tree'[host[x[1]]] \ DOMAIN Tree(x) :
                host[x[1]] = host[new[1]] /\ i = new[2]
  BY <1>1, <1>2, MkdirMakes
<1>7. dev \in Dev /\ host[dev] = None /\ \A d \in Dev : host[d] # image
  BY <1>1, <1>3, DeviceFree, FirstDevFree
<1>8. md \in Slot /\ mounttab[md].dev = 0 /\ md # 0
  <2>1. FreeSlots \in SUBSET Nat
    BY BoundAssumption DEF FreeSlots, Slot
  <2>2. PICK m \in FreeSlots : \A n \in FreeSlots : m <= n
    BY <1>5, <2>1, LeastElement
  <2>3. md \in FreeSlots
    BY <1>4, <2>2
  <2>4. QED
    BY <1>1, <2>3, RootIs, DevAssumption DEF FreeSlots
<1>9. host[new[1]] # None /\ new[1] # dev /\ new[1] \in Dev
  BY <1>6, <1>7, KeyIs DEF Places, Exists
<1>10. new \notin DOMAIN minodes
  BY <1>6 DEF IInv, MinodesInv
<1>11. /\ DOMAIN minodes' = DOMAIN minodes \cup {new}
       /\ minodes'[new] = [ref_count |-> 1, mounted |-> 1, mountptr |-> md]
       /\ \A x \in DOMAIN minodes : minodes'[x] = minodes[x]
  <2> DEFINE m == Iget(minodes, new)
  <2>1. m = [x \in DOMAIN minodes \cup {new} |->
               IF x = new THEN [ref_count |-> 1, mounted |-> 0, mountptr |-> -1] ELSE minodes[x]]
    BY <1>10 DEF Iget
  <2>2. m[new] = [ref_count |-> 1, mounted |-> 0, mountptr |-> -1] /\ new \in DOMAIN m
    BY <2>1
  <2>3. /\ DOMAIN minodes' = DOMAIN m
        /\ minodes'[new] = [[m[new] EXCEPT !.mounted = 1] EXCEPT !.mountptr = md]
        /\ \A x \in DOMAIN m \ {new} : minodes'[x] = m[x]
    <3> HIDE DEF m
    <3>1. minodes' = [m EXCEPT ![new].mounted = 1, ![new].mountptr = md]
      BY <1>5 DEF m
    <3>2. QED
      BY <2>2, <3>1
  <2>4. minodes'[new] = [ref_count |-> 1, mounted |-> 1, mountptr |-> md]
    <3> DEFINE r == [ref_count |-> 1, mounted |-> 0, mountptr |-> -1]
    <3>1. [[r EXCEPT !.mounted = 1] EXCEPT !.mountptr = md] =
            [ref_count |-> 1, mounted |-> 1, mountptr |-> md]
      <4>1. [r EXCEPT !.mounted = 1] = [ref_count |-> 1, mounted |-> 1, mountptr |-> -1]
        OBVIOUS
      <4>2. [[ref_count |-> 1, mounted |-> 1, mountptr |-> -1] EXCEPT !.mountptr = md] =
              [ref_count |-> 1, mounted |-> 1, mountptr |-> md]
        OBVIOUS
      <4> HIDE DEF r
      <4>3. QED
        BY <4>1, <4>2
    <3> HIDE DEF r
    <3>2. m[new] = r
      BY <2>2 DEF r
    <3> HIDE DEF m
    <3>3. minodes'[new] = [[r EXCEPT !.mounted = 1] EXCEPT !.mountptr = md]
      BY <2>3, <3>2
    <3>4. QED
      BY <3>1, <3>3
  <2>5. QED
    BY <1>10, <2>1, <2>3, <2>4
<1>12. /\ mounttab'[md] = [dev |-> dev, name |-> image, mounted_inode |-> new]
       /\ \A i \in Slot \ {md} : mounttab'[i] = mounttab[i]
  BY <1>1, <1>5, <1>8 DEF TableInv, TableTyped
<1>13. TableInv'
  <2>1. [dev |-> dev, name |-> image, mounted_inode |-> new] \in
          [dev: Dev \cup {0}, name: Image \cup {""}, mounted_inode: Key \cup {Gone}]
    BY <1>6, <1>7
  <2>2. TableTyped'
    BY <1>1, <1>5, <2>1 DEF TableInv, TableTyped
  <2>3. \A i \in Slot : mounttab'[i].dev = 0 => mounttab'[i] = Free
    BY <1>1, <1>7, <1>12, DevAssumption DEF TableInv
  <2>4. 0 \in Slot
    BY BoundAssumption DEF Slot
  <2>5. mounttab'[0] = Started.mounttab[0] /\ (Started.mounttab[0])' = Started.mounttab[0]
    BY <1>1, <1>8, <1>12, <2>4 DEF TableInv, Started, MountRoot, FirstDev
  <2>6. QED
    BY <2>2, <2>3, <2>5 DEF TableInv
<1>14. HostInv'
  BY <1>1, <1>5, <1>7 DEF PathsInv, HostInv
<1>15. /\ host'[dev] = image
       /\ \A d \in Dev \ {dev} : host'[d] = host[d]
  BY <1>1, <1>5, <1>7 DEF PathsInv, HostInv
<1>16. Mounted' = Mounted \cup {md} /\ md \notin Mounted
       /\ \A i \in Mounted : i \in Slot /\ i # md /\ mounttab'[i] = mounttab[i]
  BY <1>7, <1>8, <1>12, DevAssumption DEF Mounted
<1>17. ASSUME NEW x \in Key, Exists(x)
       PROVE  /\ x[1] # dev /\ x # new /\ Exists(x)' /\ Tree(x)' = tree'[host[x[1]]]
  <2>1. x[1] \in Dev \ {dev}
    BY <1>7, <1>17, KeyIs DEF Exists
  <2>2. QED
    BY <1>6, <1>15, <1>17, <2>1 DEF Exists, Tree
<1>18. DevicesRooted'
  <2> SUFFICES ASSUME NEW D \in SUBSET Dev, D # {},
                      \A d \in D : \E i \in Slot :
                        mounttab'[i].dev = d /\ mounttab'[i].mounted_inode[1] \in D
               PROVE  mounttab'[0].dev \in D
    BY DEF DevicesRooted
  <2>1. mounttab'[0] = mounttab[0]
    BY <1>8, <1>12, BoundAssumption DEF Slot
  <2>2. ASSUME NEW d \in D \ {dev}
        PROVE  \E i \in Slot : mounttab[i].dev = d /\ mounttab[i].mounted_inode[1] \in D \ {dev}
    <3>1. PICK i \in Slot : mounttab'[i].dev = d /\ mounttab'[i].mounted_inode[1] \in D
      BY <2>2
    <3>2. i # md /\ mounttab'[i] = mounttab[i]
      BY <1>12, <3>1, <2>2
    <3>3. i \in Mounted
      BY <3>1, <3>2, DevAssumption DEF Mounted
    <3>4. mounttab[i].mounted_inode[1] # dev
      BY <1>1, <1>17, <3>3, PointIs
    <3>5. QED
      BY <3>1, <3>2, <3>4
  <2>3. D \ {dev} # {}
    <3>1. ASSUME dev \in D
          PROVE  new[1] \in D
      <4>1. PICK i \in Slot : mounttab'[i].dev = dev /\ mounttab'[i].mounted_inode[1] \in D
        BY <3>1
      <4>2. CASE i = md
        BY <1>12, <4>1, <4>2
      <4>3. CASE i # md
        <5>1. mounttab[i].dev = dev
          BY <1>12, <4>1, <4>3
        <5>2. i \in Mounted
          BY <1>7, <5>1, DevAssumption DEF Mounted
        <5>3. mounttab[i].name = None /\ mounttab[i].name \in Image \cup {""}
          BY <1>1, <1>7, <5>1, <5>2 DEF PathsInv, MountsAgree, TableInv, TableTyped, Mounted
        <5>4. QED
          BY <5>3, ImageAssumption DEF None
      <4>4. QED
        BY <4>2, <4>3
    <3>2. QED
      BY <1>9, <3>1
  <2>4. mounttab[0].dev \in D \ {dev}
    <3>1. D \ {dev} \in SUBSET Dev
      OBVIOUS
    <3>2. QED
      BY <2>2, <2>3, <3>1 DEF IInv, DevicesRooted
  <2>5. QED
    BY <2>1, <2>4
<1>19. Exists(new)' /\ Tree(new)' = tree'[host[new[1]]]
  BY <1>6, <1>9, <1>15 DEF Exists, Tree
<1>20. MinodesInv'
  <2>1. MinodesTyped(minodes')
    <3>1. [ref_count |-> 1, mounted |-> 1, mountptr |-> md] \in MinodeTyped
      BY <1>8 DEF MinodeTyped
    <3>2. QED
      BY <1>1, <1>6, <1>11, <3>1 DEF MinodesTyped
  <2>2. \A x \in DOMAIN minodes' : Exists(x)'
    BY <1>1, <1>11, <1>17, <1>19 DEF IInv, MinodesInv, MinodesTyped
  <2>3. ASSUME NEW x \in DOMAIN minodes', minodes'[x].mounted = 1
        PROVE  /\ minodes'[x].ref_count = 1
               /\ x[2] # ROOT_INODE
               /\ minodes'[x].mountptr \in Mounted'
               /\ mounttab'[minodes'[x].mountptr].mounted_inode = x
               /\ \A i \in DOMAIN Tree(x)' : Tree(x)'[i].up # x[2]
    <3>1. CASE x = new
      <4>1. minodes'[x].ref_count = 1 /\ minodes'[x].mountptr = md
        BY <1>11, <3>1
      <4>2. mounttab'[md].mounted_inode = new /\ md \in Mounted'
        BY <1>12, <1>16
      <4>3. QED
        BY <1>6, <1>19, <3>1, <4>1, <4>2
    <3>2. CASE x # new
      <4>1. /\ x \in DOMAIN minodes /\ minodes'[x] = minodes[x] /\ x \in Key /\ Exists(x)
            /\ x \in PointsOf(minodes)
        BY <1>1, <1>11, <2>3, <3>2 DEF IInv, MinodesInv, MinodesTyped, PointsOf
      <4>2. /\ minodes[x].ref_count = 1 /\ x[2] # ROOT_INODE
            /\ minodes[x].mountptr \in Mounted
            /\ mounttab[minodes[x].mountptr].mounted_inode = x
            /\ \A i \in DOMAIN Tree(x) : Tree(x)[i].up # x[2]
        BY <4>1 DEF IInv, MinodesInv, PointsAlone, PointsOf
      <4>3. ASSUME NEW i \in DOMAIN Tree(x)'
            PROVE  Tree(x)'[i].up # x[2]
        <5>1. Tree(x)' = tree'[host[x[1]]]
          BY <1>17, <4>1
        <5>2. CASE i \in DOMAIN Tree(x)
          BY <1>6, <4>1, <4>2, <5>1, <5>2
        <5>3. CASE i \notin DOMAIN Tree(x)
          <6>1. host[x[1]] = host[new[1]] /\ i = new[2]
            BY <1>6, <4>1, <4>3, <5>1, <5>3
          <6>2. Tree(x)'[i].up = Parent(path)[2]
            BY <1>6, <5>1, <6>1
          <6>3. x[1] = new[1]
            BY <1>1, <1>9, <4>1, <6>1, KeyIs DEF PathsInv, HostInv
          <6>4. Parent(path) \in Key /\ Parent(path) \notin PointsOf(minodes)
            BY <1>6 DEF Places, PointsOf
          <6>5. QED
            BY <1>6, <4>1, <6>2, <6>3, <6>4, KeyIs
        <5>4. QED
          BY <5>2, <5>3
      <4>4. minodes[x].mountptr \in Mounted'
            /\ mounttab'[minodes[x].mountptr] = mounttab[minodes[x].mountptr]
        BY <1>16, <4>2
      <4>5. QED
        BY <4>1, <4>2, <4>3, <4>4
    <3>3. QED
      BY <3>1, <3>2
  <2>4. PointsAlone'
    BY <2>3 DEF PointsAlone
  <2>5. QED
    BY <2>1, <2>2, <2>4 DEF MinodesInv
<1>21. MountsAgree'
  <2>1. ASSUME NEW i \in Mounted' \ {0}
        PROVE  LET k == mounttab'[i].mounted_inode IN
               k \in DOMAIN minodes' /\ minodes'[k].mounted = 1 /\ minodes'[k].mountptr = i
    <3>1. CASE i = md
      BY <1>11, <1>12, <3>1
    <3>2. CASE i # md
      <4>1. i \in Mounted /\ mounttab'[i] = mounttab[i]
        BY <1>16, <3>2
      <4>2. LET k == mounttab[i].mounted_inode IN
            k \in DOMAIN minodes /\ minodes[k].mounted = 1 /\ minodes[k].mountptr = i
        BY <1>1, <4>1 DEF PathsInv, MountsAgree
      <4>3. QED
        BY <1>11, <4>1, <4>2
    <3>3. QED
      BY <3>1, <3>2
  <2>2. \A k \in DOMAIN minodes' : minodes'[k].mounted = 1 =>
          mounttab'[minodes'[k].mountptr].mounted_inode = k
    BY <1>20 DEF MinodesInv, PointsAlone
  <2>3. \A d \in Dev : host'[d] # None =>
          \E i \in Mounted' : mounttab'[i].dev = d /\ mounttab'[i].name = host'[d]
    <3> SUFFICES ASSUME NEW d \in Dev, host'[d] # None
                 PROVE  \E i \in Mounted' : mounttab'[i].dev = d /\ mounttab'[i].name = host'[d]
      OBVIOUS
    <3>1. CASE d = dev
      BY <1>12, <1>15, <1>16, <3>1
    <3>2. CASE d # dev
      <4>1. PICK i \in Mounted : mounttab[i].dev = d /\ mounttab[i].name = host[d]
        BY <1>1, <1>15, <3>2 DEF PathsInv, MountsAgree
      <4>2. QED
        BY <1>15, <1>16, <3>2, <4>1
    <3>3. QED
      BY <3>1, <3>2
  <2>4. \A i \in Mounted : mounttab[i].dev # dev
    <3>1. \A i \in Mounted : mounttab[i].name \in Image \cup {""} /\ host[mounttab[i].dev] = mounttab[i].name
      BY <1>1 DEF PathsInv, MountsAgree, TableInv, TableTyped, Mounted
    <3>2. QED
      BY <1>7, <3>1, ImageAssumption DEF None
  <2>5. \A i \in Mounted' : host'[mounttab'[i].dev] = mounttab'[i].name
    <3>1. \A i \in Mounted : host'[mounttab[i].dev] = mounttab[i].name
      <4>1. \A i \in Mounted : mounttab[i].dev \in Dev /\ host[mounttab[i].dev] = mounttab[i].name
        BY <1>1, PointIs DEF PathsInv, MountsAgree
      <4>2. QED
        BY <1>15, <2>4, <4>1
    <3>2. QED
      BY <1>12, <1>15, <1>16, <3>1
  <2>6. \A i, j \in Mounted' : i # j => mounttab'[i].dev # mounttab'[j].dev
    BY <1>1, <1>12, <1>16, <2>4 DEF PathsInv, MountsAgree
  <2>7. QED
    BY <2>1, <2>2, <2>3, <2>5, <2>6 DEF MountsAgree
<1>22. PlacesInv'
  <2>1. ASSUME NEW x \in Places
        PROVE  x \in Places'
    <3>1. x \in Key /\ Exists(x) /\ x # new /\ Exists(x)'
      BY <1>17 DEF Places
    <3>2. x \in DOMAIN minodes' => minodes'[x].mounted = 0
      BY <1>11, <3>1 DEF Places
    <3>3. QED
      BY <3>1, <3>2 DEF Places
  <2>2. QED
    BY <1>1, <2>1 DEF PlacesInv
<1>23. RefCountIsHolders'
  <2>1. ASSUME NEW x \in Key
        PROVE  Count(minodes, x)' = Holders(x)'
    <3>1. CwdsAt(x)' = CwdsAt(x) /\ CallsAt(x)' = CallsAt(x)
      BY <1>1 DEF CwdsAt, CallsAt, Held
    <3>2. Cardinality(EntriesAt(x)') = Cardinality(EntriesAt(x))
            + (IF mounttab'[md].mounted_inode = x THEN 1 ELSE 0)
            - (IF mounttab[md].mounted_inode = x THEN 1 ELSE 0)
      BY <1>1, <1>8, <1>12, <1>13, EntryChanged
    <3>3. mounttab'[md].mounted_inode = new /\ mounttab[md].mounted_inode # x
      <4>1. mounttab[md] = Free
        BY <1>1, <1>8 DEF TableInv
      <4>2. QED
        <5>1. Free.mounted_inode = Gone /\ Gone # x
          BY KeyIs DEF Free
        <5>2. QED
          BY <1>12, <4>1, <5>1
    <3>4. Count(minodes, x) = Holders(x)
      BY HoldersCounted DEF IInv, CountsAgree
    <3>5. /\ Cardinality(CwdsAt(x)) \in Nat
          /\ Cardinality(CallsAt(x)) \in Nat
          /\ Cardinality(EntriesAt(x)) \in Nat
      BY <1>1, HoldersFinite
    <3>6. Holders(x)' = Cardinality(CwdsAt(x)) + Cardinality(CallsAt(x)) + Cardinality(EntriesAt(x)')
      BY <3>1 DEF Holders
    <3>7. Holders(x) = Cardinality(CwdsAt(x)) + Cardinality(CallsAt(x)) + Cardinality(EntriesAt(x))
      BY DEF Holders
    <3>8. Count(minodes, x)' = Count(minodes, x) + (IF new = x THEN 1 ELSE 0)
      <4>1. CASE x = new
        BY <1>10, <1>11, <4>1 DEF Count
      <4>2. CASE x # new
        <5>1. Count(minodes, x) \in Nat
          BY <1>1 DEF Count, MinodesTyped, MinodeTyped
        <5>2. QED
          BY <1>11, <4>2, <5>1 DEF Count
      <4>3. QED
        BY <4>1, <4>2
    <3>9. QED
      BY <3>2, <3>3, <3>4, <3>5, <3>6, <3>7, <3>8
  <2>2. (RefCountIsHolders <=> CountsAgree)'
    BY HoldersCounted, PTL
  <2>3. QED
    BY <2>1, <2>2 DEF CountsAgree
<1>24. PwdInv'
  BY <1>1 DEF Prompt, PwdInv, Idle
<1>25. QED
  BY <1>6, <1>13, <1>14, <1>18, <1>20, <1>21, <1>22, <1>23, <1>24 DEF IInv

-----------------------------------------------------------------------------
(* umount.                                                                 *)

\* Of a device that umount closes no minode is in use, not even of the root
\* directory, when nobody has it for his own.
LEMMA NothingLeft ==
    ASSUME IInv, Prompt, NEW i \in Mounted \ {0}, ~ Busy(mounttab[i].dev), ~ Occupied(i),
           NEW k \in DOMAIN minodes
    PROVE  k[1] # mounttab[i].dev
<1>1. /\ PathsInv /\ PwdInv /\ RefCountIsHolders /\ MinodesTyped(minodes)
      /\ k \in Key
  BY DEF IInv, PathsInv, MinodesInv, MinodesTyped
<1>2. SUFFICES ASSUME k[1] = mounttab[i].dev
               PROVE  FALSE
  OBVIOUS
<1>3. k = <<mounttab[i].dev, ROOT_INODE>>
  BY <1>1, <1>2, KeyIs DEF Busy
<1>4. CwdsAt(k) = {}
  BY <1>3 DEF CwdsAt, Occupied
<1>5. CallsAt(k) = {}
  BY DEF CallsAt, Held, Prompt
<1>6. EntriesAt(k) = {}
  <2> SUFFICES ASSUME NEW j \in Mounted, mounttab[j].mounted_inode = k
               PROVE  FALSE
    BY DEF EntriesAt
  <2>1. CASE j = 0
    <3>1. mounttab[0].dev = mounttab[i].dev /\ 0 \in Mounted
      BY <1>1, <1>2, <2>1, RootIs DEF Root
    <3>2. QED
      BY <1>1, <3>1 DEF PathsInv, MountsAgree
  <2>2. CASE j # 0
    <3>1. k \in PointsOf(minodes)
      BY <1>1, <2>2, PointIs
    <3>2. k[2] # ROOT_INODE
      BY <3>1 DEF IInv, MinodesInv, PointsAlone, PointsOf
    <3>3. QED
      BY <1>3, <3>2
  <2>3. QED
    BY <2>1, <2>2
<1>7. QED
  BY <1>1, <1>4, <1>5, <1>6, HeldInUse

LEMMA UmountStep ==
    ASSUME IInv, MayStrand = FALSE, NEW image \in Image, Umount(image)
    PROVE  IInv'
<1>1. /\ PathsInv /\ PlacesInv /\ PwdInv /\ MinodesTyped(minodes) /\ TableInv
      /\ TreesInv /\ HostInv /\ MountsAgree
  BY DEF IInv, PathsInv, MinodesInv
<1>2. PICK i \in Slot \ {0} :
        /\ Prompt /\ mounttab[i].name = image
        /\ ~ Busy(mounttab[i].dev) /\ ~ Occupied(i)
        /\ minodes' = Iput(minodes, mounttab[i].mounted_inode)
        /\ host' = [host EXCEPT ![mounttab[i].dev] = None]
        /\ mounttab' = [mounttab EXCEPT ![i] = Free]
        /\ UNCHANGED <<tree, cwd, running, pwd>>
  BY DEF Umount
<1>3. PICK d : d = mounttab[i].dev
  OBVIOUS
<1>4. PICK point : point = mounttab[i].mounted_inode
  OBVIOUS
<1>5. i \in Mounted /\ i \in Slot /\ i # 0
  <2>1. Free.name = ""
    BY DEF Free
  <2>2. mounttab[i].dev # 0
    BY <1>1, <1>2, <2>1, ImageAssumption DEF TableInv
  <2>3. QED
    BY <1>2, <2>2 DEF Mounted
<1>6. d \in Dev /\ point \in Key /\ point \in PointsOf(minodes) /\ point \in DOMAIN minodes
      /\ minodes[point].mountptr = i
  BY <1>1, <1>3, <1>4, <1>5, PointIs DEF PointsOf
<1>7. minodes[point].ref_count = 1
  BY <1>6 DEF IInv, MinodesInv, PointsAlone, PointsOf
<1>8. \A k \in DOMAIN minodes : k[1] # d
  BY <1>2, <1>3, <1>5, NothingLeft
<1>9. /\ MinodesTyped(minodes')
      /\ minodes' = [x \in DOMAIN minodes \ {point} |-> minodes[x]]
      /\ \A x \in Key : Count(minodes', x) = Count(minodes, x) - (IF x = point THEN 1 ELSE 0)
  <2>1. /\ MinodesTyped(Iput(minodes, point))
        /\ Iput(minodes, point) = [x \in DOMAIN minodes \ {point} |-> minodes[x]]
        /\ \A x \in Key : Count(Iput(minodes, point), x) =
                            Count(minodes, x) - (IF x = point THEN 1 ELSE 0)
    BY <1>1, <1>6, <1>7, IputTakes
  <2>2. QED
    BY <1>2, <1>4, <2>1
<1>10. /\ DOMAIN minodes' = DOMAIN minodes \ {point}
       /\ \A x \in DOMAIN minodes' : x \in DOMAIN minodes /\ x # point /\ minodes'[x] = minodes[x]
  BY <1>9
<1>11. host'[d] = None /\ \A e \in Dev \ {d} : host'[e] = host[e]
  BY <1>1, <1>2, <1>3, <1>6 DEF HostInv
<1>12. mounttab'[i] = Free /\ \A j \in Slot \ {i} : mounttab'[j] = mounttab[j]
  BY <1>1, <1>2, <1>5 DEF TableInv, TableTyped
<1>13. Free.dev = 0 /\ Free.mounted_inode = Gone
  BY DEF Free
<1>14. Mounted' = Mounted \ {i}
  BY <1>12, <1>13 DEF Mounted
<1>15. \A j \in Mounted \ {i} : /\ j \in Slot /\ mounttab'[j] = mounttab[j]
                                /\ mounttab[j].dev # d
  BY <1>1, <1>3, <1>5, <1>12 DEF Mounted, MountsAgree
<1>16. TreesInv'
  BY <1>1, <1>2 DEF TreesInv, Directories
<1>17. HostInv'
  BY <1>1, <1>2, <1>3, <1>6, <1>11 DEF HostInv
<1>18. TableInv'
  <2>1. Free \in [dev: Dev \cup {0}, name: Image \cup {""}, mounted_inode: Key \cup {Gone}]
    BY DEF Free
  <2>2. TableTyped'
    BY <1>1, <1>2, <2>1 DEF TableInv, TableTyped
  <2>3. \A j \in Slot : mounttab'[j].dev = 0 => mounttab'[j] = Free
    BY <1>1, <1>12 DEF TableInv
  <2>4. 0 \in Slot
    BY BoundAssumption DEF Slot
  <2>5. mounttab'[0] = Started.mounttab[0] /\ (Started.mounttab[0])' = Started.mounttab[0]
    BY <1>1, <1>5, <1>12, <2>4 DEF TableInv, Started, MountRoot, FirstDev
  <2>6. QED
    BY <2>2, <2>3, <2>5 DEF TableInv
<1>19. DevicesRooted'
  <2> SUFFICES ASSUME NEW D \in SUBSET Dev, D # {},
                      \A e \in D : \E j \in Slot :
                        mounttab'[j].dev = e /\ mounttab'[j].mounted_inode[1] \in D
               PROVE  mounttab'[0].dev \in D
    BY DEF DevicesRooted
  <2>1. mounttab'[0] = mounttab[0]
    BY <1>5, <1>12, BoundAssumption DEF Slot
  <2>2. ASSUME NEW e \in D
        PROVE  \E j \in Slot : mounttab[j].dev = e /\ mounttab[j].mounted_inode[1] \in D
    <3>1. PICK j \in Slot : mounttab'[j].dev = e /\ mounttab'[j].mounted_inode[1] \in D
      BY <2>2
    <3>2. j # i
      BY <1>12, <1>13, <3>1, DevAssumption
    <3>3. QED
      BY <1>12, <3>1, <3>2
  <2>3. QED
    BY <2>1, <2>2 DEF IInv, DevicesRooted
<1>20. ASSUME NEW x \in Key, Exists(x), x[1] # d
       PROVE  Exists(x)' /\ Tree(x)' = Tree(x)
  BY <1>2, <1>11, <1>20, KeyIs DEF Exists, Tree
<1>21. ASSUME NEW x \in DOMAIN minodes'
       PROVE  /\ x \in DOMAIN minodes /\ x \in Key /\ x # point /\ Exists(x) /\ Exists(x)'
              /\ Tree(x)' = Tree(x) /\ minodes'[x] = minodes[x]
  <2>1. x \in DOMAIN minodes /\ x # point /\ minodes'[x] = minodes[x] /\ x[1] # d
    BY <1>8, <1>10
  <2>2. x \in Key /\ Exists(x)
    BY <1>1, <2>1 DEF MinodesTyped, IInv, MinodesInv
  <2>3. QED
    BY <1>20, <2>1, <2>2
<1>22. MinodesInv'
  <2>1. ASSUME NEW x \in DOMAIN minodes', minodes'[x].mounted = 1
        PROVE  /\ minodes'[x].ref_count = 1
               /\ x[2] # ROOT_INODE
               /\ minodes'[x].mountptr \in Mounted'
               /\ mounttab'[minodes'[x].mountptr].mounted_inode = x
               /\ \A j \in DOMAIN Tree(x)' : Tree(x)'[j].up # x[2]
    <3>1. /\ minodes[x].ref_count = 1 /\ x[2] # ROOT_INODE
          /\ minodes[x].mountptr \in Mounted
          /\ mounttab[minodes[x].mountptr].mounted_inode = x
          /\ \A j \in DOMAIN Tree(x) : Tree(x)[j].up # x[2]
      BY <1>21, <2>1 DEF IInv, MinodesInv, PointsAlone
    <3>2. minodes[x].mountptr # i
      BY <1>4, <1>21, <3>1
    <3>3. QED
      BY <1>14, <1>15, <1>21, <3>1, <3>2
  <2>2. PointsAlone'
    BY <2>1 DEF PointsAlone
  <2>3. QED
    BY <1>9, <1>21, <2>2 DEF MinodesInv
<1>23. MountsAgree'
  <2>1. ASSUME NEW j \in Mounted' \ {0}
        PROVE  LET k == mounttab'[j].mounted_inode IN
               k \in DOMAIN minodes' /\ minodes'[k].mounted = 1 /\ minodes'[k].mountptr = j
    <3>1. j \in Mounted /\ j # i /\ mounttab'[j] = mounttab[j]
      BY <1>14, <1>15
    <3>2. PICK k : k = mounttab[j].mounted_inode
      OBVIOUS
    <3>3. k \in DOMAIN minodes /\ minodes[k].mounted = 1 /\ minodes[k].mountptr = j
      BY <1>1, <3>1, <3>2 DEF MountsAgree
    <3>4. k # point
      BY <1>6, <3>1, <3>3
    <3>5. QED
      BY <1>10, <3>1, <3>2, <3>3, <3>4
  <2>2. \A k \in DOMAIN minodes' : minodes'[k].mounted = 1 =>
          mounttab'[minodes'[k].mountptr].mounted_inode = k
    BY <1>22 DEF MinodesInv, PointsAlone
  <2>3. ASSUME NEW e \in Dev, host'[e] # None
        PROVE  \E j \in Mounted' : mounttab'[j].dev = e /\ mounttab'[j].name = host'[e]
    <3>1. e # d /\ host'[e] = host[e]
      BY <1>11, <2>3
    <3>2. PICK j \in Mounted : mounttab[j].dev = e /\ mounttab[j].name = host[e]
      BY <1>1, <2>3, <3>1 DEF MountsAgree
    <3>3. j # i
      BY <1>3, <3>1, <3>2
    <3>4. QED
      BY <1>14, <1>15, <3>1, <3>2, <3>3
  <2>4. \A j \in Mounted' : host'[mounttab'[j].dev] = mounttab'[j].name
    <3>1. \A j \in Mounted : mounttab[j].dev \in Dev /\ host[mounttab[j].dev] = mounttab[j].name
      BY <1>1, PointIs DEF MountsAgree
    <3>2. QED
      BY <1>11, <1>14, <1>15, <3>1
  <2>5. \A j, l \in Mounted' : j # l => mounttab'[j].dev # mounttab'[l].dev
    BY <1>1, <1>14, <1>15 DEF MountsAgree
  <2>6. QED
    BY <2>1, <2>2, <2>3, <2>4, <2>5 DEF MountsAgree
<1>24. PlacesInv'
  <2>1. ASSUME NEW p \in Proc
        PROVE  cwd[p] \in Places'
    <3>1. PICK x : x = cwd[p]
      OBVIOUS
    <3>2. x \in Places /\ x \in Key /\ Exists(x)
      BY <1>1, <3>1 DEF PlacesInv, Places
    <3>3. x \in DOMAIN minodes
      <4>1. p \in CwdsAt(x)
        BY <3>1 DEF CwdsAt
      <4>2. QED
        BY <1>1, <3>2, <4>1, HeldInUse DEF IInv
    <3>4. x[1] # d /\ Exists(x)'
      BY <1>8, <1>20, <3>2, <3>3
    <3>5. x \in DOMAIN minodes' => minodes'[x].mounted = 0
      BY <1>10, <3>2 DEF Places
    <3>6. QED
      BY <3>1, <3>2, <3>4, <3>5 DEF Places
  <2>2. QED
    BY <1>1, <1>2, <2>1 DEF PlacesInv
<1>25. RefCountIsHolders'
  <2>1. ASSUME NEW x \in Key
        PROVE  Count(minodes, x)' = Holders(x)'
    <3>1. CwdsAt(x)' = CwdsAt(x) /\ CallsAt(x)' = CallsAt(x)
      BY <1>2 DEF CwdsAt, CallsAt, Held
    <3>2. Cardinality(EntriesAt(x)') = Cardinality(EntriesAt(x))
            + (IF mounttab'[i].mounted_inode = x THEN 1 ELSE 0)
            - (IF mounttab[i].mounted_inode = x THEN 1 ELSE 0)
      BY <1>1, <1>5, <1>12, <1>18, EntryChanged
    <3>3. mounttab'[i].mounted_inode # x
      BY <1>12, <1>13, KeyIs
    <3>4. Count(minodes, x) = Holders(x)
      BY HoldersCounted DEF IInv, CountsAgree
    <3>5. /\ Cardinality(CwdsAt(x)) \in Nat
          /\ Cardinality(CallsAt(x)) \in Nat
          /\ Cardinality(EntriesAt(x)) \in Nat
      BY <1>1, HoldersFinite
    <3>6. Holders(x)' = Cardinality(CwdsAt(x)) + Cardinality(CallsAt(x)) + Cardinality(EntriesAt(x)')
      BY <3>1 DEF Holders
    <3>7. Holders(x) = Cardinality(CwdsAt(x)) + Cardinality(CallsAt(x)) + Cardinality(EntriesAt(x))
      BY DEF Holders
    <3>8. Count(minodes, x)' = Count(minodes, x) - (IF point = x THEN 1 ELSE 0)
      BY <1>9 DEF Count
    <3>9. QED
      BY <1>4, <3>2, <3>3, <3>4, <3>5, <3>6, <3>7, <3>8
  <2>2. (RefCountIsHolders <=> CountsAgree)'
    BY HoldersCounted, PTL
  <2>3. QED
    BY <2>1, <2>2 DEF CountsAgree
<1>26. PwdInv'
  BY <1>2 DEF Prompt, PwdInv, Idle
<1>27. QED
  BY <1>16, <1>17, <1>18, <1>19, <1>22, <1>23, <1>24, <1>25, <1>26 DEF IInv

-----------------------------------------------------------------------------
(* The theorems.                                                           *)

\* A step that changes nothing.
LEMMA StutterStep ==
    ASSUME IInv, UNCHANGED vars
    PROVE  IInv'
<1>1. UNCHANGED <<host, tree, mounttab>> /\ UNCHANGED <<minodes, cwd, running, pwd>>
  BY DEF vars
<1>2. PathsInv /\ DevicesRooted /\ MinodesTyped(minodes)
      /\ \A k \in DOMAIN minodes : Exists(k)
  BY DEF IInv, PathsInv, MinodesInv
<1>3. MinodesTyped(minodes') /\ SamePoints(minodes, minodes')
      /\ \A k \in DOMAIN minodes' : Exists(k)
  BY <1>1, <1>2 DEF SamePoints
<1>4. /\ PathsInv' /\ DevicesRooted' /\ Places' = Places /\ Root' = Root
      /\ \A k, n : Step(k, n)' = Step(k, n)
      /\ \A k, i : EntryName(k, i)' = EntryName(k, i)
  BY <1>1, <1>2, <1>3, PathsKept
<1>5. PlacesInv'
  BY <1>1, <1>4 DEF IInv, PlacesInv
<1>6. RefCountIsHolders'
  <2>1. \A k \in Key : Count(minodes', k) = Count(minodes, k)
    BY <1>1
  <2>2. QED
    BY <1>1, <2>1, HoldersKept DEF IInv
<1>7. PwdInv'
  <2>1. cwd' = cwd /\ running' = running /\ pwd' = pwd /\ Root' = Root /\ Places' = Places
    BY <1>1, <1>4
  <2>2. Step(cwd[running], "..")' = Step(cwd[running], "..")
    BY <1>4, <2>1
  <2>3. EntryName(Root, cwd[running][2])' = EntryName(Root, cwd[running][2])
    BY <1>4, <2>1
  <2>4. QED
    BY <2>1, <2>2, <2>3 DEF IInv, PwdInv, Idle
<1>8. QED
  BY <1>4, <1>5, <1>6, <1>7 DEF IInv, PathsInv

LEMMA NextIInv ==
    ASSUME IInv, MayStrand = FALSE, [Next]_vars
    PROVE  IInv'
<1>1. CASE UNCHANGED vars
  BY <1>1, StutterStep
<1>2. ASSUME NEW path \in Path, Mkdir(path)
      PROVE  IInv'
  BY <1>2, MkdirStep
<1>3. ASSUME NEW path \in Path, Rmdir(path)
      PROVE  IInv'
  BY <1>3, RmdirStep
<1>4. ASSUME NEW path \in Path, Cd(path)
      PROVE  IInv'
  <2>1. PathsInv /\ PlacesInv
    BY DEF IInv, PathsInv
  <2>2. path \in [abs: BOOLEAN, names: Seq(Name \cup {".."})]
    BY PathAssumption
  <2>3. Getino(path) \in Places
    BY <1>4, <2>1, <2>2, GetinoPlace DEF Cd
  <2>4. QED
    BY <1>4, <2>3, MoveToStep DEF Cd
<1>5. ASSUME NEW path \in Path, NEW image \in Image, Mount(image, path)
      PROVE  IInv'
  BY <1>5, MountStep
<1>6. ASSUME NEW path \in Path, NEW image \in Image, MountTableFull(image, path)
      PROVE  IInv'
  BY <1>6, MountTableFullStep
<1>7. ASSUME NEW image \in Image, Umount(image)
      PROVE  IInv'
  BY <1>7, UmountStep
<1>8. CASE CdRoot
  <2>1. Root \in Places
    BY RootIs DEF IInv, PathsInv
  <2>2. QED
    BY <1>8, <2>1, MoveToStep DEF CdRoot
<1>9. ASSUME NEW p \in Proc, Switch(p)
      PROVE  IInv'
  BY <1>9, SwitchStep
<1>10. CASE PwdBegin
  BY <1>10, PwdBeginStep
<1>11. CASE PwdDown
  BY <1>11, PwdDownStep
<1>12. CASE PwdUp
  BY <1>12, PwdUpStep
<1>13. CASE PwdEnd
  BY <1>13, PwdEndStep
<1>14. CASE Restart
  BY <1>14, RestartStep
<1>15. QED
  BY <1>1, <1>2, <1>3, <1>4, <1>5, <1>6, <1>7, <1>8, <1>9, <1>10, <1>11, <1>12, <1>13, <1>14 DEF Next

LEMMA Invariance == ASSUME MayStrand = FALSE PROVE Spec => []IInv
<1>1. IInv /\ [Next]_vars => IInv'
  BY NextIInv
<1>2. QED
  BY <1>1, InitIInv, PTL DEF Spec

LEMMA IInvTyped == IInv => TypeOK
<1> SUFFICES ASSUME IInv
             PROVE  TypeOK
  OBVIOUS
<1>1. host \in [Dev -> Image \cup {None}]
  BY DEF IInv, HostInv
<1>2. \A image \in Image :
        /\ ROOT_INODE \in DOMAIN tree[image] /\ DOMAIN tree[image] \subseteq InoOf[image]
        /\ \A i \in DOMAIN tree[image] : tree[image][i].up \in DOMAIN tree[image]
  BY DEF IInv, TreesInv, Directories
<1>3. mounttab \in [Slot -> [dev: Dev \cup {0}, name: Image \cup {""}, mounted_inode: Key \cup {Gone}]]
  BY DEF IInv, TableInv, TableTyped
<1>4. DOMAIN minodes \subseteq Key /\ \A k \in DOMAIN minodes :
        minodes[k] \in [ref_count: Nat \ {0}, mounted: {0, 1}, mountptr: Slot \cup {-1}]
  BY DEF IInv, MinodesInv, MinodesTyped, MinodeTyped
<1>5. cwd \in [Proc -> Key] /\ running \in Proc
  BY DEF IInv, PlacesInv, Places
<1>6. pwd.pc \in {"idle", "down", "up"}
  BY DEF IInv, PwdInv, Idle
<1>7. QED
  BY <1>1, <1>2, <1>3, <1>4, <1>5, <1>6 DEF TypeOK

\* Every image holds a tree of directories, the mount table, the minodes and
\* the open images are tables of their kinds, and every current directory is a
\* minode's.
THEOREM TypeCorrect == ASSUME MayStrand = FALSE PROVE Spec => []TypeOK
BY Invariance, IInvTyped, PTL

\* mount and umount keep the entry of the mount table, the minode of the mount
\* point and the image that is open in agreement, whatever else is mounted,
\* even on one another, and however often device numbers are used again.
THEOREM MountRecordsAgree == ASSUME MayStrand = FALSE PROVE Spec => []MountsAgree
<1>1. IInv => MountsAgree
  BY DEF IInv
<1>2. QED
  BY <1>1, Invariance, PTL

\* No command, mount and help_pwd among them, forgets a minode that it has taken
\* or puts one back twice.
THEOREM CountsAreHolders == ASSUME MayStrand = FALSE PROVE Spec => []RefCountIsHolders
<1>1. IInv => RefCountIsHolders
  BY DEF IInv
<1>2. QED
  BY <1>1, Invariance, PTL

=============================================================================
