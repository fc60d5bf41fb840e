---------------------------- MODULE WayUpProofs ----------------------------
(***************************************************************************)
(* Where .. leads in Mount: across all mounts the directories form one     *)
(* tree, nobody's way up changes, and pwd prints the way down. From the    *)
(* invariant of MountProofs.                                               *)
(***************************************************************************)
EXTENDS MountProofs

-----------------------------------------------------------------------------
(* One step up.                                                            *)

AboveIs ==
    /\ \A x \in Key : Exists(x) => Above[x] = Step(x, "..")
    /\ \A x \in Key : Exists(x) /\ x[2] # ROOT_INODE => Above[x] = <<x[1], Tree(x)[x[2]].up>>
    /\ \A i \in Mounted : \A p \in Key : p = mounttab[i].mounted_inode =>
        \A x \in Key : Exists(x) /\ x[2] = ROOT_INODE /\ x[1] = mounttab[i].dev =>
            Above[x] = <<p[1], Tree(p)[p[2]].up>>

\* .. is the parent in the directory, and in a root directory that of the
\* directory the device is mounted on.
LEMMA AboveOne == PathsInv => AboveIs
<1> SUFFICES ASSUME PathsInv
             PROVE  AboveIs
  OBVIOUS
<1>1. ASSUME NEW x \in Key, Exists(x)
      PROVE  Above[x] = Step(x, "..")
  BY <1>1, KeyIs DEF Above
<1>2. ASSUME NEW x \in Key, Exists(x), x[2] # ROOT_INODE
      PROVE  Above[x] = <<x[1], Tree(x)[x[2]].up>>
  BY <1>1, <1>2, StepUpInside
<1>3. ASSUME NEW i \in Mounted, NEW p \in Key, p = mounttab[i].mounted_inode,
             NEW x \in Key, Exists(x), x[2] = ROOT_INODE, x[1] = mounttab[i].dev
      PROVE  Above[x] = <<p[1], Tree(p)[p[2]].up>>
  <2>1. Step(x, "..") = <<p[1], Tree(p)[p[2]].up>>
    BY <1>3, StepUpOut
  <2>2. QED
    BY <1>1, <1>3, <2>1
<1>4. QED
  BY <1>1, <1>2, <1>3 DEF AboveIs

\* A root directory is above no other place but through the mount.
LEMMA EntryOf ==
    ASSUME PathsInv, NEW x \in Key, Exists(x)
    PROVE  \E i \in Mounted : mounttab[i].dev = x[1]
BY KeyIs DEF PathsInv, MountsAgree, Exists

LEMMA AbovePlace ==
    ASSUME PathsInv, NEW x \in Key, Exists(x)
    PROVE  Above[x] \in Places
BY AboveOne, StepUp DEF AboveIs

\* The name that a directory has in the one it is in is found there.
LEMMA NameFound ==
    ASSUME PathsInv, NEW x \in Key, Exists(x), x[2] # ROOT_INODE,
           NEW u, u = <<x[1], Tree(x)[x[2]].up>>
    PROVE  /\ u \in Places /\ Tree(x)[x[2]].name \in Name
           /\ Search(u, Tree(x)[x[2]].name) = x[2]
<1> DEFINE n == Tree(x)[x[2]].name
           found == {i \in DOMAIN Tree(u) \ {ROOT_INODE} : Tree(u)[i] = [up |-> u[2], name |-> n]}
<1>1. /\ Directories(host[x[1]], Tree(x)) /\ x[2] \in DOMAIN Tree(x) /\ Tree(u) = Tree(x)
  BY LiveDevice
<1>2. Tree(x)[x[2]] \in [up: DOMAIN Tree(x), name: Name]
  BY <1>1 DEF Directories
<1>3. u \in Places /\ u \in Key /\ n \in Name /\ u[2] = Tree(x)[x[2]].up
  BY <1>2, UpPlace DEF Places
<1>4. Tree(x)[x[2]] = [up |-> u[2], name |-> n]
  BY <1>2, <1>3
<1>5. x[2] \in found
  BY <1>1, <1>4
<1>6. \A i \in found : i = x[2]
  BY <1>1, <1>4 DEF Directories
<1> HIDE DEF n
<1>7. IF found = {} THEN Search(u, n) = 0 ELSE Search(u, n) \in found
  BY <1>3, SearchName
<1> HIDE DEF found
<1>8. Search(u, n) = x[2]
  BY <1>5, <1>6, <1>7
<1>9. QED
  BY <1>3, <1>8 DEF n

\* From every place but root a name of the directory above it leads back.
LEMMA NameLeadsBack ==
    ASSUME PathsInv, NEW x \in Places, x # Root
    PROVE  \E n \in Name : Step(Step(x, ".."), n) = x
<1>1. x \in Key /\ Exists(x) /\ x \notin PointsOf(minodes) /\ x = <<x[1], x[2]>>
  BY KeyIs DEF Places, PointsOf
<1>2. CASE x[2] # ROOT_INODE
  <2>1. PICK u : u = <<x[1], Tree(x)[x[2]].up>>
    OBVIOUS
  <2>2. PICK n : n = Tree(x)[x[2]].name
    OBVIOUS
  <2>3. u \in Places /\ n \in Name /\ Search(u, n) = x[2] /\ Step(x, "..") = u /\ u[1] = x[1]
    BY <1>1, <1>2, <2>1, <2>2, NameFound, StepUpInside
  <2>4. x[2] # 0
    BY <1>1, KeyIs
  <2>5. Step(u, n) = x
    BY <1>1, <2>3, <2>4, StepDown
  <2>6. QED
    BY <2>3, <2>5
<1>3. CASE x[2] = ROOT_INODE
  <2>1. PICK i \in Mounted : mounttab[i].dev = x[1]
    BY <1>1, EntryOf
  <2>2. i # 0
    BY <1>1, <1>3, <2>1 DEF Root
  <2>3. PICK p : p = mounttab[i].mounted_inode
    OBVIOUS
  <2>4. p \in Key /\ Exists(p) /\ p \in PointsOf(minodes) /\ minodes[p].mountptr = i
    BY <2>2, <2>3, PointIs
  <2>5. p[2] # ROOT_INODE /\ p[2] # 0 /\ p = <<p[1], p[2]>>
    BY <2>4, KeyIs DEF PathsInv, MinodesInv, PointsAlone, PointsOf
  <2>6. PICK u : u = <<p[1], Tree(p)[p[2]].up>>
    OBVIOUS
  <2>7. PICK n : n = Tree(p)[p[2]].name
    OBVIOUS
  <2>8. u \in Places /\ n \in Name /\ Search(u, n) = p[2] /\ u[1] = p[1]
    BY <2>4, <2>5, <2>6, <2>7, NameFound
  <2>9. Step(x, "..") = u
    BY <1>1, <1>3, <2>1, <2>3, <2>6, StepUpOut
  <2>10. Step(u, n) = <<mounttab[minodes[p].mountptr].dev, ROOT_INODE>>
    BY <2>4, <2>5, <2>8, StepDown
  <2>11. Step(u, n) = x
    BY <1>1, <1>3, <2>1, <2>4, <2>10
  <2>12. QED
    BY <2>8, <2>9, <2>11
<1>4. QED
  BY <1>2, <1>3

-----------------------------------------------------------------------------
(* All the way up.                                                         *)

LEMMA KeyFinite == IsFiniteSet(Key) /\ Cardinality(Key) \in Nat
<1> DEFINE Inos == {InoOf[image] : image \in Image}
           f == [image \in Image |-> InoOf[image]]
<1>1. f \in Surjection(Image, Inos)
  BY DEF Surjection
<1>2. IsFiniteSet(Inos)
  <2> HIDE DEF f, Inos
  <2>1. QED
    BY <1>1, ImageAssumption, FS_Surjection
<1>3. \A S \in Inos : IsFiniteSet(S)
  BY ImageAssumption
<1>4. IsFiniteSet(UNION Inos)
  <2> HIDE DEF Inos
  <2>1. QED
    BY <1>2, <1>3, FS_UNION
<1>5. IsFiniteSet(Dev \X UNION Inos)
  <2> HIDE DEF Inos
  <2>1. QED
    BY <1>4, DevAssumption, FS_Product
<1>6. IsFiniteSet(Key)
  BY <1>5 DEF Key
<1>7. QED
  BY <1>6, FS_CardinalityType

WithAbove(B) == B \cup {Above[x] : x \in B}

\* The recursion of Ancestors, as a function of how often it goes up.
Climbed(u, k) ==
    /\ u[0] = {k}
    /\ \A n \in 1 .. Cardinality(Key) : u[n] = WithAbove(u[n - 1])
    /\ Ancestors(k) = u[Cardinality(Key)]

\* It stays within a set that one cannot leave upwards.
LEMMA AncestorsAre ==
    ASSUME NEW C, NEW k \in C, \A x \in C : Above[x] \in C
    PROVE  \E u \in [0 .. Cardinality(Key) -> SUBSET C] : Climbed(u, k)
<1> DEFINE N == Cardinality(Key)
           V == SUBSET C
           step == [n \in 1 .. N |-> [B \in V |-> WithAbove(B)]]
           u == CHOOSE g : g = [n \in 0 .. N |->
                    IF n = 0 THEN {k} ELSE LET below == g[n - 1] IN below \cup {Above[x] : x \in below}]
<1>1. N \in Nat
  BY KeyFinite
<1>2. {k} \in V /\ \A B \in V : WithAbove(B) \in V
  BY DEF WithAbove
<1>3. step \in [1 .. N -> [V -> V]]
  <2> HIDE DEF V, N
  <2>1. QED
    BY <1>2
<1>4. PICK f \in [0 .. N -> V] : Recursive(f, N, {k}, step)
  <2> HIDE DEF step, N, V
  <2>1. QED
    BY <1>1, <1>2, <1>3, IntervalRecursion
<1>5. \A n \in 1 .. N : f[n] = WithAbove(f[n - 1])
  <2> SUFFICES ASSUME NEW n \in 1 .. N
               PROVE  f[n] = WithAbove(f[n - 1])
    OBVIOUS
  <2> HIDE DEF N, V
  <2>1. f[n - 1] \in V
    BY <1>1
  <2>2. step[n][f[n - 1]] = WithAbove(f[n - 1])
    BY <2>1
  <2> HIDE DEF step
  <2>3. QED
    BY <1>4, <2>2 DEF Recursive
<1>6. f = [n \in 0 .. N |->
            IF n = 0 THEN {k} ELSE LET below == f[n - 1] IN below \cup {Above[x] : x \in below}]
  <2>1. f = [n \in 0 .. N |-> IF n = 0 THEN {k} ELSE WithAbove(f[n - 1])]
    <3> HIDE DEF N, step, V
    <3>1. QED
      BY <1>1, <1>4, <1>5 DEF Recursive
  <2>2. QED
    BY <2>1 DEF WithAbove
<1>7. u = [n \in 0 .. N |->
            IF n = 0 THEN {k} ELSE LET below == u[n - 1] IN below \cup {Above[x] : x \in below}]
  BY <1>6
<1>8. u = [n \in 0 .. N |-> IF n = 0 THEN {k} ELSE WithAbove(u[n - 1])]
  <2> HIDE DEF u
  <2>1. QED
    BY <1>7 DEF WithAbove
<1>9. Ancestors(k) = u[N]
  BY DEF Ancestors
<1> HIDE DEF u
<1>10. u[0] = {k} /\ \A n \in 1 .. N : u[n] = WithAbove(u[n - 1])
  <2> HIDE DEF N, V, step
  <2>1. 0 \in 0 .. N
    BY <1>1
  <2>2. u[0] = {k}
    BY <1>8, <2>1
  <2>3. ASSUME NEW n \in 1 .. N
        PROVE  u[n] = WithAbove(u[n - 1])
    <3>1. n \in 0 .. N /\ n # 0
      BY <1>1
    <3>2. u[n] = IF n = 0 THEN {k} ELSE WithAbove(u[n - 1])
      BY <1>8, <3>1
    <3>3. QED
      BY <3>1, <3>2
  <2>4. QED
    BY <2>2, <2>3
<1>11. \A n \in 0 .. N : u[n] \in V
  <2> DEFINE T == {n \in 0 .. N : u[n] \in V}
  <2> HIDE DEF N, step, V
  <2>1. 0 \in T
    <3>1. u[0] \in V
      BY <1>2, <1>10, Zenon
    <3>2. 0 \in 0 .. N
      BY <1>1
    <3>3. QED
      BY <3>1, <3>2, Zenon
  <2>2. ASSUME NEW n \in 0 .. N, n < N, n \in T
        PROVE  n + 1 \in T
    <3>1. n + 1 \in 1 .. N /\ n + 1 \in 0 .. N /\ n + 1 - 1 = n
      BY <1>1, <2>2
    <3>2. u[n + 1] = WithAbove(u[n])
      BY <1>10, <3>1
    <3>3. QED
      BY <1>2, <2>2, <3>1, <3>2
  <2>3. \A n \in 0 .. N : n \in T
    <3> HIDE DEF T
    <3>1. QED
      BY <1>1, <2>1, <2>2, IntervalInduction
  <2>4. QED
    BY <2>3
<1>12. u \in [0 .. N -> V]
  <2> HIDE DEF N, V, step
  <2>1. DOMAIN u = 0 .. N /\ u = [n \in DOMAIN u |-> u[n]]
    BY <1>8
  <2>2. QED
    BY <1>11, <2>1
<1>13. Climbed(u, k)
  BY <1>9, <1>10 DEF Climbed
<1>14. QED
  BY <1>12, <1>13

LEMMA AncestorsWithin ==
    ASSUME NEW C, NEW k \in C, \A x \in C : Above[x] \in C
    PROVE  Ancestors(k) \subseteq C
<1>1. PICK u \in [0 .. Cardinality(Key) -> SUBSET C] : Climbed(u, k)
  BY AncestorsAre
<1>2. Cardinality(Key) \in 0 .. Cardinality(Key)
  BY KeyFinite
<1>3. QED
  BY <1>1, <1>2 DEF Climbed

\* As many steps as there are keys are enough: each finds a new one, or there
\* is no other.
LEMMA AncestorsClosed ==
    ASSUME NEW C \in SUBSET Key, NEW k \in C, \A x \in C : Above[x] \in C
    PROVE  k \in Ancestors(k) /\ \A x \in Ancestors(k) : Above[x] \in Ancestors(k)
<1>1. PICK N : N = Cardinality(Key)
  OBVIOUS
<1>2. PICK u \in [0 .. N -> SUBSET C] : Climbed(u, k)
  BY <1>1, AncestorsAre
<1>3. N \in Nat /\ IsFiniteSet(Key)
  BY <1>1, KeyFinite
<1>4. /\ u[0] = {k} /\ Ancestors(k) = u[N]
      /\ \A n \in 1 .. N : u[n] = WithAbove(u[n - 1])
  BY <1>1, <1>2 DEF Climbed
<1>5. \A n \in 0 .. N : /\ u[n] \in SUBSET Key /\ IsFiniteSet(u[n])
                        /\ Cardinality(u[n]) \in Nat /\ Cardinality(u[n]) <= N
  <2> SUFFICES ASSUME NEW n \in 0 .. N
               PROVE  /\ u[n] \in SUBSET Key /\ IsFiniteSet(u[n])
                      /\ Cardinality(u[n]) \in Nat /\ Cardinality(u[n]) <= N
    OBVIOUS
  <2>1. u[n] \in SUBSET Key
    BY <1>2
  <2>2. IsFiniteSet(u[n]) /\ Cardinality(u[n]) <= N
    BY <1>1, <1>3, <2>1, FS_Subset
  <2>3. QED
    BY <2>1, <2>2, FS_CardinalityType
<1>6. \A n \in 0 .. N : n < N => u[n + 1] = WithAbove(u[n])
  <2> SUFFICES ASSUME NEW n \in 0 .. N, n < N
               PROVE  u[n + 1] = WithAbove(u[n])
    OBVIOUS
  <2>1. n + 1 \in 1 .. N /\ n + 1 - 1 = n
    BY <1>3
  <2>2. \A m \in 1 .. N : u[m] = WithAbove(u[m - 1])
    BY <1>4
  <2>3. QED
    BY <2>1, <2>2
<1> DEFINE Closed(B) == \A x \in B : Above[x] \in B
           S == {n \in 0 .. N : k \in u[n] /\ (Closed(u[n]) \/ Cardinality(u[n]) >= n + 1)}
<1>7. 0 \in S
  <2>1. Cardinality({k}) = 1
    BY FS_Singleton
  <2>2. k \in u[0] /\ Cardinality(u[0]) = 1
    BY <1>4, <2>1
  <2>3. k \in u[0] /\ Cardinality(u[0]) >= 0 + 1
    BY <2>2
  <2>4. 0 \in 0 .. N
    BY <1>3
  <2> HIDE DEF Closed
  <2>5. QED
    BY <2>3, <2>4
<1>8. ASSUME NEW n \in 0 .. N, n < N, n \in S
      PROVE  n + 1 \in S
  <2>1. n + 1 \in 1 .. N /\ n + 1 \in 0 .. N /\ n + 1 - 1 = n
    BY <1>3, <1>8
  <2>2. PICK A : A = u[n]
    OBVIOUS
  <2>3. PICK B : B = u[n + 1]
    OBVIOUS
  <2>4. B = A \cup {Above[x] : x \in A}
    <3> HIDE DEF S, Closed
    <3>1. u[n + 1] = WithAbove(u[n])
      BY <1>6, <1>8
    <3>2. QED
      BY <2>2, <2>3, <3>1 DEF WithAbove
  <2>5. k \in A /\ k \in B /\ (Closed(A) \/ Cardinality(A) >= n + 1)
    BY <1>8, <2>2, <2>4
  <2>6. CASE Closed(A)
    <3>1. B = A
      BY <2>4, <2>6
    <3>2. QED
      BY <2>1, <2>3, <2>5, <2>6, <3>1
  <2>7. CASE ~ Closed(A)
    <3>1. A \in SUBSET B /\ A # B
      BY <2>4, <2>7
    <3>2. /\ IsFiniteSet(B) /\ Cardinality(B) \in Nat /\ Cardinality(A) \in Nat
      BY <1>5, <2>1, <2>2, <2>3
    <3>3. Cardinality(A) <= Cardinality(B) /\ Cardinality(A) # Cardinality(B)
      BY <3>1, <3>2, FS_Subset
    <3>4. Cardinality(B) >= n + 1 + 1
      <4> HIDE DEF Closed
      <4>1. QED
        BY <2>5, <2>7, <3>2, <3>3
    <3>5. QED
      BY <2>1, <2>3, <2>5, <3>4
  <2>8. QED
    BY <2>6, <2>7
<1>9. \A n \in 0 .. N : n \in S
  <2> HIDE DEF S
  <2>1. QED
    BY <1>3, <1>7, <1>8, IntervalInduction
<1>10. k \in u[N] /\ (Closed(u[N]) \/ Cardinality(u[N]) >= N + 1)
  BY <1>3, <1>9
<1>11. Cardinality(u[N]) \in Nat /\ Cardinality(u[N]) <= N
  BY <1>3, <1>5
<1>12. k \in u[N] /\ Closed(u[N])
  <2> HIDE DEF Closed
  <2>1. QED
    BY <1>3, <1>10, <1>11
<1>13. QED
  BY <1>4, <1>12

\* From everywhere .. leads to root.
LEMMA RootAbove ==
    ASSUME PathsInv, DevicesRooted, NEW k \in Key, Exists(k)
    PROVE  Root \in Ancestors(k)
<1> DEFINE C == {x \in Key : Exists(x)}
<1>1. C \in SUBSET Key /\ k \in C /\ \A x \in C : Above[x] \in C
  BY AbovePlace DEF Places
<1>2. PICK A : A = Ancestors(k)
  OBVIOUS
<1>3. A \subseteq C /\ k \in A /\ \A x \in A : Above[x] \in A
  <2> HIDE DEF C
  <2>1. QED
    BY <1>1, <1>2, AncestorsWithin, AncestorsClosed
<1>4. \A x \in A : x \in Key /\ Exists(x) /\ x[1] \in Dev
  BY <1>3, KeyIs
<1>5. ASSUME NEW x \in A
      PROVE  <<x[1], ROOT_INODE>> \in A
  <2> DEFINE t == Tree(x)
             I == {i \in DOMAIN t : <<x[1], i>> \in A}
  <2>1. /\ Directories(host[x[1]], t) /\ x[2] \in DOMAIN t /\ x = <<x[1], x[2]>>
        /\ \A i \in DOMAIN t : Tree(<<x[1], i>>) = t
    BY <1>4, LiveDevice, KeyIs
  <2>2. I \in SUBSET DOMAIN t /\ I # {}
    BY <2>1
  <2>3. ASSUME ROOT_INODE \notin I, NEW i \in I
        PROVE  t[i].up \in I
    <3>1. PICK y : y = <<x[1], i>>
      OBVIOUS
    <3>2. y \in A /\ y \in Key /\ Exists(y) /\ Tree(y) = t /\ y[1] = x[1] /\ y[2] = i
      BY <1>4, <2>1, <3>1
    <3>3. y[2] # ROOT_INODE
      BY <2>3, <3>2
    <3>4. Above[y] = <<x[1], t[i].up>>
      BY <3>2, <3>3, AboveOne DEF AboveIs
    <3>5. t[i].up \in DOMAIN t
      BY <3>2, LiveDevice
    <3>6. QED
      BY <1>3, <3>2, <3>4, <3>5
  <2> HIDE DEF t, I
  <2>4. ROOT_INODE \in I
    BY <2>1, <2>2, <2>3 DEF Directories
  <2>5. QED
    BY <2>4 DEF I
<1> DEFINE D == {x[1] : x \in A}
<1>6. D \in SUBSET Dev /\ D # {}
  BY <1>3, <1>4
<1>7. ASSUME NEW d \in D
      PROVE  \E i \in Slot : mounttab[i].dev = d /\ mounttab[i].mounted_inode[1] \in D
  <2>1. PICK r : r = <<d, ROOT_INODE>>
    OBVIOUS
  <2>2. r \in A /\ r \in Key /\ Exists(r) /\ r[1] = d /\ r[2] = ROOT_INODE
    BY <1>4, <1>5, <2>1
  <2>3. PICK i \in Mounted : mounttab[i].dev = d
    BY <2>2, EntryOf
  <2>4. PICK p : p = mounttab[i].mounted_inode
    OBVIOUS
  <2>5. i \in Slot /\ p \in Key
    BY <2>3, <2>4, PointIs
  <2>6. Above[r] = <<p[1], Tree(p)[p[2]].up>>
    BY <2>2, <2>3, <2>4, <2>5, AboveOne DEF AboveIs
  <2>7. Above[r] \in A
    BY <1>3, <2>2
  <2>8. p[1] \in D
    BY <2>6, <2>7
  <2>9. QED
    BY <2>3, <2>4, <2>5, <2>8
<1>8. mounttab[0].dev \in D
  <2> HIDE DEF D
  <2>1. QED
    BY <1>6, <1>7 DEF DevicesRooted
<1>9. PICK x \in A : x[1] = mounttab[0].dev
  BY <1>8
<1>10. QED
  BY <1>2, <1>5, <1>9 DEF Root

\* Across all mounts, however deep they are nested and in whatever order they
\* were made, getino finds one tree.
THEOREM DirectoriesAreOneTree == ASSUME MayStrand = FALSE PROVE Spec => []OneTree
<1>1. IInv => OneTree
  <2> SUFFICES ASSUME IInv, NEW k \in Places \ {Root}
               PROVE  Root \in Ancestors(k) /\ \E n \in Name : Step(Step(k, ".."), n) = k
    BY DEF OneTree
  <2>1. PathsInv /\ DevicesRooted /\ k \in Key /\ Exists(k)
    BY DEF IInv, PathsInv, Places
  <2>2. QED
    BY <2>1, RootAbove, NameLeadsBack
<1>2. QED
  BY <1>1, Invariance, PTL

-----------------------------------------------------------------------------
(* pwd.                                                                    *)

LEMMA WalkNone ==
    ASSUME NEW k
    PROVE  Walk(k, <<>>) = k
<1> DEFINE names == <<>>
<1>1. names \in Seq({}) /\ Len(names) = 0 /\ k \in {k} /\ \A v \in {k}, n \in {} : Step(v, n) \in {k}
  BY EmptySeq
<1> HIDE DEF names
<1>2. PICK w \in [0 .. Len(names) -> {k}] : Walked(w, k, names)
  <2> DEFINE V == {k}
             S == {}
  <2>1. k \in V /\ names \in Seq(S) /\ \A v \in V, n \in S : Step(v, n) \in V
    BY <1>1
  <2> HIDE DEF V, S
  <2>2. \E w \in [0 .. Len(names) -> V] : Walked(w, k, names)
    BY <2>1, WalkIs
  <2>3. QED
    BY <2>2 DEF V
<1>3. Walk(k, names) = k
  BY <1>1, <1>2 DEF Walked
<1>4. QED
  BY <1>3 DEF names

LEMMA PwdNames ==
    ASSUME IInv, PwdEnd, cwd[running][1] = Root[1]
    PROVE  Walk(Root, pwd.out) = cwd[running]
<1>1. PathsInv /\ PlacesInv /\ PwdInv /\ Returning /\ pwd.held = <<>>
  BY DEF IInv, PathsInv, PwdEnd
<1>2. PICK c : c = cwd[running]
  OBVIOUS
<1>3. c \in Places /\ c \in Key /\ Exists(c) /\ c = <<c[1], c[2]>> /\ c[1] = Root[1]
  BY <1>1, <1>2, KeyIs DEF PlacesInv, Places
<1>4. pwd # Idle
  BY <1>1 DEF Returning, Idle
<1>5. CASE pwd.pc = "down"
  <2>1. Innermost = Root /\ pwd.out = <<>>
    BY <1>1, <1>4, <1>5 DEF Returning, PwdInv
  <2>2. Innermost = c
    <3>1. Len(pwd.held) = 0
      BY <1>1, EmptySeq
    <3>2. QED
      BY <1>2, <3>1 DEF Innermost, Mip
  <2>3. QED
    BY <1>2, <2>1, <2>2, WalkNone
<1>6. CASE pwd.pc = "up"
  <2>1. c # Root /\ Step(c, "..") = Root /\ pwd.out = <<EntryName(Root, c[2])>>
    BY <1>1, <1>2, <1>4, <1>6 DEF PwdInv
  <2>2. c[2] # ROOT_INODE /\ Root[2] = ROOT_INODE
    BY <1>3, <2>1 DEF Root
  <2>3. PICK u : u = <<c[1], Tree(c)[c[2]].up>>
    OBVIOUS
  <2>4. PICK n : n = Tree(c)[c[2]].name
    OBVIOUS
  <2>5. u = Root
    BY <1>1, <1>3, <2>1, <2>2, <2>3, StepUpInside
  <2>6. u \in Places /\ n \in Name /\ Search(u, n) = c[2]
    BY <1>1, <1>3, <2>2, <2>3, <2>4, NameFound
  <2>7. Root \in Key /\ Exists(Root) /\ Tree(Root) = Tree(c) /\ Root \in Places
    BY <1>1, <1>3, RootIs DEF Tree
  <2>8. EntryName(Root, c[2]) = n
    <3>1. Search(Root, "..") = ROOT_INODE
      BY <1>1, <2>2, <2>7, LiveDevice DEF Search, Directories
    <3>2. c[2] \in DOMAIN Tree(Root) /\ Tree(Root)[c[2]].up = Root[2]
      BY <1>3, <2>2, <2>3, <2>5, <2>7 DEF Exists
    <3>3. QED
      BY <2>2, <2>4, <2>7, <3>1, <3>2 DEF EntryName
  <2>9. Step(Root, n) = c
    <3>1. c \notin PointsOf(minodes) /\ c[2] # 0
      BY <1>3, KeyIs DEF Places, PointsOf
    <3>2. <<Root[1], Search(Root, n)>> = c
      BY <1>3, <2>5, <2>6
    <3>3. QED
      BY <1>1, <2>5, <2>6, <2>7, <3>1, <3>2, StepDown
  <2>10. Walk(Root, <<n>>) = c
    BY <1>1, <2>6, <2>7, <2>9, WalkOne
  <2>11. QED
    BY <1>2, <2>1, <2>8, <2>10
<1>7. QED
  BY <1>1, <1>5, <1>6 DEF Returning

\* A path that help_pwd has printed when it returns in a directory of the root
\* device leads from root to that directory.
THEOREM PwdTellsCwd == ASSUME MayStrand = FALSE PROVE Spec => PwdNamesCwd
<1>1. IInv /\ [Next]_vars =>
        [PwdEnd /\ cwd[running][1] = Root[1] => Walk(Root, pwd.out) = cwd[running]]_vars
  BY PwdNames
<1>2. QED
  BY <1>1, Invariance, PTL DEF Spec, PwdNamesCwd

-----------------------------------------------------------------------------
(* The way up from a minode in use.                                        *)

\* A directory that is still there after a step, in the same one.
Kept(x) ==
    /\ host'[x[1]] # None
    /\ x[2] \in DOMAIN tree'[host'[x[1]]]
    /\ tree'[host'[x[1]]][x[2]].up = Tree(x)[x[2]].up

\* Directories that one cannot leave upwards, which a step leaves where they
\* are, with what they are mounted on.
Keeps(C) == \A x \in C :
    /\ x \in Key /\ Exists(x) /\ Above[x] \in C /\ Kept(x)
    /\ \A i \in Mounted : x[2] = ROOT_INODE /\ mounttab[i].dev = x[1] =>
        mounttab'[i] = mounttab[i] /\ Kept(mounttab[i].mounted_inode)

WaysKept == \A k \in DOMAIN minodes : k \in DOMAIN minodes' => \E C : k \in C /\ Keeps(C)

LEMMA WayKept ==
    ASSUME PathsInv, PathsInv', NEW C, NEW k \in C, Keeps(C)
    PROVE  \A x \in Ancestors(k) : Above'[x] = Above[x]
<1> SUFFICES ASSUME NEW x \in Ancestors(k)
             PROVE  Above'[x] = Above[x]
  OBVIOUS
<1>1. x \in C
  BY AncestorsWithin DEF Keeps
<1>2. x \in Key /\ Exists(x) /\ Kept(x)
  BY <1>1 DEF Keeps
<1>3. AboveIs /\ AboveIs'
  <2>1. (PathsInv => AboveIs)'
    BY AboveOne, PTL
  <2>2. QED
    BY <2>1, AboveOne
<1>4. Exists(x)' /\ Tree(x)'[x[2]].up = Tree(x)[x[2]].up
  BY <1>2 DEF Kept, Exists, Tree
<1>5. CASE x[2] # ROOT_INODE
  BY <1>2, <1>3, <1>4, <1>5 DEF AboveIs
<1>6. CASE x[2] = ROOT_INODE
  <2>1. PICK i \in Mounted : mounttab[i].dev = x[1]
    BY <1>2, EntryOf
  <2>2. PICK p : p = mounttab[i].mounted_inode
    OBVIOUS
  <2>3. i \in Slot /\ p \in Key
    BY <2>1, <2>2, PointIs
  <2>4. mounttab'[i] = mounttab[i] /\ Kept(p)
    BY <1>1, <1>6, <2>1, <2>2 DEF Keeps
  <2>5. i \in Mounted' /\ p = mounttab'[i].mounted_inode /\ x[1] = mounttab'[i].dev
    BY <2>1, <2>2, <2>3, <2>4 DEF Mounted
  <2>6. Above[x] = <<p[1], Tree(p)[p[2]].up>>
    BY <1>2, <1>3, <1>6, <2>1, <2>2, <2>3 DEF AboveIs
  <2>7. Above'[x] = <<p[1], Tree(p)'[p[2]].up>>
    BY <1>2, <1>3, <1>4, <1>6, <2>3, <2>5 DEF AboveIs
  <2>8. Tree(p)'[p[2]].up = Tree(p)[p[2]].up
    BY <2>4 DEF Kept, Tree
  <2>9. QED
    BY <2>6, <2>7, <2>8
<1>7. QED
  BY <1>5, <1>6

\* A step that takes nothing away.
LEMMA AllKept ==
    ASSUME IInv, \A x \in Key : Exists(x) => Kept(x),
           \A i \in Mounted : mounttab'[i] = mounttab[i]
    PROVE  WaysKept
<1> DEFINE C == {x \in Key : Exists(x)}
<1>1. PathsInv
  BY DEF IInv, PathsInv
<1>2. \A x \in C : Above[x] \in C
  BY <1>1, AbovePlace DEF Places
<1>3. \A i \in Mounted : Kept(mounttab[i].mounted_inode)
  BY <1>1, PointIs
<1>4. Keeps(C)
  BY <1>2, <1>3 DEF Keeps
<1>5. \A k \in DOMAIN minodes : k \in C
  BY DEF IInv, MinodesInv, MinodesTyped
<1>6. QED
  BY <1>4, <1>5 DEF WaysKept

LEMMA NothingChanged ==
    ASSUME IInv, UNCHANGED <<host, tree, mounttab>>
    PROVE  WaysKept
<1>1. \A x \in Key : Exists(x) => Kept(x)
  BY DEF Exists, Kept, Tree
<1>2. QED
  BY <1>1, AllKept

LEMMA MkdirLeaves ==
    ASSUME IInv, NEW path \in Path, MkdirOK(path), tree' = Planted(path),
           UNCHANGED <<host, mounttab>>
    PROVE  WaysKept
<1>1. PathsInv /\ PlacesInv
  BY DEF IInv, PathsInv
<1>2. \A x \in Key : Exists(x) =>
        /\ DOMAIN Tree(x) \subseteq DOMAIN tree'[host[x[1]]]
        /\ \A i \in DOMAIN Tree(x) : tree'[host[x[1]]][i] = Tree(x)[i]
  BY <1>1, MkdirMakes
<1>3. \A x \in Key : Exists(x) => Kept(x)
  BY <1>2 DEF Exists, Kept
<1>4. QED
  BY <1>3, AllKept

LEMMA MountLeaves ==
    ASSUME IInv, NEW path \in Path, NEW image \in Image, Mount(image, path)
    PROVE  WaysKept
<1>1. /\ PathsInv /\ PlacesInv /\ TableInv /\ HostInv
      /\ MkdirOK(path) /\ tree' = Planted(path)
      /\ \A i \in Slot : mounttab[i].name # image
  BY DEF IInv, PathsInv, Mount, MountOK
<1>2. PICK dev : dev = FirstDev(host)
  OBVIOUS
<1>3. PICK md : md = CHOOSE i \in FreeSlots : \A j \in FreeSlots : i <= j
  OBVIOUS
<1>4. /\ FreeSlots # {} /\ host' = [host EXCEPT ![dev] = image]
      /\ mounttab' = [mounttab EXCEPT ![md] =
            [dev |-> dev, name |-> image, mounted_inode |-> Made(path)]]
  BY <1>2, <1>3 DEF Mount
<1>5. dev \in Dev /\ host[dev] = None
  BY <1>1, <1>2, DeviceFree, FirstDevFree
<1>6. md \in FreeSlots
  <2>1. FreeSlots \in SUBSET Nat
    BY BoundAssumption DEF FreeSlots, Slot
  <2>2. PICK m \in FreeSlots : \A n \in FreeSlots : m <= n
    BY <1>4, <2>1, LeastElement
  <2>3. QED
    BY <1>3, <2>2
<1>7. \A i \in Mounted : mounttab'[i] = mounttab[i]
  BY <1>1, <1>4, <1>6 DEF TableInv, TableTyped, Mounted, FreeSlots
<1>8. \A x \in Key : Exists(x) =>
        /\ DOMAIN Tree(x) \subseteq DOMAIN tree'[host[x[1]]]
        /\ \A i \in DOMAIN Tree(x) : tree'[host[x[1]]][i] = Tree(x)[i]
  BY <1>1, MkdirMakes
<1>9. \A x \in Key : Exists(x) => host'[x[1]] = host[x[1]]
  BY <1>1, <1>4, <1>5, KeyIs DEF Exists, HostInv
<1>10. \A x \in Key : Exists(x) => Kept(x)
  BY <1>8, <1>9 DEF Exists, Kept
<1>11. QED
  BY <1>7, <1>10, AllKept

\* Nothing is in the directory that rmdir removes, no device is mounted on it,
\* and nobody has its minode.
LEMMA RmdirLeaves ==
    ASSUME IInv, NEW path \in Path, Rmdir(path)
    PROVE  WaysKept
<1>1. PathsInv
  BY DEF IInv, PathsInv
<1>2. PICK child : child = <<Parent(path)[1], Search(Parent(path), Child(path))>>
  OBVIOUS
<1>3. /\ UNCHANGED <<host, mounttab, minodes>>
      /\ child \in Key /\ Exists(child) /\ child[2] # ROOT_INODE /\ child \notin DOMAIN minodes
      /\ \A i \in DOMAIN Tree(child) : Tree(child)[i].up # child[2]
  BY <1>2, RmdirTakes
<1>4. ASSUME NEW x \in Key, Exists(x), x # child
      PROVE  Kept(x)
  <2>1. Exists(x)' /\ \A i \in DOMAIN Tree(x)' : Tree(x)'[i] = Tree(x)[i]
    BY <1>2, <1>4, RmdirTakes
  <2>2. QED
    BY <1>3, <2>1 DEF Kept, Exists, Tree
<1>5. \A i \in Mounted : /\ mounttab[i].mounted_inode \in Key /\ Exists(mounttab[i].mounted_inode)
                         /\ mounttab[i].mounted_inode # child
  <2> SUFFICES ASSUME NEW i \in Mounted
               PROVE  /\ mounttab[i].mounted_inode \in Key /\ Exists(mounttab[i].mounted_inode)
                      /\ mounttab[i].mounted_inode # child
    OBVIOUS
  <2>1. /\ mounttab[i].mounted_inode \in Key /\ Exists(mounttab[i].mounted_inode)
        /\ i # 0 => mounttab[i].mounted_inode \in PointsOf(minodes)
    BY <1>1, PointIs
  <2>2. mounttab[0].mounted_inode[2] = ROOT_INODE
    BY <1>1, RootIs DEF Root
  <2>3. QED
    BY <1>3, <2>1, <2>2 DEF PointsOf
<1> DEFINE C == {x \in Key : Exists(x)} \ {child}
<1>6. ASSUME NEW x \in Key, Exists(x)
      PROVE  <<x[1], Tree(x)[x[2]].up>> # child
  <2>1. SUFFICES ASSUME <<x[1], Tree(x)[x[2]].up>> = child
                 PROVE  FALSE
    OBVIOUS
  <2>2. Tree(child) = Tree(x) /\ Tree(x)[x[2]].up = child[2]
    BY <2>1 DEF Tree
  <2>3. QED
    BY <1>3, <1>6, <2>2 DEF Exists
<1>7. \A x \in C : Above[x] \in C
  <2> SUFFICES ASSUME NEW x \in Key, Exists(x)
               PROVE  Above[x] \in Key /\ Exists(Above[x]) /\ Above[x] # child
    OBVIOUS
  <2>1. Above[x] \in Key /\ Exists(Above[x])
    BY <1>1, AbovePlace DEF Places
  <2>2. CASE x[2] # ROOT_INODE
    BY <1>1, <1>6, <2>1, <2>2, AboveOne DEF AboveIs
  <2>3. CASE x[2] = ROOT_INODE
    <3>1. PICK i \in Mounted : mounttab[i].dev = x[1]
      BY <1>1, EntryOf
    <3>2. PICK p : p = mounttab[i].mounted_inode
      OBVIOUS
    <3>3. p \in Key /\ Exists(p)
      BY <1>5, <3>2
    <3>4. Above[x] = <<p[1], Tree(p)[p[2]].up>>
      BY <1>1, <2>3, <3>1, <3>2, <3>3, AboveOne DEF AboveIs
    <3>5. QED
      BY <1>6, <2>1, <3>3, <3>4
  <2>4. QED
    BY <2>2, <2>3, <2>1
<1>8. Keeps(C)
  BY <1>3, <1>4, <1>5, <1>7 DEF Keeps
<1>9. \A k \in DOMAIN minodes : k \in C
  BY <1>3 DEF IInv, MinodesInv, MinodesTyped
<1>10. QED
  BY <1>8, <1>9 DEF WaysKept

\* No device is mounted on one that is unmounted, and nobody is on it.
LEMMA UmountLeaves ==
    ASSUME IInv, MayStrand = FALSE, NEW image \in Image, Umount(image)
    PROVE  WaysKept
<1>1. PathsInv /\ TableInv /\ HostInv /\ MountsAgree
  BY DEF IInv, PathsInv
<1>2. PICK i \in Slot \ {0} :
        /\ Prompt /\ mounttab[i].name = image
        /\ ~ Busy(mounttab[i].dev) /\ ~ Occupied(i)
        /\ host' = [host EXCEPT ![mounttab[i].dev] = None]
        /\ mounttab' = [mounttab EXCEPT ![i] = Free]
        /\ tree' = tree
  BY DEF Umount
<1>3. i \in Mounted \ {0}
  <2>1. Free.name = ""
    BY DEF Free
  <2>2. mounttab[i].dev # 0
    BY <1>1, <1>2, <2>1, ImageAssumption DEF TableInv
  <2>3. QED
    BY <1>2, <2>2 DEF Mounted
<1>4. PICK d : d = mounttab[i].dev
  OBVIOUS
<1>5. \A k \in DOMAIN minodes : k[1] # d
  BY <1>2, <1>3, <1>4, NothingLeft
<1>6. ASSUME NEW x \in Key, Exists(x), x[1] # d
      PROVE  Kept(x)
  <2>1. host'[x[1]] = host[x[1]]
    BY <1>1, <1>2, <1>4, <1>6, KeyIs DEF HostInv
  <2>2. QED
    BY <1>2, <1>6, <2>1 DEF Kept, Exists, Tree
<1> DEFINE C == {x \in Key : Exists(x) /\ x[1] # d}
<1>7. ASSUME NEW j \in Mounted, mounttab[j].dev # d
      PROVE  /\ mounttab'[j] = mounttab[j]
             /\ mounttab[j].mounted_inode \in C
  <2>1. j \in Slot /\ j # i
    BY <1>4, <1>7 DEF Mounted
  <2>2. mounttab'[j] = mounttab[j]
    BY <1>1, <1>2, <2>1 DEF TableInv, TableTyped
  <2>3. /\ mounttab[j].mounted_inode \in Key /\ Exists(mounttab[j].mounted_inode)
        /\ j # 0 => mounttab[j].mounted_inode \in DOMAIN minodes
    BY <1>1, PointIs DEF PointsOf
  <2>4. mounttab[j].mounted_inode[1] # d
    <3>1. CASE j = 0
      BY <1>1, <1>7, <3>1, RootIs DEF Root
    <3>2. CASE j # 0
      BY <1>5, <2>3, <3>2
    <3>3. QED
      BY <3>1, <3>2
  <2>5. QED
    BY <2>2, <2>3, <2>4
<1>8. \A x \in C : Above[x] \in C
  <2> SUFFICES ASSUME NEW x \in Key, Exists(x), x[1] # d
               PROVE  Above[x] \in Key /\ Exists(Above[x]) /\ Above[x][1] # d
    OBVIOUS
  <2>1. Above[x] \in Key /\ Exists(Above[x])
    BY <1>1, AbovePlace DEF Places
  <2>2. CASE x[2] # ROOT_INODE
    BY <1>1, <2>1, <2>2, AboveOne DEF AboveIs
  <2>3. CASE x[2] = ROOT_INODE
    <3>1. PICK j \in Mounted : mounttab[j].dev = x[1]
      BY <1>1, EntryOf
    <3>2. PICK p : p = mounttab[j].mounted_inode
      OBVIOUS
    <3>3. p \in Key /\ p[1] # d
      BY <1>7, <3>1, <3>2
    <3>4. Above[x] = <<p[1], Tree(p)[p[2]].up>>
      BY <1>1, <2>3, <3>1, <3>2, <3>3, AboveOne DEF AboveIs
    <3>5. QED
      BY <2>1, <3>3, <3>4
  <2>4. QED
    BY <2>1, <2>2, <2>3
<1>9. Keeps(C)
  <2>1. \A j \in Mounted : mounttab[j].dev # d =>
          mounttab'[j] = mounttab[j] /\ Kept(mounttab[j].mounted_inode)
    BY <1>6, <1>7
  <2>2. QED
    BY <1>6, <1>8, <2>1 DEF Keeps
<1>10. \A k \in DOMAIN minodes : k \in C
  BY <1>5 DEF IInv, MinodesInv, MinodesTyped
<1>11. QED
  BY <1>9, <1>10 DEF WaysKept

\* After a new start only root is in use.
LEMMA RestartLeaves ==
    ASSUME IInv, IInv', Restart
    PROVE  WaysKept
<1>1. PathsInv /\ PathsInv' /\ TableInv /\ TableInv'
  BY DEF IInv, PathsInv
<1>2. mounttab'[0] = mounttab[0] /\ Root' = Root /\ tree' = tree
  <2>1. mounttab'[0] = Started.mounttab[0]
    BY DEF Restart
  <2>2. mounttab[0] = Started.mounttab[0]
    BY <1>1 DEF TableInv
  <2>3. QED
    BY <2>1, <2>2 DEF Root, Restart
<1>3. DOMAIN minodes' = {Root}
  <2>1. minodes' = Started.minodes /\ mounttab' = Started.mounttab
    BY DEF Restart
  <2>2. PICK dev : dev = FirstDev([e \in Dev |-> None])
    OBVIOUS
  <2>3. 0 \in Slot
    BY BoundAssumption DEF Slot
  <2>4. DOMAIN minodes' = {<<dev, ROOT_INODE>>} /\ mounttab'[0].dev = dev
    BY <2>1, <2>2, <2>3 DEF Started, MountRoot
  <2>5. QED
    BY <1>2, <2>4 DEF Root
<1>4. /\ Root \in Key /\ Exists(Root) /\ Exists(Root)' /\ Root = <<Root[1], Root[2]>>
      /\ 0 \in Mounted /\ mounttab[0].dev = Root[1] /\ Root[2] = ROOT_INODE
      /\ mounttab[0].mounted_inode = Root /\ host[Root[1]] = RootImage /\ host'[Root[1]] = RootImage
  <2>1. /\ mounttab[0].dev \in Dev /\ 0 \in Mounted /\ mounttab[0].mounted_inode = Root
        /\ host[mounttab[0].dev] = RootImage
        /\ Root \in Key /\ Exists(Root)
    BY <1>1, RootIs
  <2>2. host'[mounttab'[0].dev] = RootImage /\ RootImage # None
    <3>1. host' = Started.host /\ mounttab' = Started.mounttab
      BY DEF Restart
    <3>2. PICK dev : dev = FirstDev([e \in Dev |-> None])
      OBVIOUS
    <3>3. 0 \in Slot
      BY BoundAssumption DEF Slot
    <3>4. host' = [e \in Dev |-> IF e = dev THEN RootImage ELSE None] /\ mounttab'[0].dev = dev
      BY <3>1, <3>2, <3>3 DEF Started, MountRoot
    <3>5. QED
      BY <1>2, <2>1, <3>4, ImageAssumption DEF None
  <2>3. Exists(Root)'
    BY <1>2, <2>1, <2>2 DEF Exists, Root, Tree
  <2>4. QED
    BY <1>2, <2>1, <2>2, <2>3 DEF Root
<1>5. Tree(Root)[ROOT_INODE].up = ROOT_INODE
  BY <1>1, <1>4, LiveDevice DEF Directories
<1>6. Above[Root] = Root
  BY <1>1, <1>4, <1>5, AboveOne DEF AboveIs
<1>7. Kept(Root)
  BY <1>2, <1>4 DEF Kept, Exists, Tree
<1>8. \A i \in Mounted : mounttab[i].dev = Root[1] => i = 0
  BY <1>1, <1>4 DEF PathsInv, MountsAgree
<1>9. Keeps({Root})
  BY <1>2, <1>4, <1>6, <1>7, <1>8 DEF Keeps
<1>10. QED
  BY <1>3, <1>9 DEF WaysKept

LEMMA NextWaysKept ==
    ASSUME IInv, IInv', MayStrand = FALSE, Next
    PROVE  WaysKept
<1>1. ASSUME NEW path \in Path, Mkdir(path)
      PROVE  WaysKept
  BY <1>1, MkdirLeaves DEF Mkdir
<1>2. ASSUME NEW path \in Path, Rmdir(path)
      PROVE  WaysKept
  BY <1>2, RmdirLeaves
<1>3. ASSUME NEW path \in Path, Cd(path)
      PROVE  WaysKept
  BY <1>3, NothingChanged DEF Cd, MoveTo
<1>4. ASSUME NEW path \in Path, NEW image \in Image, Mount(image, path)
      PROVE  WaysKept
  BY <1>4, MountLeaves
<1>5. ASSUME NEW path \in Path, NEW image \in Image, MountTableFull(image, path)
      PROVE  WaysKept
  BY <1>5, MkdirLeaves DEF MountTableFull, MountOK
<1>6. ASSUME NEW image \in Image, Umount(image)
      PROVE  WaysKept
  BY <1>6, UmountLeaves
<1>7. CASE CdRoot
  BY <1>7, NothingChanged DEF CdRoot, MoveTo
<1>8. ASSUME NEW p \in Proc, Switch(p)
      PROVE  WaysKept
  BY <1>8, NothingChanged DEF Switch
<1>9. CASE PwdBegin \/ PwdDown \/ PwdUp \/ PwdEnd
  <2>1. UNCHANGED <<host, tree, mounttab>>
    BY <1>9 DEF PwdBegin, PwdDown, PwdUp, PwdEnd
  <2>2. QED
    BY <2>1, NothingChanged
<1>10. CASE Restart
  BY <1>10, RestartLeaves
<1>11. QED
  BY <1>1, <1>2, <1>3, <1>4, <1>5, <1>6, <1>7, <1>8, <1>9, <1>10 DEF Next

\* rmdir and umount refuse what somebody depends on, also from another device:
\* no current directory and no mount point loses its way up to root.
THEOREM WaysUpKept == ASSUME MayStrand = FALSE PROVE Spec => WayUpKept
<1>1. IInv /\ IInv' /\ [Next]_vars =>
        [\A k \in DOMAIN minodes : k \in DOMAIN minodes' =>
            \A x \in Ancestors(k) : Above'[x] = Above[x]]_vars
  <2> SUFFICES ASSUME IInv, IInv', Next,
                      NEW k \in DOMAIN minodes, k \in DOMAIN minodes'
               PROVE  \A x \in Ancestors(k) : Above'[x] = Above[x]
    OBVIOUS
  <2>1. PICK C : k \in C /\ Keeps(C)
    BY NextWaysKept DEF WaysKept
  <2>2. PathsInv /\ PathsInv'
    BY DEF IInv, PathsInv
  <2>3. QED
    BY <2>1, <2>2, WayKept
<1>2. QED
  BY <1>1, Invariance, PTL DEF Spec, WayUpKept

=============================================================================
