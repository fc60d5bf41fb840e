------------------------------- MODULE Mount -------------------------------
(***************************************************************************)
(* The mount table: mount, umount and switch (level3.c), getino (util.c)   *)
(* down into a mounted device and up out of it, mount_root (main.c), and   *)
(* mkdir, rmdir, cd and pwd (level1.c), which use these paths.             *)
(*                                                                         *)
(* A device is known by the descriptor the host's open returned for its    *)
(* image, the first free one, so that the number of a device that is       *)
(* unmounted is the next one's.  An inode in memory is known by its device *)
(* and number; InodeCache shows that there is one minode for both, and     *)
(* a pointer to it is that pair here.  Only directories are modelled, and  *)
(* of these the name and the parent.  Permissions are left out: chown,     *)
(* which tests none, can give everything to everybody.                     *)
(***************************************************************************)
EXTENDS Integers, Sequences, FiniteSets

CONSTANTS
    Proc,
    Image,     \* images of file systems, by name
    RootImage, \* the one the program is started with
    Dev,       \* descriptors of the host
    InoOf,     \* InoOf[image]: its inode numbers
    Name,      \* names of directories
    Path,      \* the paths users type: [abs: BOOLEAN, names: Seq(Name \cup {".."})]
    NMOUNT,    \* entries of the mount table
    MaxFrames, \* bound: calls of help_pwd the stack has room for
    MayStrand  \* bound: whether umount is called for a device with somebody in its
               \* root directory

ROOT_INODE == 2
None == "none"

ASSUME ProcAssumption == IsFiniteSet(Proc) /\ 0 \in Proc
ASSUME DevAssumption ==
    /\ IsFiniteSet(Dev) /\ Dev \subseteq Nat \ {0}
    /\ Cardinality(Dev) >= Cardinality(Image)
ASSUME ImageAssumption ==
    /\ IsFiniteSet(Image) /\ RootImage \in Image /\ {None, ""} \cap Image = {}
    /\ \A image \in Image :
        /\ IsFiniteSet(InoOf[image]) /\ InoOf[image] \subseteq Nat \ {0}
        /\ ROOT_INODE \in InoOf[image]
ASSUME PathAssumption ==
    /\ ".." \notin Name
    /\ Path \subseteq [abs: BOOLEAN, names: Seq(Name \cup {".."}) \ {<<>>}]
ASSUME BoundAssumption == {NMOUNT, MaxFrames} \subseteq Nat \ {0} /\ MayStrand \in BOOLEAN

VARIABLES
    host,      \* host[dev]: the image open under that descriptor, or None
    tree,      \* tree[image]: its directories, by inode: parent and name
    mounttab,  \* the mount table: dev (0: free), name, mounted_inode
    minodes,   \* the minodes in use: ref_count, mounted, mountptr (an index)
    cwd,       \* cwd[p]: the minode of the current directory
    running,
    pwd        \* the pwd that is being executed: the parents it holds, innermost last

vars == <<host, tree, mounttab, minodes, cwd, running, pwd>>

Slot == 0 .. NMOUNT - 1
Key == Dev \X (UNION {InoOf[image] : image \in Image})
Gone == <<0, 0>>
Free == [dev |-> 0, name |-> "", mounted_inode |-> Gone]
FirstDev(h) == CHOOSE d \in Dev : h[d] = None /\ \A e \in Dev : h[e] = None => d <= e
Root == <<mounttab[0].dev, ROOT_INODE>>

TypeOK ==
    /\ host \in [Dev -> Image \cup {None}]
    /\ \A image \in Image :
        /\ ROOT_INODE \in DOMAIN tree[image] /\ DOMAIN tree[image] \subseteq InoOf[image]
        /\ \A i \in DOMAIN tree[image] : tree[image][i].up \in DOMAIN tree[image]
    /\ mounttab \in [Slot -> [dev: Dev \cup {0}, name: Image \cup {""}, mounted_inode: Key \cup {Gone}]]
    /\ DOMAIN minodes \subseteq Key
    /\ \A k \in DOMAIN minodes :
        minodes[k] \in [ref_count: Nat \ {0}, mounted: {0, 1}, mountptr: Slot \cup {-1}]
    /\ cwd \in [Proc -> Key] /\ running \in Proc
    /\ pwd.pc \in {"idle", "down", "up"}

Idle == [pc |-> "idle"]

\* mount_root: root and the current directories are one minode.
MountRoot(dev) ==
    LET root == <<dev, ROOT_INODE>> IN
    [host |-> [d \in Dev |-> IF d = dev THEN RootImage ELSE None],
     mounttab |-> [i \in Slot |->
        IF i = 0 THEN [dev |-> dev, name |-> RootImage, mounted_inode |-> root] ELSE Free],
     minodes |-> [k \in {root} |->
        [ref_count |-> 1 + Cardinality(Proc), mounted |-> 0, mountptr |-> 0]],
     cwd |-> [p \in Proc |-> root]]

Started == MountRoot(FirstDev([d \in Dev |-> None]))

Init ==
    /\ host = Started.host
    /\ tree = [image \in Image |-> [i \in {ROOT_INODE} |-> [up |-> ROOT_INODE, name |-> ".."]]]
    /\ mounttab = Started.mounttab
    /\ minodes = Started.minodes
    /\ cwd = Started.cwd
    /\ running = 0
    /\ pwd = Idle

-----------------------------------------------------------------------------
(* Minodes (module InodeCache).                                            *)

Iget(m, k) ==
    IF k \in DOMAIN m THEN [m EXCEPT ![k].ref_count = @ + 1]
    ELSE [x \in DOMAIN m \cup {k} |->
            IF x = k THEN [ref_count |-> 1, mounted |-> 0, mountptr |-> -1] ELSE m[x]]

Iput(m, k) ==
    IF m[k].ref_count > 1 THEN [m EXCEPT ![k].ref_count = @ - 1]
    ELSE [x \in DOMAIN m \ {k} |-> m[x]]

-----------------------------------------------------------------------------
(* Paths. getino puts back every minode it gets, so it leaves them as they are. *)

Tree(k) == tree[host[k[1]]]

\* search, for directories: the inode number, or 0.
Search(k, n) ==
    IF n = ".." THEN Tree(k)[k[2]].up
    ELSE LET found == {i \in DOMAIN Tree(k) \ {ROOT_INODE} : Tree(k)[i] = [up |-> k[2], name |-> n]}
         IN  IF found = {} THEN 0 ELSE CHOOSE i \in found : TRUE

\* Mutant of Ascend: the mount point itself, and not its parent.
AscendToPoint(dev) == mounttab[CHOOSE i \in Slot : mounttab[i].dev = dev].mounted_inode

\* Upstream out of a mount point: from the entry of the device to the minode
\* it is mounted on, and to the parent of that. (The root device is mounted on
\* its own root directory.) A device without an entry is met only after a
\* umount that MayStrand allows; then the code reads behind the table.
Ascend(dev) ==
    LET entries == {i \in Slot : mounttab[i].dev = dev}
        point == mounttab[CHOOSE i \in entries : \A j \in entries : i <= j].mounted_inode
    IN  IF entries = {} THEN Gone ELSE <<point[1], Search(point, "..")>>

\* One name of a path, down into the device mounted on what is found.
Step(k, n) ==
    IF k = Gone THEN Gone
    ELSE IF k[2] = ROOT_INODE /\ n = ".." THEN Ascend(k[1])
    ELSE LET next == <<k[1], Search(k, n)>> IN
         IF next[2] = 0 THEN Gone
         ELSE IF next \in DOMAIN minodes /\ minodes[next].mounted = 1
         THEN <<mounttab[minodes[next].mountptr].dev, ROOT_INODE>>
         ELSE next

Walk(k, names) ==
    LET walk[n \in 0 .. Len(names)] ==
            IF n = 0 THEN k ELSE Step(walk[n - 1], names[n])
    IN  walk[Len(names)]

Getino(path) == Walk(IF path.abs THEN Root ELSE cwd[running], path.names)

\* parseargs.
Parent(path) == Getino([path EXCEPT !.names = SubSeq(@, 1, Len(@) - 1)])
Child(path) == path.names[Len(path.names)]

-----------------------------------------------------------------------------
(* mkdir, alone or called by mount. A command begins when no pwd is running. *)

Prompt == pwd = Idle

FreeIno(k) == InoOf[host[k[1]]] \ DOMAIN Tree(k)
FirstIno(k) == CHOOSE i \in FreeIno(k) : \A j \in FreeIno(k) : i <= j

\* The last condition bounds the model: there is a free inode.
MkdirOK(path) ==
    /\ Child(path) \in Name
    /\ Parent(path) # Gone
    /\ Search(Parent(path), Child(path)) = 0
    /\ FreeIno(Parent(path)) # {}

\* The directory mkdir makes, and the trees with it.
Made(path) == <<Parent(path)[1], FirstIno(Parent(path))>>
Planted(path) ==
    LET k == Made(path) IN
    [tree EXCEPT ![host[k[1]]] = [i \in DOMAIN @ \cup {k[2]} |->
        IF i = k[2] THEN [up |-> Parent(path)[2], name |-> Child(path)] ELSE @[i]]]

Mkdir(path) ==
    /\ Prompt
    /\ MkdirOK(path)
    /\ tree' = Planted(path)
    /\ UNCHANGED <<host, mounttab, minodes, cwd, running, pwd>>

\* Mutant of Rmdir: nobody asks whether the directory is empty.
RmdirNotEmpty(path) ==
    LET parent == Parent(path)
        child == <<parent[1], Search(parent, Child(path))>>
        held == Iget(Iget(minodes, parent), child)
    IN  /\ Prompt
        /\ Child(path) \in Name /\ parent # Gone /\ child[2] # 0
        /\ held[child].mounted = 0
        /\ held[child].ref_count = 1
        /\ tree' = [tree EXCEPT ![host[child[1]]] = [i \in DOMAIN @ \ {child[2]} |-> @[i]]]
        /\ UNCHANGED <<host, mounttab, minodes, cwd, running, pwd>>

\* Mutant of Rmdir: the count of references is not looked at.
RmdirInUse(path) ==
    LET parent == Parent(path)
        child == <<parent[1], Search(parent, Child(path))>>
    IN  /\ Prompt
        /\ Child(path) \in Name /\ parent # Gone /\ child[2] # 0
        /\ Iget(Iget(minodes, parent), child)[child].mounted = 0
        /\ \A i \in DOMAIN Tree(child) : Tree(child)[i].up # child[2]
        /\ tree' = [tree EXCEPT ![host[child[1]]] = [i \in DOMAIN @ \ {child[2]} |-> @[i]]]
        /\ UNCHANGED <<host, mounttab, minodes, cwd, running, pwd>>

\* rmdir looks the child up without going down into what is mounted on it.
Rmdir(path) ==
    LET parent == Parent(path)
        child == <<parent[1], Search(parent, Child(path))>>
        held == Iget(Iget(minodes, parent), child)
    IN  /\ Prompt
        /\ Child(path) \in Name /\ parent # Gone /\ child[2] # 0
        /\ held[child].mounted = 0
        /\ held[child].ref_count = 1
        /\ \A i \in DOMAIN Tree(child) : Tree(child)[i].up # child[2]
        /\ tree' = [tree EXCEPT ![host[child[1]]] = [i \in DOMAIN @ \ {child[2]} |-> @[i]]]
        /\ UNCHANGED <<host, mounttab, minodes, cwd, running, pwd>>

MoveTo(k) ==
    /\ Prompt
    /\ minodes' = Iput(Iget(minodes, k), cwd[running])
    /\ cwd' = [cwd EXCEPT ![running] = k]
    /\ UNCHANGED <<host, tree, mounttab, running, pwd>>

Cd(path) == Getino(path) # Gone /\ MoveTo(Getino(path))

CdRoot == MoveTo(Root)

Switch(p) == Prompt /\ running' = p /\ UNCHANGED <<host, tree, mounttab, minodes, cwd, pwd>>

-----------------------------------------------------------------------------
(* mount and umount.                                                       *)

\* What mount tests before it makes the directory; every image is an EXT2 one.
MountOK(image, path) ==
    /\ path.abs
    /\ \A i \in Slot : mounttab[i].name # image
    /\ MkdirOK(path)

FreeSlots == {i \in Slot : mounttab[i].dev = 0}

\* The new directory, which getino finds under path, is mounted on.
Mount(image, path) ==
    LET md == CHOOSE i \in FreeSlots : \A j \in FreeSlots : i <= j
        dev == FirstDev(host)
        k == Made(path)
    IN  /\ Prompt
        /\ MountOK(image, path)
        /\ FreeSlots # {}
        /\ host' = [host EXCEPT ![dev] = image]
        /\ tree' = Planted(path)
        /\ mounttab' = [mounttab EXCEPT ![md] = [dev |-> dev, name |-> image, mounted_inode |-> k]]
        /\ minodes' = [Iget(minodes, k) EXCEPT ![k].mounted = 1, ![k].mountptr = md]
        /\ UNCHANGED <<cwd, running, pwd>>

\* Mutant of MountTableFull: the minode is not put back.
MountTableFullLeaks(image, path) ==
    /\ Prompt
    /\ MountOK(image, path)
    /\ FreeSlots = {}
    /\ tree' = Planted(path)
    /\ minodes' = Iget(minodes, Made(path))
    /\ UNCHANGED <<host, mounttab, cwd, running, pwd>>

\* The minode is put back and the image closed, but the directory stays.
MountTableFull(image, path) ==
    /\ Prompt
    /\ MountOK(image, path)
    /\ FreeSlots = {}
    /\ tree' = Planted(path)
    /\ minodes' = Iput(Iget(minodes, Made(path)), Made(path))
    /\ UNCHANGED <<host, mounttab, cwd, running, pwd>>

\* is_mount_busy.
Busy(dev) == \E k \in DOMAIN minodes : k[1] = dev /\ k[2] # ROOT_INODE

Occupied(i) == \E p \in Proc : cwd[p] = <<mounttab[i].dev, ROOT_INODE>>

\* Mutant of Umount: the minode of the mount point is not put back.
UmountKeepsPoint(image) ==
    \E i \in Slot \ {0} :
        /\ Prompt
        /\ mounttab[i].name = image
        /\ ~Busy(mounttab[i].dev)
        /\ MayStrand \/ ~Occupied(i)
        /\ host' = [host EXCEPT ![mounttab[i].dev] = None]
        /\ mounttab' = [mounttab EXCEPT ![i] = Free]
        /\ UNCHANGED <<tree, minodes, cwd, running, pwd>>

\* bounds: the root device is not unmounted, and see MayStrand.
Umount(image) ==
    \E i \in Slot \ {0} :
        /\ Prompt
        /\ mounttab[i].name = image
        /\ ~Busy(mounttab[i].dev)
        /\ MayStrand \/ ~Occupied(i)
        /\ minodes' = Iput(minodes, mounttab[i].mounted_inode)
        /\ host' = [host EXCEPT ![mounttab[i].dev] = None]
        /\ mounttab' = [mounttab EXCEPT ![i] = Free]
        /\ UNCHANGED <<tree, cwd, running, pwd>>

-----------------------------------------------------------------------------
(* pwd: help_pwd calls itself with the parent until that is root.          *)

\* print_entry_name: the first entry with that number, or nothing.
EntryName(k, ino) ==
    IF ino = k[2] THEN "."
    ELSE IF ino = Search(k, "..") THEN ".."
    ELSE IF ino \in DOMAIN Tree(k) /\ Tree(k)[ino].up = k[2] THEN Tree(k)[ino].name
    ELSE ""

\* The argument of the n-th call.
Mip(n) == IF n = 1 THEN cwd[running] ELSE pwd.held[n - 1]
Innermost == Mip(Len(pwd.held) + 1)

PwdBegin ==
    /\ Prompt
    /\ pwd' = [pc |-> "down", held |-> <<>>, out |-> <<>>]
    /\ UNCHANGED <<host, tree, mounttab, minodes, cwd, running>>

\* Whatever its argument, it takes the parent of the current directory.
PwdDown ==
    /\ pwd.pc = "down" /\ Innermost # Root
    /\ Len(pwd.held) < MaxFrames
    /\ LET parent == Getino([abs |-> FALSE, names |-> <<"..">>]) IN
        /\ minodes' = Iget(minodes, parent)
        /\ pwd' = [pwd EXCEPT !.held = Append(@, parent)]
    /\ UNCHANGED <<host, tree, mounttab, cwd, running>>

Returning == pwd.pc = "up" \/ (pwd.pc = "down" /\ Innermost = Root)

\* Mutant of PwdUp: the name of the parent is looked up, and not of its argument.
PwdUpParent ==
    /\ Returning /\ pwd.held # <<>>
    /\ LET n == Len(pwd.held)
           parent == pwd.held[n]
       IN /\ minodes' = Iput(minodes, parent)
          /\ pwd' = [pc |-> "up", held |-> SubSeq(pwd.held, 1, n - 1),
                     out |-> Append(pwd.out, EntryName(parent, parent[2]))]
    /\ UNCHANGED <<host, tree, mounttab, cwd, running>>

PwdUp ==
    /\ Returning /\ pwd.held # <<>>
    /\ LET n == Len(pwd.held)
           parent == pwd.held[n]
       IN /\ minodes' = Iput(minodes, parent)
          /\ pwd' = [pc |-> "up", held |-> SubSeq(pwd.held, 1, n - 1),
                     out |-> Append(pwd.out, EntryName(parent, Mip(n)[2]))]
    /\ UNCHANGED <<host, tree, mounttab, cwd, running>>

PwdEnd ==
    /\ Returning /\ pwd.held = <<>>
    /\ pwd' = Idle
    /\ UNCHANGED <<host, tree, mounttab, minodes, cwd, running>>

StackOverflow == pwd.pc = "down" /\ Innermost # Root /\ Len(pwd.held) = MaxFrames

\* quit, or the end of the program by a pwd that never returns, and a new start
\* on the same images.
Restart ==
    /\ Prompt \/ StackOverflow
    /\ host' = Started.host
    /\ mounttab' = Started.mounttab
    /\ minodes' = Started.minodes
    /\ cwd' = Started.cwd
    /\ running' = 0
    /\ pwd' = Idle
    /\ UNCHANGED tree

Next ==
    \/ \E path \in Path :
        \/ Mkdir(path) \/ Rmdir(path) \/ Cd(path)
        \/ \E image \in Image : Mount(image, path) \/ MountTableFull(image, path)
    \/ \E image \in Image : Umount(image)
    \/ CdRoot
    \/ \E p \in Proc : Switch(p)
    \/ PwdBegin \/ PwdDown \/ PwdUp \/ PwdEnd
    \/ Restart

Spec == Init /\ [][Next]_vars

-----------------------------------------------------------------------------
Mounted == {i \in Slot : mounttab[i].dev # 0}

\* Every minode in use is held exactly as often as its count says, by root and
\* current directories, as a mount point, and by the calls of help_pwd, whether
\* mount succeeded or failed after it had the minode, and no other is in use.
RefCountIsHolders ==
    LET held == IF pwd = Idle THEN <<>> ELSE pwd.held
        holders(k) == Cardinality({p \in Proc : cwd[p] = k})
                        + Cardinality({n \in DOMAIN held : held[n] = k})
                        + Cardinality({i \in Mounted : mounttab[i].mounted_inode = k})
    IN  \A k \in Key : IF k \in DOMAIN minodes THEN minodes[k].ref_count = holders(k)
                       ELSE holders(k) = 0

\* The three records of a mount agree: the entry of the table, the minode of the
\* mount point, which points back to it, and the image that is open on the host.
MountsAgree ==
    /\ \A i \in Mounted \ {0} : LET k == mounttab[i].mounted_inode IN
        k \in DOMAIN minodes /\ minodes[k].mounted = 1 /\ minodes[k].mountptr = i
    /\ \A k \in DOMAIN minodes : minodes[k].mounted = 1 =>
        mounttab[minodes[k].mountptr].mounted_inode = k
    /\ \A dev \in Dev : host[dev] # None =>
        \E i \in Mounted : mounttab[i].dev = dev /\ mounttab[i].name = host[dev]
    /\ \A i \in Mounted : host[mounttab[i].dev] = mounttab[i].name
    /\ \A i, j \in Mounted : i # j => mounttab[i].dev # mounttab[j].dev

Exists(k) == host[k[1]] # None /\ k[2] \in DOMAIN Tree(k)

\* The directories that paths lead to: all but the mount points.
Places == {k \in Key : Exists(k) /\ (k \in DOMAIN minodes => minodes[k].mounted = 0)}

\* Where .. leads, and the directories it leads to in the end, k among them.
Above == [k \in Key \cup {Gone} |-> IF k # Gone /\ Exists(k) THEN Step(k, "..") ELSE Gone]
Ancestors(k) ==
    LET up[n \in 0 .. Cardinality(Key)] ==
            IF n = 0 THEN {k} ELSE LET below == up[n - 1] IN below \cup {Above[x] : x \in below}
    IN  up[Cardinality(Key)]

\* Across all mounts the directories form one tree: .. leads from each of them
\* up to the root, and the directory it leads to has a name that leads back.
OneTree ==
    \A k \in Places \ {Root} :
        /\ Root \in Ancestors(k)
        /\ \E n \in Name : Step(Step(k, ".."), n) = k

\* Where a minode in use is, as .. tells, never changes: no process and no mount
\* point loses its directory, or one above it, to what others mount, unmount or
\* remove, nor to a device number that is used again.
WayUpKept ==
    [][\A k \in DOMAIN minodes : k \in DOMAIN minodes' =>
            \A x \in Ancestors(k) : Above'[x] = Above[x]]_vars

\* If pwd ends, in a directory of the root device, the path it has printed leads
\* to the current directory.
PwdNamesCwd ==
    [][PwdEnd /\ cwd[running][1] = Root[1] => Walk(Root, pwd.out) = cwd[running]]_vars

\* "All commands work exactly the same way as they do in Unix/Linux"
\* (docs/specification.md), where pwd climbs from the current directory to the
\* root: no two calls of help_pwd take the same directory.
PwdClimbs ==
    pwd.pc # "idle" => \A m, n \in DOMAIN pwd.held : pwd.held[m] = pwd.held[n] => m = n

\* "All commands work exactly the same way as they do in Unix/Linux"
\* (docs/specification.md), where umount refuses a device that somebody is on.
NobodyStranded == \A p \in Proc : \E i \in Mounted : cwd[p][1] = mounttab[i].dev
=============================================================================
