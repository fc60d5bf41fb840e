-------------------------- MODULE OpenFilesGrants --------------------------
(***************************************************************************)
(* OpenFiles with the history of what each descriptor was opened for, to   *)
(* say what a descriptor keeps for as long as it is open: its file, and    *)
(* the right to be the only one that writes it. The history changes        *)
(* nothing of what the program does.                                       *)
(***************************************************************************)
EXTENDS OpenFiles

VARIABLE grant   \* grant[p][f]: the inode and the mode f was opened for

gvars == <<vars, grant>>

NoGrant == [key |-> NoKey, mode |-> R]

GrantInit == Init /\ grant = [p \in Proc |-> [f \in Fd |-> NoGrant]]

\* An open of the user grants what it asked for; a close takes it back.
GrantOpen(path, mode) ==
    /\ Open(path, mode)
    /\ grant' = [grant EXCEPT ![running] =
            [f \in Fd |-> IF fd[running][f] = NULL /\ fd'[running][f] # NULL
                          THEN [key |-> name[path], mode |-> mode]
                          ELSE grant[running][f]]]

GrantClose(f) ==
    /\ Close(f)
    /\ grant' = [grant EXCEPT ![running][f] = NoGrant]

GrantNext ==
    \/ \E path \in Path, mode \in {R, W, RW, APPEND} : GrantOpen(path, mode)
    \/ \E f \in Fd : GrantClose(f)
    \/ /\ \/ \E path \in Path : Creat(path) \/ Unlink(path)
          \/ \E f \in Fd :
              \/ \E pos \in 0 .. MaxLen : Lseek(f, pos)
              \/ \E n \in 1 .. MaxLen : Read(f, n)
              \/ \E buf \in Buffer : Write(f, buf)
          \/ \E uid \in Proc : Switch(uid)
       /\ UNCHANGED grant

GrantSpec == GrantInit /\ [][GrantNext]_gvars

-----------------------------------------------------------------------------
\* A descriptor stays on the file it was opened for.
FdKeepsItsFile ==
    \A p \in Proc : \A f \in Fd :
        grant[p][f] # NoGrant => oft[fd[p][f]].inodeptr = grant[p][f].key

\* "cannot open more than once for writing" (file_open): of all descriptors of
\* a file at most one was opened to write it.
SingleWriter ==
    \A pf, qg \in Proc \X Fd :
        LET a == grant[pf[1]][pf[2]]
            b == grant[qg[1]][qg[2]]
        IN  a.mode # R /\ b.mode # R /\ a.key = b.key => pf = qg
=============================================================================
