----------------------------- MODULE InodeTable -----------------------------
(***************************************************************************)
(* InodeTable of the FUSE handler (src/src/fs.rs): the two maps between      *)
(* paths and the inode numbers the kernel uses.  Each operator is a method;   *)
(* FuseHandler says when the handlers call them.                            *)
(***************************************************************************)
EXTENDS TreeBuild, FiniteSets

CONSTANTS
    NoPath,         \* an inode number without a path
    MaxInode        \* bound: inode numbers handed out

ASSUME InodeAssumption ==
    /\ IsFiniteSet(Paths)
    /\ NoPath \notin Paths /\ NoPath # Root
    /\ MaxInode \in Nat \ {0}

VARIABLES
    pathToInode,    \* path -> inode number, NoInode when it has none
    inodeToPath,    \* inode number -> path, NoPath when it has none
    nextInode

tables == <<pathToInode, inodeToPath, nextInode>>

AllPaths == Paths \cup {Root}
Inodes == 1..MaxInode
NoInode == 0
RootInode == 1      \* FUSE_ROOT_ID

NewPathToInode == [p \in AllPaths |-> IF p = Root THEN RootInode ELSE NoInode]
NewInodeToPath == [i \in Inodes |-> IF i = RootInode THEN Root ELSE NoPath]

InodeInit ==
    /\ pathToInode = NewPathToInode
    /\ inodeToPath = NewInodeToPath
    /\ nextInode = 2

\* get_path
Known(i) == inodeToPath[i] # NoPath
KnownFile(i) == inodeToPath[i] \in Paths

\* get_or_create for every path of S.  The order among them is that of a
\* directory listing; any order is taken here.
GetOrCreateAll(S) ==
    LET new == {p \in S : pathToInode[p] = NoInode}
        next == nextInode + Cardinality(new)
    IN  /\ next <= MaxInode + 1
        /\ nextInode' = next
        /\ \E number \in Bijection(new, nextInode..(next - 1)) :
               /\ pathToInode' = [p \in AllPaths |->
                      IF p \in new THEN number[p] ELSE pathToInode[p]]
               /\ inodeToPath' = [i \in Inodes |->
                      IF i \in nextInode..(next - 1)
                        THEN CHOOSE p \in new : number[p] = i
                        ELSE inodeToPath[i]]

GetOrCreate(p) == GetOrCreateAll({p})

RemovePath(p) ==
    /\ pathToInode' = [pathToInode EXCEPT ![p] = NoInode]
    /\ inodeToPath' = [i \in Inodes |-> IF i = pathToInode[p] THEN NoPath ELSE inodeToPath[i]]
    /\ UNCHANGED nextInode

\* The number of `from` goes over to `to`.  What the table held of `to`, and of
\* paths below `from`, stays.
MutantRenamePath(from, to) ==       \* the other map is not updated
    IF pathToInode[from] = NoInode THEN UNCHANGED tables
    ELSE /\ pathToInode' = [pathToInode EXCEPT ![from] = NoInode, ![to] = pathToInode[from]]
         /\ UNCHANGED <<inodeToPath, nextInode>>
RenamePath(from, to) ==
    IF pathToInode[from] = NoInode THEN UNCHANGED tables
    ELSE /\ pathToInode' = [pathToInode EXCEPT ![from] = NoInode, ![to] = pathToInode[from]]
         /\ inodeToPath' = [inodeToPath EXCEPT ![pathToInode[from]] = to]
         /\ UNCHANGED nextInode
-----------------------------------------------------------------------------
InodeTypeOK ==
    /\ pathToInode \in [AllPaths -> Inodes \cup {NoInode}]
    /\ inodeToPath \in [Inodes -> AllPaths \cup {NoPath}]
    /\ nextInode \in 2..(MaxInode + 1)

\* The number a path has leads back to that path - so no two paths share a
\* number, which the kernel would take for one file - and numbers are handed out
\* once (fs.rs:65-91).
InodesLeadBack ==
    /\ \A p \in AllPaths : pathToInode[p] # NoInode => inodeToPath[pathToInode[p]] = p
    /\ \A i \in Inodes : i >= nextInode => inodeToPath[i] = NoPath
=============================================================================
