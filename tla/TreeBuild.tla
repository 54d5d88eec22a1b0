----------------------------- MODULE TreeBuild -----------------------------
(***************************************************************************)
(* The two tree builders of GitBackend (src/src/git.rs), as functions of    *)
(* what they read.                                                         *)
(*                                                                         *)
(* A path is a sequence of names.  A tree - of files on disk or of git      *)
(* entries - gives each path a node: absent, a directory, or a file with    *)
(* some content.  The builders descend the directories; here the entry of   *)
(* a path is given at once, from the directory on the way to it where the   *)
(* descent stops.  TreeDescent compares that with the descent itself.       *)
(***************************************************************************)
EXTENDS Naturals, Sequences, SequencesExt, Functions

CONSTANTS
    Paths,          \* the paths below the root
    Ignored,        \* the paths is_ignored() reports
    Contents,       \* file contents, the empty one included
    Absent,         \* no entry
    Dir             \* a directory

ASSUME TreeAssumption ==
    /\ \A p \in Paths : p \in Seq(STRING) /\ p # <<>>
    /\ \A p \in Paths : \A n \in 1..Len(p) : SubSeq(p, 1, n) \in Paths
    /\ Ignored \subseteq Paths
    /\ Absent \notin Contents /\ Dir \notin Contents /\ Absent # Dir

Nodes == Contents \cup {Absent, Dir}
Trees == [Paths -> Nodes]
EmptyTree == [p \in Paths |-> Absent]

Root == <<>>
Parent(p) == SubSeq(p, 1, Len(p) - 1)

\* p is q or lies below q.
Ancestry == [p \in Paths |-> {q \in Paths : IsPrefix(q, p)}]
Below(p, q) == q \in Ancestry[p]

WellFormed(tree) ==
    \A p \in Paths : tree[p] # Absent /\ Parent(p) # Root => tree[Parent(p)] = Dir

\* build_tree_from_workdir: a file that is ignored, or that cannot be read or
\* written back (skipped), is left out of the tree and nobody is told.
Full(work, skipped) ==
    [p \in Paths |-> IF p \in Ignored \cup skipped /\ work[p] # Dir THEN Absent ELSE work[p]]

\* dirty_children: the name of q is on the way to a dirty path.
DirtyChild(marked, q) == \E m \in marked : Below(m, q)

\* An entry of the previous tree may stand for what is on disk.
SameKind(prev, work, q) ==
    /\ prev[q] # Absent /\ work[q] # Absent
    /\ prev[q] = Dir <=> work[q] = Dir

\* build_tree_incremental is called for every directory above q.
Descends(prev, work, marked, q) ==
    \A a \in Ancestry[q] \ {q} : DirtyChild(marked, a) /\ prev[a] = Dir /\ work[a] = Dir

\* The entry q, a whole subtree if q is a directory, is taken from the
\* previous tree.
Reused(prev, work, marked, q) ==
    /\ Descends(prev, work, marked, q)
    /\ ~DirtyChild(marked, q)
    /\ SameKind(prev, work, q)

MutantDropsClean(prev, work, marked, skipped) ==    \* what is not dirty is not carried over
    [p \in Paths |-> IF DirtyChild(marked, p) THEN Full(work, skipped)[p] ELSE Absent]
MutantIncremental(prev, work, marked, skipped) ==   \* whatever was there is reused
    [p \in Paths |-> IF \E q \in Ancestry[p] : prev[q] # Absent /\ ~DirtyChild(marked, q)
                       THEN prev[p]
                       ELSE Full(work, skipped)[p]]
Incremental(prev, work, marked, skipped) ==
    [p \in Paths |-> IF \E q \in Ancestry[p] : Reused(prev, work, marked, q)
                       THEN prev[p]
                       ELSE Full(work, skipped)[p]]
=============================================================================
