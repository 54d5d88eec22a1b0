----------------------------- MODULE TreeDescent -----------------------------
(***************************************************************************)
(* The tree builders as the code writes them, one call per directory, to     *)
(* compare with the functions of TreeBuild.  A tree is a set of entries, each *)
(* a path and a node.                                                       *)
(***************************************************************************)
EXTENDS BackendTree

Entries(tree) == {<<p, tree[p]>> : p \in {q \in Paths : tree[q] # Absent}}
OnDisk(work, dir) == {p \in Paths : Parent(p) = dir /\ work[p] # Absent}

\* build_entry_from_workdir
FileEntry(work, skipped, p) == IF p \in Ignored \cup skipped THEN {} ELSE {<<p, work[p]>>}

BuildFromWorkdir(work, skipped, dir) ==
    LET built[d \in Paths \cup {Root}] ==
            UNION {IF work[p] = Dir
                     THEN {<<p, Dir>>} \cup built[p]
                     ELSE FileEntry(work, skipped, p) : p \in OnDisk(work, d)}
    IN  built[dir]

\* The names of dir that a dirty path starts with, once dir is stripped.
DirtyChildren(marked, dir) ==
    {SubSeq(m, 1, Len(dir) + 1) : m \in {q \in marked : IsPrefix(dir, q) /\ q # dir}}

BuildIncremental(prev, work, marked, skipped, dir) ==
    LET old == Entries(prev)
        Subtree(p) == {e \in old : Below(e[1], p)}
        Fresh(p) == IF work[p] = Dir
                      THEN {<<p, Dir>>} \cup BuildFromWorkdir(work, skipped, p)
                      ELSE FileEntry(work, skipped, p)
        built[d \in Paths \cup {Root}] ==
            UNION {IF p \notin DirtyChildren(marked, d)
                     THEN IF prev[p] # Absent /\ (prev[p] = Dir) = (work[p] = Dir)
                            THEN Subtree(p)
                            ELSE Fresh(p)
                     ELSE IF work[p] = Dir /\ prev[p] = Dir
                            THEN {<<p, Dir>>} \cup built[p]
                            ELSE Fresh(p) : p \in OnDisk(work, d)}
    IN  built[dir]

\* The functions give what the descent gives, whichever paths are listed dirty;
\* those that are ignored never are.
DescentAgrees ==
    /\ Entries(Full(Work, Unwritable)) = BuildFromWorkdir(Work, Unwritable, Root)
    /\ \A marked \in SUBSET (Paths \ Ignored) :
           Entries(Incremental(HeadTree, Work, marked, Unwritable))
               = BuildIncremental(HeadTree, Work, marked, Unwritable, Root)
=============================================================================
