----------------------------- MODULE BackendTree -----------------------------
(***************************************************************************)
(* GitBackend over directories with one caller: which changes of the         *)
(* working tree a debounced or immediate auto-commit captures, when entries   *)
(* of the previous commit are reused for everything that is not listed dirty. *)
(***************************************************************************)
EXTENDS BackendOps

VARIABLES
    written         \* history: the paths, ignored ones aside, last changed by write_file

treeVars == <<node, data, kept, readonly, head, pending, written>>

TreeInit == BackendInit /\ written = {}

WriteFile(p, v) ==
    /\ CanWrite(p)
    /\ WriteDisk(p, v)
    /\ pending' = PendingAfterWrite(p)
    /\ head' = HeadAfterWrite(p, Work', Unwritable')
    /\ written' = (written \ Links(p)) \cup ({p} \ Ignored)

DeleteFile(p) ==
    /\ IsFile(p)
    /\ DeleteDisk(p)
    /\ written' = written \ {p}
    /\ UNCHANGED <<head, pending>>

CreateDir(p) ==
    /\ CanCreateDir(p)
    /\ CreateDirDisk(p)
    /\ UNCHANGED <<head, pending, written>>

RemoveDir(p) ==
    /\ CanRemoveDir(p)
    /\ RemoveDirDisk(p)
    /\ UNCHANGED <<head, pending, written>>

Rename(from, to) ==
    /\ CanRename(from, to)
    /\ RenameDisk(from, to)
    /\ written' = {p \in written : ~Below(p, from) /\ ~Below(p, to)}
    /\ UNCHANGED <<head, pending>>

\* A directory cannot move into itself: fs::rename says so when the directories on
\* the way to the new name have been made.
RenameFails(from, to) ==
    /\ node[from] = Dir /\ Below(to, from) /\ to # from
    /\ node[to] = Absent /\ CanMakeParents(to)
    /\ MakeParentsDisk(to)
    /\ UNCHANGED <<head, pending, written>>

\* A file that can no longer be written back drops out of the next commit that
\* builds its entry.
SetPermissions(p, writable) ==
    /\ IsFile(p)
    /\ SetPermissionsDisk(p, writable)
    /\ written' = written \ Links(p)
    /\ UNCHANGED <<head, pending>>

CreateHardlink(p, target) ==
    /\ CanLink(p, target)
    /\ LinkDisk(p, target)
    /\ UNCHANGED <<head, pending, written>>

FlushPendingAutoCommit ==
    /\ pending # <<>>
    /\ head' = HeadAfterFlush(head, Work, Unwritable)
    /\ pending' = <<>>
    /\ UNCHANGED <<disk, written>>

Commit ==
    /\ head' = Full(Work, Unwritable)
    /\ UNCHANGED <<disk, pending, written>>

TreeNext ==
    \/ \E p \in Paths, v \in Contents : WriteFile(p, v)
    \/ \E p \in Paths : DeleteFile(p) \/ CreateDir(p) \/ RemoveDir(p)
    \/ \E p \in Paths, writable \in BOOLEAN : SetPermissions(p, writable)
    \/ \E p, q \in Paths : Rename(p, q) \/ RenameFails(p, q) \/ CreateHardlink(p, q)
    \/ FlushPendingAutoCommit
    \/ Commit

TreeSpec == TreeInit /\ [][TreeNext]_treeVars
-----------------------------------------------------------------------------
(* Properties                                                               *)

TreeTypeOK ==
    /\ node \in [Paths -> Files \cup {Absent, Dir}]
    /\ data \in [Files -> Contents]
    /\ kept \subseteq {p \in Paths : node[p] = Dir}
    /\ head \in Trees \cup {NoTree}
    /\ readonly \subseteq {f \in Files : ~Unused(f)}
    /\ pending \in Seq(Paths \ Ignored)
    /\ written \subseteq Paths \ Ignored

\* Git trees are nested: an entry below a directory has that directory above
\* it, also where a subtree of an older commit was reused (git.rs:1306-1330).
HeadWellFormed == WellFormed(HeadTree)

\* Every acknowledged write of a path that is not ignored is in the commit
\* HEAD names or is in the dirty list, at any depth and whatever directories
\* were made, moved or removed around it (git.rs:646-672, 1223-1392).  Paths whose
\* mode was changed since are not among them: the builder leaves a file that cannot
\* be written back out of the commit (1177, 1431).
WritesTracked ==
    AutoCommit =>
        \A p \in written : HeadTree[p] = Work[p] \/ p \in Elements(pending)

\* A commit drops the files that are no longer on disk.  git.rs:1383-1384
\* "entries that were in prev_tree but are no longer on disk are simply not
\* added to `entries`, which handles deletions correctly".
DeletionsCommitted ==
    [][head' # head => \A p \in Paths : Work[p] = Absent /\ Work'[p] = Absent
                                          => HeadTree'[p] \notin Contents]_treeVars
=============================================================================
