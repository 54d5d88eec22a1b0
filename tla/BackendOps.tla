----------------------------- MODULE BackendOps -----------------------------
(***************************************************************************)
(* The file operations of GitBackend (src/src/git.rs) over directories, one  *)
(* at a time: each operation, and the commit it may end with, is one step.   *)
(* That is what a single caller sees - the FUSE session, which handles one   *)
(* request after the other, or a command-line process on its own - and what  *)
(* CommitProtocol shows of one thread.                                     *)
(*                                                                         *)
(* Files have an identity of their own, because hard links share content.   *)
(* The operators here are used by BackendTree, the backend on its own, and   *)
(* by FuseHandler, the backend under a mounted filesystem.                  *)
(***************************************************************************)
EXTENDS TreeBuild

CONSTANTS
    Files,          \* identities (inode numbers) of files
    Empty,          \* the empty content
    NoTree,         \* head of a repository without commits
    AutoCommit,     \* commit.auto_commit
    Debounced,      \* commit.debounce_ms # 0
    BatchSize       \* commit.max_batch_size

ASSUME BackendAssumption ==
    /\ Absent \notin Files /\ Dir \notin Files
    /\ Empty \in Contents
    /\ NoTree \notin Trees
    /\ AutoCommit \in BOOLEAN /\ Debounced \in BOOLEAN /\ BatchSize \in Nat

VARIABLES
    node,           \* the working tree: path -> file, Dir or Absent
    data,           \* file -> content
    kept,           \* the directories that hold a .gitkeep
    readonly,       \* the files whose mode denies writing, to their owner too
    head,           \* the tree of the commit HEAD names
    pending         \* dirty_files, the backend's own list

disk == <<node, data, kept, readonly>>

Work == [p \in Paths |-> IF node[p] \in Files THEN data[node[p]] ELSE node[p]]
HeadTree == IF head = NoTree THEN EmptyTree ELSE head

IsDirectory(p) == p # Root => node[p] = Dir
IsFile(p) == node[p] \in Files
Children(p) == {q \in Paths : Parent(q) = p /\ node[q] # Absent}
Links(p) == {q \in Paths : IsFile(p) /\ node[q] = node[p]}

Unused(f) == \A p \in Paths : node[p] # f

\* What the builder can read but not write back.
Unwritable == {p \in Paths : node[p] \in readonly}

\* A file without a name is gone, its content and its mode.
HasName(nd, f) == \E p \in Paths : nd[p] = f
Reclaim(nd, dt) == [f \in Files |-> IF HasName(nd, f) THEN dt[f] ELSE Empty]
ReclaimModes(nd, modes) == {f \in modes : HasName(nd, f)}

BackendInit ==
    /\ node = [p \in Paths |-> Absent]
    /\ data = [f \in Files |-> Empty]
    /\ kept = {}
    /\ readonly = {}
    /\ head = NoTree
    /\ pending = <<>>
-----------------------------------------------------------------------------
(* Commits.  A commit reads the working tree that the operation leaves.      *)

Elements(s) == {s[i] : i \in DOMAIN s}

\* commit_incremental
IncrementalCommit(marked, work, skipped) ==
    IF head = NoTree \/ marked = {}
      THEN Full(work, skipped)
      ELSE Incremental(head, work, marked, skipped)

\* write_file's last part: what the list and HEAD become once p is written.
MutantTracked(p) == AutoCommit              \* ignored paths are listed too
Tracked(p) == AutoCommit /\ p \notin Ignored
CommitNow(list) == ~Debounced \/ (BatchSize > 0 /\ Len(list) >= BatchSize)
PendingAfterWrite(p) ==
    IF ~Tracked(p) THEN pending
    ELSE IF CommitNow(Append(pending, p)) THEN <<>>
    ELSE Append(pending, p)
MutantHeadAfterWrite(p, work, skipped) ==   \* only the last path is handed over
    IF Tracked(p) /\ CommitNow(Append(pending, p))
      THEN IncrementalCommit({p}, work, skipped)
      ELSE head
HeadAfterWrite(p, work, skipped) ==
    IF Tracked(p) /\ CommitNow(Append(pending, p))
      THEN IncrementalCommit(Elements(Append(pending, p)), work, skipped)
      ELSE head

\* flush_pending_auto_commit
HeadAfterFlush(hd, work, skipped) ==
    IF pending = <<>> THEN hd
    ELSE IF hd = NoTree THEN Full(work, skipped)
    ELSE Incremental(hd, work, Elements(pending), skipped)
-----------------------------------------------------------------------------
(* Changes of the working tree: when they succeed and what they leave.       *)

CanWrite(p) == IsDirectory(Parent(p)) /\ node[p] # Dir /\ p \notin Unwritable
\* A new file can be written again.
WriteDisk(p, v) ==
    /\ \E f \in Files :
           /\ IF IsFile(p) THEN f = node[p] ELSE Unused(f)
           /\ node' = [node EXCEPT ![p] = f]
           /\ data' = [data EXCEPT ![f] = v]
           /\ readonly' = readonly \ {f}
    /\ UNCHANGED kept

\* set_permissions of a file; the bits for reading and executing, and modes of
\* directories, are not modelled.
SetPermissionsDisk(p, writable) ==
    /\ readonly' = IF writable THEN readonly \ {node[p]} ELSE readonly \cup {node[p]}
    /\ UNCHANGED <<node, data, kept>>

DeleteDisk(p) ==
    /\ node' = [node EXCEPT ![p] = Absent]
    /\ data' = Reclaim(node', data)
    /\ readonly' = ReclaimModes(node', readonly)
    /\ UNCHANGED kept

\* create_dir makes missing parents too; only the directory itself gets a
\* .gitkeep.
CanCreateDir(p) == \A a \in Paths : Below(p, a) => node[a] \in {Absent, Dir}
CreateDirDisk(p) ==
    /\ node' = [a \in Paths |-> IF Below(p, a) THEN Dir ELSE node[a]]
    /\ kept' = kept \cup {p}
    /\ UNCHANGED <<data, readonly>>

CanRemoveDir(p) == node[p] = Dir /\ Children(p) = {}
RemoveDirDisk(p) ==
    /\ node' = [node EXCEPT ![p] = Absent]
    /\ kept' = kept \ {p}
    /\ UNCHANGED <<data, readonly>>

\* The path that p, below to, had when it was below from.
Source(p, from, to) == from \o SubSeq(p, Len(to) + 1, Len(p))

\* create_dir_all of the parents of p
CanMakeParents(p) == \A a \in Paths : Below(p, a) /\ a # p => node[a] \in {Absent, Dir}
MakeParentsDisk(p) ==
    /\ node' = [a \in Paths |-> IF Below(p, a) /\ a # p THEN Dir ELSE node[a]]
    /\ UNCHANGED <<data, kept, readonly>>

\* A bound: nothing is moved to a path that is not modelled.
StaysInPaths(from, to) ==
    \A p \in Paths : Below(p, from) /\ node[p] # Absent => Source(p, to, from) \in Paths

\* fs::rename refuses a directory that holds anything, its .gitkeep included.
CanRename(from, to) ==
    /\ from # to /\ ~Below(to, from) /\ ~Below(from, to)
    /\ node[from] # Absent
    /\ CanMakeParents(to)
    /\ IF node[from] = Dir
         THEN node[to] = Absent \/ (CanRemoveDir(to) /\ to \notin kept)
         ELSE node[to] # Dir
    /\ StaysInPaths(from, to)

Moved(p, from, to) ==
    IF Source(p, from, to) \in Paths THEN node[Source(p, from, to)] ELSE Absent

\* rename(2) does nothing when both names are links to one file.
RenameDisk(from, to) ==
    IF IsFile(from) /\ node[from] = node[to] THEN UNCHANGED disk
    ELSE /\ node' = [p \in Paths |->
                        IF Below(p, to) THEN Moved(p, from, to)
                        ELSE IF Below(p, from) THEN Absent
                        ELSE IF Below(to, p) THEN Dir
                        ELSE node[p]]
         /\ data' = Reclaim(node', data)
         /\ readonly' = ReclaimModes(node', readonly)
         /\ kept' = {p \in Paths : IF Below(p, to) THEN Source(p, from, to) \in kept
                                   ELSE p \in kept /\ ~Below(p, from)}

CanLink(p, target) == IsFile(target) /\ node[p] = Absent /\ IsDirectory(Parent(p))
LinkDisk(p, target) ==
    /\ node' = [node EXCEPT ![p] = node[target]]
    /\ UNCHANGED <<data, kept, readonly>>
=============================================================================
