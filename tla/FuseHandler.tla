----------------------------- MODULE FuseHandler -----------------------------
(***************************************************************************)
(* The FUSE side of a mounted gofs (src/src/fs.rs): one action per request,  *)
(* from the inode and handle tables through the backend's operation to the   *)
(* handler's own dirty set and the commits it makes.  The session handles    *)
(* one request at a time.                                                   *)
(*                                                                         *)
(* Two sets of pending paths live side by side: the backend's list, which    *)
(* write_file fills and commits incrementally, and the handler's set, which  *)
(* every mutating request fills and which is drained by a full commit.       *)
(***************************************************************************)
EXTENDS BackendOps, InodeTable

CONSTANTS
    MaxHandle,      \* bound: files open at once
    MayFail         \* commits can fail and the process can die

ASSUME HandlerAssumption ==
    MaxHandle \in Nat /\ MayFail \in BOOLEAN

VARIABLES
    handles,        \* the open files: handle -> path and mode
    dirty,          \* FuseHandler::dirty
    mounted,
    missed          \* history: paths whose last change was not marked or not committed

vars == <<node, data, kept, readonly, head, pending, pathToInode, inodeToPath, nextInode,
          handles, dirty, mounted, missed>>

Handles == 1..MaxHandle
Closed == [path |-> NoPath, writable |-> FALSE]
IsOpen(h) == handles[h] # Closed

Init ==
    /\ BackendInit
    /\ InodeInit
    /\ handles = [h \in Handles |-> Closed]
    /\ dirty = {}
    /\ mounted = TRUE
    /\ missed = {}

Request == mounted /\ UNCHANGED mounted
-----------------------------------------------------------------------------
(* maybe_commit and mark_dirty.  hd is HEAD after the backend's operation,    *)
(* lost the paths it changed that nothing marks.                             *)

Keep(ds, hd, lost) ==
    /\ dirty' = ds /\ head' = hd
    /\ missed' = missed \cup lost

\* What a full commit can end in.  One that fails while it writes the ref leaves
\* the ref empty, a repository without commits.
CommitResults(hd, work, unwritable) ==
    {[head |-> Full(work, unwritable), missed |-> {}]} \cup
    {[head |-> left, missed |-> Paths] : left \in IF MayFail THEN {hd, NoTree} ELSE {}}

\* The set is drained before the commit, whose error is ignored.
MaybeCommit(ds, hd) ==
    IF ds = {} \/ ~AutoCommit THEN Keep(ds, hd, {})
    ELSE /\ dirty' = {}
         /\ \E result \in CommitResults(hd, Work', Unwritable') :
                head' = result.head /\ missed' = result.missed

MutantMarkDirty(p, hd, lost) ==     \* an ignored path is kept, the others are not
    IF p \in Ignored THEN Keep(dirty \cup {p}, hd, {}) ELSE Keep(dirty, hd, lost)
MutantBatch(p, hd, lost) ==         \* one path more than a batch
    IF p \in Ignored THEN Keep(dirty, hd, lost)
    ELSE IF Cardinality(dirty \cup {p}) > BatchSize THEN MaybeCommit(dirty \cup {p}, hd)
    ELSE Keep(dirty \cup {p}, hd, {})
MarkDirty(p, hd, lost) ==
    IF p \in Ignored THEN Keep(dirty, hd, lost)
    ELSE IF Cardinality(dirty \cup {p}) >= BatchSize THEN MaybeCommit(dirty \cup {p}, hd)
    ELSE Keep(dirty \cup {p}, hd, {})

\* The backend's write_file and then mark_dirty; a commit that fails inside
\* write_file makes it return an error, and nothing is marked.
WriteFile(p, v) ==
    /\ CanWrite(p)
    /\ WriteDisk(p, v)
    /\ pending' = PendingAfterWrite(p)
    /\ MarkDirty(p, HeadAfterWrite(p, Work', Unwritable'), Links(p))
WriteFileFails(p, v) ==
    /\ CanWrite(p)
    /\ WriteDisk(p, v)
    /\ Tracked(p) /\ CommitNow(Append(pending, p)) /\ MayFail
    /\ pending' = <<>>
    /\ head' \in {head, NoTree}
    /\ missed' = IF head' = head THEN missed \cup Links(p) \cup {p} ELSE Paths
    /\ UNCHANGED dirty
-----------------------------------------------------------------------------
(* Requests.  The kernel looks a name up before it creates, removes or moves  *)
(* it, so it sends those only where they make sense; what it has learned of  *)
(* an inode number it keeps until it is told otherwise.                      *)

Lookup(p) ==
    /\ Request
    /\ node[p] # Absent
    /\ GetOrCreate(p)
    /\ UNCHANGED <<disk, head, pending, handles, dirty, missed>>

\* ".." and every entry get a number.
Readdir(i) ==
    /\ Request
    /\ Known(i) /\ IsDirectory(inodeToPath[i])
    /\ LET p == inodeToPath[i]
       IN  GetOrCreateAll(Children(p) \cup IF p = Root THEN {} ELSE {Parent(p)})
    /\ UNCHANGED <<disk, head, pending, handles, dirty, missed>>

Truncate(i, v) ==
    /\ Request
    /\ KnownFile(i) /\ IsFile(inodeToPath[i])
    /\ \/ WriteFile(inodeToPath[i], v) /\ GetOrCreate(inodeToPath[i])
       \/ WriteFileFails(inodeToPath[i], v) /\ UNCHANGED tables
    /\ UNCHANGED handles

Chmod(i, writable) ==
    LET p == inodeToPath[i] IN
    /\ Request
    /\ KnownFile(i) /\ node[p] # Absent
    /\ IF IsFile(p) THEN SetPermissionsDisk(p, writable) ELSE UNCHANGED disk
    /\ UNCHANGED <<pending, handles>>
    /\ MarkDirty(p, head, Links(p))
    /\ GetOrCreate(p)

OpenHandle(p, w) ==
    \E h \in Handles : /\ ~IsOpen(h) /\ \A k \in 1..(h - 1) : IsOpen(k)
                       /\ handles' = [handles EXCEPT ![h] = [path |-> p, writable |-> w]]

Open(i, w) ==
    /\ Request
    /\ KnownFile(i) /\ node[inodeToPath[i]] # Dir
    /\ OpenHandle(inodeToPath[i], w)
    /\ UNCHANGED <<disk, head, pending, tables, dirty, missed>>

\* The content is written to the path the handle was opened with.
Write(h, v) ==
    /\ Request
    /\ IsOpen(h) /\ handles[h].writable
    /\ WriteFile(handles[h].path, v) \/ WriteFileFails(handles[h].path, v)
    /\ UNCHANGED <<tables, handles>>

Create(p, w) ==
    /\ Request
    /\ node[p] = Absent
    /\ \/ WriteFile(p, Empty) /\ GetOrCreate(p) /\ OpenHandle(p, w)
       \/ WriteFileFails(p, Empty) /\ UNCHANGED <<tables, handles>>

Mkdir(p) ==
    /\ Request
    /\ node[p] = Absent /\ IsDirectory(Parent(p)) /\ CanCreateDir(p)
    /\ CreateDirDisk(p)
    /\ UNCHANGED <<pending, handles>>
    /\ MarkDirty(p, head, {})
    /\ GetOrCreate(p)

Unlink(p) ==
    /\ Request
    /\ IsFile(p)
    /\ DeleteDisk(p)
    /\ UNCHANGED <<pending, handles>>
    /\ RemovePath(p)
    /\ MarkDirty(p, head, {})

Rmdir(p) ==
    /\ Request
    /\ CanRemoveDir(p)
    /\ RemoveDirDisk(p)
    /\ UNCHANGED <<pending, handles>>
    /\ RemovePath(p)
    /\ MarkDirty(p, head, {})

\* Only the target is marked.
Rename(from, to) ==
    /\ Request
    /\ CanRename(from, to) /\ IsDirectory(Parent(to))
    /\ RenameDisk(from, to)
    /\ UNCHANGED <<pending, handles>>
    /\ RenamePath(from, to)
    /\ MarkDirty(to, head, {p \in Paths : Below(p, from) \/ Below(p, to)})

Link(i, p) ==
    /\ Request
    /\ KnownFile(i) /\ CanLink(p, inodeToPath[i])
    /\ LinkDisk(p, inodeToPath[i])
    /\ UNCHANGED <<pending, handles>>
    /\ MarkDirty(p, head, {})
    /\ GetOrCreate(p)

\* flush, fsync and fsyncdir
Flush ==
    /\ Request
    /\ UNCHANGED <<disk, pending, tables, handles>>
    /\ MaybeCommit(dirty, head)

MutantRelease(h) ==         \* only a read-only handle commits
    /\ Request
    /\ IsOpen(h)
    /\ handles' = [handles EXCEPT ![h] = Closed]
    /\ UNCHANGED <<disk, pending, tables>>
    /\ IF handles[h].writable THEN Keep({}, head, {}) ELSE MaybeCommit(dirty, head)
Release(h) ==
    /\ Request
    /\ IsOpen(h)
    /\ handles' = [handles EXCEPT ![h] = Closed]
    /\ UNCHANGED <<disk, pending, tables>>
    /\ IF handles[h].writable THEN MaybeCommit(dirty, head) ELSE Keep(dirty, head, {})
-----------------------------------------------------------------------------
(* The end of a mount, and the next one                                      *)

\* The tables go with the handler; the next mount starts with new ones.
DropHandler ==
    /\ mounted /\ mounted' = FALSE
    /\ dirty' = {} /\ pending' = <<>>
    /\ pathToInode' = NewPathToInode
    /\ inodeToPath' = NewInodeToPath
    /\ nextInode' = 2
    /\ handles' = [h \in Handles |-> Closed]
    /\ UNCHANGED disk

\* What is in the set and not committed is missed.
Unmarked == IF dirty = {} THEN missed ELSE Paths

\* destroy: maybe_commit, then the backend's own list.
Destroy ==
    /\ DropHandler
    /\ \E result \in IF dirty = {} \/ ~AutoCommit
                       THEN {[head |-> head, missed |-> Unmarked]}
                       ELSE CommitResults(head, Work, Unwritable) :
           \/ /\ head' = HeadAfterFlush(result.head, Work, Unwritable)
              /\ missed' = result.missed
           \/ /\ pending # <<>> /\ MayFail
              /\ head' \in {result.head, NoTree}
              /\ missed' = IF head' = result.head THEN result.missed ELSE Paths

\* The process dies, perhaps while it commits what is pending: what it had in memory
\* is gone.
Crash ==
    /\ DropHandler
    /\ MayFail
    /\ head' \in {head} \cup IF dirty = {} /\ pending = <<>> THEN {} ELSE {NoTree}
    /\ missed' = IF head' = head THEN Unmarked ELSE Paths

Mount ==
    /\ ~mounted /\ mounted' = TRUE
    /\ UNCHANGED <<disk, head, pending, tables, handles, dirty, missed>>

Next ==
    \/ \E p \in Paths : \/ Lookup(p) \/ Mkdir(p) \/ Unlink(p) \/ Rmdir(p)
                        \/ \E w \in BOOLEAN : Create(p, w)
                        \/ \E q \in Paths : Rename(p, q)
    \/ \E i \in Inodes : \/ Readdir(i)
                         \/ \E w \in BOOLEAN : Chmod(i, w)
                         \/ \E v \in Contents : Truncate(i, v)
                         \/ \E w \in BOOLEAN : Open(i, w)
                         \/ \E p \in Paths : Link(i, p)
    \/ \E h \in Handles : Release(h) \/ \E v \in Contents : Write(h, v)
    \/ Flush \/ Destroy \/ Crash \/ Mount

Spec == Init /\ [][Next]_vars
-----------------------------------------------------------------------------
(* Properties                                                               *)

HandleType == [path : Paths, writable : BOOLEAN] \cup {Closed}

TypeOK ==
    /\ node \in [Paths -> Files \cup {Absent, Dir}]
    /\ data \in [Files -> Contents]
    /\ kept \subseteq Paths
    /\ readonly \subseteq Files
    /\ head \in Trees \cup {NoTree}
    /\ pending \in Seq(Paths)
    /\ InodeTypeOK
    /\ handles \in [Handles -> HandleType]
    /\ dirty \subseteq Paths \ Ignored
    /\ mounted \in BOOLEAN
    /\ missed \subseteq Paths

\* Git keeps files; an empty directory is the same as none.
FileAt(tree, p) == IF tree[p] = Dir THEN Absent ELSE tree[p]
Stale == {p \in Paths : FileAt(HeadTree, p) # FileAt(Full(Work, {}), p)}

\* When the handler has nothing dirty, HEAD holds the working tree.  Whatever
\* mix of full commits of the handler and incremental commits of the backend
\* led there, the only differences are files that are read-only now, which no
\* commit takes in, and changes that rename, a hard link under an ignored name or
\* a failed commit kept from being marked; the next commit makes up for the latter
\* too (fs.rs:212-250, 262-269).
CleanMeansCommitted == dirty = {} => Stale \subseteq missed \cup Unwritable

\* Neither set of pending paths outgrows a batch.  README.md:183 "If
\* max_batch_size pending changes accumulate before the timer -> commit
\* immediately".
BatchesBounded ==
    AutoCommit => /\ Cardinality(dirty) < BatchSize \/ dirty = {}
                  /\ Len(pending) < BatchSize \/ BatchSize = 0

Changed(before, after) == {p \in Paths : Full(after, {})[p] # Full(before, {})[p]}

\* A file that HEAD has right and that a request leaves alone stays right in
\* HEAD: no commit that is made takes a committed file back to an older content or
\* drops it (git.rs:1223-1392, fs.rs:212-223), unless the file is read-only: that
\* one the builder silently leaves out.
CommittedStaysCommitted ==
    [][head' \notin {head, NoTree} =>
          Stale' \subseteq Stale \cup Changed(Work, Work') \cup Unwritable']_vars
=============================================================================
