--------------------------- MODULE CommitProtocol ---------------------------
(***************************************************************************)
(* How GitBackend (src/src/git.rs) turns file writes into commits.         *)
(*                                                                         *)
(* Threads call the backend's operations.  Every thread uses one backend    *)
(* (one process: its dirty list, its commit_in_progress flag, its repo      *)
(* mutex); several backends may share one repository, as a mounted gofs and *)
(* a `gofs checkpoint` run beside it do.  The working tree, the commit       *)
(* objects and the branch ref are files shared by all.                      *)
(*                                                                         *)
(* std::fs::write is not atomic: it opens the file with O_CREAT|O_TRUNC and *)
(* then writes, so every such call is two steps here, and the working tree  *)
(* is a directory of inodes, because the second step goes to the inode that *)
(* the first one opened even if the path is unlinked or renamed in between. *)
(* A file's content is one value; contents are of one length, so of two      *)
(* overlapping writes the last one wins.                                    *)
(***************************************************************************)
EXTENDS Naturals, Sequences, FiniteSets

CONSTANTS
    Threads,        \* the callers
    Backends,       \* the processes that opened the repository
    BackendOf,      \* the backend each thread calls
    Paths,          \* file names, all in the repository root
    Own,            \* the paths each thread's caller works on
    Ignored,        \* the paths is_ignored() reports
    Contents,       \* non-empty file contents
    Empty,          \* the content of a file truncated and not yet written
    Absent,         \* "no such file"
    Inodes,         \* inode numbers
    AutoCommit,     \* commit.auto_commit
    Debounced,      \* commit.debounce_ms # 0
    BatchSize,      \* commit.max_batch_size
    MaxCalls,       \* bound: API calls in a behaviour
    MaxFaults       \* bound: I/O errors and crashes in a behaviour

Free == "free"      \* repoLock of a mutex nobody holds

ASSUME ProtocolAssumption ==
    /\ BackendOf \in [Threads -> Backends]
    /\ Paths # {} /\ Own \in [Threads -> SUBSET Paths]
    /\ Ignored \subseteq Paths
    /\ Free \notin Threads
    /\ Empty \notin Contents /\ Absent \notin Contents /\ Empty # Absent
    /\ Inodes \subseteq Nat \ {0}
    /\ AutoCommit \in BOOLEAN /\ Debounced \in BOOLEAN
    /\ BatchSize \in Nat /\ MaxCalls \in Nat /\ MaxFaults \in Nat

VARIABLES
    dirent,         \* the working tree: path -> inode, 0 when there is no file
    data,           \* inode -> content
    dirty,          \* dirty_files of each backend
    inProgress,     \* commit_in_progress of each backend
    repoLock,       \* the holder of each backend's repo mutex
    commits,        \* the commit objects, in the order they were written
    ref,            \* the content of the branch ref HEAD points to
    pc,             \* where each thread is
    io,             \* the fs::write each thread is in
    job,            \* the commit each thread is making
    calls, faults,  \* how much of the bounds is used
    intent,         \* history: what the last call that changed a path left there
    written,        \* history: paths whose last change is an acknowledged write_file
    acked           \* history: the commits reported to a caller with Ok

shared == <<dirty, inProgress, repoLock>>
files == <<dirent, data>>
objectStore == <<commits, ref>>
bounds == <<calls, faults>>
history == <<intent, written, acked>>
vars == <<dirent, data, dirty, inProgress, repoLock, commits, ref, pc, io, job,
          calls, faults, intent, written, acked>>

NoFile == 0         \* dirent of a path with no file
NoCommit == 0       \* ref that is missing or empty, parent of a root commit

FileContents == Contents \cup {Empty}
Trees == [Paths -> FileContents \cup {Absent}]
EmptyTree == [p \in Paths |-> Absent]

Content(p) == IF dirent[p] = NoFile THEN Absent ELSE data[dirent[p]]
Workdir == [p \in Paths |-> Content(p)]

Idle == "idle"
Building == {"build", "wbOpen", "wbFill"}
Locked == Building \cup {"start", "object"}
UpdatingRef == {"refOpen", "refFill"}
Locations == Locked \cup UpdatingRef \cup {Idle, "fill", "filled", "mark", "lock"}

NoIO == [path |-> CHOOSE p \in Paths : TRUE, val |-> Empty, fd |-> NoFile]

\* paths: the dirty paths handed to commit_incremental; full: called as
\* commit(); parent, todo, tree: the build so far; id: the object written.
NoJob == [paths |-> {}, full |-> FALSE, parent |-> NoCommit,
          todo |-> {}, tree |-> EmptyTree, id |-> NoCommit]

Backend(t) == BackendOf[t]

Init ==
    /\ dirent = [p \in Paths |-> NoFile]
    /\ data = [i \in Inodes |-> Empty]
    /\ dirty = [b \in Backends |-> <<>>]
    /\ inProgress = [b \in Backends |-> FALSE]
    /\ repoLock = [b \in Backends |-> Free]
    /\ commits = <<>>
    /\ ref = NoCommit
    /\ pc = [t \in Threads |-> Idle]
    /\ io = [t \in Threads |-> NoIO]
    /\ job = [t \in Threads |-> NoJob]
    /\ calls = 0 /\ faults = 0
    /\ intent = EmptyTree
    /\ written = {}
    /\ acked = {}
-----------------------------------------------------------------------------
(* fs::write                                                                *)

Unused(i) == /\ \A p \in Paths : dirent[p] # i
             /\ \A t \in Threads : io[t].fd # i

\* open(O_CREAT|O_TRUNC): an existing file keeps its inode and loses its
\* content, a missing one gets the lowest free inode.
OpenTruncate(t, p, v) ==
    \E i \in Inodes :
        /\ IF dirent[p] # NoFile
             THEN i = dirent[p]
             ELSE Unused(i) /\ \A j \in Inodes : Unused(j) => i <= j
        /\ dirent' = [dirent EXCEPT ![p] = i]
        /\ data' = [data EXCEPT ![i] = Empty]
        /\ io' = [io EXCEPT ![t] = [path |-> p, val |-> v, fd |-> i]]

\* Writing no bytes leaves what another writer has put there.
Fill(t) ==
    /\ data' = IF io[t].val = Empty THEN data ELSE [data EXCEPT ![io[t].fd] = io[t].val]
    /\ UNCHANGED dirent

Goto(t, l) == pc' = [pc EXCEPT ![t] = l]

\* The call returns to its caller.
Return(t) ==
    /\ Goto(t, Idle)
    /\ io' = [io EXCEPT ![t] = NoIO]
    /\ job' = [job EXCEPT ![t] = NoJob]

Call(t) == pc[t] = Idle /\ calls < MaxCalls /\ calls' = calls + 1

Fault == faults < MaxFaults /\ faults' = faults + 1 /\ UNCHANGED calls
-----------------------------------------------------------------------------
(* write_file, delete_file, rename                                          *)

BeginWrite(t) ==
    /\ Call(t)
    /\ \E p \in Own[t], v \in Contents : OpenTruncate(t, p, v)
    /\ Goto(t, "fill")
    /\ UNCHANGED <<shared, objectStore, job, faults, history>>

EndWrite(t) ==
    /\ pc[t] = "fill"
    /\ Fill(t)
    /\ intent' = [intent EXCEPT ![io[t].path] = io[t].val]
    /\ written' = written \cup {io[t].path}
    /\ Goto(t, "filled")
    /\ UNCHANGED <<shared, objectStore, io, job, bounds, acked>>

\* The unlocked test of commit_in_progress before the path is marked.
CheckFlag(t) ==
    /\ pc[t] = "filled"
    /\ IF AutoCommit /\ ~inProgress[Backend(t)] /\ io[t].path \notin Ignored
         THEN Goto(t, "mark") /\ UNCHANGED <<io, job>>
         ELSE Return(t)
    /\ UNCHANGED <<files, shared, objectStore, bounds, history>>

\* Under the dirty_files mutex: push the path; without debounce, or when the
\* batch is full, drain the list and commit what was drained.
MarkDirty(t) ==
    LET b == Backend(t)
        marked == Append(dirty[b], io[t].path)
        commitNow == ~Debounced \/ (BatchSize > 0 /\ Len(marked) >= BatchSize)
    IN  /\ pc[t] = "mark"
        /\ dirty' = [dirty EXCEPT ![b] = IF commitNow THEN <<>> ELSE marked]
        /\ IF commitNow
             THEN /\ job' = [job EXCEPT ![t].paths = {marked[i] : i \in DOMAIN marked}]
                  /\ Goto(t, "lock")
                  /\ UNCHANGED io
             ELSE Return(t)
        /\ UNCHANGED <<files, inProgress, repoLock, objectStore, bounds, history>>

DeleteFile(t) ==
    /\ Call(t)
    /\ \E p \in Own[t] :
           /\ dirent[p] # NoFile
           /\ dirent' = [dirent EXCEPT ![p] = NoFile]
           /\ intent' = [intent EXCEPT ![p] = Absent]
           /\ written' = written \ {p}
    /\ UNCHANGED <<data, shared, objectStore, pc, io, job, faults, acked>>

\* rename(2) replaces the target; no path is marked dirty.
Rename(t) ==
    /\ Call(t)
    /\ \E from, to \in Own[t] :
           /\ from # to /\ dirent[from] # NoFile
           /\ dirent' = [dirent EXCEPT ![from] = NoFile, ![to] = dirent[from]]
           /\ intent' = [intent EXCEPT ![from] = Absent, ![to] = intent[from]]
           /\ written' = written \ {from, to}
    /\ UNCHANGED <<data, shared, objectStore, pc, io, job, faults, acked>>

\* flush_pending_auto_commit with a non-empty list; an empty one returns
\* Ok(None) and changes nothing.
Flush(t) ==
    LET b == Backend(t)
    IN  /\ Call(t)
        /\ dirty[b] # <<>>
        /\ job' = [job EXCEPT ![t].paths = {dirty[b][i] : i \in DOMAIN dirty[b]}]
        /\ dirty' = [dirty EXCEPT ![b] = <<>>]
        /\ Goto(t, "lock")
        /\ UNCHANGED <<files, inProgress, repoLock, objectStore, io, faults, history>>

Commit(t) ==
    /\ Call(t)
    /\ job' = [job EXCEPT ![t].full = TRUE]
    /\ Goto(t, "lock")
    /\ UNCHANGED <<files, shared, objectStore, io, faults, history>>
-----------------------------------------------------------------------------
(* commit and commit_incremental                                            *)

\* repo.lock(); commit_incremental then reads HEAD, commit does it later.  A
\* ref that is missing, empty or being rewritten gives no parent.
AcquireRepo(t) ==
    LET b == Backend(t)
    IN  /\ pc[t] = "lock"
        /\ repoLock[b] = Free
        /\ repoLock' = [repoLock EXCEPT ![b] = t]
        /\ job' = [job EXCEPT ![t].parent = IF job[t].full THEN NoCommit ELSE ref]
        /\ Goto(t, "start")
        /\ UNCHANGED <<files, dirty, inProgress, objectStore, io, bounds, history>>

StartBuild(t) ==
    /\ pc[t] = "start"
    /\ inProgress' = [inProgress EXCEPT ![Backend(t)] = TRUE]
    /\ job' = [job EXCEPT ![t].todo = Paths]
    /\ Goto(t, "build")
    /\ UNCHANGED <<files, dirty, repoLock, objectStore, io, bounds, history>>

\* build_tree_incremental runs, and takes the entry of p from the parent's
\* tree without looking at the file.
Incremental(t) == job[t].parent # NoCommit /\ job[t].paths # {}
MutantReused(t, p) ==       \* the dirty paths are not consulted
    Incremental(t) /\ commits[job[t].parent].tree[p] # Absent
Reused(t, p) ==
    /\ Incremental(t)
    /\ p \notin job[t].paths
    /\ commits[job[t].parent].tree[p] # Absent

\* A file that has vanished, or is ignored and not reused, gets no entry.
MutantSkipped1(t, p) ==     \* a failed read is not skipped
    p \in Ignored /\ ~Reused(t, p)
MutantSkipped2(t, p) ==     \* the ignore rules are not consulted
    dirent[p] = NoFile
Skipped(t, p) == dirent[p] = NoFile \/ (p \in Ignored /\ ~Reused(t, p))

MutantReadEntry(p) == Empty     \* the file is opened for writing before it is read
ReadEntry(p) == Content(p)

\* The directory scan meets the names in any order; a name that comes or goes
\* during the scan is seen or not.
VisitEntry(t) ==
    /\ pc[t] = "build"
    /\ \E p \in job[t].todo :
           LET next == [job[t] EXCEPT !.todo = @ \ {p}]
           IN  \/ /\ Skipped(t, p)
                  /\ job' = [job EXCEPT ![t] = next]
                  /\ UNCHANGED <<pc, io>>
               \/ /\ ~Skipped(t, p) /\ Reused(t, p)
                  /\ job' = [job EXCEPT ![t] =
                        [next EXCEPT !.tree[p] = commits[job[t].parent].tree[p]]]
                  /\ UNCHANGED <<pc, io>>
               \/ /\ ~Skipped(t, p) /\ ~Reused(t, p)
                  /\ job' = [job EXCEPT ![t] = next]
                  /\ io' = [io EXCEPT ![t] = [path |-> p, val |-> ReadEntry(p), fd |-> NoFile]]
                  /\ Goto(t, "wbOpen")
    /\ UNCHANGED <<files, shared, objectStore, bounds, history>>

\* The builder writes what it read back to the path, changed or not.
OpenWriteBack(t) ==
    /\ pc[t] = "wbOpen"
    /\ OpenTruncate(t, io[t].path, io[t].val)
    /\ Goto(t, "wbFill")
    /\ UNCHANGED <<shared, objectStore, job, bounds, history>>

\* The entry is added; build_tree_from_workdir drops it when the path has
\* vanished by now (its metadata call fails), build_entry_from_workdir does not.
FillWriteBack(t) ==
    /\ pc[t] = "wbFill"
    /\ Fill(t)
    /\ job' = IF dirent[io[t].path] # NoFile \/ Incremental(t)
                THEN [job EXCEPT ![t].tree[io[t].path] = io[t].val]
                ELSE job
    /\ io' = [io EXCEPT ![t] = NoIO]
    /\ Goto(t, "build")
    /\ UNCHANGED <<shared, objectStore, bounds, history>>

MutantClearFlag(t) == UNCHANGED inProgress      \* `?` before the reset
ClearFlag(t) == inProgress' = [inProgress EXCEPT ![Backend(t)] = FALSE]

MutantUnlock(t) == UNCHANGED repoLock           \* the guard is leaked
Unlock(t) == repoLock' = [repoLock EXCEPT ![Backend(t)] = Free]

FinishBuild(t) ==
    /\ pc[t] = "build" /\ job[t].todo = {}
    /\ ClearFlag(t)
    /\ Goto(t, "object")
    /\ UNCHANGED <<files, dirty, repoLock, objectStore, io, job, bounds, history>>

\* commit reads HEAD only now.
MutantParent(t) == job[t].parent                \* commit does not read HEAD
Parent(t) == IF job[t].full THEN ref ELSE job[t].parent

\* write_commit_inner; drop(repo).
WriteCommit(t) ==
    /\ pc[t] = "object"
    /\ commits' = Append(commits, [parent |-> Parent(t), tree |-> job[t].tree])
    /\ job' = [job EXCEPT ![t].id = Len(commits')]
    /\ Unlock(t)
    /\ Goto(t, "refOpen")
    /\ UNCHANGED <<files, dirty, inProgress, ref, io, bounds, history>>

\* update_head_to, after the mutex was released: fs::write of the ref.
TruncateRef(t) ==
    /\ pc[t] = "refOpen"
    /\ ref' = NoCommit
    /\ Goto(t, "refFill")
    /\ UNCHANGED <<files, shared, commits, io, job, bounds, history>>

MutantNewHead(t) == job[t].parent               \* the parent is written
NewHead(t) == job[t].id

FillRef(t) ==
    /\ pc[t] = "refFill"
    /\ ref' = NewHead(t)
    /\ acked' = acked \cup {job[t].id}
    /\ Return(t)
    /\ UNCHANGED <<files, shared, commits, bounds, intent, written>>
-----------------------------------------------------------------------------
(* I/O errors and crashes                                                   *)

\* The second half of write_file's fs::write fails: Err, an empty file.
WriteFails(t) ==
    /\ pc[t] = "fill" /\ Fault
    /\ intent' = [intent EXCEPT ![io[t].path] = Empty]
    /\ written' = written \ {io[t].path}
    /\ Return(t)
    /\ UNCHANGED <<files, shared, objectStore, acked>>

\* The builder's fs::write fails: the entry is skipped, the build goes on.
WriteBackFails(t) ==
    /\ pc[t] \in {"wbOpen", "wbFill"} /\ Fault
    /\ io' = [io EXCEPT ![t] = NoIO]
    /\ Goto(t, "build")
    /\ UNCHANGED <<files, shared, objectStore, job, history>>

\* The tree builder returns an error: the flag is cleared, then `?` returns
\* and drops the guard of the mutex.  What was drained stays drained.
BuildFails(t) ==
    /\ pc[t] = "build" /\ Fault
    /\ ClearFlag(t)
    /\ Unlock(t)
    /\ Return(t)
    /\ UNCHANGED <<files, dirty, objectStore, history>>

MutantObjectWriteFails(t) ==    \* the error is ignored, the ref is moved
    /\ pc[t] = "object" /\ Fault
    /\ job' = [job EXCEPT ![t].id = Len(commits) + 1]
    /\ Unlock(t)
    /\ Goto(t, "refOpen")
    /\ UNCHANGED <<files, dirty, inProgress, objectStore, io, history>>
ObjectWriteFails(t) ==
    /\ pc[t] = "object" /\ Fault
    /\ Unlock(t)
    /\ Return(t)
    /\ UNCHANGED <<files, dirty, inProgress, objectStore, history>>

\* The ref cannot be written, before or after it was truncated.
RefWriteFails(t) ==
    /\ pc[t] \in UpdatingRef /\ Fault
    /\ Return(t)
    /\ UNCHANGED <<files, shared, objectStore, history>>

\* A process dies and is started again: its memory is lost, files stay as
\* they are.
Crash(b) ==
    LET died == {t \in Threads : Backend(t) = b}
    IN  /\ Fault
        /\ dirty' = [dirty EXCEPT ![b] = <<>>]
        /\ inProgress' = [inProgress EXCEPT ![b] = FALSE]
        /\ repoLock' = [repoLock EXCEPT ![b] = Free]
        /\ pc' = [t \in Threads |-> IF t \in died THEN Idle ELSE pc[t]]
        /\ io' = [t \in Threads |-> IF t \in died THEN NoIO ELSE io[t]]
        /\ job' = [t \in Threads |-> IF t \in died THEN NoJob ELSE job[t]]
        /\ UNCHANGED <<files, objectStore, history>>
-----------------------------------------------------------------------------
ApiCall(t) ==
    \/ BeginWrite(t) \/ DeleteFile(t) \/ Rename(t) \/ Flush(t) \/ Commit(t)

\* What a thread does inside a call, the wait for the mutex apart.
Step(t) ==
    \/ EndWrite(t) \/ CheckFlag(t) \/ MarkDirty(t)
    \/ StartBuild(t) \/ VisitEntry(t) \/ OpenWriteBack(t) \/ FillWriteBack(t)
    \/ FinishBuild(t) \/ WriteCommit(t) \/ TruncateRef(t) \/ FillRef(t)

Failure(t) ==
    \/ WriteFails(t) \/ WriteBackFails(t) \/ BuildFails(t)
    \/ ObjectWriteFails(t) \/ RefWriteFails(t)

Next ==
    \/ \E t \in Threads : ApiCall(t) \/ AcquireRepo(t) \/ Step(t) \/ Failure(t)
    \/ \E b \in Backends : Crash(b)

\* A running thread is scheduled again and parking_lot's mutex, eventually
\* fair, does not starve a waiter.  No caller is obliged to call.
Fairness == \A t \in Threads : WF_vars(Step(t)) /\ SF_vars(AcquireRepo(t))

Spec == Init /\ [][Next]_vars
FairSpec == Spec /\ Fairness
-----------------------------------------------------------------------------
(* Properties                                                               *)

IOType == [path : Paths, val : FileContents, fd : Inodes \cup {NoFile}]
JobType == [paths : SUBSET Paths, full : BOOLEAN, parent : Nat,
            todo : SUBSET Paths, tree : Trees, id : Nat]
CommitType == [parent : Nat, tree : Trees]

\* Every variable stays in its domain, and what is written to a file (an open
\* descriptor, a read-back) is file content.
TypeOK ==
    /\ dirent \in [Paths -> Inodes \cup {NoFile}]
    /\ data \in [Inodes -> FileContents]
    /\ dirty \in [Backends -> Seq(Paths)]
    /\ inProgress \in [Backends -> BOOLEAN]
    /\ repoLock \in [Backends -> Threads \cup {Free}]
    /\ commits \in Seq(CommitType)
    /\ ref \in Nat
    /\ pc \in [Threads -> Locations]
    /\ io \in [Threads -> IOType]
    /\ job \in [Threads -> JobType]
    /\ calls \in 0..MaxCalls /\ faults \in 0..MaxFaults
    /\ intent \in Trees
    /\ written \subseteq Paths
    /\ acked \subseteq Nat

\* The repo mutex of a backend and its commit_in_progress flag tell the truth
\* about its threads: whoever is between lock() and drop(repo) is the holder,
\* and the flag is set exactly while the holder builds a tree - never left set
\* by an error path or a crash, which would silence auto-commit for good, and
\* never cleared under another thread's build (git.rs:1490-1499, 1535-1564).
\* create_merge_commit, which ForkManager models, is not among the threads here:
\* it builds under the mutex without setting the flag (git.rs:2143-2144).
FlagMatchesBuilder ==
    /\ \A b \in Backends, t \in Threads : repoLock[b] = t => Backend(t) = b
    /\ \A t \in Threads : pc[t] \in Locked <=> repoLock[Backend(t)] = t
    /\ \A b \in Backends : inProgress[b] <=> \E t \in Threads : repoLock[b] = t /\ pc[t] \in Building

\* The history never has a cycle or a dangling link: a commit's parent was
\* written before it, the branch names an object that was written, and so does
\* everything a thread is about to use as a parent or as the new head
\* (git.rs:388-421, 1497-1500, 1536-1565).
HistoryWellFormed ==
    /\ ref <= Len(commits)
    /\ \A c \in DOMAIN commits : commits[c].parent < c
    /\ \A t \in Threads : job[t].parent <= Len(commits) /\ job[t].id <= Len(commits)

Quiescent == \A t \in Threads : pc[t] = Idle

\* However the ref updates of several threads overlap, each one a truncation
\* and a write outside the mutex, once all have returned the branch names a
\* commit that a caller was told about (git.rs:404-421).
HeadSurvives == Quiescent /\ faults = 0 /\ acked # {} => ref \in acked

\* What the working tree holds when no call is running is what the callers put
\* there: a commit writes back only what it found, a deleted file stays
\* deleted.  test_concurrency.rs:220 "The real invariant is data integrity:
\* all 5 files must exist with correct content".
DataIntegrity == Quiescent => Workdir = intent

HeadTree == IF ref = NoCommit THEN EmptyTree ELSE commits[ref].tree

\* Every acknowledged write_file of a path that is not ignored is in the commit
\* HEAD names or is remembered in a dirty list, so the next flush commits it.
\* README.md:181 "A write happens -> file is marked dirty".
WritesTracked ==
    Quiescent =>
        \A p \in written \ Ignored :
            \/ HeadTree[p] = Content(p)
            \/ \E b \in Backends : \E i \in DOMAIN dirty[b] : dirty[b][i] = p

\* No commit holds a file that the ignore rules exclude, whether its tree was
\* built in full or reused entries of its parent (git.rs:1142, 1406).
IgnoredNotCommitted ==
    \A c \in DOMAIN commits : \A p \in Ignored : commits[c].tree[p] = Absent

\* The commits on the line from c to its root.  A commit's parent is older
\* than it, so the line of c is found among 1..c.
Lineage(c) ==
    LET line[n \in 0..Len(commits)] ==
            IF n = NoCommit THEN {} ELSE {n} \cup line[commits[n].parent]
    IN  line[c]

\* A commit that was reported to its caller with Ok stays in the history that
\* HEAD shows.  README.md:27 "Every change is captured, diffable, replayable,
\* and reversible".
NoCommitLost == Quiescent => acked \subseteq Lineage(ref)

\* With any threads, processes, failures and crashes, the objects and the
\* branch behave as git's object store and a ref do.
ObjectStore == INSTANCE CommitHistory WITH objects <- commits
ImplementsCommitHistory == ObjectStore!Spec

\* While a thread is rewriting the ref the head is the commit it is writing.
HeadCommit == IF \E t \in Threads : pc[t] \in UpdatingRef
          THEN job[CHOOSE t \in Threads : pc[t] \in UpdatingRef].id
          ELSE ref
Linear == INSTANCE LinearHistory WITH objects <- commits, head <- HeadCommit

\* One thread at a time: every commit extends the line of the head.
ImplementsLinearHistory == Linear!Spec

\* Every call returns: nobody keeps the mutex, waits for it forever or stays in
\* the tree builder (git.rs:609-684, 1489-1567).
CallsReturn == \A t \in Threads : pc[t] # Idle ~> pc[t] = Idle
=============================================================================
